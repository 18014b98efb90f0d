------------------------------ MODULE ScuIoProofs ------------------------------
(***************************************************************************)
(* Proofs about ScuIo and the strings of ScuString, for files, texts,      *)
(* chunks and buffers of every size: the pieces that reads hand out add    *)
(* up, answers are right, buffers are sound, what is appended to a string  *)
(* is behind it, and searches and comparisons agree with one another.      *)
(***************************************************************************)
EXTENDS ScuIo, SequenceTheorems, WellFoundedInduction, TLAPS

--------------------------------------------------------------------------------
(* Parts of sequences *)

\* A piece from the front, and what is behind it.
LEMMA TakeIs ==
    ASSUME NEW S, NEW s \in Seq(S), NEW n \in 0..Len(s)
    PROVE  /\ Take(s, n) \in Seq(S) /\ Len(Take(s, n)) = n
           /\ \A j \in 1..n : Take(s, n)[j] = s[j]
<1>1. \A j \in 1..n : s[j] \in S
    BY ElementOfSeq, LenProperties
<1>2. n \in Int /\ 1 \in Int
    BY LenProperties
<1> QED BY <1>1, <1>2, SubSeqProperties DEF Take

LEMMA FromIs ==
    ASSUME NEW S, NEW s \in Seq(S), NEW n \in 0..Len(s)
    PROVE  /\ From(s, n) \in Seq(S) /\ Len(From(s, n)) = Len(s) - n
           /\ \A j \in 1..(Len(s) - n) : From(s, n)[j] = s[n + j]
<1>1. \A j \in (n + 1)..Len(s) : s[j] \in S
    BY ElementOfSeq, LenProperties
<1>2. n + 1 \in Int /\ Len(s) \in Nat /\ n \in Int
    BY LenProperties
<1>3. /\ SubSeq(s, n + 1, Len(s)) \in Seq(S)
      /\ Len(SubSeq(s, n + 1, Len(s))) = IF n + 1 <= Len(s) THEN Len(s) - (n + 1) + 1 ELSE 0
      /\ \A i \in 1..(Len(s) - (n + 1) + 1) : SubSeq(s, n + 1, Len(s))[i] = s[(n + 1) + i - 1]
    BY <1>1, <1>2, SubSeqProperties
<1> QED BY <1>2, <1>3 DEF From

LEMMA ConcatIs ==
    ASSUME NEW S, NEW s \in Seq(S), NEW t \in Seq(S)
    PROVE  /\ s \o t \in Seq(S) /\ Len(s \o t) = Len(s) + Len(t)
           /\ \A j \in 1..Len(s) : (s \o t)[j] = s[j]
           /\ \A j \in 1..Len(t) : (s \o t)[Len(s) + j] = t[j]
           /\ \A j \in 1..(Len(s) + Len(t)) : j > Len(s) => (s \o t)[j] = t[j - Len(s)]
<1>1. Len(s) \in Nat /\ Len(t) \in Nat
    BY LenProperties
<1> QED BY <1>1, ConcatProperties

LEMMA TakeFrom ==
    ASSUME NEW S, NEW s \in Seq(S), NEW n \in 0..Len(s)
    PROVE  Take(s, n) \o From(s, n) = s
<1> DEFINE a == Take(s, n)
           b == From(s, n)
<1>0. Len(s) \in Nat
    BY LenProperties
<1>1. a \in Seq(S) /\ Len(a) = n /\ \A j \in 1..n : a[j] = s[j]
    BY TakeIs
<1>2. b \in Seq(S) /\ Len(b) = Len(s) - n /\ \A j \in 1..(Len(s) - n) : b[j] = s[n + j]
    BY FromIs
<1> HIDE DEF a, b
<1>3. /\ a \o b \in Seq(S) /\ Len(a \o b) = Len(a) + Len(b)
      /\ \A j \in 1..Len(a) : (a \o b)[j] = a[j]
      /\ \A j \in 1..(Len(a) + Len(b)) : j > Len(a) => (a \o b)[j] = b[j - Len(a)]
    BY <1>1, <1>2, ConcatIs
<1>4. Len(a \o b) = Len(s)
    BY <1>0, <1>1, <1>2, <1>3
<1>5. \A j \in 1..Len(s) : (a \o b)[j] = s[j]
    <2> SUFFICES ASSUME NEW j \in 1..Len(s) PROVE (a \o b)[j] = s[j]
        OBVIOUS
    <2>1. CASE j <= n
        BY <1>0, <1>1, <1>3, <2>1
    <2>2. CASE j > n
        <3>1. j - n \in 1..(Len(s) - n) /\ n + (j - n) = j
            BY <1>0, <2>2
        <3>2. b[j - n] = s[n + (j - n)]
            BY <1>2, <3>1
        <3>3. (a \o b)[j] = b[j - Len(a)]
            BY <1>0, <1>1, <1>2, <1>3, <2>2
        <3> QED BY <1>1, <3>1, <3>2, <3>3
    <2>3. j <= n \/ j > n
        BY <1>0
    <2> QED BY <2>1, <2>2, <2>3, Zenon
<1>6. a \o b = s
    BY <1>3, <1>4, <1>5, SeqEqual
<1> QED BY <1>6 DEF a, b

\* The whole, and nothing, of a sequence.
LEMMA TakeEnds ==
    ASSUME NEW S, NEW s \in Seq(S)
    PROVE  Take(s, 0) = <<>> /\ Take(s, Len(s)) = s /\ From(s, 0) = s /\ From(s, Len(s)) = <<>>
<1>1. Len(s) \in Nat
    BY LenProperties
<1>2. Take(s, 0) = <<>> /\ From(s, Len(s)) = <<>>
    BY <1>1, SubSeqEmpty DEF Take, From
<1>3. Take(s, Len(s)) = s /\ From(s, 0) = s
    BY <1>1, SubSeqFull DEF Take, From
<1> QED BY <1>2, <1>3

\* A sequence is what it was in front of n, and what was behind it.
LEMMA Splits ==
    ASSUME NEW S, NEW s \in Seq(S), NEW t \in Seq(S)
    PROVE  Take(s \o t, Len(s)) = s /\ From(s \o t, Len(s)) = t
<1>0. Len(s) \in Nat /\ Len(t) \in Nat
    BY LenProperties
<1>1. /\ s \o t \in Seq(S) /\ Len(s \o t) = Len(s) + Len(t)
      /\ \A j \in 1..Len(s) : (s \o t)[j] = s[j]
      /\ \A j \in 1..Len(t) : (s \o t)[Len(s) + j] = t[j]
    BY ConcatIs
<1>2. Len(s) \in 0..Len(s \o t) /\ Len(s \o t) - Len(s) = Len(t)
    BY <1>0, <1>1
<1> DEFINE a == Take(s \o t, Len(s))
           b == From(s \o t, Len(s))
<1>3. a = s
    <2>1. /\ a \in Seq(S) /\ Len(a) = Len(s) /\ \A j \in 1..Len(s) : a[j] = (s \o t)[j]
        BY <1>1, <1>2, TakeIs
    <2> HIDE DEF a
    <2>2. Len(a) = Len(s) /\ \A j \in 1..Len(a) : a[j] = s[j]
        BY <1>1, <2>1
    <2> QED BY <2>1, <2>2, SeqEqual
<1>4. b = t
    <2>1. /\ b \in Seq(S) /\ Len(b) = Len(t) /\ \A j \in 1..Len(t) : b[j] = (s \o t)[Len(s) + j]
        <3> DEFINE u == s \o t
                   n == Len(s)
        <3>1. u \in Seq(S) /\ n \in 0..Len(u) /\ Len(u) - n = Len(t)
            BY <1>1, <1>2
        <3> HIDE DEF u, n
        <3>2. /\ From(u, n) \in Seq(S) /\ Len(From(u, n)) = Len(u) - n
              /\ \A j \in 1..(Len(u) - n) : From(u, n)[j] = u[n + j]
            BY <3>1, FromIs
        <3>3. /\ From(u, n) \in Seq(S) /\ Len(From(u, n)) = Len(t)
              /\ \A j \in 1..Len(t) : From(u, n)[j] = u[n + j]
            BY <3>1, <3>2
        <3> QED BY <3>3 DEF u, n
    <2> HIDE DEF b
    <2>2. Len(b) = Len(t) /\ \A j \in 1..Len(b) : b[j] = t[j]
        BY <1>1, <2>1
    <2> QED BY <2>1, <2>2, SeqEqual
<1> QED BY <1>3, <1>4

LEMMA EmptyIs ==
    ASSUME NEW S, NEW s \in Seq(S)
    PROVE  (Len(s) = 0 <=> s = <<>>) /\ <<>> \in Seq(S) /\ Len(<<>>) = 0
           /\ s \o <<>> = s /\ <<>> \o s = s
BY EmptySeq, ConcatEmptySeq, LenProperties

\* A byte that a sequence does not have, neither its parts nor what it is built from have.
LEMMA Lacks ==
    ASSUME NEW S, NEW s \in Seq(S), NEW c
    PROVE  c \notin Range(s) <=> \A j \in 1..Len(s) : s[j] # c
<1>1. DOMAIN s = 1..Len(s)
    BY LenProperties
<1> QED BY <1>1 DEF Range

LEMMA LacksPart ==
    ASSUME NEW S, NEW s \in Seq(S), NEW c, c \notin Range(s), NEW n \in 0..Len(s)
    PROVE  c \notin Range(Take(s, n)) /\ c \notin Range(From(s, n))
<1>0. Len(s) \in Nat /\ \A j \in 1..Len(s) : s[j] # c
    BY LenProperties, Lacks
<1>1. /\ Take(s, n) \in Seq(S) /\ Len(Take(s, n)) = n
      /\ \A j \in 1..n : Take(s, n)[j] = s[j]
    BY TakeIs
<1>2. /\ From(s, n) \in Seq(S) /\ Len(From(s, n)) = Len(s) - n
      /\ \A j \in 1..(Len(s) - n) : From(s, n)[j] = s[n + j]
    BY FromIs
<1>3. \A j \in 1..Len(Take(s, n)) : Take(s, n)[j] # c
    BY <1>0, <1>1
<1>4. \A j \in 1..Len(From(s, n)) : From(s, n)[j] # c
    <2>1. \A j \in 1..(Len(s) - n) : n + j \in 1..Len(s)
        BY <1>0
    <2> QED BY <1>0, <1>2, <2>1
<1>5. c \notin Range(Take(s, n))
    BY <1>1, <1>3, Lacks
<1>6. c \notin Range(From(s, n))
    BY <1>2, <1>4, Lacks
<1> QED BY <1>5, <1>6

LEMMA LacksConcat ==
    ASSUME NEW S, NEW s \in Seq(S), NEW t \in Seq(S), NEW c
    PROVE  c \notin Range(s \o t) <=> c \notin Range(s) /\ c \notin Range(t)
<1> DEFINE u == s \o t
<1>0. Len(s) \in Nat /\ Len(t) \in Nat
    BY LenProperties
<1>1. /\ u \in Seq(S) /\ Len(u) = Len(s) + Len(t)
      /\ \A j \in 1..Len(s) : u[j] = s[j]
      /\ \A j \in 1..Len(t) : u[Len(s) + j] = t[j]
      /\ \A j \in 1..(Len(s) + Len(t)) : j > Len(s) => u[j] = t[j - Len(s)]
    BY ConcatIs
<1> HIDE DEF u
<1>2. /\ c \notin Range(s) <=> \A j \in 1..Len(s) : s[j] # c
      /\ c \notin Range(t) <=> \A j \in 1..Len(t) : t[j] # c
      /\ c \notin Range(u) <=> \A j \in 1..Len(u) : u[j] # c
    BY <1>1, Lacks
<1>3. ASSUME \A j \in 1..Len(u) : u[j] # c
      PROVE  (\A j \in 1..Len(s) : s[j] # c) /\ (\A j \in 1..Len(t) : t[j] # c)
    <2>1. \A j \in 1..Len(s) : j \in 1..Len(u)
        BY <1>0, <1>1
    <2>2. \A j \in 1..Len(t) : Len(s) + j \in 1..Len(u)
        BY <1>0, <1>1
    <2> QED BY <1>1, <1>3, <2>1, <2>2
<1>4. ASSUME \A j \in 1..Len(s) : s[j] # c, \A j \in 1..Len(t) : t[j] # c
      PROVE  \A j \in 1..Len(u) : u[j] # c
    <2> SUFFICES ASSUME NEW j \in 1..Len(u) PROVE u[j] # c
        OBVIOUS
    <2>1. CASE j <= Len(s)
        BY <1>0, <1>1, <1>4, <2>1
    <2>2. CASE j > Len(s)
        BY <1>0, <1>1, <1>4, <2>2
    <2> QED BY <1>0, <1>1, <2>1, <2>2
<1>5. c \notin Range(u) <=> c \notin Range(s) /\ c \notin Range(t)
    BY <1>2, <1>3, <1>4
<1> QED BY <1>5 DEF u

--------------------------------------------------------------------------------
(* Least and greatest members *)

\* A set of natural numbers that is not empty has a least member.
LEMMA LeastMember ==
    ASSUME NEW S \in SUBSET Nat, S # {}
    PROVE  \E x \in S : \A y \in S : x <= y
<1>1. \E x \in S : \A y \in S : ~(<<y, x>> \in OpToRel(<, Nat))
    <2>1. S \subseteq Nat
        OBVIOUS
    <2> HIDE DEF OpToRel
    <2> QED BY <2>1, NatLessThanWellFounded, WFMin, Zenon
<1>2. \A x, y \in Nat : y < x => <<y, x>> \in OpToRel(<, Nat)
    BY DEF OpToRel
<1>3. PICK x \in S : \A y \in S : ~(<<y, x>> \in OpToRel(<, Nat))
    BY <1>1, Zenon
<1>4. \A y \in S : ~(y < x)
    BY <1>2, <1>3, Zenon
<1>5. QED BY <1>4

LEMMA FirstIs ==
    ASSUME NEW S \in SUBSET Nat
    PROVE  /\ S = {} => FirstOf(S) = -1
           /\ S # {} => FirstOf(S) \in S /\ \A x \in S : FirstOf(S) <= x
<1>1. ASSUME S # {} PROVE Min(S) \in S /\ \A x \in S : Min(S) <= x
    <2>1. \E x \in S : \A y \in S : x <= y
        BY <1>1, LeastMember
    <2> QED BY <2>1 DEF Min
<1> QED BY <1>1 DEF FirstOf

LEMMA LastIs ==
    ASSUME NEW n \in Int, NEW S \in SUBSET (0..n)
    PROVE  /\ S = {} => LastOf(S) = -1
           /\ S # {} => LastOf(S) \in S /\ \A x \in S : x <= LastOf(S)
<1>1. ASSUME S # {} PROVE \E x \in S : \A y \in S : x >= y
    <2> DEFINE D == {k \in Nat : \E x \in S : k = n - x}
    <2>1. D # {}
        <3>1. PICK x \in S : TRUE
            BY <1>1
        <3>2. n - x \in D
            OBVIOUS
        <3> QED BY <3>2
    <2>2. PICK k \in D : \A l \in D : k <= l
        BY <2>1, LeastMember, Zenon
    <2>3. PICK x \in S : k = n - x
        BY <2>2
    <2>4. ASSUME NEW y \in S PROVE x >= y
        <3>1. n - y \in D
            OBVIOUS
        <3>2. n - x <= n - y
            BY <2>2, <2>3, <3>1
        <3> QED BY <3>2
    <2> QED BY <2>4
<1>2. ASSUME S # {} PROVE Max(S) \in S /\ \A x \in S : Max(S) >= x
    BY <1>1, <1>2 DEF Max
<1>3. \A x \in S : x \in Int
    OBVIOUS
<1> QED BY <1>2, <1>3 DEF LastOf

\* The search for the first is what it is by any other description.
LEMMA FirstIsThat ==
    ASSUME NEW S \in SUBSET Nat, NEW n \in S, \A x \in S : n <= x
    PROVE  FirstOf(S) = n
<1>1. FirstOf(S) \in S /\ FirstOf(S) <= n /\ n <= FirstOf(S)
    BY FirstIs
<1>2. FirstOf(S) \in Nat /\ n \in Nat
    BY <1>1
<1> QED BY <1>1, <1>2

LEMMA LastIsThat ==
    ASSUME NEW m \in Int, NEW S \in SUBSET (0..m), NEW n \in S, \A x \in S : x <= n
    PROVE  LastOf(S) = n
<1>1. LastOf(S) \in S /\ LastOf(S) <= n /\ n <= LastOf(S)
    BY LastIs
<1>2. \A x \in S : x \in Int
    OBVIOUS
<1>3. LastOf(S) \in Int /\ n \in Int
    BY <1>1, <1>2
<1> QED BY <1>1, <1>3

LEMMA MinIs ==
    ASSUME NEW a \in Int, NEW b \in Int
    PROVE  Min({a, b}) = IF a <= b THEN a ELSE b
<1>1. \E x \in {a, b} : \A y \in {a, b} : x <= y
    OBVIOUS
<1>2. Min({a, b}) \in {a, b} /\ \A y \in {a, b} : Min({a, b}) <= y
    BY <1>1 DEF Min
<1> QED BY <1>2

--------------------------------------------------------------------------------
(* Strings *)

LEMMA TerminatedIs ==
    ASSUME NEW S, Nul \in S, NEW b \in Seq(S)
    PROVE  /\ Terminated(b) \in Seq(S) /\ Len(Terminated(b)) = Len(b) + 1
           /\ \A j \in 1..Len(b) : Terminated(b)[j] = b[j]
           /\ Terminated(b)[Len(b) + 1] = Nul
           /\ Nul \in Range(Terminated(b))
           /\ Len(b) \in Nat
<1> DEFINE T == Terminated(b)
<1>0. <<Nul>> \in Seq(S) /\ Len(<<Nul>>) = 1 /\ <<Nul>>[1] = Nul /\ Len(b) \in Nat
    BY LenProperties
<1>1. /\ T \in Seq(S) /\ Len(T) = Len(b) + 1
      /\ \A j \in 1..Len(b) : T[j] = b[j]
      /\ \A j \in 1..1 : T[Len(b) + j] = <<Nul>>[j]
    BY <1>0, ConcatIs DEF Terminated
<1>2. T[Len(b) + 1] = Nul
    BY <1>0, <1>1
<1> HIDE DEF T
<1>3. Nul \in Range(T)
    <2>1. Len(b) + 1 \in 1..Len(T)
        BY <1>0, <1>1
    <2> QED BY <1>1, <1>2, <2>1, Lacks
<1> QED BY <1>0, <1>1, <1>2, <1>3 DEF T

LEMMA StrlenIs ==
    ASSUME NEW S, NEW s \in Seq(S), Nul \in Range(s)
    PROVE  /\ scu_strlen(s) \in Nat /\ scu_strlen(s) < Len(s) /\ s[scu_strlen(s) + 1] = Nul
           /\ \A j \in 1..scu_strlen(s) : s[j] # Nul
<1> DEFINE E == {i \in Within(s, Len(s)) : At(s, i) = Nul}
           n == FirstOf(E)
<1>0. Len(s) \in Nat
    BY LenProperties
<1>1. PICK j \in 1..Len(s) : s[j] = Nul
    BY Lacks
<1>2. \A i : i \in E <=> i \in Nat /\ i < Len(s) /\ s[i + 1] = Nul
    BY <1>0 DEF Within, At
<1>3. j - 1 \in E
    BY <1>0, <1>1, <1>2
<1>4. E \in SUBSET Nat /\ E # {}
    BY <1>2, <1>3
<1> HIDE DEF E
<1>5. n \in E /\ \A x \in E : n <= x
    BY <1>4, FirstIs
<1>6. n \in Nat /\ n < Len(s) /\ s[n + 1] = Nul
    BY <1>2, <1>5
<1>7. ASSUME NEW k \in 1..n, s[k] = Nul PROVE FALSE
    <2>1. k - 1 \in E
        <3>1. k - 1 \in Nat /\ k - 1 < Len(s) /\ (k - 1) + 1 = k
            BY <1>0, <1>6
        <3> QED BY <1>2, <1>7, <3>1
    <2> QED BY <1>5, <1>6, <2>1
<1>8. scu_strlen(s) = n
    BY DEF scu_strlen, E
<1> QED BY <1>6, <1>7, <1>8

\* There is only one such number.
LEMMA StrlenIsThat ==
    ASSUME NEW S, NEW s \in Seq(S), NEW n \in Nat, n < Len(s), s[n + 1] = Nul,
           \A j \in 1..n : s[j] # Nul
    PROVE  scu_strlen(s) = n
<1>0. Len(s) \in Nat
    BY LenProperties
<1>1. Nul \in Range(s)
    <2>1. n + 1 \in 1..Len(s)
        BY <1>0
    <2> QED BY <2>1, Lacks
<1>2. /\ scu_strlen(s) \in Nat /\ s[scu_strlen(s) + 1] = Nul
      /\ \A j \in 1..scu_strlen(s) : s[j] # Nul
    BY <1>1, StrlenIs
<1>3. ~(n < scu_strlen(s)) /\ ~(scu_strlen(s) < n)
    <2>1. ASSUME n < scu_strlen(s) PROVE FALSE
        <3>1. n + 1 \in 1..scu_strlen(s)
            BY <1>2, <2>1
        <3> QED BY <1>2, <3>1
    <2>2. ASSUME scu_strlen(s) < n PROVE FALSE
        <3>1. scu_strlen(s) + 1 \in 1..n
            BY <1>2, <2>2
        <3> QED BY <1>2, <3>1
    <2> QED BY <2>1, <2>2
<1> QED BY <1>2, <1>3

\* The length of the string that begins with the bytes b: up to a NUL in them, or all of them.
LEMMA StrlenTerminated ==
    ASSUME NEW S, Nul \in S, NEW b \in Seq(S)
    PROVE  LET n == scu_strlen(Terminated(b))
           IN  /\ n \in 0..Len(b) /\ \A j \in 1..n : b[j] # Nul
               /\ n < Len(b) => b[n + 1] = Nul
               /\ Nul \notin Range(b) => n = Len(b)
<1> DEFINE T == Terminated(b)
           n == scu_strlen(T)
<1>1. /\ T \in Seq(S) /\ Len(T) = Len(b) + 1
      /\ \A j \in 1..Len(b) : T[j] = b[j]
      /\ Nul \in Range(T)
      /\ Len(b) \in Nat
    BY TerminatedIs
<1> HIDE DEF T
<1>2. n \in Nat /\ n < Len(T) /\ T[n + 1] = Nul /\ \A j \in 1..n : T[j] # Nul
    BY <1>1, StrlenIs
<1> HIDE DEF n
<1>3. n \in 0..Len(b) /\ \A j \in 1..n : b[j] # Nul
    BY <1>1, <1>2
<1>4. n < Len(b) => b[n + 1] = Nul
    BY <1>1, <1>2
<1>5. Nul \notin Range(b) => n = Len(b)
    <2>1. Nul \notin Range(b) => \A j \in 1..Len(b) : b[j] # Nul
        BY Lacks
    <2>2. ASSUME n < Len(b) PROVE n + 1 \in 1..Len(b)
        BY <1>1, <1>2, <2>2
    <2> QED BY <1>1, <1>3, <1>4, <2>1, <2>2
<1> QED BY <1>3, <1>4, <1>5 DEF n, T

\* The string in a block has no NUL.
LEMMA StringInIs ==
    ASSUME NEW S, NEW t \in Seq(S)
    PROVE  /\ StringIn(t) \in Seq(S) /\ Nul \notin Range(StringIn(t))
           /\ Len(StringIn(t)) \in Nat /\ Len(t) \in Nat /\ Len(StringIn(t)) <= Len(t)
           /\ Nul \in Range(t) => Len(StringIn(t)) = scu_strlen(t) /\ Len(StringIn(t)) < Len(t)
           /\ StringIn(t) = Take(t, Len(StringIn(t)))
<1>0. Len(t) \in Nat
    BY LenProperties
<1>1. CASE Nul \in Range(t)
    <2> DEFINE n == scu_strlen(t)
    <2>1. n \in 0..Len(t) /\ n < Len(t) /\ \A j \in 1..n : t[j] # Nul
        BY <1>0, <1>1, StrlenIs
    <2>2. StringIn(t) = Take(t, n)
        BY <1>1 DEF StringIn
    <2> HIDE DEF n
    <2>3. /\ Take(t, n) \in Seq(S) /\ Len(Take(t, n)) = n
          /\ \A j \in 1..n : Take(t, n)[j] = t[j]
        BY <2>1, TakeIs
    <2>4. Nul \notin Range(Take(t, n))
        BY <2>1, <2>3, Lacks
    <2> QED BY <1>0, <1>1, <2>1, <2>2, <2>3, <2>4 DEF n
<1>2. CASE Nul \notin Range(t)
    <2>1. StringIn(t) = t /\ t = Take(t, Len(t))
        BY <1>2, TakeEnds DEF StringIn
    <2> QED BY <1>0, <1>2, <2>1
<1> QED BY <1>1, <1>2

\* What StringIn finds in a terminated block.
LEMMA StringInTerminated ==
    ASSUME NEW S, Nul \in S, NEW b \in Seq(S)
    PROVE  LET n == scu_strlen(Terminated(b))
           IN  StringIn(Terminated(b)) = Take(b, n)
<1> DEFINE T == Terminated(b)
           n == scu_strlen(T)
<1>1. /\ T \in Seq(S) /\ Len(T) = Len(b) + 1
      /\ \A j \in 1..Len(b) : T[j] = b[j]
      /\ Nul \in Range(T)
      /\ Len(b) \in Nat
    BY TerminatedIs
<1>2. n \in 0..Len(b)
    BY StrlenTerminated
<1>3. StringIn(T) = Take(T, n)
    BY <1>1 DEF StringIn
<1> HIDE DEF T, n
<1>4. n \in 0..Len(T)
    BY <1>1, <1>2
<1>5. /\ Take(T, n) \in Seq(S) /\ Len(Take(T, n)) = n
      /\ \A j \in 1..n : Take(T, n)[j] = T[j]
    BY <1>1, <1>4, TakeIs
<1>6. /\ Take(b, n) \in Seq(S) /\ Len(Take(b, n)) = n
      /\ \A j \in 1..n : Take(b, n)[j] = b[j]
    BY <1>2, TakeIs
<1>7. \A j \in 1..n : Take(T, n)[j] = Take(b, n)[j]
    BY <1>1, <1>2, <1>5, <1>6
<1>8. Take(T, n) = Take(b, n)
    BY <1>5, <1>6, <1>7, SeqEqual
<1> QED BY <1>3, <1>8 DEF n, T

LEMMA StringInString ==
    ASSUME NEW S, Nul \in S, NEW b \in Seq(S), Nul \notin Range(b)
    PROVE  StringIn(Terminated(b)) = b /\ scu_strlen(Terminated(b)) = Len(b)
BY StringInTerminated, StrlenTerminated, TakeEnds

--------------------------------------------------------------------------------
(* More on parts of sequences *)

LEMMA FromConcat ==
    ASSUME NEW S, NEW s \in Seq(S), NEW t \in Seq(S), NEW n \in 0..(Len(s) + Len(t))
    PROVE  /\ n <= Len(s) => From(s \o t, n) = From(s, n) \o t
           /\ n > Len(s) => From(s \o t, n) = From(t, n - Len(s))
<1> DEFINE u == s \o t
<1>0. Len(s) \in Nat /\ Len(t) \in Nat /\ n \in Nat
    BY LenProperties
<1>1. /\ u \in Seq(S) /\ Len(u) = Len(s) + Len(t)
      /\ \A j \in 1..Len(s) : u[j] = s[j]
      /\ \A j \in 1..(Len(s) + Len(t)) : j > Len(s) => u[j] = t[j - Len(s)]
    BY ConcatIs
<1> HIDE DEF u
<1>2. /\ From(u, n) \in Seq(S) /\ Len(From(u, n)) = Len(s) + Len(t) - n
      /\ \A j \in 1..(Len(s) + Len(t) - n) : From(u, n)[j] = u[n + j]
    <2>1. u \in Seq(S) /\ n \in 0..Len(u)
        BY <1>0, <1>1
    <2>2. /\ From(u, n) \in Seq(S) /\ Len(From(u, n)) = Len(u) - n
          /\ \A j \in 1..(Len(u) - n) : From(u, n)[j] = u[n + j]
        BY <2>1, FromIs
    <2> QED BY <1>1, <2>2
<1>3. ASSUME n <= Len(s) PROVE From(u, n) = From(s, n) \o t
    <2> DEFINE a == From(s, n)
    <2>1. /\ a \in Seq(S) /\ Len(a) = Len(s) - n
          /\ \A j \in 1..(Len(s) - n) : a[j] = s[n + j]
        BY <1>0, <1>3, FromIs
    <2> HIDE DEF a
    <2>2. /\ a \o t \in Seq(S) /\ Len(a \o t) = Len(a) + Len(t)
          /\ \A j \in 1..Len(a) : (a \o t)[j] = a[j]
          /\ \A j \in 1..(Len(a) + Len(t)) : j > Len(a) => (a \o t)[j] = t[j - Len(a)]
        BY <2>1, ConcatIs, ZenonT(30)
    <2>3. Len(a \o t) = Len(From(u, n))
        BY <1>0, <1>2, <2>1, <2>2
    <2>4. ASSUME NEW j \in 1..Len(From(u, n)) PROVE From(u, n)[j] = (a \o t)[j]
        <3>0. j \in Nat /\ 1 <= j /\ j <= Len(s) + Len(t) - n /\ From(u, n)[j] = u[n + j]
            BY <1>0, <1>2, <2>4
        <3>1. CASE j <= Len(s) - n
            <4>1. j \in 1..(Len(s) - n) /\ n + j \in 1..Len(s)
                BY <1>0, <3>0, <3>1
            <4>2. u[n + j] = s[n + j] /\ (a \o t)[j] = a[j] /\ a[j] = s[n + j]
                BY <1>1, <2>1, <2>2, <4>1
            <4> QED BY <3>0, <4>2
        <3>2. CASE j > Len(s) - n
            <4>1. n + j \in 1..(Len(s) + Len(t)) /\ n + j > Len(s)
                BY <1>0, <3>0, <3>2
            <4>2. j \in 1..(Len(a) + Len(t)) /\ j > Len(a)
                BY <1>0, <2>1, <3>0, <3>2
            <4>3. u[n + j] = t[(n + j) - Len(s)] /\ (a \o t)[j] = t[j - Len(a)]
                BY <1>1, <2>2, <4>1, <4>2
            <4>4. (n + j) - Len(s) = j - Len(a)
                BY <1>0, <2>1, <3>0
            <4> QED BY <3>0, <4>3, <4>4
        <3>3. j <= Len(s) - n \/ j > Len(s) - n
            BY <1>0, <3>0
        <3> QED BY <3>1, <3>2, <3>3, Zenon
    <2>5. From(u, n) = a \o t
        BY <1>2, <2>2, <2>3, <2>4, SeqEqual
    <2> QED BY <2>5 DEF a
<1>4. ASSUME n > Len(s) PROVE From(u, n) = From(t, n - Len(s))
    <2> DEFINE k == n - Len(s)
    <2>0. k \in 0..Len(t) /\ Len(t) - k = Len(s) + Len(t) - n
        BY <1>0, <1>4
    <2>1. /\ From(t, k) \in Seq(S) /\ Len(From(t, k)) = Len(t) - k
          /\ \A j \in 1..(Len(t) - k) : From(t, k)[j] = t[k + j]
        BY <2>0, FromIs
    <2>2. ASSUME NEW j \in 1..Len(From(u, n)) PROVE From(u, n)[j] = From(t, k)[j]
        <3>1. n + j \in 1..(Len(s) + Len(t)) /\ n + j > Len(s) /\ (n + j) - Len(s) = k + j
            BY <1>0, <1>2, <1>4, <2>2
        <3>2. u[n + j] = t[k + j]
            BY <1>1, <3>1
        <3>3. From(u, n)[j] = u[n + j]
            BY <1>2, <2>2
        <3>4. From(t, k)[j] = t[k + j]
            BY <1>2, <2>0, <2>1, <2>2
        <3> QED BY <3>2, <3>3, <3>4
    <2> QED BY <1>2, <2>0, <2>1, <2>2, SeqEqual
<1> QED BY <1>3, <1>4 DEF u

LEMMA FromFrom ==
    ASSUME NEW S, NEW s \in Seq(S), NEW n \in 0..Len(s), NEW k \in 0..(Len(s) - n)
    PROVE  From(From(s, n), k) = From(s, n + k)
<1> DEFINE a == From(s, n)
<1>0. Len(s) \in Nat /\ n + k \in 0..Len(s)
    BY LenProperties
<1>1. /\ a \in Seq(S) /\ Len(a) = Len(s) - n
      /\ \A j \in 1..(Len(s) - n) : a[j] = s[n + j]
      /\ k \in 0..Len(a)
    BY FromIs
<1> HIDE DEF a
<1>2. /\ From(a, k) \in Seq(S) /\ Len(From(a, k)) = Len(a) - k
      /\ \A j \in 1..(Len(a) - k) : From(a, k)[j] = a[k + j]
    BY <1>1, FromIs, ZenonT(30)
<1>3. /\ From(s, n + k) \in Seq(S) /\ Len(From(s, n + k)) = Len(s) - (n + k)
      /\ \A j \in 1..(Len(s) - (n + k)) : From(s, n + k)[j] = s[(n + k) + j]
    BY <1>0, FromIs
<1>4. ASSUME NEW j \in 1..Len(From(a, k)) PROVE From(a, k)[j] = From(s, n + k)[j]
    <2>1. k + j \in 1..(Len(s) - n) /\ n + (k + j) = (n + k) + j /\ j \in 1..(Len(s) - (n + k))
        BY <1>0, <1>1, <1>2
    <2>2. From(a, k)[j] = a[k + j] /\ a[k + j] = s[n + (k + j)]
        BY <1>1, <1>2, <2>1
    <2>3. From(s, n + k)[j] = s[(n + k) + j]
        BY <1>3, <2>1
    <2> QED BY <2>1, <2>2, <2>3
<1>5. Len(From(a, k)) = Len(From(s, n + k))
    <2>1. Len(From(a, k)) = (Len(s) - n) - k /\ Len(From(s, n + k)) = Len(s) - (n + k)
        BY <1>1, <1>2, <1>3
    <2>2. n \in Int /\ k \in Int /\ Len(s) \in Int
        BY <1>0
    <2>3. (Len(s) - n) - k = Len(s) - (n + k)
        BY <2>2
    <2> QED BY <2>1, <2>3
<1>6. From(a, k) = From(s, n + k)
    BY <1>2, <1>3, <1>4, <1>5, SeqEqual
<1> QED BY <1>6 DEF a

\* A sequence of which every member is in T.
LEMMA Retyped ==
    ASSUME NEW S, NEW s \in Seq(S), NEW T, \A j \in 1..Len(s) : s[j] \in T
    PROVE  s \in Seq(T)
<1>1. Len(s) \in Nat /\ s \in [1..Len(s) -> S]
    BY LenProperties
<1>2. s \in [1..Len(s) -> T]
    BY <1>1
<1>3. s \in UNION {[1..n -> T] : n \in Nat}
    BY <1>1, <1>2
<1> QED BY <1>3, SeqDef

--------------------------------------------------------------------------------
(* Bytes *)

LEMMA BytesAre ==
    /\ Bytes \subseteq Nat /\ Nul \in Bytes /\ Newline \in Bytes /\ Newline # Nul
    /\ \A t \in Texts : t \in Seq(Bytes) /\ Nul \notin Range(t)
    /\ \A t \in Contents : t \in Seq(Bytes)
    /\ \A c \in UNION {Range(t) : t \in Texts} : c \in Bytes \ {Nul}
<1>1. ASSUME NEW t \in Texts PROVE t \in Seq(Nat \ {Nul}) /\ t \in Seq(Nat)
    <2>1. t \in Seq(Nat \ {Nul})
        BY TextsAssumption
    <2> QED BY <2>1, SeqMonotonic
<1>2. \A t \in Contents : t \in Seq(Nat)
    BY ContentsAssumption
<1>3. ASSUME NEW t \in Seq(Nat) PROVE Range(t) \subseteq Nat /\ \A j \in 1..Len(t) : t[j] \in Range(t)
    <2>1. DOMAIN t = 1..Len(t) /\ \A j \in 1..Len(t) : t[j] \in Nat
        BY LenProperties, ElementOfSeq
    <2> QED BY <2>1 DEF Range
<1>4. Bytes \subseteq Nat /\ Nul \in Bytes /\ Newline \in Bytes /\ Newline # Nul
    <2>1. \A t \in Texts \cup Contents : Range(t) \subseteq Nat
        BY <1>1, <1>2, <1>3
    <2>2. UNION {Range(t) : t \in Texts \cup Contents} \subseteq Nat
        BY <2>1
    <2>3. {Nul, Newline} \subseteq Nat /\ Newline # Nul
        BY NewlineAssumption DEF Nul
    <2> QED BY <2>2, <2>3 DEF Bytes
<1>5. \A t \in Texts \cup Contents : Range(t) \subseteq Bytes
    BY DEF Bytes
<1>6. ASSUME NEW t \in Texts \cup Contents PROVE t \in Seq(Bytes)
    <2>1. t \in Seq(Nat)
        BY <1>1, <1>2
    <2>2. \A j \in 1..Len(t) : t[j] \in Bytes
        BY <1>3, <1>5, <2>1
    <2> QED BY <2>1, <2>2, Retyped
<1>7. ASSUME NEW t \in Texts PROVE Nul \notin Range(t)
    <2>1. \A j \in 1..Len(t) : t[j] # Nul
        BY <1>1, ElementOfSeq
    <2> QED BY <1>1, <2>1, Lacks
<1>8. \A c \in UNION {Range(t) : t \in Texts} : c \in Bytes \ {Nul}
    BY <1>5, <1>7
<1> QED BY <1>4, <1>6, <1>7, <1>8

LEMMA RangeInBytes ==
    ASSUME NEW s \in Seq(Bytes)
    PROVE  Range(s) \subseteq Bytes
<1>1. DOMAIN s = 1..Len(s) /\ \A j \in 1..Len(s) : s[j] \in Bytes
    BY LenProperties, ElementOfSeq
<1> QED BY <1>1 DEF Range

\* The string with the bytes b, in the alphabet of this system.
LEMMA TextIs ==
    ASSUME NEW b \in Seq(Bytes)
    PROVE  Terminated(b) \in Seq(Bytes) /\ Len(Terminated(b)) = Len(b) + 1 /\ Nul \in Range(Terminated(b))
           /\ Len(b) \in Nat
BY TerminatedIs, BytesAre

--------------------------------------------------------------------------------
(* Streams *)

\* A stream at some place in its file, with at most one byte pushed back; no NUL is, because
\* a client pushes back what its texts hold.
StreamOK(s) ==
    /\ s \in [content : Seq(Bytes), pos : Nat, pushed : Seq(Bytes \ {Nul}), eof : BOOLEAN, err : BOOLEAN,
              writable : BOOLEAN, turn : {"any", "read", "write"}]
    /\ s.pos <= Len(s.content) /\ Len(s.pushed) <= 1

\* At the end of the file nothing is left.
Sound(s) == StreamOK(s) /\ (s.eof = TRUE => Rest(s) = <<>>)

LEMMA StreamParts ==
    ASSUME NEW s, StreamOK(s)
    PROVE  /\ s.content \in Seq(Bytes) /\ Len(s.content) \in Nat /\ s.pos \in 0..Len(s.content)
           /\ s.pushed \in Seq(Bytes) /\ Len(s.pushed) \in 0..1
           /\ Nul \notin Range(s.pushed)
           /\ From(s.content, s.pos) \in Seq(Bytes)
           /\ Len(From(s.content, s.pos)) = Len(s.content) - s.pos
<1>1. s.content \in Seq(Bytes) /\ s.pos \in Nat /\ s.pos <= Len(s.content) /\ Len(s.pushed) <= 1
      /\ s.pushed \in Seq(Bytes \ {Nul})
    BY DEF StreamOK
<1>2. Len(s.content) \in Nat /\ Len(s.pushed) \in 0..1
    <2>1. Len(s.content) \in Nat /\ Len(s.pushed) \in Nat
        BY <1>1, LenProperties
    <2> DEFINE n == Len(s.pushed)
    <2>2. n \in Nat /\ n <= 1
        BY <1>1, <2>1
    <2> HIDE DEF n
    <2>3. n \in 0..1
        BY <2>2
    <2> QED BY <2>1, <2>3 DEF n
<1>3. s.pushed \in Seq(Bytes)
    BY <1>1, SeqMonotonic
<1>4. Nul \notin Range(s.pushed)
    <2>1. \A j \in 1..Len(s.pushed) : s.pushed[j] # Nul
        BY <1>1, ElementOfSeq
    <2> QED BY <1>1, <2>1, Lacks
<1>5. s.pos \in 0..Len(s.content)
    BY <1>1, <1>2
<1>6. From(s.content, s.pos) \in Seq(Bytes) /\ Len(From(s.content, s.pos)) = Len(s.content) - s.pos
    BY <1>1, <1>5, FromIs
<1> QED BY <1>1, <1>2, <1>3, <1>4, <1>5, <1>6

LEMMA RestIs ==
    ASSUME NEW s, StreamOK(s)
    PROVE  /\ Rest(s) \in Seq(Bytes) /\ Len(Rest(s)) \in Nat
           /\ Len(Rest(s)) = Len(s.pushed) + (Len(s.content) - s.pos)
           /\ Nul \notin Range(s.content) => Nul \notin Range(Rest(s))
<1>1. /\ s.pushed \in Seq(Bytes) /\ From(s.content, s.pos) \in Seq(Bytes) /\ s.content \in Seq(Bytes)
      /\ Len(From(s.content, s.pos)) = Len(s.content) - s.pos
      /\ s.pos \in 0..Len(s.content) /\ Nul \notin Range(s.pushed)
    BY StreamParts
<1>2. Rest(s) \in Seq(Bytes) /\ Len(Rest(s)) = Len(s.pushed) + Len(From(s.content, s.pos))
    BY <1>1, ConcatIs, ZenonT(30) DEF Rest
<1>3. ASSUME Nul \notin Range(s.content) PROVE Nul \notin Range(Rest(s))
    <2>1. Nul \notin Range(From(s.content, s.pos))
        BY <1>1, <1>3, LacksPart
    <2> QED BY <1>1, <2>1, LacksConcat DEF Rest
<1>4. Len(Rest(s)) \in Nat
    BY <1>2, LenProperties
<1> QED BY <1>1, <1>2, <1>3, <1>4

\* What is left after n bytes is the rest behind them.
LEMMA ConsumedIs ==
    ASSUME NEW s, StreamOK(s), NEW n \in 0..Len(Rest(s))
    PROVE  /\ StreamOK(Consumed(s, n))
           /\ Rest(Consumed(s, n)) = From(Rest(s), n)
           /\ Consumed(s, n).content = s.content
           /\ Consumed(s, n).eof = s.eof /\ Consumed(s, n).err = s.err
<1> DEFINE p == Len(s.pushed)
           back == Min({n, p})
           c == Consumed(s, n)
           behind == From(s.content, s.pos)
<1>0. /\ s.content \in Seq(Bytes) /\ Len(s.content) \in Nat /\ s.pos \in 0..Len(s.content)
      /\ s.pushed \in Seq(Bytes) /\ p \in 0..1 /\ behind \in Seq(Bytes)
      /\ Len(behind) = Len(s.content) - s.pos
    BY StreamParts
<1>1. n \in Nat /\ n <= p + (Len(s.content) - s.pos)
    BY RestIs
<1>2. back = IF n <= p THEN n ELSE p
    <2>1. p \in Int /\ n \in Int
        BY <1>0, <1>1
    <2> HIDE DEF p
    <2> QED BY <2>1, MinIs
<1>3. c = [s EXCEPT !.pushed = From(s.pushed, back), !.pos = s.pos + n - back, !.turn = "read"]
    BY DEF Consumed
<1> HIDE DEF back, c
<1>4. /\ c.content = s.content /\ c.pushed = From(s.pushed, back) /\ c.pos = s.pos + n - back
      /\ c.eof = s.eof /\ c.err = s.err /\ c.writable = s.writable /\ c.turn = "read"
    BY <1>3 DEF StreamOK
<1>5. back \in 0..p
    BY <1>0, <1>1, <1>2
<1>6. From(s.pushed, back) \in Seq(Bytes \ {Nul}) /\ Len(From(s.pushed, back)) <= 1
    <2>1. s.pushed \in Seq(Bytes \ {Nul})
        BY DEF StreamOK
    <2>2. From(s.pushed, back) \in Seq(Bytes \ {Nul}) /\ Len(From(s.pushed, back)) = p - back
        BY <1>5, <2>1, FromIs
    <2>3. p - back <= 1
        <3>1. p \in 0..1
            BY <1>0
        <3> HIDE DEF p
        <3>2. p \in Int /\ back \in Int /\ p <= 1 /\ 0 <= back
            BY <1>5, <3>1
        <3> QED BY <3>2
    <2> QED BY <2>2, <2>3
<1>7. s.pos + n - back \in Nat /\ s.pos + n - back <= Len(s.content)
    BY <1>0, <1>1, <1>2, SMTT(20)
<1>8. StreamOK(c)
    <2>1. c \in [content : Seq(Bytes), pos : Nat, pushed : Seq(Bytes \ {Nul}), eof : BOOLEAN,
                 err : BOOLEAN, writable : BOOLEAN, turn : {"any", "read", "write"}]
        BY <1>3, <1>6, <1>7 DEF StreamOK
    <2> QED BY <1>4, <1>6, <1>7, <2>1 DEF StreamOK
<1>9. Rest(c) = From(s.pushed \o behind, n)
    <2>1. CASE n <= p
        <3>1. back = n /\ c.pos = s.pos
            BY <1>0, <1>1, <1>2, <1>4, <2>1
        <3>2. Rest(c) = From(s.pushed, n) \o behind
            BY <1>4, <3>1 DEF Rest
        <3>3. n \in 0..(p + Len(behind))
            BY <1>0, <1>1
        <3>4. From(s.pushed \o behind, n) = From(s.pushed, n) \o behind
            BY <1>0, <2>1, <3>3, FromConcat, ZenonT(30)
        <3> QED BY <3>2, <3>4
    <2>2. CASE n > p
        <3>1. back = p /\ c.pos = s.pos + (n - p) /\ n - p \in 0..(Len(s.content) - s.pos)
            BY <1>0, <1>1, <1>2, <1>4, <2>2
        <3>2. From(s.pushed, p) = <<>>
            BY <1>0, TakeEnds
        <3>3. From(behind, n - p) = From(s.content, s.pos + (n - p))
            BY <1>0, <3>1, FromFrom
        <3>4. Rest(c) = <<>> \o From(s.content, s.pos + (n - p))
            BY <1>4, <3>1, <3>2 DEF Rest
        <3>5. From(behind, n - p) \in Seq(Bytes)
            BY <1>0, <3>1, FromIs
        <3>6. Rest(c) = From(behind, n - p)
            BY <3>3, <3>4, <3>5, ConcatEmptySeq
        <3>7. n \in 0..(p + Len(behind))
            BY <1>0, <1>1
        <3>8. From(s.pushed \o behind, n) = From(behind, n - p)
            BY <1>0, <2>2, <3>7, FromConcat
        <3> QED BY <3>6, <3>8
    <2>3. n <= p \/ n > p
        BY <1>0, <1>1
    <2> QED BY <2>1, <2>2, <2>3, Zenon
<1>10. Rest(c) = From(Rest(s), n)
    BY <1>9 DEF Rest
<1> QED BY <1>4, <1>8, <1>10 DEF c

\* Reading on changes neither the file nor its flags; it changes what is left.
LEMMA ConsumedSound ==
    ASSUME NEW s, Sound(s), s.eof = FALSE, NEW n \in 0..Len(Rest(s))
    PROVE  LET c == Consumed(s, n)
           IN  /\ Sound(c) /\ c.content = s.content /\ c.eof = FALSE
               /\ Rest(c) = From(Rest(s), n)
BY ConsumedIs DEF Sound

LEMMA AtEofSound ==
    ASSUME NEW s, Sound(s)
    PROVE  LET c == AtEof(s)
           IN  Sound(c) /\ c.content = s.content /\ c.eof = TRUE /\ Rest(c) = <<>>
<1> DEFINE d == Consumed(s, Len(Rest(s)))
           c == AtEof(s)
<1>1. Rest(s) \in Seq(Bytes) /\ Len(Rest(s)) \in Nat /\ Len(Rest(s)) \in 0..Len(Rest(s))
    BY RestIs DEF Sound
<1>2. StreamOK(d) /\ Rest(d) = From(Rest(s), Len(Rest(s))) /\ d.content = s.content
    BY <1>1, ConsumedIs DEF Sound
<1>3. Rest(d) = <<>>
    BY <1>1, <1>2, TakeEnds
<1>4. c = [d EXCEPT !.eof = TRUE, !.turn = "any"]
    BY DEF AtEof
<1> HIDE DEF d, c
<1>5. /\ c.content = d.content /\ c.pushed = d.pushed /\ c.pos = d.pos /\ c.eof = TRUE
      /\ StreamOK(c)
    BY <1>2, <1>4 DEF StreamOK
<1>6. Rest(c) = Rest(d)
    BY <1>5 DEF Rest
<1> QED BY <1>2, <1>3, <1>5, <1>6 DEF Sound, c

LEMMA FailedSound ==
    ASSUME NEW s, Sound(s), s.eof = FALSE, NEW n \in 0..Len(Rest(s))
    PROVE  LET c == Failed(s, n)
           IN  /\ Sound(c) /\ c.content = s.content /\ c.eof = FALSE /\ c.err = TRUE
               /\ Rest(c) = From(Rest(s), n)
<1> DEFINE d == Consumed(s, n)
           c == Failed(s, n)
<1>1. /\ StreamOK(d) /\ Rest(d) = From(Rest(s), n) /\ d.content = s.content /\ d.eof = FALSE
    BY ConsumedIs DEF Sound
<1>2. c = [d EXCEPT !.err = TRUE]
    BY DEF Failed
<1> HIDE DEF d, c
<1>3. /\ c.content = d.content /\ c.pushed = d.pushed /\ c.pos = d.pos /\ c.eof = d.eof
      /\ c.err = TRUE /\ StreamOK(c)
    BY <1>1, <1>2 DEF StreamOK
<1>4. Rest(c) = Rest(d)
    BY <1>3 DEF Rest
<1> QED BY <1>1, <1>3, <1>4 DEF Sound, c

\* What fread has answered: a piece of the rest, and a reason why it is shorter than asked for.
FreadAnswer(s, n, r) ==
    /\ Sound(r.stream) /\ r.stream.content = s.content
    /\ r.bytes \in Seq(Bytes) /\ Len(r.bytes) \in Nat /\ Len(r.bytes) <= n
    /\ r.bytes \o Rest(r.stream) = Rest(s)
    /\ Len(r.bytes) < n => r.stream.eof = TRUE \/ r.stream.err = TRUE

LEMMA FreadIs ==
    ASSUME NEW s, Sound(s), NEW n \in Nat, NEW r \in fread(s, n)
    PROVE  FreadAnswer(s, n, r)
<1> DEFINE R == Rest(s)
           m == Min({n, Len(R)})
<1>1. R \in Seq(Bytes) /\ Len(R) \in Nat
    BY RestIs DEF Sound
<1>2. \A j \in 0..Len(R) : /\ Take(R, j) \in Seq(Bytes) /\ Len(Take(R, j)) = j
                           /\ Take(R, j) \o From(R, j) = R
    BY <1>1, TakeIs, TakeFrom
<1>3. CASE n = 0 \/ s.eof
    <2>1. r = [stream |-> s, bytes |-> Take(R, 0)]
        BY <1>3 DEF fread, Piece
    <2>2. r.stream = s /\ r.bytes = <<>> /\ Len(r.bytes) = 0
        BY <1>1, <2>1, TakeEnds, EmptyIs
    <2>3. <<>> \in Seq(Bytes) /\ <<>> \o R = R
        BY <1>1, EmptyIs
    <2>4. 0 < n => s.eof = TRUE
        BY <1>3 DEF Sound, StreamOK
    <2> QED BY <2>2, <2>3, <2>4 DEF FreadAnswer
<1>4. CASE ~(n = 0 \/ s.eof)
    <2>1. s.eof = FALSE
        BY <1>4 DEF Sound, StreamOK
    <2>2. m = IF n <= Len(R) THEN n ELSE Len(R)
        BY <1>1, MinIs
    <2>3. \/ r = Piece(s, m, IF m < n THEN AtEof(s) ELSE Consumed(s, n))
          \/ \E j \in 0..(n - 1) \cap 0..m : r = Piece(s, j, Failed(s, j))
        BY <1>4 DEF fread
    <2> HIDE DEF m
    <2>4. m \in 0..Len(R) /\ m <= n
        BY <1>1, <2>2
    <2>5. CASE m < n /\ r = Piece(s, m, AtEof(s))
        <3>1. m = Len(R)
            BY <1>1, <2>2, <2>5
        <3>2. r.stream = AtEof(s) /\ r.bytes = Take(R, m)
            BY <2>5 DEF Piece
        <3>3. Sound(AtEof(s)) /\ AtEof(s).content = s.content /\ AtEof(s).eof = TRUE
              /\ Rest(AtEof(s)) = <<>>
            BY AtEofSound
        <3>4. Take(R, m) = R /\ R \o <<>> = R
            BY <1>1, <3>1, TakeEnds, EmptyIs
        <3> QED BY <1>1, <2>4, <3>1, <3>2, <3>3, <3>4 DEF FreadAnswer
    <2>6. CASE ~(m < n) /\ r = Piece(s, m, Consumed(s, n))
        <3>1. m = n
            BY <1>1, <2>2, <2>4, <2>6
        <3>2. r.stream = Consumed(s, n) /\ r.bytes = Take(R, n)
            BY <2>6, <3>1 DEF Piece
        <3>3. /\ Sound(r.stream) /\ r.stream.content = s.content
              /\ Rest(r.stream) = From(R, n)
            BY <2>1, <2>4, <3>1, <3>2, ConsumedSound
        <3>4. Take(R, n) \in Seq(Bytes) /\ Len(Take(R, n)) = n /\ Take(R, n) \o From(R, n) = R
            BY <1>2, <2>4, <3>1
        <3> QED BY <3>2, <3>3, <3>4 DEF FreadAnswer
    <2>7. ASSUME NEW j \in 0..(n - 1) \cap 0..m, r = Piece(s, j, Failed(s, j))
          PROVE  FreadAnswer(s, n, r)
        <3>1. j \in 0..Len(R) /\ j \in Nat /\ j <= n
            BY <1>1, <2>4
        <3>2. r.stream = Failed(s, j) /\ r.bytes = Take(R, j)
            BY <2>7 DEF Piece
        <3>3. /\ Sound(r.stream) /\ r.stream.content = s.content /\ r.stream.err = TRUE
              /\ Rest(r.stream) = From(R, j)
            BY <2>1, <3>1, <3>2, FailedSound
        <3>4. Take(R, j) \in Seq(Bytes) /\ Len(Take(R, j)) = j /\ Take(R, j) \o From(R, j) = R
            BY <1>2, <3>1
        <3> QED BY <3>1, <3>2, <3>3, <3>4 DEF FreadAnswer
    <2>8. (m < n /\ r = Piece(s, m, AtEof(s))) \/ (~(m < n) /\ r = Piece(s, m, Consumed(s, n)))
          \/ \E j \in 0..(n - 1) \cap 0..m : r = Piece(s, j, Failed(s, j))
        BY <2>3
    <2> QED BY <2>5, <2>6, <2>7, <2>8
<1> QED BY <1>3, <1>4

\* What fgets has answered: no more than a line, or the reason why there is none.
FgetsAnswer(s, n, r) ==
    /\ Sound(r.stream) /\ r.stream.content = s.content
    /\ r.bytes \in Seq(Bytes) /\ Len(r.bytes) \in Nat /\ Len(r.bytes) <= n - 1
    /\ r.ok = TRUE =>
          /\ Len(r.bytes) > 0
          /\ r.bytes \o Rest(r.stream) = Rest(s)
          /\ \A j \in 1..(Len(r.bytes) - 1) : r.bytes[j] # Newline
          /\ Len(r.bytes) < n - 1 =>
                r.bytes[Len(r.bytes)] = Newline \/ Rest(r.stream) = <<>>
    /\ r.ok # TRUE =>
          /\ r.bytes = <<>>
          /\ r.stream.err = TRUE \/ (Rest(s) = <<>> /\ Rest(r.stream) = <<>>)

\* The first newline in the rest, as scu_memchr says it.
LEMMA NewlineIn ==
    ASSUME NEW R \in Seq(Bytes)
    PROVE  LET k == scu_memchr(R, Newline, Len(R))
           IN  /\ Len(R) \in Nat
               /\ k = -1 => \A j \in 1..Len(R) : R[j] # Newline
               /\ k # -1 => /\ k \in Nat /\ k < Len(R) /\ R[k + 1] = Newline
                            /\ \A j \in 1..k : R[j] # Newline
<1> DEFINE E == {i \in Within(R, Len(R)) : At(R, i) = Newline}
           k == FirstOf(E)
<1>0. Len(R) \in Nat
    BY LenProperties
<1>1. \A i : i \in E <=> i \in Nat /\ i < Len(R) /\ R[i + 1] = Newline
    BY <1>0 DEF Within, At
<1>2. E \in SUBSET Nat
    BY <1>1
<1> HIDE DEF E
<1>3. /\ E = {} => k = -1
      /\ E # {} => k \in E /\ \A x \in E : k <= x
    BY <1>2, FirstIs
<1>4. k = -1 => \A j \in 1..Len(R) : R[j] # Newline
    <2> SUFFICES ASSUME k = -1, NEW j \in 1..Len(R), R[j] = Newline PROVE FALSE
        OBVIOUS
    <2>1. E = {}
        BY <1>2, <1>3
    <2>2. j - 1 \in Nat /\ j - 1 < Len(R) /\ (j - 1) + 1 = j
        BY <1>0
    <2> QED BY <1>1, <2>1, <2>2
<1>5. k # -1 => /\ k \in Nat /\ k < Len(R) /\ R[k + 1] = Newline
                /\ \A j \in 1..k : R[j] # Newline
    <2> SUFFICES ASSUME k # -1
                 PROVE  /\ k \in Nat /\ k < Len(R) /\ R[k + 1] = Newline
                        /\ \A j \in 1..k : R[j] # Newline
        OBVIOUS
    <2>1. k \in E /\ \A x \in E : k <= x
        BY <1>3
    <2>2. k \in Nat /\ k < Len(R) /\ R[k + 1] = Newline
        BY <1>1, <2>1
    <2> HIDE DEF k
    <2>3. ASSUME NEW j \in 1..k, R[j] = Newline PROVE FALSE
        <3>1. j - 1 \in Nat /\ j - 1 < Len(R) /\ (j - 1) + 1 = j /\ ~(k <= j - 1)
            BY <1>0, <2>2
        <3>2. j - 1 \in E
            BY <1>1, <2>3, <3>1
        <3> QED BY <2>1, <3>1, <3>2
    <2> QED BY <2>2, <2>3
<1>6. scu_memchr(R, Newline, Len(R)) = k
    BY DEF scu_memchr, E
<1> QED BY <1>0, <1>4, <1>5, <1>6

LEMMA FgetsIs ==
    ASSUME NEW s, Sound(s), NEW n \in Nat, n >= 2, NEW r \in fgets(s, n)
    PROVE  FgetsAnswer(s, n, r)
<1> DEFINE R == Rest(s)
           newline == scu_memchr(R, Newline, Len(R))
           line == IF newline = -1 THEN Len(R) ELSE newline + 1
           m == Min({n - 1, line})
           ended == newline = -1 /\ m < n - 1
<1>1. R \in Seq(Bytes) /\ Len(R) \in Nat
    BY RestIs DEF Sound
<1>2. /\ newline = -1 => \A j \in 1..Len(R) : R[j] # Newline
      /\ newline # -1 => /\ newline \in Nat /\ newline < Len(R) /\ R[newline + 1] = Newline
                         /\ \A j \in 1..newline : R[j] # Newline
    BY <1>1, NewlineIn
<1> HIDE DEF newline
<1>3. line \in 0..Len(R) /\ (newline # -1 => line > 0)
    BY <1>1, <1>2
<1>4. m = IF n - 1 <= line THEN n - 1 ELSE line
    BY <1>1, <1>3, MinIs
<1>5. \/ s.eof /\ r = [stream |-> s, bytes |-> <<>>, ok |-> FALSE]
      \/ ~s.eof /\ r = [stream |-> IF ended THEN AtEof(s) ELSE Consumed(s, m),
                        bytes |-> Take(R, m), ok |-> m > 0]
      \/ ~s.eof /\ \E j \in 0..(IF ended THEN m ELSE m - 1) :
                      r = [stream |-> Failed(s, j), bytes |-> <<>>, ok |-> FALSE]
    BY DEF fgets, newline
<1> HIDE DEF m
<1>6. m \in 0..Len(R) /\ m <= line /\ m <= n - 1
    BY <1>1, <1>3, <1>4
<1>7. <<>> \in Seq(Bytes) /\ Len(<<>>) = 0 /\ 0 <= n - 1
    BY EmptyIs
<1>8. CASE s.eof /\ r = [stream |-> s, bytes |-> <<>>, ok |-> FALSE]
    <2>1. r.stream = s /\ r.bytes = <<>> /\ r.ok # TRUE
        BY <1>8
    <2>2. R = <<>>
        BY <1>8 DEF Sound, StreamOK
    <2> QED BY <1>7, <2>1, <2>2 DEF FgetsAnswer
<1>9. CASE ~s.eof /\ r = [stream |-> IF ended THEN AtEof(s) ELSE Consumed(s, m),
                          bytes |-> Take(R, m), ok |-> m > 0]
    <2>1. s.eof = FALSE
        BY <1>9 DEF Sound, StreamOK
    <2>2. r.bytes = Take(R, m) /\ r.ok = (m > 0)
        BY <1>9
    <2>3. /\ Take(R, m) \in Seq(Bytes) /\ Len(Take(R, m)) = m
          /\ \A j \in 1..m : Take(R, m)[j] = R[j]
          /\ Take(R, m) \o From(R, m) = R
        BY <1>1, <1>6, TakeIs, TakeFrom
    <2>4. Sound(r.stream) /\ r.stream.content = s.content /\ Rest(r.stream) = From(R, m)
        <3>1. CASE ended
            <4>1. r.stream = AtEof(s) /\ m = Len(R)
                BY <1>4, <1>9, <3>1
            <4>2. Sound(r.stream) /\ r.stream.content = s.content /\ Rest(r.stream) = <<>>
                BY <4>1, AtEofSound
            <4>3. From(R, m) = <<>>
                BY <1>1, <4>1, TakeEnds
            <4> QED BY <4>2, <4>3
        <3>2. CASE ~ended
            <4>1. r.stream = Consumed(s, m)
                BY <1>9, <3>2
            <4> QED BY <1>6, <2>1, <4>1, ConsumedSound
        <3> QED BY <3>1, <3>2
    <2>5. \A j \in 1..(m - 1) : Take(R, m)[j] # Newline
        <3> SUFFICES ASSUME NEW j \in 1..(m - 1) PROVE R[j] # Newline
            BY <1>1, <1>6, <2>3
        <3>1. CASE newline = -1
            <4>1. j \in 1..Len(R)
                BY <1>1, <1>6
            <4> QED BY <1>2, <3>1, <4>1
        <3>2. CASE newline # -1
            <4>1. j \in 1..newline
                BY <1>1, <1>2, <1>6, <3>2
            <4> QED BY <1>2, <3>2, <4>1
        <3> QED BY <3>1, <3>2
    <2>6. m < n - 1 => (m > 0 => Take(R, m)[m] = Newline) \/ From(R, m) = <<>>
        <3> SUFFICES ASSUME m < n - 1, m > 0 PROVE Take(R, m)[m] = Newline \/ From(R, m) = <<>>
            OBVIOUS
        <3>1. m = line
            BY <1>3, <1>4
        <3>2. CASE newline = -1
            <4>1. m = Len(R)
                BY <3>1, <3>2
            <4> QED BY <1>1, <4>1, TakeEnds
        <3>3. CASE newline # -1
            <4>1. m = newline + 1 /\ m \in 1..m
                BY <1>6, <3>1, <3>3
            <4> QED BY <1>2, <2>3, <3>3, <4>1
        <3> QED BY <3>2, <3>3
    <2>7. ~(m > 0) => R = <<>> /\ From(R, m) = <<>> /\ Take(R, m) = <<>>
        <3> SUFFICES ASSUME ~(m > 0) PROVE R = <<>> /\ From(R, m) = <<>> /\ Take(R, m) = <<>>
            OBVIOUS
        <3>1. m = 0 /\ line = 0 /\ n - 1 > 0
            BY <1>3, <1>4, <1>6
        <3>2. Len(R) = 0
            BY <1>3, <3>1
        <3> QED BY <1>1, <3>1, <3>2, EmptyIs, TakeEnds
    <2>8. Len(r.bytes) = m /\ m \in Nat /\ m <= n - 1
        BY <1>6, <2>2, <2>3
    <2>9. CASE m > 0
        <3>1. r.ok = TRUE
            BY <2>2, <2>9
        <3> QED BY <2>2, <2>3, <2>4, <2>5, <2>6, <2>8, <2>9, <3>1 DEF FgetsAnswer
    <2>10. CASE ~(m > 0)
        <3>1. r.ok # TRUE
            BY <2>2, <2>10
        <3> QED BY <2>2, <2>3, <2>4, <2>7, <2>8, <2>10, <3>1 DEF FgetsAnswer
    <2> QED BY <2>9, <2>10
<1>10. ASSUME ~s.eof, NEW j \in 0..(IF ended THEN m ELSE m - 1),
              r = [stream |-> Failed(s, j), bytes |-> <<>>, ok |-> FALSE]
       PROVE  FgetsAnswer(s, n, r)
    <2>1. s.eof = FALSE
        BY <1>10 DEF Sound, StreamOK
    <2>2. j \in 0..Len(R)
        BY <1>1, <1>6
    <2>3. r.stream = Failed(s, j) /\ r.bytes = <<>> /\ r.ok # TRUE
        BY <1>10
    <2>4. Sound(r.stream) /\ r.stream.content = s.content /\ r.stream.err = TRUE
        BY <2>1, <2>2, <2>3, FailedSound
    <2> QED BY <1>7, <2>3, <2>4 DEF FgetsAnswer
<1> QED BY <1>5, <1>8, <1>9, <1>10


--------------------------------------------------------------------------------
(* The inductive invariant *)

\* Types, and that a buffer holds no more than its size.
Typed ==
    /\ file \in {"none", "open", "dangling"}
    /\ handles = IF file = "open" THEN 1 ELSE 0
    /\ Sound(stream)
    /\ text \in Seq(Bytes) /\ Len(text) <= size
    /\ size \in 0..MaxSize
    /\ used \in 0..Len(text)
    /\ delivered \in Seq(Bytes) \cup {Unknown}

\* What the loop of scu_freadln has read is no line yet, or it had returned; and no NUL comes
\* into the buffer from a file without one.
InLoop ==
    /\ last.op = "freadln" =>
          Nul \notin Range(Take(text, used)) /\ Newline \notin Range(Take(text, used))
    /\ Nul \notin Range(stream.content) => Nul \notin Range(Take(text, used))

IInv == Typed /\ InLoop /\ PiecesAddUp /\ ReadsRight /\ BufferSound

LEMMA TypedIs ==
    ASSUME Typed
    PROVE  /\ text \in Seq(Bytes) /\ Len(text) \in Nat /\ size \in Nat /\ used \in Nat
           /\ used \in 0..Len(text) /\ used <= size
           /\ Take(text, used) \in Seq(Bytes) /\ Len(Take(text, used)) = used
           /\ Rest(stream) \in Seq(Bytes) /\ stream.content \in Seq(Bytes)
<1>1. text \in Seq(Bytes) /\ used \in 0..Len(text) /\ Len(text) <= size /\ size \in 0..MaxSize
    BY DEF Typed
<1>2. Len(text) \in Nat
    BY <1>1, LenProperties
<1>3. MaxSize \in Nat
    BY SizesAssumption
<1>4. size \in Nat /\ used \in Nat /\ used <= size
    BY <1>1, <1>2, <1>3
<1>5. Take(text, used) \in Seq(Bytes) /\ Len(Take(text, used)) = used
    BY <1>1, TakeIs
<1>6. Rest(stream) \in Seq(Bytes) /\ stream.content \in Seq(Bytes)
    BY RestIs, StreamParts DEF Typed, Sound
<1> QED BY <1>1, <1>2, <1>4, <1>5, <1>6

LEMMA TypedSuffices ==
    ASSUME Typed
    PROVE  TypeOK
<1>1. text \in Seq(Bytes) /\ stream.content \in Seq(Bytes)
    BY TypedIs
<1>2. Range(stream.content) \cup Range(text) \subseteq Bytes
    BY <1>1, RangeInBytes
<1>3. stream.pos \in 0..Len(stream.content) /\ Len(stream.pushed) <= 1
    BY StreamParts DEF Typed, Sound, StreamOK
<1>4. stream.eof => Rest(stream) = <<>>
    BY DEF Typed, Sound, StreamOK
<1> QED BY <1>2, <1>3, <1>4 DEF TypeOK, Typed

\* No bytes of a call that has returned are in the buffer.
LEMMA NothingTaken ==
    ASSUME Typed, used = 0
    PROVE  InLoop /\ Take(text, used) = <<>>
<1>1. Take(text, used) = <<>>
    BY TypedIs, TakeEnds
<1>2. \A c : c \notin Range(<<>>)
    BY DEF Range
<1> QED BY <1>1, <1>2 DEF InLoop

\* Between calls: what was delivered and what is left are the file.
Parts ==
    file = "open" /\ delivered # Unknown /\ Nul \notin Range(stream.content) =>
        delivered \o Rest(stream) = stream.content

LEMMA PartsArePieces ==
    ASSUME Typed, used = 0
    PROVE  Parts <=> PiecesAddUp
<1>1. Take(text, used) = <<>>
    BY NothingTaken
<1>2. delivered # Unknown => delivered \o <<>> = delivered
    BY EmptyIs DEF Typed
<1> QED BY <1>1, <1>2 DEF Parts, PiecesAddUp

\* A call that reads nothing has returned.
Idle ==
    /\ Typed /\ used = 0 /\ Parts
    /\ last.op \notin {"freadc", "freads", "freadln", "freadall"}
    /\ size > 0 /\ last.op \in {"snprintf", "rsnprintf", "rasnprintf"} => 
           IsString \/ last.outcome = "OUT_OF_MEMORY"

LEMMA IdleSuffices ==
    ASSUME Idle
    PROVE  IInv
<1>1. Typed /\ InLoop /\ PiecesAddUp
    BY NothingTaken, PartsArePieces DEF Idle
<1>2. ReadsRight
    BY DEF Idle, ReadsRight
<1>3. BufferSound
    <2>1. last.op \in {"freads", "freadln", "freadall", "snprintf", "rsnprintf", "rasnprintf"}
              => last.op \in {"snprintf", "rsnprintf", "rasnprintf"}
        BY DEF Idle
    <2> QED BY <2>1 DEF Idle, BufferSound, Typed
<1> QED BY <1>1, <1>2, <1>3 DEF IInv

LEMMA IdleNext == Idle' => IInv'
<1>1. Idle => IInv
    BY IdleSuffices
<1> QED BY <1>1, PTL

LEMMA OpenedSound ==
    ASSUME NEW t \in Seq(Bytes)
    PROVE  /\ Sound(Opened(t)) /\ Opened(t).content = t
           /\ Rest(Opened(t)) = t /\ <<>> \o t = t
<1>1. t \in Seq(Bytes) /\ Len(t) \in Nat /\ <<>> \in Seq(Bytes \ {Nul}) /\ Len(<<>>) = 0
    BY LenProperties, EmptyIs
<1>2. /\ Opened(t).content = t /\ Opened(t).pos = 0 /\ Opened(t).pushed = <<>>
      /\ Opened(t).eof = FALSE
    BY DEF Opened
<1>3. StreamOK(Opened(t))
    <2>1. Opened(t) \in [content : Seq(Bytes), pos : Nat, pushed : Seq(Bytes \ {Nul}), eof : BOOLEAN,
                         err : BOOLEAN, writable : BOOLEAN, turn : {"any", "read", "write"}]
        BY <1>1 DEF Opened
    <2> QED BY <1>1, <1>2, <2>1 DEF StreamOK
<1>4. Rest(Opened(t)) = t /\ <<>> \o t = t
    <2>1. From(t, 0) = t /\ <<>> \o t = t
        BY TakeEnds, EmptyIs
    <2> QED BY <1>2, <2>1 DEF Rest
<1> QED BY <1>2, <1>3, <1>4 DEF Sound

LEMMA UnknownIs == Unknown \notin Seq(Bytes)
BY UnknownAssumption, BytesAre, SeqMonotonic

\* What the client has after a call.
LEMMA Delivered ==
    ASSUME Typed, NEW o, NEW b \in Seq(Bytes), Deliver(o, b)
    PROVE  /\ delivered' \in Seq(Bytes) \cup {Unknown}
           /\ delivered' # Unknown =>
                 \/ o = "NONE" /\ delivered # Unknown /\ delivered' = delivered \o b
                 \/ o = "END_OF_FILE" /\ delivered # Unknown /\ delivered' = delivered
<1>1. delivered \in Seq(Bytes) \cup {Unknown}
    BY DEF Typed
<1>2. CASE delivered # Unknown /\ o = "NONE"
    <2>1. delivered' = delivered \o b /\ delivered \o b \in Seq(Bytes)
        BY <1>1, <1>2, ConcatIs DEF Deliver
    <2> QED BY <1>2, <2>1
<1>3. CASE o = "END_OF_FILE"
    <2>1. delivered' = delivered
        BY <1>3 DEF Deliver
    <2> QED BY <1>1, <1>3, <2>1
<1>4. CASE ~(delivered # Unknown /\ o = "NONE") /\ o # "END_OF_FILE"
    <2>1. delivered' = Unknown
        BY <1>4 DEF Deliver
    <2> QED BY <2>1
<1> QED BY <1>2, <1>3, <1>4

LEMMA Init_IInv ==
    ASSUME Init
    PROVE  IInv
<1>1. <<>> \in Seq(Bytes) /\ Len(<<>>) = 0 /\ <<>> \o <<>> = <<>>
    BY EmptyIs
<1>2. Sound(stream) /\ stream.content = <<>> /\ Rest(stream) = <<>>
    BY <1>1, OpenedSound DEF Init
<1>3. MaxSize \in Nat
    BY SizesAssumption
<1>4. Typed
    BY <1>1, <1>2, <1>3 DEF Typed, Init
<1>5. last.op = "fclose" /\ used = 0 /\ size = 0
    BY DEF Init
<1>6. Parts
    BY <1>1, <1>2 DEF Parts, Init
<1>7. Idle
    BY <1>4, <1>5, <1>6 DEF Idle
<1> QED BY <1>7, IdleSuffices

--------------------------------------------------------------------------------
(* Calls that read nothing, on the file *)

\* The buffer stays as it is.
LEMMA BufferStays ==
    ASSUME Typed, UNCHANGED bufferVars, used' = 0
    PROVE  /\ text' \in Seq(Bytes) /\ Len(text') <= size' /\ size' \in 0..MaxSize
           /\ used' \in 0..Len(text')
BY TypedIs DEF Typed, bufferVars

\* Answer, taken apart.
LEMMA Answered ==
    ASSUME NEW op, NEW outcome, Answer(op, outcome)
    PROVE  last'.op = op /\ last'.outcome = outcome /\ used' = 0
BY DEF Answer, AnswerTo

LEMMA FopenKeeps ==
    ASSUME IInv, NEW op \in {"fopen", "fopentmp"}, NEW C, \A t \in C : t \in Seq(Bytes),
           Fopen(op, C)
    PROVE  IInv'
<1>1. Typed /\ file = "none" /\ UNCHANGED bufferVars /\ delivered' = <<>> /\ handles = 0
    BY DEF IInv, Typed, Fopen
<1>2. PICK o : Answer(op, o)
    BY DEF Fopen
<1>3. last'.op = op /\ used' = 0
    BY <1>2, Answered
<1>4. /\ text' \in Seq(Bytes) /\ Len(text') <= size' /\ size' \in 0..MaxSize
      /\ used' \in 0..Len(text')
    BY <1>1, <1>3, BufferStays
<1>5. <<>> \in Seq(Bytes)
    BY EmptyIs
<1>6. CASE file' = "open" /\ handles' = handles + 1 /\ \E t \in C : stream' = Opened(t)
    <2>1. PICK t \in C : stream' = Opened(t)
        BY <1>6
    <2>2. /\ Sound(stream') /\ stream'.content = t /\ Rest(stream') = t /\ <<>> \o t = t
        BY <2>1, OpenedSound
    <2>3. Typed'
        BY <1>1, <1>4, <1>5, <1>6, <2>2 DEF Typed
    <2>4. Parts'
        BY <1>1, <2>2 DEF Parts
    <2> QED BY <1>3, <2>3, <2>4, IdleNext DEF Idle
<1>7. CASE UNCHANGED <<file, handles, stream>>
    <2>1. Typed'
        BY <1>1, <1>4, <1>5, <1>7 DEF Typed
    <2>2. Parts'
        BY <1>1, <1>7 DEF Parts
    <2> QED BY <1>3, <2>1, <2>2, IdleNext DEF Idle
<1> QED BY <1>6, <1>7 DEF Fopen

LEMMA FreopenKeeps ==
    ASSUME IInv, used = 0, Freopen
    PROVE  IInv'
<1>1. Typed /\ file = "open" /\ UNCHANGED bufferVars /\ delivered' = <<>> /\ handles = 1
    BY DEF IInv, Typed, Freopen
<1>2. PICK o : Answer("freopen", o)
    BY DEF Freopen
<1>3. last'.op = "freopen" /\ used' = 0
    BY <1>2, Answered
<1>4. /\ text' \in Seq(Bytes) /\ Len(text') <= size' /\ size' \in 0..MaxSize
      /\ used' \in 0..Len(text')
    BY <1>1, <1>3, BufferStays
<1>5. <<>> \in Seq(Bytes)
    BY EmptyIs
<1>6. PICK t \in Seq(Bytes) : stream' = Opened(t)
    BY <1>5, BytesAre DEF Freopen
<1>7. /\ Sound(stream') /\ stream'.content = t /\ Rest(stream') = t /\ <<>> \o t = t
    BY <1>6, OpenedSound
<1>8. \/ file' = "open" /\ handles' = 1
      \/ file' = "dangling" /\ handles' = 0
    BY <1>1 DEF Freopen, fileVars
<1>9. Typed'
    BY <1>1, <1>4, <1>5, <1>7, <1>8 DEF Typed
<1>10. Parts'
    BY <1>1, <1>7 DEF Parts
<1> QED BY <1>3, <1>9, <1>10, IdleNext DEF Idle

LEMMA FcloseKeeps ==
    ASSUME IInv, used = 0, Fclose
    PROVE  IInv'
<1>1. /\ Typed /\ UNCHANGED bufferVars /\ delivered' = <<>> /\ handles' = 0
      /\ file' = "none" /\ stream' = Opened(<<>>)
    BY DEF IInv, Typed, Fclose
<1>2. PICK o : Answer("fclose", o)
    BY DEF Fclose
<1>3. last'.op = "fclose" /\ used' = 0
    BY <1>2, Answered
<1>4. /\ text' \in Seq(Bytes) /\ Len(text') <= size' /\ size' \in 0..MaxSize
      /\ used' \in 0..Len(text')
    BY <1>1, <1>3, BufferStays
<1>5. <<>> \in Seq(Bytes)
    BY EmptyIs
<1>6. Sound(stream')
    BY <1>1, <1>5, OpenedSound
<1>7. Typed' /\ Parts'
    BY <1>1, <1>4, <1>5, <1>6 DEF Typed, Parts
<1> QED BY <1>3, <1>7, IdleNext DEF Idle

LEMMA ForgetKeeps ==
    ASSUME IInv, used = 0, Forget
    PROVE  IInv'
<1>1. /\ Typed /\ UNCHANGED <<stream, bufferVars, delivered>> /\ handles' = 0
      /\ file' = "none"
    BY DEF IInv, Typed, Forget
<1>2. last'.op = "forget" /\ used' = 0
    BY Answered DEF Forget
<1>3. /\ text' \in Seq(Bytes) /\ Len(text') <= size' /\ size' \in 0..MaxSize
      /\ used' \in 0..Len(text')
    BY <1>1, <1>2, BufferStays
<1>4. Typed' /\ Parts'
    BY <1>1, <1>3 DEF Typed, Parts
<1> QED BY <1>2, <1>4, IdleNext DEF Idle

LEMMA FreeBufferKeeps ==
    ASSUME IInv, used = 0, FreeBuffer
    PROVE  IInv'
<1>1. /\ Typed /\ Parts /\ UNCHANGED <<file, handles, stream, delivered>>
      /\ text' = <<>> /\ size' = 0
    BY PartsArePieces DEF IInv, FreeBuffer
<1>2. last'.op = "free" /\ used' = 0
    BY Answered DEF FreeBuffer
<1>3. <<>> \in Seq(Bytes) /\ Len(<<>>) = 0 /\ MaxSize \in Nat
    BY EmptyIs, SizesAssumption
<1>4. Typed'
    BY <1>1, <1>2, <1>3 DEF Typed
<1>5. Parts'
    BY <1>1 DEF Parts
<1> QED BY <1>2, <1>4, <1>5, IdleNext DEF Idle

LEMMA ProvideBufferKeeps ==
    ASSUME IInv, used = 0, NEW n \in BufferSizes, ProvideBuffer(n)
    PROVE  IInv'
<1>1. /\ Typed /\ Parts /\ UNCHANGED <<file, handles, stream, delivered>>
      /\ text' = <<Nul>> /\ size' = n
    BY PartsArePieces DEF IInv, ProvideBuffer
<1>2. last'.op = "provide" /\ used' = 0
    BY Answered DEF ProvideBuffer
<1>3. <<Nul>> \in Seq(Bytes) /\ Len(<<Nul>>) = 1
    BY BytesAre
<1>4. n \in 1..MaxSize /\ MaxSize \in Nat
    BY SizesAssumption
<1>5. Typed'
    BY <1>1, <1>2, <1>3, <1>4 DEF Typed
<1>6. Parts'
    BY <1>1 DEF Parts
<1> QED BY <1>2, <1>5, <1>6, IdleNext DEF Idle

LEMMA FclearKeeps ==
    ASSUME IInv, used = 0, Fclear
    PROVE  IInv'
<1>1. /\ Typed /\ Parts /\ UNCHANGED <<file, handles, text, size, delivered>>
      /\ stream' = [stream EXCEPT !.eof = FALSE, !.err = FALSE]
    BY PartsArePieces DEF IInv, Fclear, fileVars, bufferVars
<1>2. last'.op = "fclear" /\ used' = 0
    BY Answered DEF Fclear
<1>3. /\ stream'.content = stream.content /\ stream'.pos = stream.pos
      /\ stream'.pushed = stream.pushed /\ stream'.eof = FALSE /\ StreamOK(stream')
    BY <1>1 DEF Typed, Sound, StreamOK
<1>4. Rest(stream') = Rest(stream)
    BY <1>3 DEF Rest
<1>5. 0 \in 0..Len(text)
    BY <1>1, TypedIs
<1>6. Typed'
    BY <1>1, <1>2, <1>3, <1>5 DEF Typed, Sound
<1>7. Parts'
    BY <1>1, <1>3, <1>4 DEF Parts
<1> QED BY <1>2, <1>6, <1>7, IdleNext DEF Idle

\* A stream that was repositioned.
LEMMA MovedIs ==
    ASSUME NEW s, StreamOK(s), NEW p \in 0..Len(s.content)
    PROVE  /\ StreamOK(Moved(s, p)) /\ Moved(s, p).content = s.content /\ Moved(s, p).eof = FALSE
           /\ Rest(Moved(s, p)) = From(s.content, p)
           /\ Take(s.content, p) \in Seq(Bytes)
           /\ Take(s.content, p) \o From(s.content, p) = s.content
<1>1. s.content \in Seq(Bytes) /\ Len(s.content) \in Nat
    BY StreamParts
<1>2. /\ Take(s.content, p) \in Seq(Bytes) /\ From(s.content, p) \in Seq(Bytes)
      /\ Take(s.content, p) \o From(s.content, p) = s.content
    BY <1>1, TakeIs, FromIs, TakeFrom
<1>3. <<>> \in Seq(Bytes \ {Nul}) /\ Len(<<>>) = 0 /\ p \in Nat /\ p <= Len(s.content)
    BY <1>1, EmptyIs
<1> DEFINE m == Moved(s, p)
<1>4. /\ m.content = s.content /\ m.pos = p /\ m.pushed = <<>> /\ m.eof = FALSE
      /\ m \in [content : Seq(Bytes), pos : Nat, pushed : Seq(Bytes \ {Nul}), eof : BOOLEAN,
                err : BOOLEAN, writable : BOOLEAN, turn : {"any", "read", "write"}]
    BY <1>3 DEF Moved, StreamOK
<1>5. StreamOK(m)
    BY <1>3, <1>4 DEF StreamOK
<1>6. Rest(m) = From(s.content, p)
    BY <1>2, <1>4, EmptyIs DEF Rest
<1> QED BY <1>2, <1>4, <1>5, <1>6

LEMMA FseekKeeps ==
    ASSUME IInv, used = 0, NEW p \in 0..MaxContent, Fseek(p)
    PROVE  IInv'
<1>1. Typed /\ Parts /\ UNCHANGED <<file, handles>> /\ UNCHANGED bufferVars
    BY PartsArePieces DEF IInv, Fseek, fileVars
<1>2. PICK o : Answer("fseek", o)
    BY DEF Fseek
<1>3. last'.op = "fseek" /\ used' = 0
    BY <1>2, Answered
<1>4. /\ text' \in Seq(Bytes) /\ Len(text') <= size' /\ size' \in 0..MaxSize
      /\ used' \in 0..Len(text')
    BY <1>1, <1>3, BufferStays
<1>5. CASE /\ p <= Len(stream.content) /\ stream' = Moved(stream, p)
           /\ delivered' = Take(stream.content, p)
    <2>1. p \in 0..Len(stream.content)
        <3>1. p \in Nat /\ Len(stream.content) \in Nat
            BY <1>1, MaxContentAssumption, StreamParts DEF Typed, Sound
        <3> QED BY <1>5, <3>1
    <2>2. /\ StreamOK(stream') /\ stream'.content = stream.content /\ stream'.eof = FALSE
          /\ Rest(stream') = From(stream.content, p)
          /\ delivered' \in Seq(Bytes)
          /\ delivered' \o From(stream.content, p) = stream.content
        BY <1>1, <1>5, <2>1, MovedIs DEF Typed, Sound
    <2>3. Typed'
        BY <1>1, <1>4, <2>2 DEF Typed, Sound
    <2>4. Parts'
        BY <2>2 DEF Parts
    <2> QED BY <1>3, <2>3, <2>4, IdleNext DEF Idle
<1>6. CASE UNCHANGED <<stream, delivered>>
    <2>1. Typed' /\ Parts'
        BY <1>1, <1>4, <1>6 DEF Typed, Parts
    <2> QED BY <1>3, <2>1, IdleNext DEF Idle
<1> QED BY <1>5, <1>6 DEF Fseek

LEMMA FrewindKeeps ==
    ASSUME IInv, used = 0, Frewind
    PROVE  IInv'
<1> DEFINE m == Moved(stream, 0)
<1>1. /\ Typed /\ UNCHANGED <<file, handles>> /\ UNCHANGED bufferVars /\ delivered' = <<>>
      /\ stream' = [m EXCEPT !.err = FALSE]
    BY DEF IInv, Frewind, fileVars
<1>2. last'.op = "frewind" /\ used' = 0
    BY Answered DEF Frewind
<1>3. /\ text' \in Seq(Bytes) /\ Len(text') <= size' /\ size' \in 0..MaxSize
      /\ used' \in 0..Len(text')
    BY <1>1, <1>2, BufferStays
<1>4. /\ stream.content \in Seq(Bytes) /\ 0 \in 0..Len(stream.content)
      /\ <<>> \in Seq(Bytes) /\ <<>> \o stream.content = stream.content
      /\ From(stream.content, 0) = stream.content
    BY <1>1, StreamParts, EmptyIs, TakeEnds DEF Typed, Sound
<1>5. StreamOK(m) /\ m.content = stream.content /\ m.eof = FALSE /\ Rest(m) = stream.content
    BY <1>1, <1>4, MovedIs DEF Typed, Sound
<1> HIDE DEF m
<1>6. /\ StreamOK(stream') /\ stream'.content = m.content /\ stream'.pos = m.pos
      /\ stream'.pushed = m.pushed /\ stream'.eof = FALSE
    BY <1>1, <1>5 DEF StreamOK
<1>7. Rest(stream') = Rest(m)
    BY <1>6 DEF Rest
<1>8. Typed'
    BY <1>1, <1>3, <1>4, <1>6 DEF Typed, Sound
<1>9. Parts'
    BY <1>1, <1>4, <1>5, <1>6, <1>7 DEF Parts
<1> QED BY <1>2, <1>8, <1>9, IdleNext DEF Idle

\* What is written replaces as many bytes of the file, or goes behind it.
LEMMA WrittenIs ==
    ASSUME NEW s, Sound(s), s.pushed = <<>>, NEW b \in Seq(Bytes)
    PROVE  LET w == Written(s, b)
           IN  /\ Sound(w) /\ w.pos \in 0..Len(w.content) /\ w.content \in Seq(Bytes)
               /\ Rest(w) = From(w.content, w.pos)
<1> DEFINE t == s.content
           p == s.pos
           q == Min({p + Len(b), Len(t)})
           a == Take(t, p) \o b
           u == a \o From(t, q)
           w == Written(s, b)
<1>1. StreamOK(s) /\ t \in Seq(Bytes) /\ Len(t) \in Nat /\ p \in 0..Len(t) /\ p \in Nat
      /\ Len(b) \in Nat
    BY StreamParts, LenProperties DEF Sound
<1>2. q = IF p + Len(b) <= Len(t) THEN p + Len(b) ELSE Len(t)
    BY <1>1, MinIs
<1> HIDE DEF q
<1>3. q \in 0..Len(t)
    BY <1>1, <1>2
<1>4. Take(t, p) \in Seq(Bytes) /\ Len(Take(t, p)) = p /\ From(t, q) \in Seq(Bytes)
      /\ Len(From(t, q)) = Len(t) - q
    BY <1>1, <1>3, TakeIs, FromIs, ZenonT(30)
<1>5. a \in Seq(Bytes) /\ Len(a) = p + Len(b)
    BY <1>4, ConcatIs
<1> HIDE DEF a
<1>6. u \in Seq(Bytes) /\ Len(u) = (p + Len(b)) + (Len(t) - q) /\ From(u, Len(a)) = From(t, q)
    <2> DEFINE z == From(t, q)
    <2>1. z \in Seq(Bytes) /\ Len(z) = Len(t) - q
        BY <1>4
    <2> HIDE DEF z
    <2>2. a \o z \in Seq(Bytes) /\ Len(a \o z) = Len(a) + Len(z)
        BY <1>5, <2>1, ConcatIs
    <2>3. From(a \o z, Len(a)) = z
        BY <1>5, <2>1, Splits
    <2> QED BY <1>5, <2>1, <2>2, <2>3 DEF z
<1> HIDE DEF u
<1>7. Len(u) \in Nat /\ p + Len(b) \in 0..Len(u)
    BY <1>1, <1>3, <1>6
<1>8. w = [s EXCEPT !.content = u, !.pos = p + Len(b), !.turn = "write"]
    BY DEF Written, u, a, q
<1> HIDE DEF w
<1>9. /\ w.content = u /\ w.pos = p + Len(b) /\ w.pushed = <<>> /\ w.eof = s.eof
      /\ w \in [content : Seq(Bytes), pos : Nat, pushed : Seq(Bytes \ {Nul}), eof : BOOLEAN,
                err : BOOLEAN, writable : BOOLEAN, turn : {"any", "read", "write"}]
    <2> DEFINE n == p + Len(b)
    <2>1. n \in Nat
        BY <1>1
    <2> HIDE DEF n
    <2>2. w = [s EXCEPT !.content = u, !.pos = n, !.turn = "write"]
        BY <1>8 DEF n
    <2>3. s \in [content : Seq(Bytes), pos : Nat, pushed : Seq(Bytes \ {Nul}), eof : BOOLEAN,
                err : BOOLEAN, writable : BOOLEAN, turn : {"any", "read", "write"}]
        BY <1>1 DEF StreamOK
    <2> QED BY <1>6, <2>1, <2>2, <2>3 DEF n
<1>10. StreamOK(w)
    BY <1>7, <1>9, EmptyIs DEF StreamOK
<1>11. Rest(w) = From(u, p + Len(b)) /\ Rest(w) = From(t, q)
    <2>1. From(u, p + Len(b)) \in Seq(Bytes)
        BY <1>6, <1>7, FromIs
    <2>2. <<>> \o From(u, p + Len(b)) = From(u, p + Len(b))
        BY <2>1, EmptyIs
    <2> QED BY <1>5, <1>6, <1>9, <2>2 DEF Rest
<1>12. ASSUME s.eof = TRUE PROVE Rest(w) = <<>>
    <2>1. Rest(s) = <<>> /\ Len(Rest(s)) = Len(s.pushed) + (Len(t) - p) /\ Len(<<>>) = 0
        BY <1>1, <1>12, RestIs, EmptyIs DEF Sound
    <2>2. Len(t) - p = 0
        BY <1>1, <2>1
    <2>3. q = Len(t)
        BY <1>1, <1>2, <2>2
    <2> QED BY <1>1, <1>11, <2>3, TakeEnds
<1> QED BY <1>6, <1>7, <1>9, <1>10, <1>11, <1>12 DEF Sound, w

LEMMA WriteKeeps ==
    ASSUME IInv, used = 0, NEW op \in {"fwritec", "fwrites", "fwriteln"}, NEW b \in Seq(Bytes),
           Write(op, b)
    PROVE  IInv'
<1>1. Typed /\ UNCHANGED <<file, handles>> /\ UNCHANGED bufferVars /\ Sound(stream)
      /\ stream.pushed = <<>>
    BY DEF IInv, Typed, Write, MayWrite, fileVars
<1>2. PICK o : Answer(op, o)
    BY DEF Write
<1>3. last'.op = op /\ used' = 0
    BY <1>2, Answered
<1>4. /\ text' \in Seq(Bytes) /\ Len(text') <= size' /\ size' \in 0..MaxSize
      /\ used' \in 0..Len(text')
    BY <1>1, <1>3, BufferStays
<1>5. CASE stream' = Written(stream, b) /\ delivered' = Take(stream'.content, stream'.pos)
    <2>1. /\ Sound(stream') /\ stream'.pos \in 0..Len(stream'.content)
          /\ stream'.content \in Seq(Bytes)
          /\ Rest(stream') = From(stream'.content, stream'.pos)
        BY <1>1, <1>5, WrittenIs
    <2>2. /\ delivered' \in Seq(Bytes)
          /\ delivered' \o From(stream'.content, stream'.pos) = stream'.content
        BY <1>5, <2>1, TakeIs, TakeFrom
    <2>3. Typed' /\ Parts'
        BY <1>1, <1>4, <2>1, <2>2 DEF Typed, Parts
    <2> QED BY <1>3, <2>3, IdleNext DEF Idle
<1>6. CASE /\ delivered' = Unknown
           /\ \E j \in 0..(Len(b) - 1) :
                 stream' = [Written(stream, Take(b, j)) EXCEPT !.err = TRUE]
    <2>1. PICK j \in 0..(Len(b) - 1) : stream' = [Written(stream, Take(b, j)) EXCEPT !.err = TRUE]
        BY <1>6
    <2> DEFINE w == Written(stream, Take(b, j))
    <2>2. Take(b, j) \in Seq(Bytes)
        <3>1. Len(b) \in Nat
            BY LenProperties
        <3>2. j \in 0..Len(b)
            BY <3>1
        <3> QED BY <3>2, TakeIs
    <2>3. Sound(w) /\ stream' = [w EXCEPT !.err = TRUE]
        BY <1>1, <2>1, <2>2, WrittenIs
    <2> HIDE DEF w
    <2>4. /\ StreamOK(stream') /\ stream'.content = w.content /\ stream'.pos = w.pos
          /\ stream'.pushed = w.pushed /\ stream'.eof = w.eof
        BY <2>3 DEF Sound, StreamOK
    <2>5. Rest(stream') = Rest(w)
        BY <2>4 DEF Rest
    <2>6. Sound(stream')
        BY <2>3, <2>4, <2>5 DEF Sound
    <2>7. Typed' /\ Parts'
        BY <1>1, <1>4, <1>6, <2>6 DEF Typed, Parts
    <2> QED BY <1>3, <2>7, IdleNext DEF Idle
<1> QED BY <1>5, <1>6 DEF Write

\* What is left of a sequence without its last member, and with it again.
LEMMA FrontLast ==
    ASSUME NEW S, NEW s \in Seq(S), s # <<>>, NEW t \in Seq(S)
    PROVE  Front(s) \in Seq(S) /\ Front(s) \o (<<Last(s)>> \o t) = s \o t
<1>1. Len(s) \in Nat /\ Len(s) # 0
    BY EmptyIs
<1>2. Len(s) - 1 \in 0..Len(s)
    BY <1>1
<1>3. Front(s) = Take(s, Len(s) - 1)
    BY DEF Front, Take
<1>4. /\ From(s, Len(s) - 1) \in Seq(S) /\ Len(From(s, Len(s) - 1)) = 1
      /\ From(s, Len(s) - 1)[1] = s[(Len(s) - 1) + 1]
    <2> DEFINE n == Len(s) - 1
    <2>1. n \in 0..Len(s) /\ Len(s) - n = 1
        BY <1>1
    <2> HIDE DEF n
    <2>2. /\ From(s, n) \in Seq(S) /\ Len(From(s, n)) = 1
          /\ \A j \in 1..1 : From(s, n)[j] = s[n + j]
        BY <2>1, FromIs
    <2> QED BY <2>2 DEF n
<1>5. s[Len(s)] \in S
    BY <1>1, ElementOfSeq
<1>6. From(s, Len(s) - 1) = <<Last(s)>>
    <2> DEFINE a == From(s, Len(s) - 1)
               b == <<Last(s)>>
    <2>1. /\ a \in Seq(S) /\ Len(a) = 1 /\ a[1] = s[Len(s)]
        BY <1>1, <1>4
    <2>2. b \in Seq(S) /\ Len(b) = 1 /\ b[1] = s[Len(s)]
        BY <1>5 DEF Last
    <2> HIDE DEF a, b
    <2>3. a = b
        BY <2>1, <2>2, SeqEqual
    <2> QED BY <2>3 DEF a, b
<1>7. Front(s) \in Seq(S) /\ Front(s) \o <<Last(s)>> = s
    BY <1>2, <1>3, <1>6, TakeIs, TakeFrom
<1>8. <<Last(s)>> \in Seq(S)
    BY <1>4, <1>6
<1>9. (Front(s) \o <<Last(s)>>) \o t = Front(s) \o (<<Last(s)>> \o t)
    BY <1>7, <1>8, ConcatAssociative
<1> QED BY <1>7, <1>9

LEMMA FunreadcKeeps ==
    ASSUME IInv, used = 0, NEW c \in Bytes \ {Nul}, Funreadc(c)
    PROVE  IInv'
<1>1. Typed /\ Parts /\ UNCHANGED <<file, handles>> /\ UNCHANGED bufferVars /\ Sound(stream)
    BY PartsArePieces DEF IInv, Typed, Funreadc, fileVars
<1>2. PICK o : Answer("funreadc", o)
    BY DEF Funreadc
<1>3. last'.op = "funreadc" /\ used' = 0
    BY <1>2, Answered
<1>4. /\ text' \in Seq(Bytes) /\ Len(text') <= size' /\ size' \in 0..MaxSize
      /\ used' \in 0..Len(text')
    BY <1>1, <1>3, BufferStays
<1>5. CASE UNCHANGED <<stream, delivered>>
    <2>1. Typed' /\ Parts'
        BY <1>1, <1>4, <1>5 DEF Typed, Parts
    <2> QED BY <1>3, <2>1, IdleNext DEF Idle
<1>6. CASE /\ stream.pushed = <<>>
           /\ stream' = [stream EXCEPT !.pushed = <<c>>, !.eof = FALSE, !.turn = "read"]
           /\ delivered' = IF delivered # Unknown /\ delivered # <<>> /\ Last(delivered) = c
                           THEN Front(delivered) ELSE Unknown
    <2> DEFINE behind == From(stream.content, stream.pos)
    <2>1. <<c>> \in Seq(Bytes \ {Nul}) /\ Len(<<c>>) = 1
        OBVIOUS
    <2>2. /\ stream'.content = stream.content /\ stream'.pos = stream.pos
          /\ stream'.pushed = <<c>> /\ stream'.eof = FALSE
          /\ stream' \in [content : Seq(Bytes), pos : Nat, pushed : Seq(Bytes \ {Nul}), eof : BOOLEAN,
                          err : BOOLEAN, writable : BOOLEAN, turn : {"any", "read", "write"}]
        BY <1>1, <1>6, <2>1 DEF Sound, StreamOK
    <2>3. StreamOK(stream')
        <3>1. stream.pos <= Len(stream.content)
            BY <1>1 DEF Sound, StreamOK
        <3> QED BY <2>1, <2>2, <3>1 DEF StreamOK
    <2>4. behind \in Seq(Bytes) /\ Rest(stream) = behind /\ Rest(stream') = <<c>> \o behind
        <3>1. behind \in Seq(Bytes)
            BY <1>1, StreamParts DEF Sound
        <3>2. <<>> \o behind = behind
            BY <3>1, EmptyIs
        <3> QED BY <1>6, <2>2, <3>1, <3>2 DEF Rest
    <2> HIDE DEF behind
    <2>5. CASE delivered' = Unknown
        <3>1. Typed' /\ Parts'
            BY <1>1, <1>4, <2>2, <2>3, <2>5 DEF Typed, Parts, Sound
        <3> QED BY <1>3, <3>1, IdleNext DEF Idle
    <2>6. CASE delivered' # Unknown
        <3>1. delivered # Unknown /\ delivered # <<>> /\ Last(delivered) = c
              /\ delivered' = Front(delivered)
            BY <1>6, <2>6
        <3>2. delivered \in Seq(Bytes)
            BY <1>1, <3>1 DEF Typed
        <3>3. Front(delivered) \in Seq(Bytes)
              /\ Front(delivered) \o (<<Last(delivered)>> \o behind) = delivered \o behind
            BY <2>4, <3>1, <3>2, FrontLast, ZenonT(30)
        <3>4. delivered' \in Seq(Bytes) /\ delivered' \o Rest(stream') = delivered \o Rest(stream)
            BY <2>4, <3>1, <3>3
        <3>5. Typed'
            BY <1>1, <1>4, <2>2, <2>3, <3>4 DEF Typed, Sound
        <3>6. Parts'
            BY <1>1, <2>2, <3>1, <3>4 DEF Parts
        <3> QED BY <1>3, <3>5, <3>6, IdleNext DEF Idle
    <2> QED BY <2>5, <2>6
<1> QED BY <1>5, <1>6 DEF Funreadc

--------------------------------------------------------------------------------
(* Calls that read *)

\* A call has returned.
Returned == Typed /\ used = 0 /\ Parts /\ ReadsRight /\ BufferSound

LEMMA ReturnedNext == Returned' => IInv'
<1>1. Returned => IInv
    BY NothingTaken, PartsArePieces DEF Returned, IInv
<1> QED BY <1>1, PTL

\* A call of fread has given the client its bytes.
LEMMA ReadOn ==
    ASSUME Typed, Parts, NEW n, NEW r, FreadAnswer(stream, n, r), stream' = r.stream,
           UNCHANGED file, NEW o, Deliver(o, r.bytes), o = "END_OF_FILE" => r.bytes = <<>>
    PROVE  Sound(stream') /\ delivered' \in Seq(Bytes) \cup {Unknown} /\ Parts'
<1>1. /\ Sound(stream') /\ stream'.content = stream.content /\ r.bytes \in Seq(Bytes)
      /\ r.bytes \o Rest(stream') = Rest(stream)
    BY DEF FreadAnswer
<1>2. /\ delivered' \in Seq(Bytes) \cup {Unknown}
      /\ delivered' # Unknown =>
            \/ o = "NONE" /\ delivered # Unknown /\ delivered' = delivered \o r.bytes
            \/ o = "END_OF_FILE" /\ delivered # Unknown /\ delivered' = delivered
    BY <1>1, Delivered
<1>3. Rest(stream') \in Seq(Bytes)
    BY <1>1, RestIs DEF Sound
<1>4. ASSUME delivered' # Unknown PROVE delivered' \o Rest(stream') = delivered \o Rest(stream)
    <2>1. delivered \in Seq(Bytes)
        BY <1>2, <1>4 DEF Typed
    <2>2. CASE o = "NONE" /\ delivered' = delivered \o r.bytes
        <3> DEFINE b == r.bytes
                   R == Rest(stream')
        <3>1. b \in Seq(Bytes) /\ R \in Seq(Bytes)
            BY <1>1, <1>3
        <3>2. delivered' = delivered \o b /\ b \o R = Rest(stream)
            BY <1>1, <2>2
        <3> HIDE DEF b, R
        <3>3. (delivered \o b) \o R = delivered \o (b \o R)
            BY <2>1, <3>1, ConcatAssociative
        <3>4. delivered' \o R = delivered \o Rest(stream)
            BY <3>2, <3>3
        <3> QED BY <3>4 DEF R
    <2>3. CASE o = "END_OF_FILE" /\ delivered' = delivered
        <3>1. r.bytes \o Rest(stream') = Rest(stream')
            BY <1>3, <2>3, EmptyIs
        <3> QED BY <1>1, <2>3, <3>1
    <2> QED BY <1>2, <1>4, <2>2, <2>3
<1>5. Parts'
    BY <1>1, <1>2, <1>4 DEF Parts
<1> QED BY <1>1, <1>2, <1>5

LEMMA FreadcKeeps ==
    ASSUME IInv, used = 0, Freadc
    PROVE  IInv'
<1>1. Typed /\ Parts /\ UNCHANGED <<file, handles>> /\ UNCHANGED bufferVars /\ Sound(stream)
    BY PartsArePieces DEF IInv, Typed, Freadc, fileVars
<1>2. PICK r \in fread(stream, 1) :
          LET o == IF r.bytes # <<>> THEN "NONE"
                   ELSE IF r.stream.eof THEN "END_OF_FILE" ELSE "READING_FILE"
          IN  stream' = r.stream /\ Deliver(o, r.bytes) /\ Answer("freadc", o)
    BY DEF Freadc
<1> DEFINE o == IF r.bytes # <<>> THEN "NONE"
                ELSE IF r.stream.eof THEN "END_OF_FILE" ELSE "READING_FILE"
<1>3. FreadAnswer(stream, 1, r)
    BY <1>1, FreadIs
<1>4. stream' = r.stream /\ Deliver(o, r.bytes) /\ Answer("freadc", o)
    BY <1>2
<1>5. o = "END_OF_FILE" => r.bytes = <<>> /\ r.stream.eof
    OBVIOUS
<1>6. o = "READING_FILE" => r.bytes = <<>> /\ ~r.stream.eof
    OBVIOUS
<1> HIDE DEF o
<1>7. last'.op = "freadc" /\ last'.outcome = o /\ used' = 0
    BY <1>4, Answered
<1>8. Sound(stream') /\ delivered' \in Seq(Bytes) \cup {Unknown} /\ Parts'
    BY <1>1, <1>3, <1>4, <1>5, ReadOn
<1>9. /\ text' \in Seq(Bytes) /\ Len(text') <= size' /\ size' \in 0..MaxSize
      /\ used' \in 0..Len(text')
    BY <1>1, <1>7, BufferStays
<1>10. Typed'
    BY <1>1, <1>8, <1>9 DEF Typed
<1>11. o = "END_OF_FILE" => Rest(stream') = <<>>
    BY <1>4, <1>5, <1>8 DEF Sound, StreamOK
<1>12. o = "READING_FILE" => stream'.err
    <2>1. Len(<<>>) < 1
        BY EmptyIs
    <2> QED BY <1>3, <1>4, <1>6, <2>1 DEF FreadAnswer, Sound, StreamOK
<1>13. ReadsRight'
    BY <1>7, <1>11, <1>12 DEF ReadsRight
<1>14. BufferSound'
    BY <1>7, <1>10 DEF BufferSound, Typed
<1> QED BY <1>7, <1>8, <1>10, <1>13, <1>14, ReturnedNext DEF Returned

LEMMA FreadKeeps ==
    ASSUME IInv, used = 0, NEW n \in Counts, Fread(n)
    PROVE  IInv'
<1>1. Typed /\ Parts /\ UNCHANGED <<file, handles>> /\ UNCHANGED bufferVars /\ Sound(stream)
    BY PartsArePieces DEF IInv, Typed, Fread, fileVars
<1>2. PICK r \in fread(stream, n) :
          /\ stream' = r.stream
          /\ Deliver(IF Len(r.bytes) < n /\ ~r.stream.eof THEN "READING_FILE" ELSE "NONE", r.bytes)
          /\ Answer("fread", "NONE")
    BY DEF Fread
<1> DEFINE o == IF Len(r.bytes) < n /\ ~r.stream.eof THEN "READING_FILE" ELSE "NONE"
<1>3. FreadAnswer(stream, n, r)
    BY <1>1, FreadIs, CountsAssumption
<1>4. o # "END_OF_FILE"
    OBVIOUS
<1>5. Deliver(o, r.bytes)
    BY <1>2
<1> HIDE DEF o
<1>6. last'.op = "fread" /\ used' = 0
    BY <1>2, Answered
<1>7. Sound(stream') /\ delivered' \in Seq(Bytes) \cup {Unknown} /\ Parts'
    BY <1>1, <1>2, <1>3, <1>4, <1>5, ReadOn
<1>8. /\ text' \in Seq(Bytes) /\ Len(text') <= size' /\ size' \in 0..MaxSize
      /\ used' \in 0..Len(text')
    BY <1>1, <1>6, BufferStays
<1>9. Typed'
    BY <1>1, <1>7, <1>8 DEF Typed
<1> QED BY <1>6, <1>7, <1>9, IdleNext DEF Idle

LEMMA FreadsKeeps ==
    ASSUME IInv, used = 0, Freads
    PROVE  IInv'
<1>1. Typed /\ Parts /\ UNCHANGED <<file, handles, size>> /\ Sound(stream)
      /\ size \in Nat /\ size \in 0..MaxSize
    BY PartsArePieces, TypedIs DEF IInv, Typed, Freads, fileVars
<1> DEFINE n == Asked(size)
           short(r) == Len(r.bytes) < n
           outcome(r) == IF ~short(r) THEN "NONE"
                         ELSE IF ~r.stream.eof THEN "READING_FILE"
                         ELSE IF r.bytes = <<>> THEN "END_OF_FILE" ELSE "NONE"
<1>2. PICK r \in fread(stream, n) :
          /\ stream' = r.stream
          /\ text' = IF size = 0 THEN text ELSE Terminated(r.bytes)
          /\ Deliver(outcome(r), r.bytes)
          /\ Answer("freads", outcome(r))
    BY DEF Freads
<1> DEFINE o == outcome(r)
<1>3. n \in Nat /\ (size > 0 => n = size - 1)
    BY <1>1 DEF Asked
<1>4. FreadAnswer(stream, n, r)
    BY <1>1, <1>3, FreadIs
<1>5. /\ o = "END_OF_FILE" => r.bytes = <<>> /\ r.stream.eof
      /\ o = "READING_FILE" => Len(r.bytes) < n /\ ~r.stream.eof
    OBVIOUS
<1>6. Deliver(o, r.bytes) /\ Answer("freads", o)
    BY <1>2
<1> HIDE DEF o, n
<1>7. last'.op = "freads" /\ last'.outcome = o /\ used' = 0
    BY <1>6, Answered
<1>8. Sound(stream') /\ delivered' \in Seq(Bytes) \cup {Unknown} /\ Parts'
    BY <1>1, <1>2, <1>4, <1>5, <1>6, ReadOn
<1>9. r.bytes \in Seq(Bytes) /\ Len(r.bytes) \in Nat /\ Len(r.bytes) <= n
    BY <1>4 DEF FreadAnswer
<1>10. /\ text' \in Seq(Bytes) /\ Len(text') <= size /\ Len(text') \in Nat
       /\ size > 0 => text' = Terminated(r.bytes) /\ Nul \in Range(text')
    <2>1. CASE size = 0
        <3>1. text' = text /\ text \in Seq(Bytes) /\ Len(text) <= size /\ Len(text) \in Nat
            BY <1>1, <1>2, <2>1, TypedIs DEF Typed
        <3> QED BY <2>1, <3>1
    <2>2. CASE size # 0
        <3>1. text' = Terminated(r.bytes)
            BY <1>2, <2>2
        <3>2. text' \in Seq(Bytes) /\ Len(text') = Len(r.bytes) + 1 /\ Nul \in Range(text')
            BY <1>9, <3>1, TextIs
        <3>3. n = size - 1
            BY <1>1, <1>3, <2>2
        <3> QED BY <1>1, <1>9, <3>1, <3>2, <3>3
    <2> QED BY <2>1, <2>2
<1>11. Typed'
    BY <1>1, <1>7, <1>8, <1>10 DEF Typed
<1>12. o = "END_OF_FILE" => Rest(stream') = <<>> /\ StringIn(text') = <<>>
    <2> SUFFICES ASSUME o = "END_OF_FILE" PROVE Rest(stream') = <<>> /\ StringIn(text') = <<>>
        OBVIOUS
    <2>1. Rest(stream') = <<>>
        BY <1>2, <1>5, <1>8 DEF Sound, StreamOK
    <2>2. r.bytes = <<>>
        BY <1>5
    <2>3. StringIn(<<>>) = <<>> /\ StringIn(Terminated(<<>>)) = <<>>
        <3>1. <<>> \in Seq(Bytes) /\ Nul \in Bytes /\ Nul \notin Range(<<>>)
            BY EmptyIs, BytesAre DEF Range
        <3>2. StringIn(Terminated(<<>>)) = <<>>
            BY <3>1, StringInString
        <3> QED BY <3>1, <3>2 DEF StringIn
    <2>4. ASSUME size > 0 PROVE StringIn(text') = <<>>
        <3>1. text' = Terminated(<<>>)
            BY <1>10, <2>2, <2>4
        <3> QED BY <2>3, <3>1
    <2>5. ASSUME ~(size > 0) PROVE StringIn(text') = <<>>
        <3>1. size = 0 /\ Len(text') = 0
            BY <1>1, <1>10, <2>5
        <3>2. text' = <<>>
            BY <1>10, <3>1, EmptyIs
        <3> QED BY <2>3, <3>2
    <2> QED BY <2>1, <2>4, <2>5
<1>13. o = "READING_FILE" => stream'.err
    BY <1>2, <1>4, <1>5 DEF FreadAnswer, Sound, StreamOK
<1>14. ReadsRight'
    BY <1>7, <1>12, <1>13 DEF ReadsRight
<1>15. BufferSound'
    BY <1>1, <1>7, <1>10 DEF BufferSound, IsString
<1> QED BY <1>7, <1>8, <1>11, <1>14, <1>15, ReturnedNext DEF Returned

\* Bytes that are put behind the first n of a buffer, and the string that is there then.
LEMMA PutIs ==
    ASSUME NEW t \in Seq(Bytes), NEW n \in 0..Len(t), NEW b \in Seq(Bytes)
    PROVE  /\ Take(t, n) \o b \in Seq(Bytes) /\ Len(Take(t, n) \o b) = n + Len(b)
           /\ n \in Nat /\ Len(b) \in Nat
           /\ Put(t, n, b) = Terminated(Take(t, n) \o b)
           /\ Put(t, n, b) \in Seq(Bytes) /\ Len(Put(t, n, b)) = n + Len(b) + 1
           /\ Nul \in Range(Put(t, n, b))
           /\ Take(Put(t, n, b), n + Len(b)) = Take(t, n) \o b
           /\ \A j \in 1..Len(b) : Put(t, n, b)[n + j] = b[j]
<1> DEFINE a == Take(t, n)
           c == a \o b
           p == Put(t, n, b)
<1>1. a \in Seq(Bytes) /\ Len(a) = n /\ n \in Nat /\ Len(b) \in Nat
    <2>1. Len(t) \in Nat /\ Len(b) \in Nat
        BY LenProperties
    <2> QED BY <2>1, TakeIs
<1>2. <<Nul>> \in Seq(Bytes)
    BY BytesAre
<1>3. p = a \o (b \o <<Nul>>)
    BY DEF Put, Terminated
<1> HIDE DEF a, p
<1>4. c \in Seq(Bytes) /\ Len(c) = n + Len(b) /\ \A j \in 1..Len(b) : c[n + j] = b[j]
    <2>0. a \in Seq(Bytes) /\ b \in Seq(Bytes)
        BY <1>1
    <2>1. /\ a \o b \in Seq(Bytes) /\ Len(a \o b) = Len(a) + Len(b)
          /\ \A j \in 1..Len(b) : (a \o b)[Len(a) + j] = b[j]
        BY <2>0, ConcatIs
    <2> QED BY <1>1, <2>1
<1>5. p = c \o <<Nul>>
    BY <1>1, <1>2, <1>3, ConcatAssociative
<1> HIDE DEF c
<1>6. p = Terminated(c)
    BY <1>5 DEF Terminated
<1>7. p \in Seq(Bytes) /\ Len(p) = (n + Len(b)) + 1 /\ Nul \in Range(p)
    BY <1>4, <1>6, TextIs
<1>8. Take(p, Len(c)) = c
    BY <1>2, <1>4, <1>5, Splits
<1>9. \A j \in 1..Len(b) : p[n + j] = b[j]
    <2> SUFFICES ASSUME NEW j \in 1..Len(b) PROVE p[n + j] = b[j]
        OBVIOUS
    <2>1. n + j \in 1..Len(c)
        BY <1>1, <1>4
    <2>2. p[n + j] = c[n + j]
        BY <1>2, <1>4, <1>5, <2>1, ConcatIs
    <2> QED BY <1>4, <2>2
<1> QED BY <1>1, <1>4, <1>6, <1>7, <1>8, <1>9 DEF a, c, p

\* The size of a buffer that has grown, if it could.
LEMMA GrownIs ==
    ASSUME Typed, NEW required \in Nat, NEW new \in scu_ensure_size(size, required)
    PROVE  /\ new \in Nat /\ new \in 0..MaxSize /\ size <= new /\ size \in Nat
           /\ ~OutOfMemory(new, required) => required <= new
<1>1. size \in Nat /\ size \in 0..MaxSize /\ MaxSize \in Nat
    BY TypedIs, SizesAssumption DEF Typed
<1>2. CASE new = size
    BY <1>1, <1>2 DEF OutOfMemory
<1>3. CASE ~(required <= size) /\ new \in GrownSizes(size, required) \cap 0..MaxSize
    <2>1. new \in required..(2 * required - 1) /\ new \in 0..MaxSize
        BY <1>3 DEF GrownSizes
    <2> QED BY <1>1, <1>3, <2>1 DEF OutOfMemory
<1> QED BY <1>2, <1>3 DEF scu_ensure_size

\* An iteration for which there is no memory.
LEMMA NoRoomKeeps ==
    ASSUME IInv, NEW op \in {"freadln", "freadall"}, NoRoom(op)
    PROVE  IInv'
<1>1. /\ Typed /\ UNCHANGED <<file, handles, stream>> /\ UNCHANGED bufferVars
      /\ Return(op, "OUT_OF_MEMORY")
    BY DEF IInv, NoRoom, fileVars
<1>2. last'.op = op /\ last'.outcome = "OUT_OF_MEMORY" /\ used' = 0
    BY <1>1, Answered DEF Return
<1>3. delivered' = Unknown
    BY <1>1 DEF Return, Deliver
<1>4. /\ text' \in Seq(Bytes) /\ Len(text') <= size' /\ size' \in 0..MaxSize
      /\ used' \in 0..Len(text')
    BY <1>1, <1>2, BufferStays
<1>5. Typed'
    BY <1>1, <1>3, <1>4 DEF Typed
<1>6. Parts'
    BY <1>3 DEF Parts
<1>7. ReadsRight' /\ BufferSound'
    BY <1>2, <1>4 DEF ReadsRight, BufferSound
<1> QED BY <1>2, <1>5, <1>6, <1>7, ReturnedNext DEF Returned

\* A piece moves from what is left of the file to what the client has, or to the buffer.
Moves(d, a, b, R, Q) == (d \o (a \o b)) \o R = (d \o a) \o Q

LEMMA PieceMoves ==
    ASSUME NEW d \in Seq(Bytes), NEW a \in Seq(Bytes), NEW b \in Seq(Bytes), NEW R \in Seq(Bytes)
    PROVE  Moves(d, a, b, R, b \o R)
<1>1. d \o a \in Seq(Bytes) /\ a \o b \in Seq(Bytes)
    BY ConcatIs
<1>2. d \o (a \o b) = (d \o a) \o b
    BY ConcatAssociative, SMTT(20)
<1>3. ((d \o a) \o b) \o R = (d \o a) \o (b \o R)
    BY <1>1, ConcatAssociative, SMTT(20)
<1> QED BY <1>2, <1>3 DEF Moves

\* The last piece: what the client is given is all that the loop has read.
LEMMA LastPiece ==
    ASSUME IInv, NEW b \in Seq(Bytes), text' = Put(text, used, b), UNCHANGED file,
           Sound(stream'), stream'.content = stream.content,
           NEW op, NEW o, Return(op, o),
           o \in {"NONE", "END_OF_FILE"} => b \o Rest(stream') = Rest(stream),
           o = "END_OF_FILE" => used = 0 /\ b = <<>>
    PROVE  /\ last'.op = op /\ last'.outcome = o /\ used' = 0
           /\ delivered' \in Seq(Bytes) \cup {Unknown}
           /\ Nul \notin Range(stream.content) /\ b \o Rest(stream') = Rest(stream) =>
                 StringIn(text') = Take(text, used) \o b
           /\ Parts'
<1> DEFINE a == Take(text, used)
           R == Rest(stream')
<1>1. /\ Typed /\ text \in Seq(Bytes) /\ used \in 0..Len(text) /\ a \in Seq(Bytes)
      /\ Sound(stream) /\ R \in Seq(Bytes)
    BY TypedIs, RestIs DEF IInv, Typed, Sound
<1>2. /\ a \o b \in Seq(Bytes) /\ text' = Terminated(a \o b) /\ text' \in Seq(Bytes)
    BY <1>1, PutIs
<1>3. last'.op = op /\ last'.outcome = o /\ used' = 0
    BY Answered DEF Return
<1>4. StringIn(text') \in Seq(Bytes)
    BY <1>2, StringInIs
<1>5. /\ delivered' \in Seq(Bytes) \cup {Unknown}
      /\ delivered' # Unknown =>
            \/ o = "NONE" /\ delivered # Unknown /\ delivered' = delivered \o StringIn(text')
            \/ o = "END_OF_FILE" /\ delivered # Unknown /\ delivered' = delivered
    BY <1>1, <1>4, Delivered DEF Return
<1>6. ASSUME Nul \notin Range(stream.content), b \o R = Rest(stream)
      PROVE  StringIn(text') = a \o b
    <2>1. Nul \notin Range(Rest(stream))
        BY <1>1, <1>6, RestIs DEF Sound
    <2>2. Nul \notin Range(b)
        BY <1>1, <1>6, <2>1, LacksConcat
    <2>3. Nul \notin Range(a)
        BY <1>6 DEF IInv, InLoop
    <2>4. Nul \notin Range(a \o b)
        BY <1>1, <2>2, <2>3, LacksConcat
    <2>5. StringIn(Terminated(a \o b)) = a \o b
        BY <1>2, <2>4, StringInString, BytesAre
    <2> QED BY <1>2, <2>5
<1>7. ASSUME file = "open", delivered' # Unknown, Nul \notin Range(stream.content)
      PROVE  delivered' \o R = stream.content
    <2>1. delivered # Unknown /\ delivered \in Seq(Bytes)
        BY <1>1, <1>5, <1>7 DEF Typed
    <2>2. (delivered \o a) \o Rest(stream) = stream.content
        BY <1>7, <2>1 DEF IInv, PiecesAddUp
    <2>3. b \o R = Rest(stream)
        BY <1>5, <1>7
    <2> HIDE DEF a, R
    <2>4. (delivered \o (a \o b)) \o R = stream.content
        <3>1. b \in Seq(Bytes) /\ a \in Seq(Bytes) /\ R \in Seq(Bytes)
            BY <1>1
        <3>2. Moves(delivered, a, b, R, Rest(stream))
            <4>1. Moves(delivered, a, b, R, b \o R)
                BY <2>1, <3>1, PieceMoves
            <4> QED BY <2>3, <4>1
        <3> QED BY <2>2, <3>2 DEF Moves
    <2>5. CASE o = "NONE" /\ delivered' = delivered \o StringIn(text')
        BY <1>6, <1>7, <2>3, <2>4, <2>5
    <2>6. CASE o = "END_OF_FILE" /\ delivered' = delivered
        <3>1. a = <<>> /\ b = <<>>
            BY <1>1, <2>6, TakeEnds DEF a
        <3>2. <<>> \o <<>> = <<>> /\ delivered \o <<>> = delivered /\ <<>> \in Seq(Bytes)
            BY <2>1, EmptyIs
        <3> QED BY <2>4, <2>6, <3>1, <3>2
    <2> QED BY <1>5, <1>7, <2>5, <2>6
<1>8. Parts'
    BY <1>7 DEF Parts
<1> QED BY <1>3, <1>5, <1>6, <1>8

\* A piece in the middle: it is in the buffer, and no longer in the file.
LEMMA MiddlePiece ==
    ASSUME IInv, NEW b \in Seq(Bytes), UNCHANGED <<file, delivered>>,
           text' \in Seq(Bytes), Take(text', used') = Take(text, used) \o b,
           Sound(stream'), stream'.content = stream.content,
           b \o Rest(stream') = Rest(stream)
    PROVE  /\ Nul \notin Range(stream'.content) => Nul \notin Range(Take(text', used'))
           /\ PiecesAddUp'
<1> DEFINE a == Take(text, used)
           R == Rest(stream')
<1>1. Typed /\ a \in Seq(Bytes) /\ R \in Seq(Bytes) /\ Sound(stream)
    BY TypedIs, RestIs DEF IInv, Typed, Sound
<1>2. ASSUME Nul \notin Range(stream.content) PROVE Nul \notin Range(a \o b)
    <2>1. Nul \notin Range(Rest(stream))
        BY <1>1, <1>2, RestIs DEF Sound
    <2>2. Nul \notin Range(b)
        BY <1>1, <2>1, LacksConcat
    <2>3. Nul \notin Range(a)
        BY <1>2 DEF IInv, InLoop
    <2> QED BY <1>1, <2>2, <2>3, LacksConcat
<1>3. ASSUME file = "open", delivered # Unknown, Nul \notin Range(stream.content)
      PROVE  (delivered \o (a \o b)) \o R = stream.content
    <2>1. delivered \in Seq(Bytes)
        BY <1>1, <1>3 DEF Typed
    <2>2. (delivered \o a) \o Rest(stream) = stream.content
        BY <1>3 DEF IInv, PiecesAddUp
    <2>3. b \in Seq(Bytes) /\ a \in Seq(Bytes) /\ R \in Seq(Bytes) /\ b \o R = Rest(stream)
        BY <1>1
    <2> HIDE DEF a, R
    <2>4. Moves(delivered, a, b, R, Rest(stream))
        <3>1. Moves(delivered, a, b, R, b \o R)
            BY <2>1, <2>3, PieceMoves
        <3> QED BY <2>3, <3>1
    <2> QED BY <2>2, <2>4 DEF Moves
<1>4. PiecesAddUp'
    BY <1>3 DEF PiecesAddUp
<1> QED BY <1>2, <1>4

LEMMA EmptyString ==
    /\ <<>> \in Seq(Bytes) /\ \A c : c \notin Range(<<>>)
    /\ StringIn(<<>>) = <<>> /\ StringIn(Terminated(<<>>)) = <<>>
<1>1. <<>> \in Seq(Bytes) /\ Nul \in Bytes /\ \A c : c \notin Range(<<>>)
    BY EmptyIs, BytesAre DEF Range
<1>2. StringIn(Terminated(<<>>)) = <<>>
    BY <1>1, StringInString
<1> QED BY <1>1, <1>2 DEF StringIn

\* All but the last member, in terms of indexes.
LEMMA FrontIs ==
    ASSUME NEW S, NEW s \in Seq(S), s # <<>>
    PROVE  /\ Len(s) \in Nat /\ Len(s) > 0 /\ Last(s) = s[Len(s)]
           /\ \A c : (\A j \in 1..(Len(s) - 1) : s[j] # c) => c \notin Range(Front(s))
<1>1. Len(s) \in Nat /\ Len(s) # 0
    BY EmptyIs
<1> DEFINE f == Front(s)
<1>2. Len(s) - 1 \in 0..Len(s) /\ f = Take(s, Len(s) - 1)
    BY <1>1 DEF Front, Take
<1>3. /\ f \in Seq(S) /\ Len(f) = Len(s) - 1
      /\ \A j \in 1..(Len(s) - 1) : f[j] = s[j]
    BY <1>2, TakeIs
<1> HIDE DEF f
<1>4. ASSUME NEW c, \A j \in 1..(Len(s) - 1) : s[j] # c PROVE c \notin Range(f)
    <2>1. \A j \in 1..Len(f) : f[j] # c
        BY <1>3, <1>4
    <2> QED BY <1>3, <2>1, Lacks
<1> QED BY <1>1, <1>4 DEF f, Last

LEMMA FreadlnKeeps ==
    ASSUME IInv, Freadln
    PROVE  IInv'
<1>1. Typed /\ Sound(stream) /\ SCU_CHUNK_SIZE \in Nat /\ SCU_CHUNK_SIZE >= 2
      /\ used \in Nat /\ used \in 0..Len(text) /\ text \in Seq(Bytes)
    BY ChunkAssumption, TypedIs DEF IInv, Typed
<1>2. CASE NoRoom("freadln")
    BY <1>2, NoRoomKeeps
<1>3. ASSUME NEW new \in scu_ensure_size(size, used + SCU_CHUNK_SIZE), RoomFor("freadln", new),
             NEW r \in fgets(stream, new - used), FreadlnPiece(new, r)
      PROVE  IInv'
    <2> DEFINE n == new - used
               b == r.bytes
               read == scu_strlen(Terminated(b))
               a == Take(text, used)
    <2>1. /\ new \in Nat /\ new \in 0..MaxSize /\ size' = new /\ UNCHANGED <<file, handles>>
          /\ n \in Nat /\ n >= 2 /\ new = n + used
        <3>1. new \in Nat /\ new \in 0..MaxSize /\ used + SCU_CHUNK_SIZE <= new
            BY <1>1, <1>3, GrownIs DEF RoomFor
        <3> QED BY <1>1, <1>3, <3>1 DEF RoomFor, fileVars
    <2>2. used = 0 \/ last.op = "freadln"
        BY <1>3 DEF RoomFor, Iterates
    <2> HIDE DEF n
    <2>3. FgetsAnswer(stream, n, r)
        BY <1>1, <1>3, <2>1, FgetsIs DEF n
    <2>4. stream' = r.stream /\ text' = Put(text, used, b)
        BY <1>3 DEF FreadlnPiece
    <2>5. \/ r.ok # TRUE /\ Return("freadln", Ended(r.stream, used))
          \/ /\ r.ok = TRUE /\ LineDone(text', used + read, read, n)
             /\ Return("freadln", "NONE")
          \/ /\ r.ok = TRUE /\ ~LineDone(text', used + read, read, n)
             /\ GoesOn("freadln", used + read) /\ UNCHANGED delivered
        BY <1>3 DEF FreadlnPiece, n
    <2> HIDE DEF b
    <2>6. /\ Sound(stream') /\ stream'.content = stream.content
          /\ b \in Seq(Bytes) /\ Len(b) \in Nat /\ Len(b) <= n - 1
          /\ r.ok = TRUE =>
                /\ Len(b) > 0 /\ b \o Rest(stream') = Rest(stream)
                /\ \A j \in 1..(Len(b) - 1) : b[j] # Newline
                /\ Len(b) < n - 1 => b[Len(b)] = Newline \/ Rest(stream') = <<>>
          /\ r.ok # TRUE =>
                /\ b = <<>>
                /\ stream'.err = TRUE \/ (Rest(stream) = <<>> /\ Rest(stream') = <<>>)
        BY <2>3, <2>4 DEF FgetsAnswer, b
    <2>7. /\ a \o b \in Seq(Bytes) /\ Len(a \o b) = used + Len(b) /\ a \in Seq(Bytes) /\ Len(a) = used
          /\ text' = Terminated(a \o b)
          /\ text' \in Seq(Bytes) /\ Len(text') = used + Len(b) + 1 /\ Nul \in Range(text')
          /\ Take(text', used + Len(b)) = a \o b
          /\ \A j \in 1..Len(b) : text'[used + j] = b[j]
        BY <1>1, <2>4, <2>6, PutIs, TakeIs, ZenonT(30)
    <2>8. Len(text') <= size' /\ Len(text') \in Nat
        BY <1>1, <2>1, <2>6, <2>7
    <2> HIDE DEF a
    <2>12. /\ a = Take(text, used)
           /\ used = 0 => a = <<>>
           /\ used > 0 => last.op = "freadln"
           /\ Nul \notin Range(a) /\ Newline \notin Range(a)
        <3>1. used = 0 => a = <<>>
            BY <1>1, TakeEnds DEF a
        <3>2. used = 0 \/ (Nul \notin Range(a) /\ Newline \notin Range(a))
            BY <2>2 DEF IInv, InLoop, a
        <3> QED BY <1>1, <2>2, <3>1, <3>2, EmptyString DEF a
    <2>9. CASE r.ok # TRUE /\ Return("freadln", Ended(r.stream, used))
        <3> DEFINE o == Ended(r.stream, used)
        <3>1. /\ o \in {"NONE", "END_OF_FILE"} => stream'.err = FALSE
              /\ o = "READING_FILE" => stream'.err
              /\ o = "END_OF_FILE" => used = 0
              /\ o = "NONE" => used # 0
            BY <2>4, <2>6 DEF Ended, Sound, StreamOK
        <3> HIDE DEF o
        <3>2. Return("freadln", o)
            BY <2>9 DEF o
        <3>3. b = <<>> /\ (o \in {"NONE", "END_OF_FILE"} => Rest(stream) = <<>> /\ Rest(stream') = <<>>)
            BY <2>6, <2>9, <3>1
        <3>4. o \in {"NONE", "END_OF_FILE"} => b \o Rest(stream') = Rest(stream)
            BY <3>3, EmptyIs
        <3>5. /\ last'.op = "freadln" /\ last'.outcome = o /\ used' = 0
              /\ delivered' \in Seq(Bytes) \cup {Unknown}
              /\ Nul \notin Range(stream.content) /\ b \o Rest(stream') = Rest(stream) =>
                    StringIn(text') = Take(text, used) \o b
              /\ Parts'
            BY <2>1, <2>4, <2>6, <3>1, <3>2, <3>3, <3>4, LastPiece
        <3>6. Typed'
            BY <1>1, <2>1, <2>6, <2>7, <2>8, <3>5 DEF Typed
        <3>7. a \o b = a
            BY <2>7, <3>3, EmptyIs
        <3>8. o = "END_OF_FILE" => Rest(stream') = <<>> /\ StringIn(text') = <<>>
            BY <2>7, <2>12, <3>1, <3>3, <3>7, EmptyString
        <3>9. o = "NONE" /\ Nul \notin Range(stream'.content) =>
                  /\ StringIn(text') # <<>>
                  /\ Newline \notin Range(Front(StringIn(text')))
                  /\ Rest(stream') = <<>>
            <4> SUFFICES ASSUME o = "NONE", Nul \notin Range(stream'.content)
                         PROVE  /\ StringIn(text') # <<>>
                                /\ Newline \notin Range(Front(StringIn(text')))
                                /\ Rest(stream') = <<>>
                OBVIOUS
            <4>1. StringIn(text') = a /\ Rest(stream') = <<>>
                BY <2>6, <2>12, <3>3, <3>4, <3>5, <3>7
            <4>2. a # <<>>
                BY <2>7, <3>1, EmptyIs
            <4>3. \A j \in 1..Len(a) : a[j] # Newline
                BY <2>7, <2>12, Lacks
            <4>4. Len(a) \in Nat
                BY <2>7, <1>1
            <4>5. \A j \in 1..(Len(a) - 1) : a[j] # Newline
                BY <4>3, <4>4
            <4>6. Newline \notin Range(Front(a))
                BY <2>7, <4>2, <4>5, FrontIs
            <4> QED BY <4>1, <4>2, <4>6
        <3>10. ReadsRight'
            BY <3>1, <3>5, <3>8, <3>9 DEF ReadsRight
        <3>11. BufferSound'
            BY <2>7, <2>8 DEF BufferSound, IsString
        <3> QED BY <3>5, <3>6, <3>10, <3>11, ReturnedNext DEF Returned
    <2>10. CASE /\ r.ok = TRUE /\ LineDone(text', used + read, read, n)
                /\ Return("freadln", "NONE")
        <3>1. b \o Rest(stream') = Rest(stream)
            BY <2>6, <2>10
        <3>2. /\ last'.op = "freadln" /\ last'.outcome = "NONE" /\ used' = 0
              /\ delivered' \in Seq(Bytes) \cup {Unknown}
              /\ Nul \notin Range(stream.content) => StringIn(text') = Take(text, used) \o b
              /\ Parts'
            BY <2>1, <2>4, <2>6, <2>10, <3>1, LastPiece
        <3>3. Typed'
            BY <1>1, <2>1, <2>6, <2>7, <2>8, <3>2 DEF Typed
        <3>4. ASSUME Nul \notin Range(stream'.content)
              PROVE  /\ StringIn(text') # <<>>
                     /\ Newline \notin Range(Front(StringIn(text')))
                     /\ Last(StringIn(text')) = Newline \/ Rest(stream') = <<>>
            <4> DEFINE c == a \o b
                       m == Len(b)
            <4>1. StringIn(text') = c
                BY <2>6, <2>12, <3>2, <3>4
            <4>2. Nul \notin Range(b)
                <5>1. Nul \notin Range(c)
                    BY <2>7, <4>1, StringInIs
                <5> QED BY <2>6, <2>7, <5>1, LacksConcat
            <4>3. read = m
                BY <2>6, <4>2, StrlenTerminated, BytesAre
            <4>4. m \in Nat /\ m > 0 /\ m \in 1..m
                BY <2>6, <2>10
            <4>5. /\ c \in Seq(Bytes) /\ Len(c) = used + m /\ c # <<>>
                  /\ \A j \in 1..used : c[j] = a[j]
                  /\ \A j \in 1..m : c[used + j] = b[j]
                <5>1. a \in Seq(Bytes) /\ b \in Seq(Bytes)
                    BY <2>6, <2>7
                <5>2. /\ c \in Seq(Bytes) /\ Len(c) = Len(a) + Len(b)
                      /\ \A j \in 1..Len(a) : c[j] = a[j]
                      /\ \A j \in 1..Len(b) : c[Len(a) + j] = b[j]
                    BY <5>1, ConcatIs
                <5>3. Len(c) # 0
                    BY <1>1, <2>7, <4>4, <5>2
                <5>4. c # <<>>
                    BY <5>2, <5>3, EmptyIs
                <5> QED BY <2>7, <5>2, <5>4
            <4>6. /\ \A j \in 1..(m - 1) : b[j] # Newline
                  /\ m < n - 1 => b[m] = Newline \/ Rest(stream') = <<>>
                BY <2>6, <2>10
            <4>7. \A j \in 1..used : a[j] # Newline
                BY <2>7, <2>12, Lacks
            <4> HIDE DEF c, m
            <4>8. \A j \in 1..(Len(c) - 1) : c[j] # Newline
                <5> SUFFICES ASSUME NEW j \in 1..(Len(c) - 1) PROVE c[j] # Newline
                    OBVIOUS
                <5>1. CASE j <= used
                    <6>1. j \in 1..used
                        BY <1>1, <5>1
                    <6> QED BY <4>5, <4>7, <6>1
                <5>2. CASE j > used
                    <6>1. j - used \in 1..(m - 1) /\ j - used \in 1..m /\ used + (j - used) = j
                        BY <1>1, <4>4, <4>5, <5>2
                    <6> QED BY <4>5, <4>6, <6>1
                <5>3. j <= used \/ j > used
                    BY <1>1
                <5> QED BY <5>1, <5>2, <5>3, Zenon
            <4>9. Newline \notin Range(Front(c)) /\ Last(c) = c[Len(c)]
                BY <4>5, <4>8, FrontIs
            <4>10. c[Len(c)] = b[m]
                BY <4>4, <4>5
            <4>11. b[m] = Newline \/ Rest(stream') = <<>>
                <5>1. CASE used + read > 0 /\ At(text', (used + read) - 1) = Newline
                    <6>1. text'[used + m] = Newline
                        <7>1. ((used + read) - 1) + 1 = used + m
                            BY <1>1, <4>3, <4>4
                        <7> QED BY <5>1, <7>1 DEF At
                    <6>2. text'[used + m] = b[m]
                        BY <2>7, <4>4 DEF m
                    <6> QED BY <6>1, <6>2
                <5>2. CASE read < n - 1
                    BY <4>3, <4>6, <5>2
                <5> QED BY <2>10, <5>1, <5>2 DEF LineDone
            <4> QED BY <4>1, <4>5, <4>9, <4>10, <4>11
        <3>5. ReadsRight'
            BY <3>2, <3>4 DEF ReadsRight
        <3>6. BufferSound'
            BY <2>7, <2>8 DEF BufferSound, IsString
        <3> QED BY <3>2, <3>3, <3>5, <3>6, ReturnedNext DEF Returned
    <2>11. CASE /\ r.ok = TRUE /\ ~LineDone(text', used + read, read, n)
                /\ GoesOn("freadln", used + read) /\ UNCHANGED delivered
        <3> DEFINE c == a \o b
                   m == Len(b)
        <3>1. b \o Rest(stream') = Rest(stream)
            BY <2>6, <2>11
        <3>2. last'.op = "freadln" /\ last'.outcome = "UNFINISHED" /\ used' = used + read
            BY <2>11 DEF GoesOn
        <3>3. /\ ~(used + read > 0 /\ At(text', (used + read) - 1) = Newline)
              /\ ~(read < n - 1)
            BY <2>11 DEF LineDone
        <3>4. m \in Nat /\ m > 0 /\ m \in 1..m /\ m <= n - 1
            BY <2>6, <2>11
        <3>5. read \in 0..m /\ \A j \in 1..read : b[j] # Nul
            BY <2>6, StrlenTerminated, BytesAre
        <3> HIDE DEF m
        <3>6. read = m
            <4> DEFINE k == read
            <4>1. k \in 0..m /\ ~(k < n - 1)
                BY <3>3, <3>5
            <4> HIDE DEF k
            <4>2. k = m
                BY <2>1, <3>4, <4>1
            <4> QED BY <4>2 DEF k
        <3>7. Nul \notin Range(b)
            BY <2>6, <3>5, <3>6, Lacks DEF m
        <3>8. Newline \notin Range(b)
            <4>1. text'[used + m] # Newline
                <5>1. used + read > 0 /\ ((used + read) - 1) + 1 = used + m
                    BY <1>1, <3>4, <3>6
                <5> QED BY <3>3, <5>1 DEF At
            <4>2. text'[used + m] = b[m]
                BY <2>7, <3>4 DEF m
            <4>3. \A j \in 1..(m - 1) : b[j] # Newline
                BY <2>6, <2>11 DEF m
            <4>4. ASSUME NEW j \in 1..m PROVE b[j] # Newline
                <5>1. j = m \/ j \in 1..(m - 1)
                    BY <3>4
                <5> QED BY <4>1, <4>2, <4>3, <5>1
            <4> QED BY <2>6, <4>4, Lacks DEF m
        <3>9. used' = used + m /\ Take(text', used') = c
            BY <2>7, <3>2, <3>6 DEF m
        <3>10. Nul \notin Range(c) /\ Newline \notin Range(c)
            BY <2>6, <2>7, <2>12, <3>7, <3>8, LacksConcat
        <3>11. PiecesAddUp'
            BY <2>1, <2>6, <2>7, <2>11, <2>12, <3>1, <3>9, MiddlePiece
        <3>12. Typed'
            <4>1. used + m \in 0..Len(text')
                BY <1>1, <2>7, <2>8, <3>4 DEF m
            <4> QED BY <1>1, <2>1, <2>6, <2>7, <2>8, <2>11, <3>9, <4>1 DEF Typed
        <3>13. InLoop'
            BY <3>9, <3>10 DEF InLoop
        <3>14. ReadsRight'
            BY <3>2 DEF ReadsRight
        <3>15. BufferSound'
            BY <2>8, <3>2 DEF BufferSound
        <3> QED BY <3>11, <3>12, <3>13, <3>14, <3>15 DEF IInv
    <2> QED BY <2>5, <2>9, <2>10, <2>11
<1> QED BY <1>2, <1>3 DEF Freadln

LEMMA FreadallKeeps ==
    ASSUME IInv, Freadall
    PROVE  IInv'
<1>1. Typed /\ Sound(stream) /\ SCU_CHUNK_SIZE \in Nat /\ SCU_CHUNK_SIZE >= 2
      /\ used \in Nat /\ used \in 0..Len(text) /\ text \in Seq(Bytes)
    BY ChunkAssumption, TypedIs DEF IInv, Typed
<1>2. CASE NoRoom("freadall")
    BY <1>2, NoRoomKeeps
<1>3. ASSUME NEW new \in scu_ensure_size(size, used + SCU_CHUNK_SIZE), RoomFor("freadall", new),
             NEW r \in fread(stream, Room(new)), FreadallPiece(new, r)
      PROVE  IInv'
    <2> DEFINE n == Room(new)
               b == r.bytes
               a == Take(text, used)
               o == Ended(r.stream, used + Len(b))
    <2>1. /\ new \in Nat /\ new \in 0..MaxSize /\ size' = new /\ UNCHANGED <<file, handles>>
          /\ n \in Nat /\ n > 0 /\ new = used + n + 1
        <3>1. new \in Nat /\ new \in 0..MaxSize /\ used + SCU_CHUNK_SIZE <= new
            BY <1>1, <1>3, GrownIs DEF RoomFor
        <3>2. n = new - used - 1
            BY DEF Room
        <3> QED BY <1>1, <1>3, <3>1, <3>2 DEF RoomFor, fileVars
    <2>2. stream' = r.stream
        BY <1>3 DEF FreadallPiece
    <2>3. \/ Len(b) < n /\ text' = Put(text, used, b) /\ Return("freadall", o)
          \/ /\ ~(Len(b) < n) /\ text' = Take(text, used) \o b
             /\ GoesOn("freadall", used + Len(b)) /\ UNCHANGED delivered
        BY <1>3 DEF FreadallPiece
    <2> HIDE DEF n
    <2>4. FreadAnswer(stream, n, r)
        BY <1>1, <1>3, <2>1, FreadIs DEF n
    <2>5. o = IF r.stream.err THEN "READING_FILE"
              ELSE IF used + Len(b) = 0 THEN "END_OF_FILE" ELSE "NONE"
        BY DEF Ended
    <2> HIDE DEF o, b
    <2>6. /\ Sound(stream') /\ stream'.content = stream.content
          /\ b \in Seq(Bytes) /\ Len(b) \in Nat /\ Len(b) <= n
          /\ b \o Rest(stream') = Rest(stream)
          /\ Len(b) < n => stream'.eof = TRUE \/ stream'.err = TRUE
        BY <2>2, <2>4 DEF FreadAnswer, b
    <2>7. CASE Len(b) < n /\ text' = Put(text, used, b) /\ Return("freadall", o)
        <3>1. /\ text' = Terminated(a \o b)
              /\ text' \in Seq(Bytes) /\ Len(text') = used + Len(b) + 1 /\ Nul \in Range(text')
            BY <1>1, <2>6, <2>7, PutIs
        <3>2. Len(text') <= size' /\ Len(text') \in Nat
            BY <1>1, <2>1, <2>6, <2>7, <3>1
        <3>3. /\ o \in {"NONE", "END_OF_FILE"} => stream'.err = FALSE
              /\ o = "READING_FILE" => stream'.err
            BY <2>2, <2>5, <2>6 DEF Sound, StreamOK
        <3>4. o = "END_OF_FILE" => used = 0 /\ b = <<>>
            <4>1. o = "END_OF_FILE" => used = 0 /\ Len(b) = 0
                BY <1>1, <2>5, <2>6
            <4> QED BY <2>6, <4>1, EmptyIs
        <3>5. o \in {"NONE", "END_OF_FILE"} => Rest(stream') = <<>>
            BY <2>6, <2>7, <3>3 DEF Sound
        <3>6. /\ last'.op = "freadall" /\ last'.outcome = o /\ used' = 0
              /\ delivered' \in Seq(Bytes) \cup {Unknown}
              /\ Parts'
            BY <2>1, <2>6, <2>7, <3>4, LastPiece
        <3>7. Typed'
            BY <1>1, <2>1, <2>6, <3>1, <3>2, <3>6 DEF Typed
        <3>8. o = "END_OF_FILE" => StringIn(text') = <<>>
            <4> SUFFICES ASSUME o = "END_OF_FILE" PROVE StringIn(text') = <<>>
                OBVIOUS
            <4>1. a = <<>> /\ b = <<>>
                BY <1>1, <3>4, TakeEnds
            <4>2. <<>> \o <<>> = <<>>
                BY EmptyString, EmptyIs
            <4> QED BY <3>1, <4>1, <4>2, EmptyString
        <3>9. ReadsRight'
            BY <3>3, <3>5, <3>6, <3>8 DEF ReadsRight
        <3>10. BufferSound'
            BY <3>1, <3>2 DEF BufferSound, IsString
        <3> QED BY <3>6, <3>7, <3>9, <3>10, ReturnedNext DEF Returned
    <2>8. CASE /\ ~(Len(b) < n) /\ text' = Take(text, used) \o b
               /\ GoesOn("freadall", used + Len(b)) /\ UNCHANGED delivered
        <3>1. last'.op = "freadall" /\ last'.outcome = "UNFINISHED" /\ used' = used + Len(b)
            BY <2>8 DEF GoesOn
        <3>2. text' \in Seq(Bytes) /\ Len(text') = used + Len(b) /\ Take(text', used') = text'
            <4>1. a \in Seq(Bytes) /\ Len(a) = used
                BY <1>1, TakeIs
            <4>2. a \o b \in Seq(Bytes) /\ Len(a \o b) = Len(a) + Len(b)
                BY <2>6, <4>1, ConcatIs
            <4>3. Take(a \o b, Len(a \o b)) = a \o b
                BY <4>2, TakeEnds
            <4> QED BY <2>8, <3>1, <4>1, <4>2, <4>3
        <3>3. Len(text') <= size' /\ used' \in 0..Len(text')
            BY <1>1, <2>1, <2>6, <3>1, <3>2
        <3>4. /\ Nul \notin Range(stream'.content) => Nul \notin Range(Take(text', used'))
              /\ PiecesAddUp'
            BY <2>1, <2>6, <2>8, <3>2, MiddlePiece
        <3>5. Typed'
            BY <1>1, <2>1, <2>6, <2>8, <3>2, <3>3 DEF Typed
        <3>6. InLoop' /\ ReadsRight'
            BY <3>1, <3>4 DEF InLoop, ReadsRight
        <3>7. BufferSound'
            BY <3>1, <3>3 DEF BufferSound
        <3> QED BY <3>4, <3>5, <3>6, <3>7 DEF IInv
    <2> QED BY <2>3, <2>7, <2>8
<1> QED BY <1>2, <1>3 DEF Freadall

--------------------------------------------------------------------------------
(* Strings in the buffer *)

\* What is printed is put behind the offset, as much of it as there is room for.
LEMMA PrintedIs ==
    ASSUME NEW t \in Seq(Bytes), NEW n \in Nat, NEW offset \in 0..Len(t), offset < n,
           NEW printed \in Seq(Bytes)
    PROVE  LET v == vsnprintf(t, n, offset, printed)
           IN  /\ v \in Seq(Bytes) /\ Len(v) <= n /\ Nul \in Range(v)
               /\ offset + Len(printed) < n => v = Put(t, offset, printed)
<1> DEFINE k == Min({n - offset - 1, Len(printed)})
           v == vsnprintf(t, n, offset, printed)
<1>1. offset \in Nat /\ Len(printed) \in Nat
    BY LenProperties
<1>2. n - offset - 1 \in Nat
    BY <1>1
<1>3. k = IF n - offset - 1 <= Len(printed) THEN n - offset - 1 ELSE Len(printed)
    BY <1>1, <1>2, MinIs
<1>4. ~(n <= offset)
    BY <1>1
<1>5. v = Put(t, offset, Take(printed, k))
    BY <1>4 DEF vsnprintf, Put
<1> HIDE DEF k, v
<1>6. k \in 0..Len(printed) /\ k <= n - offset - 1
    BY <1>1, <1>2, <1>3
<1>7. Take(printed, k) \in Seq(Bytes) /\ Len(Take(printed, k)) = k
    BY <1>6, TakeIs
<1>8. v \in Seq(Bytes) /\ Len(v) = offset + k + 1 /\ Nul \in Range(v)
    <2> DEFINE p == Take(printed, k)
    <2>1. p \in Seq(Bytes) /\ Len(p) = k /\ v = Put(t, offset, p)
        BY <1>5, <1>7
    <2> HIDE DEF p
    <2>2. /\ Put(t, offset, p) \in Seq(Bytes) /\ Len(Put(t, offset, p)) = offset + Len(p) + 1
          /\ Nul \in Range(Put(t, offset, p))
        BY <2>1, PutIs
    <2> QED BY <2>1, <2>2
<1>9. Len(v) <= n
    BY <1>1, <1>6, <1>8
<1>10. ASSUME offset + Len(printed) < n PROVE v = Put(t, offset, printed)
    <2>1. k = Len(printed)
        BY <1>1, <1>3, <1>10
    <2> QED BY <1>5, <2>1, TakeEnds
<1> QED BY <1>8, <1>9, <1>10 DEF v

\* A call on the buffer that has left a sound buffer has kept everything.
LEMMA StringCall ==
    ASSUME IInv, Strings, text' \in Seq(Bytes), Len(text') <= size', size' \in 0..MaxSize, used' = 0,
           last'.op \in {"snprintf", "rsnprintf", "rasnprintf", "strncpy", "strncat"},
           last'.op \in {"snprintf", "rsnprintf", "rasnprintf"} =>
               size' = 0 \/ Nul \in Range(text') \/ last'.outcome = "OUT_OF_MEMORY"
    PROVE  IInv'
<1>1. Typed /\ UNCHANGED <<file, handles, stream, delivered>> /\ file = "none"
    BY DEF IInv, Strings
<1>2. Len(text') \in Nat /\ MaxSize \in Nat
    BY LenProperties, SizesAssumption
<1>3. Typed'
    BY <1>1, <1>2 DEF Typed
<1>4. Parts'
    BY <1>1 DEF Parts
<1>5. size' > 0 /\ last'.op \in {"snprintf", "rsnprintf", "rasnprintf"} =>
           IsString' \/ last'.outcome = "OUT_OF_MEMORY"
    BY <1>2 DEF IsString
<1> QED BY <1>3, <1>4, <1>5, IdleNext DEF Idle

LEMMA NulString == <<Nul>> \in Seq(Bytes) /\ Len(<<Nul>>) = 1 /\ Nul \in Range(<<Nul>>)
<1> DEFINE s == <<Nul>>
<1>1. s \in Seq(Bytes) /\ Len(s) = 1 /\ s[1] = Nul
    BY BytesAre
<1> HIDE DEF s
<1>2. 1 \in 1..Len(s)
    BY <1>1
<1>3. Nul \in Range(s)
    BY <1>1, <1>2, Lacks
<1> QED BY <1>1, <1>3 DEF s

LEMMA SnprintfKeeps ==
    ASSUME IInv, NEW printed \in Texts, Snprintf(printed)
    PROVE  IInv'
<1>1. /\ Typed /\ Strings /\ size' = size /\ text \in Seq(Bytes) /\ Len(text) <= size
      /\ size \in Nat /\ size \in 0..MaxSize /\ Len(text) \in Nat /\ printed \in Seq(Bytes)
    BY TypedIs, BytesAre DEF IInv, Typed, Snprintf
<1>2. last'.op = "snprintf" /\ used' = 0
    BY DEF Snprintf, AnswerTo
<1>3. \/ text' = vsnprintf(text, size, 0, printed)
      \/ text' = IF size > 0 THEN <<Nul>> ELSE text
    BY DEF Snprintf
<1>4. CASE size = 0
    <2>1. text' = text
        BY <1>1, <1>3, <1>4 DEF vsnprintf
    <2> QED BY <1>1, <1>2, <1>4, <2>1, StringCall
<1>5. CASE size > 0
    <2>1. 0 \in 0..Len(text) /\ 0 < size
        BY <1>1, <1>5
    <2>2. text' \in Seq(Bytes) /\ Len(text') <= size /\ Nul \in Range(text')
        <3>1. CASE text' = vsnprintf(text, size, 0, printed)
            BY <1>1, <2>1, <3>1, PrintedIs
        <3>2. CASE text' = <<Nul>>
            <4>1. 1 <= size
                BY <1>1, <1>5
            <4> QED BY <3>2, <4>1, NulString
        <3> QED BY <1>3, <1>5, <3>1, <3>2
    <2> QED BY <1>1, <1>2, <2>2, StringCall
<1> QED BY <1>1, <1>4, <1>5

\* Printing at an offset that lies in the buffer, which then grows as needed.
LEMMA PrintAtKeeps ==
    ASSUME IInv, NEW op \in {"rsnprintf", "rasnprintf"}, NEW offset \in 0..Len(text),
           NEW onCountError \in Seq(Bytes), Len(onCountError) <= size,
           size = 0 \/ Nul \in Range(onCountError),
           NEW printed \in Texts, PrintAt(op, offset, onCountError, printed)
    PROVE  IInv'
<1>1. /\ Typed /\ Strings /\ text \in Seq(Bytes) /\ Len(text) <= size
      /\ size \in Nat /\ size \in 0..MaxSize /\ Len(text) \in Nat /\ printed \in Seq(Bytes)
    BY TypedIs, BytesAre DEF IInv, Typed, PrintAt
<1>2. last'.op = op /\ used' = 0
    BY DEF PrintAt, AnswerTo
<1>3. Len(printed) \in Nat /\ offset \in Nat
    BY <1>1, LenProperties
<1>4. CASE text' = onCountError /\ size' = size
    BY <1>1, <1>2, <1>4, StringCall
<1>5. ASSUME NEW new \in scu_ensure_size(size, Required(offset, Len(printed))), size' = new,
             IF OutOfMemory(new, Required(offset, Len(printed)))
             THEN UNCHANGED text /\ AnswerTo(op, printed, 0, "OUT_OF_MEMORY")
             ELSE \/ text' = vsnprintf(text, new, offset, printed)
                  \/ text' = Put(text, offset, <<>>)
      PROVE  IInv'
    <2> DEFINE required == Required(offset, Len(printed))
    <2>1. required \in Nat /\ required = (offset + Len(printed)) + 1
        BY <1>3 DEF Required
    <2> HIDE DEF required
    <2>2. /\ new \in Nat /\ new \in 0..MaxSize /\ size <= new
          /\ ~OutOfMemory(new, required) => required <= new
        BY <1>1, <1>5, <2>1, GrownIs DEF required
    <2>3. CASE OutOfMemory(new, required)
        <3>1. text' = text /\ last'.outcome = "OUT_OF_MEMORY"
            BY <1>5, <2>3 DEF required, AnswerTo
        <3>2. Len(text') <= size'
            BY <1>1, <1>5, <2>2, <3>1
        <3> QED BY <1>1, <1>2, <1>5, <2>2, <3>1, <3>2, StringCall
    <2>4. CASE ~OutOfMemory(new, required)
        <3>1. required <= new /\ offset < new
            BY <1>3, <2>1, <2>2, <2>4
        <3>2. \/ text' = vsnprintf(text, new, offset, printed)
              \/ text' = Put(text, offset, <<>>)
            BY <1>5, <2>4 DEF required
        <3>3. text' \in Seq(Bytes) /\ Len(text') <= new /\ Nul \in Range(text')
            <4>1. CASE text' = vsnprintf(text, new, offset, printed)
                BY <1>1, <2>2, <3>1, <4>1, PrintedIs
            <4>2. CASE text' = Put(text, offset, <<>>)
                <5>1. <<>> \in Seq(Bytes) /\ Len(<<>>) = 0
                    BY EmptyIs
                <5>2. text' \in Seq(Bytes) /\ Len(text') = offset + 0 + 1 /\ Nul \in Range(text')
                    BY <1>1, <4>2, <5>1, PutIs
                <5> QED BY <1>3, <2>2, <3>1, <5>2
            <4> QED BY <3>2, <4>1, <4>2
        <3> QED BY <1>1, <1>2, <1>5, <2>2, <3>3, StringCall
    <2> QED BY <2>3, <2>4
<1> QED BY <1>4, <1>5 DEF PrintAt

LEMMA RsnprintfKeeps ==
    ASSUME IInv, NEW printed \in Texts, Rsnprintf(printed)
    PROVE  IInv'
<1> DEFINE t == IF size > 0 THEN <<Nul>> ELSE text
<1>1. text \in Seq(Bytes) /\ Len(text) \in Nat /\ size \in Nat /\ Len(text) <= size
    BY TypedIs DEF IInv, Typed
<1>2. 0 \in 0..Len(text) /\ t \in Seq(Bytes) /\ Len(t) <= size /\ (size = 0 \/ Nul \in Range(t))
    BY <1>1, NulString
<1>3. PrintAt("rsnprintf", 0, t, printed)
    BY DEF Rsnprintf
<1> HIDE DEF t
<1> QED BY <1>2, <1>3, PrintAtKeeps

LEMMA RasnprintfKeeps ==
    ASSUME IInv, NEW printed \in Texts, Rasnprintf(printed)
    PROVE  IInv'
<1> DEFINE offset == IF size = 0 THEN 0 ELSE scu_strlen(text)
<1>1. text \in Seq(Bytes) /\ Len(text) \in Nat /\ size \in Nat /\ Len(text) <= size
    BY TypedIs DEF IInv, Typed
<1>2. size = 0 \/ Nul \in Range(text)
    BY <1>1 DEF Rasnprintf, IsString
<1>3. offset \in 0..Len(text)
    BY <1>1, <1>2, StrlenIs
<1>4. PrintAt("rasnprintf", offset, text, printed)
    BY DEF Rasnprintf
<1> HIDE DEF offset
<1> QED BY <1>1, <1>2, <1>3, <1>4, PrintAtKeeps

\* The string that a block begins with.
LEMMA StringOf ==
    ASSUME NEW d \in Seq(Bytes), NEW c \in Seq(Bytes), Nul \notin Range(c), Len(c) < Len(d),
           \A j \in 1..Len(c) : d[j] = c[j], d[Len(c) + 1] = Nul
    PROVE  Nul \in Range(d) /\ StringIn(d) = c
<1>1. Len(c) \in Nat /\ Len(d) \in Nat
    BY LenProperties
<1>2. Len(c) + 1 \in 1..Len(d)
    BY <1>1
<1>3. Nul \in Range(d)
    BY <1>2, Lacks
<1>4. \A j \in 1..Len(c) : c[j] # Nul
    BY Lacks
<1>5. \A j \in 1..Len(c) : d[j] # Nul
    BY <1>4
<1>6. scu_strlen(d) = Len(c)
    BY <1>1, <1>5, StrlenIsThat
<1>7. StringIn(d) = Take(d, Len(c))
    BY <1>3, <1>6 DEF StringIn
<1>8. Len(c) \in 0..Len(d)
    BY <1>1
<1>9. Take(d, Len(c)) = c
    <2> DEFINE t == Take(d, Len(c))
    <2>1. t \in Seq(Bytes) /\ Len(t) = Len(c) /\ \A j \in 1..Len(c) : t[j] = d[j]
        BY <1>8, TakeIs
    <2> HIDE DEF t
    <2>2. t = c
        BY <2>1, SeqEqual
    <2> QED BY <2>2 DEF t
<1> QED BY <1>3, <1>7, <1>9

LEMMA MemchrNul ==
    ASSUME NEW s \in Seq(Bytes), Nul \notin Range(s), NEW count \in Nat
    PROVE  scu_memchr(Terminated(s), Nul, count) = IF count <= Len(s) THEN -1 ELSE Len(s)
<1> DEFINE S == Terminated(s)
           E == {i \in Within(S, count) : At(S, i) = Nul}
<1>1. /\ S \in Seq(Bytes) /\ Len(S) = Len(s) + 1 /\ S[Len(s) + 1] = Nul /\ Len(s) \in Nat
      /\ \A j \in 1..Len(s) : S[j] = s[j]
    BY TerminatedIs, BytesAre
<1>2. \A j \in 1..Len(s) : s[j] # Nul
    BY Lacks
<1> HIDE DEF S
<1>3. \A i : i \in E <=> i \in 0..(count - 1) /\ i < Len(S) /\ S[i + 1] = Nul
    BY DEF Within, At
<1>4. \A i : i \in E <=> i = Len(s) /\ Len(s) < count
    <2> SUFFICES ASSUME NEW i PROVE i \in E <=> i = Len(s) /\ Len(s) < count
        OBVIOUS
    <2>1. ASSUME i \in E PROVE i = Len(s) /\ Len(s) < count
        <3>1. i \in Nat /\ i < count /\ i <= Len(s) /\ S[i + 1] = Nul
            BY <1>1, <1>3, <2>1
        <3>2. CASE i < Len(s)
            <4>1. i + 1 \in 1..Len(s)
                BY <1>1, <3>1, <3>2
            <4> QED BY <1>1, <1>2, <3>1, <4>1
        <3> QED BY <1>1, <3>1, <3>2
    <2>2. ASSUME i = Len(s), Len(s) < count PROVE i \in E
        <3>1. i \in 0..(count - 1) /\ i < Len(S)
            BY <1>1, <2>2
        <3> QED BY <1>1, <1>3, <2>2, <3>1
    <2> QED BY <2>1, <2>2
<1>5. scu_memchr(S, Nul, count) = FirstOf(E)
    BY DEF scu_memchr
<1> HIDE DEF E
<1>6. CASE count <= Len(s)
    <2>1. E = {}
        BY <1>1, <1>4, <1>6
    <2> QED BY <1>5, <1>6, <2>1, FirstIs DEF S
<1>7. CASE ~(count <= Len(s))
    <2>1. Len(s) \in E /\ E \in SUBSET Nat /\ \A x \in E : Len(s) <= x
        BY <1>1, <1>4, <1>7
    <2>2. FirstOf(E) = Len(s)
        BY <2>1, FirstIsThat
    <2> QED BY <1>5, <1>7, <2>2 DEF S
<1> QED BY <1>6, <1>7

LEMMA SameLength ==
    ASSUME NEW m \in Nat, NEW n \in Nat, 1..m = 1..n
    PROVE  m = n
OBVIOUS

\* A block after n bytes were copied into it.
LEMMA MemcpyIs ==
    ASSUME NEW d \in Seq(Bytes), NEW l \in Nat, NEW s \in Seq(Bytes), NEW n \in 0..Len(s)
    PROVE  LET c == scu_memcpy(d, l, s, n)
           IN  /\ c \in Seq(Bytes) /\ Len(c) = Len(d)
               /\ \A j \in 1..Len(d) : j <= l => c[j] = d[j]
               /\ \A j \in 1..n : l + j <= Len(d) => c[l + j] = s[j]
<1> DEFINE c == scu_memcpy(d, l, s, n)
<1>1. Len(d) \in Nat /\ DOMAIN d = 1..Len(d) /\ Len(s) \in Nat
      /\ \A j \in 1..Len(d) : d[j] \in Bytes
    BY LenProperties, ElementOfSeq
<1>2. c = [j \in 1..Len(d) |-> IF j - l \in 1..n THEN s[j - l] ELSE d[j]]
    BY <1>1 DEF scu_memcpy
<1> HIDE DEF c
<1>3. \A j \in 1..Len(d) : c[j] \in Bytes
    <2> SUFFICES ASSUME NEW j \in 1..Len(d) PROVE c[j] \in Bytes
        OBVIOUS
    <2>1. CASE j - l \in 1..n
        <3>1. j - l \in 1..Len(s)
            BY <1>1, <2>1
        <3>2. s[j - l] \in Bytes
            BY <3>1, ElementOfSeq
        <3> QED BY <1>2, <2>1, <3>2
    <2>2. CASE ~(j - l \in 1..n)
        BY <1>1, <1>2, <2>2
    <2> QED BY <2>1, <2>2
<1>4. c \in [1..Len(d) -> Bytes]
    BY <1>2, <1>3
<1>5. c \in Seq(Bytes) /\ Len(c) = Len(d)
    <2>1. c \in UNION {[1..m -> Bytes] : m \in Nat}
        BY <1>1, <1>4
    <2>2. c \in Seq(Bytes)
        BY <2>1, SeqDef
    <2>3. DOMAIN c = 1..Len(c) /\ DOMAIN c = 1..Len(d) /\ Len(c) \in Nat /\ Len(d) \in Nat
        BY <1>1, <1>4, <2>2, LenProperties
    <2>4. Len(c) = Len(d)
        BY <2>3, SameLength
    <2> QED BY <2>2, <2>4
<1>6. \A j \in 1..Len(d) : j <= l => c[j] = d[j]
    <2> SUFFICES ASSUME NEW j \in 1..Len(d), j <= l PROVE c[j] = d[j]
        OBVIOUS
    <2>1. ~(j - l \in 1..n)
        BY <1>1
    <2> QED BY <1>2, <2>1
<1>7. \A j \in 1..n : l + j <= Len(d) => c[l + j] = s[j]
    <2> SUFFICES ASSUME NEW j \in 1..n, l + j <= Len(d) PROVE c[l + j] = s[j]
        OBVIOUS
    <2>1. l + j \in 1..Len(d) /\ (l + j) - l = j
        BY <1>1
    <2> QED BY <1>2, <2>1
<1> QED BY <1>5, <1>6, <1>7 DEF c

\* At most n bytes of the string s behind the first l bytes of a block, in which there is room
\* for a NUL behind them: what scu_memccpy leaves, and what is put behind it when it copies no NUL.
IsCopy(d, l, s, n) ==
    LET copied == scu_memccpy(d, l, Terminated(s), Nul, n)
        k == Min({n, Len(s)})
        e == IF copied.p = -1 THEN [copied.dest EXCEPT ![l + n + 1] = Nul] ELSE copied.dest
    IN  /\ k \in Nat /\ k <= n /\ k <= Len(s)
        /\ copied.p = -1 <=> n <= Len(s)
        /\ copied.p # -1 => copied.p = l + k + 1
        /\ n <= Len(s) => k = n
        /\ e \in Seq(Bytes) /\ Len(e) = Len(d)
        /\ \A j \in 1..l : e[j] = d[j]
        /\ \A j \in 1..k : e[l + j] = s[j]
        /\ e[l + k + 1] = Nul

LEMMA CopyString ==
    ASSUME NEW d \in Seq(Bytes), NEW l \in Nat, NEW s \in Seq(Bytes), Nul \notin Range(s),
           NEW n \in Nat, l + n < Len(d)
    PROVE  IsCopy(d, l, s, n)
<1> DEFINE S == Terminated(s)
           copied == scu_memccpy(d, l, S, Nul, n)
           k == Min({n, Len(s)})
           e == IF copied.p = -1 THEN [copied.dest EXCEPT ![l + n + 1] = Nul] ELSE copied.dest
           i == scu_memchr(S, Nul, n)
           m == IF i = -1 THEN n ELSE i + 1
           c == scu_memcpy(d, l, S, m)
<1>1. /\ S \in Seq(Bytes) /\ Len(S) = Len(s) + 1 /\ S[Len(s) + 1] = Nul /\ Len(s) \in Nat
      /\ \A j \in 1..Len(s) : S[j] = s[j]
    BY TerminatedIs, BytesAre
<1>2. i = IF n <= Len(s) THEN -1 ELSE Len(s)
    BY MemchrNul
<1>3. Len(d) \in Nat
    BY LenProperties
<1>4. k = IF n <= Len(s) THEN n ELSE Len(s)
    BY <1>1, MinIs, SMTT(20)
<1>5. copied.dest = c /\ copied.p = IF i = -1 THEN -1 ELSE l + i + 1
    BY DEF scu_memccpy
<1> HIDE DEF S, i, k, copied
<1>6. m \in 0..Len(S) /\ m <= n /\ m \in Nat
    BY <1>1, <1>2
<1> HIDE DEF m
<1>7. /\ c \in Seq(Bytes) /\ Len(c) = Len(d)
      /\ \A j \in 1..Len(d) : j <= l => c[j] = d[j]
      /\ \A j \in 1..m : l + j <= Len(d) => c[l + j] = S[j]
    <2>1. S \in Seq(Bytes) /\ m \in 0..Len(S)
        BY <1>1, <1>6
    <2>2. /\ scu_memcpy(d, l, S, m) \in Seq(Bytes) /\ Len(scu_memcpy(d, l, S, m)) = Len(d)
          /\ \A j \in 1..Len(d) : j <= l => scu_memcpy(d, l, S, m)[j] = d[j]
          /\ \A j \in 1..m : l + j <= Len(d) => scu_memcpy(d, l, S, m)[l + j] = S[j]
        BY <2>1, MemcpyIs
    <2> QED BY <2>2
<1> HIDE DEF c
<1>8. /\ \A j \in 1..l : c[j] = d[j]
      /\ \A j \in 1..m : c[l + j] = S[j]
    BY <1>3, <1>6, <1>7
<1>9. k \in Nat /\ k <= n /\ k <= Len(s)
    BY <1>1, <1>4
<1>10. CASE n <= Len(s)
    <2>1. i = -1 /\ k = n /\ m = n
        BY <1>2, <1>4, <1>10 DEF m
    <2>2. copied.p = -1 /\ e = [c EXCEPT ![l + n + 1] = Nul]
        BY <1>5, <2>1
    <2>3. l + n + 1 \in 1..Len(d) /\ l + n + 1 = l + k + 1
        BY <1>3, <2>1
    <2>4. c \in [1..Len(d) -> Bytes] /\ Nul \in Bytes
        BY <1>7, LenProperties, BytesAre
    <2> HIDE DEF e
    <2>5. e \in [1..Len(d) -> Bytes] /\ e[l + n + 1] = Nul
          /\ \A j \in 1..Len(d) : j # l + n + 1 => e[j] = c[j]
        BY <2>2, <2>3, <2>4
    <2>6. e \in Seq(Bytes) /\ Len(e) = Len(d)
        <3>1. e \in UNION {[1..q -> Bytes] : q \in Nat}
            BY <1>3, <2>5
        <3>2. e \in Seq(Bytes)
            BY <3>1, SeqDef
        <3>3. DOMAIN e = 1..Len(e) /\ DOMAIN e = 1..Len(d) /\ Len(e) \in Nat
            BY <2>5, <3>2, LenProperties
        <3>4. Len(e) = Len(d)
            BY <1>3, <3>3, SameLength
        <3> QED BY <3>2, <3>4
    <2>7. \A j \in 1..l : e[j] = d[j]
        <3> SUFFICES ASSUME NEW j \in 1..l PROVE e[j] = d[j]
            OBVIOUS
        <3>1. j \in 1..Len(d) /\ j # l + n + 1
            BY <1>3
        <3> QED BY <1>8, <2>5, <3>1
    <2>8. \A j \in 1..k : e[l + j] = s[j]
        <3> SUFFICES ASSUME NEW j \in 1..k PROVE e[l + j] = s[j]
            OBVIOUS
        <3>1. l + j \in 1..Len(d) /\ l + j # l + n + 1 /\ j \in 1..m /\ j \in 1..Len(s)
            BY <1>1, <1>3, <1>10, <2>1
        <3> QED BY <1>1, <1>8, <2>5, <3>1
    <2> QED BY <1>9, <1>10, <2>1, <2>2, <2>3, <2>5, <2>6, <2>7, <2>8 DEF IsCopy, e, copied, k, S
<1>11. CASE ~(n <= Len(s))
    <2>1. i = Len(s) /\ k = Len(s) /\ m = Len(s) + 1 /\ i # -1
        BY <1>1, <1>2, <1>4, <1>11 DEF m
    <2>2. copied.p = l + k + 1 /\ copied.p # -1 /\ e = c
        BY <1>5, <1>9, <2>1
    <2> HIDE DEF e
    <2>3. \A j \in 1..k : e[l + j] = s[j]
        <3> SUFFICES ASSUME NEW j \in 1..k PROVE e[l + j] = s[j]
            OBVIOUS
        <3>1. j \in 1..m /\ j \in 1..Len(s)
            BY <1>1, <2>1
        <3> QED BY <1>1, <1>8, <2>2, <3>1
    <2>4. e[l + k + 1] = Nul
        <3>1. k + 1 \in 1..m /\ l + (k + 1) = l + k + 1
            BY <1>9, <2>1
        <3> QED BY <1>1, <1>8, <2>1, <2>2, <3>1
    <2>5. copied.p = -1 <=> n <= Len(s)
        BY <1>11, <2>2
    <2>6. e \in Seq(Bytes) /\ Len(e) = Len(d) /\ \A j \in 1..l : e[j] = d[j]
        BY <1>7, <1>8, <2>2
    <2> QED BY <1>9, <1>11, <2>2, <2>3, <2>4, <2>5, <2>6 DEF IsCopy, e, copied, k, S
<1> QED BY <1>10, <1>11

\* The string of a block that begins with the bytes a, then k bytes of s, then a NUL.
Holds(e, a, s, k) ==
    /\ Len(a) + k < Len(e)
    /\ \A j \in 1..Len(a) : e[j] = a[j]
    /\ \A j \in 1..k : e[Len(a) + j] = s[j]
    /\ e[Len(a) + k + 1] = Nul

\* The string of a block is c.
HoldsString(e, c) ==
    /\ Nul \in Range(e) /\ StringIn(e) = c
    /\ c \in Seq(Bytes) /\ Len(c) < Len(e) /\ Nul \notin Range(c)

LEMMA CopiedString ==
    ASSUME NEW a \in Seq(Bytes), Nul \notin Range(a), NEW s \in Seq(Bytes), Nul \notin Range(s),
           NEW k \in 0..Len(s), NEW e \in Seq(Bytes), Holds(e, a, s, k)
    PROVE  HoldsString(e, a \o Take(s, k))
<1> DEFINE t == Take(s, k)
           c == a \o t
<1>0. /\ Len(a) + k < Len(e)
      /\ \A j \in 1..Len(a) : e[j] = a[j]
      /\ \A j \in 1..k : e[Len(a) + j] = s[j]
      /\ e[Len(a) + k + 1] = Nul
    BY DEF Holds
<1>1. /\ t \in Seq(Bytes) /\ Len(t) = k /\ \A j \in 1..k : t[j] = s[j]
    BY TakeIs
<1>2. Nul \notin Range(t)
    BY LacksPart
<1>3. Len(a) \in Nat /\ Len(e) \in Nat /\ k \in Nat
    BY LenProperties
<1> HIDE DEF t
<1>4. a \in Seq(Bytes) /\ Nul \notin Range(a) /\ t \in Seq(Bytes)
    BY <1>1
<1>5. /\ c \in Seq(Bytes) /\ Len(c) = Len(a) + Len(t)
      /\ \A j \in 1..Len(a) : c[j] = a[j]
      /\ \A j \in 1..Len(t) : c[Len(a) + j] = t[j]
    BY <1>4, ConcatIs
<1>6. Nul \notin Range(c)
    BY <1>1, <1>2, <1>4, LacksConcat
<1> HIDE DEF c
<1>7. \A j \in 1..Len(c) : e[j] = c[j]
    <2> SUFFICES ASSUME NEW j \in 1..Len(c) PROVE e[j] = c[j]
        OBVIOUS
    <2>1. CASE j <= Len(a)
        <3>1. j \in 1..Len(a)
            BY <1>1, <1>3, <1>5, <2>1
        <3> QED BY <1>0, <1>5, <3>1
    <2>2. CASE j > Len(a)
        <3>1. j - Len(a) \in 1..k /\ Len(a) + (j - Len(a)) = j
            BY <1>1, <1>3, <1>5, <2>2
        <3>2. e[j] = s[j - Len(a)] /\ c[j] = t[j - Len(a)] /\ t[j - Len(a)] = s[j - Len(a)]
            BY <1>0, <1>1, <1>5, <3>1
        <3> QED BY <3>2
    <2>3. j <= Len(a) \/ j > Len(a)
        BY <1>1, <1>3, <1>5
    <2> QED BY <2>1, <2>2, <2>3, Zenon
<1>8. Len(c) = Len(a) + k /\ Len(c) < Len(e) /\ e[Len(c) + 1] = Nul
    BY <1>0, <1>1, <1>3, <1>5
<1>9. Nul \in Range(e) /\ StringIn(e) = c
    BY <1>5, <1>6, <1>7, <1>8, StringOf
<1> QED BY <1>5, <1>6, <1>8, <1>9 DEF HoldsString, c, t

LEMMA BlockIs ==
    ASSUME Typed
    PROVE  /\ Block \in Seq(Bytes) /\ Len(Block) = size
           /\ \A j \in 1..Len(text) : Block[j] = text[j]
<1>1. /\ text \in Seq(Bytes) /\ Len(text) \in Nat /\ size \in Nat /\ Len(text) <= size
    BY TypedIs DEF Typed
<1> DEFINE m == size - Len(text)
           f == [j \in 1..m |-> Newline]
<1>2. m \in Nat
    BY <1>1
<1>3. f \in [1..m -> Bytes]
    BY BytesAre
<1> HIDE DEF f, m
<1>4. f \in Seq(Bytes) /\ Len(f) = m
    <2>1. f \in UNION {[1..q -> Bytes] : q \in Nat}
        BY <1>2, <1>3
    <2>2. f \in Seq(Bytes)
        BY <2>1, SeqDef
    <2>3. DOMAIN f = 1..Len(f) /\ DOMAIN f = 1..m /\ Len(f) \in Nat
        BY <1>3, <2>2, LenProperties
    <2>4. Len(f) = m
        BY <1>2, <2>3, SameLength
    <2> QED BY <2>2, <2>4
<1>5. /\ text \o f \in Seq(Bytes) /\ Len(text \o f) = Len(text) + Len(f)
      /\ \A j \in 1..Len(text) : (text \o f)[j] = text[j]
    BY <1>1, <1>4, ConcatIs
<1>6. Block = text \o f
    BY DEF Block, f, m
<1>7. Len(text) + m = size
    BY <1>1 DEF m
<1> QED BY <1>4, <1>5, <1>6, <1>7

\* The buffer after scu_strncpy: as much of the text as fits, and its number.
LEMMA StrncpyIs ==
    ASSUME Typed, size > 0, NEW src \in Seq(Bytes), Nul \notin Range(src), NEW count \in Nat
    PROVE  LET r == scu_strncpy(Block, size, Terminated(src), count)
               k == Min({Min({size - 1, count}), Len(src)})
           IN  /\ k \in 0..Len(src) /\ k < size /\ r.result = k
               /\ r.dest \in Seq(Bytes) /\ Len(r.dest) = size /\ Nul \in Range(r.dest)
               /\ StringIn(r.dest) = Take(src, k)
<1> DEFINE r == scu_strncpy(Block, size, Terminated(src), count)
           n == Min({size - 1, count})
           k == Min({n, Len(src)})
           copied == scu_memccpy(Block, 0, Terminated(src), Nul, n)
           e == IF copied.p = -1 THEN [copied.dest EXCEPT ![n + 1] = Nul] ELSE copied.dest
<1>1. /\ size \in Nat /\ Len(src) \in Nat /\ size - 1 \in Nat
      /\ Block \in Seq(Bytes) /\ Len(Block) = size
    BY TypedIs, BlockIs, LenProperties
<1>2. n = IF size - 1 <= count THEN size - 1 ELSE count
    BY <1>1, MinIs
<1>3. r = IF copied.p = -1 \/ n = 0
          THEN [dest |-> [copied.dest EXCEPT ![n + 1] = Nul], result |-> n]
          ELSE [dest |-> copied.dest, result |-> copied.p - 1]
    BY <1>1 DEF scu_strncpy
<1> HIDE DEF n
<1>4. n \in Nat /\ 0 + n < Len(Block) /\ 0 + n + 1 = n + 1 /\ n < size
    BY <1>1, <1>2
<1>5. /\ k \in Nat /\ k <= n /\ k <= Len(src)
      /\ copied.p = -1 <=> n <= Len(src)
      /\ copied.p # -1 => copied.p = 0 + k + 1
      /\ n <= Len(src) => k = n
      /\ e \in Seq(Bytes) /\ Len(e) = Len(Block)
      /\ \A j \in 1..k : e[0 + j] = src[j]
      /\ e[0 + k + 1] = Nul
    <2> DEFINE f == IF copied.p = -1 THEN [copied.dest EXCEPT ![0 + n + 1] = Nul] ELSE copied.dest
    <2>1. f = e
        BY <1>4
    <2>2. /\ k \in Nat /\ k <= n /\ k <= Len(src)
          /\ copied.p = -1 <=> n <= Len(src)
          /\ copied.p # -1 => copied.p = 0 + k + 1
          /\ n <= Len(src) => k = n
          /\ f \in Seq(Bytes) /\ Len(f) = Len(Block)
          /\ \A j \in 1..k : f[0 + j] = src[j]
          /\ f[0 + k + 1] = Nul
        <3>1. IsCopy(Block, 0, src, n)
            BY <1>1, <1>4, CopyString
        <3> QED BY <3>1 DEF IsCopy
    <2> HIDE DEF f, e, k, copied
    <2> QED BY <2>1, <2>2
<1>10. e = IF copied.p = -1 THEN [copied.dest EXCEPT ![n + 1] = Nul] ELSE copied.dest
    OBVIOUS
<1> HIDE DEF r, k, e, copied
<1>6. r.dest = e /\ r.result = k
    <2>1. CASE copied.p = -1
        BY <1>1, <1>3, <1>5, <1>10, <2>1
    <2>2. CASE copied.p # -1
        <3>1. n # 0
            <4>1. ~(n <= Len(src))
                BY <1>5, <2>2
            <4> QED BY <1>1, <4>1
        <3>2. copied.p - 1 = k
            BY <1>5, <2>2
        <3> QED BY <1>3, <1>10, <2>2, <3>1, <3>2
    <2> QED BY <2>1, <2>2
<1>7. k \in 0..Len(src) /\ k < size
    BY <1>1, <1>4, <1>5
<1>8. Nul \in Range(e) /\ StringIn(e) = <<>> \o Take(src, k)
    <2> DEFINE z == <<>>
    <2>1. z \in Seq(Bytes) /\ Len(z) = 0 /\ Nul \notin Range(z)
        BY EmptyIs, EmptyString
    <2> HIDE DEF z
    <2>2. Holds(e, z, src, k)
        BY <1>1, <1>5, <1>7, <2>1 DEF Holds
    <2>3. Nul \in Range(e) /\ StringIn(e) = z \o Take(src, k)
        <3>1. /\ src \in Seq(Bytes) /\ Nul \notin Range(src) /\ e \in Seq(Bytes)
              /\ k \in 0..Len(src)
            BY <1>5, <1>7
        <3>2. HoldsString(e, z \o Take(src, k))
            BY <2>1, <2>2, <3>1, CopiedString
        <3> QED BY <3>2 DEF HoldsString
    <2> QED BY <2>3 DEF z
<1>9. <<>> \o Take(src, k) = Take(src, k)
    BY <1>7, TakeIs, EmptyIs
<1> QED BY <1>1, <1>5, <1>6, <1>7, <1>8, <1>9 DEF r, k, n

\* The buffer after scu_strncat: its string, and behind it as much of the text as fits.
LEMMA StrncatIs ==
    ASSUME Typed, Nul \in Range(text), NEW src \in Seq(Bytes), Nul \notin Range(src),
           NEW count \in Nat
    PROVE  LET r == scu_strncat(Block, size, Terminated(src), count)
               kept == StringIn(text)
               k == Min({Min({size - Len(kept) - 1, count}), Len(src)})
           IN  /\ k \in 0..Len(src) /\ Len(kept) + k < size /\ kept \in Seq(Bytes)
               /\ r.dest \in Seq(Bytes) /\ Len(r.dest) = size
               /\ HoldsString(r.dest, kept \o Take(src, k))
<1> DEFINE kept == StringIn(text)
           l == Len(kept)
           n == Min({size - l - 1, count})
           k == Min({n, Len(src)})
           r == scu_strncat(Block, size, Terminated(src), count)
           copied == scu_memccpy(Block, l, Terminated(src), Nul, n)
           e == IF copied.p = -1 THEN [copied.dest EXCEPT ![l + n + 1] = Nul] ELSE copied.dest
<1>1. /\ size \in Nat /\ Len(src) \in Nat /\ Len(text) \in Nat /\ Len(text) <= size
      /\ text \in Seq(Bytes) /\ Block \in Seq(Bytes) /\ Len(Block) = size
      /\ \A j \in 1..Len(text) : Block[j] = text[j]
    BY TypedIs, BlockIs, LenProperties DEF Typed
<1>2. /\ kept \in Seq(Bytes) /\ Nul \notin Range(kept) /\ l \in Nat /\ l < Len(text)
      /\ l = scu_strlen(text) /\ kept = Take(text, l)
    BY <1>1, StringInIs
<1>3. text[l + 1] = Nul /\ \A j \in 1..l : text[j] # Nul
    BY <1>1, <1>2, StrlenIs
<1>4. \A j \in 1..l : kept[j] = text[j] /\ Block[j] = text[j]
    <2>1. l \in 0..Len(text)
        BY <1>1, <1>2
    <2>2. \A j \in 1..l : Take(text, l)[j] = text[j]
        BY <1>1, <2>1, TakeIs
    <2>3. \A j \in 1..l : j \in 1..Len(text)
        BY <1>1, <1>2
    <2> QED BY <1>1, <1>2, <2>2, <2>3
<1> HIDE DEF l, kept
<1>5. Block[l + 1] = Nul /\ \A j \in 1..l : Block[j] # Nul
    <2>1. l + 1 \in 1..Len(text)
        BY <1>1, <1>2
    <2> QED BY <1>1, <1>3, <1>4, <2>1
<1>6. scu_strlen(Block) = l
    <2>1. l < Len(Block)
        BY <1>1, <1>2
    <2> QED BY <1>1, <1>2, <1>5, <2>1, StrlenIsThat
<1>7. size - l - 1 \in Nat
    BY <1>1, <1>2
<1>8. n = IF size - l - 1 <= count THEN size - l - 1 ELSE count
    BY <1>7, MinIs
<1>9. size # 0
    BY <1>1, <1>2
<1>10. r = IF count = 0 \/ n = 0 THEN [dest |-> Block, result |-> 0]
           ELSE IF copied.p = -1
                THEN [dest |-> [copied.dest EXCEPT ![l + n + 1] = Nul], result |-> n]
           ELSE [dest |-> copied.dest, result |-> copied.p + l - 1]
    BY <1>6, <1>9 DEF scu_strncat
<1>11. r.dest = IF count = 0 \/ n = 0 THEN Block ELSE e
    BY <1>10
<1> HIDE DEF n, r
<1>12. n \in Nat /\ l + n < Len(Block) /\ n <= count
    BY <1>1, <1>2, <1>7, <1>8
<1>13. IsCopy(Block, l, src, n)
    BY <1>1, <1>2, <1>12, CopyString
<1>14. /\ k \in Nat /\ k <= n /\ k <= Len(src)
       /\ e \in Seq(Bytes) /\ Len(e) = size
       /\ \A j \in 1..l : e[j] = Block[j]
       /\ \A j \in 1..k : e[l + j] = src[j]
       /\ e[l + k + 1] = Nul
    BY <1>1, <1>13 DEF IsCopy
<1> HIDE DEF e, k, copied
<1>15. k \in 0..Len(src) /\ l + k < size
    BY <1>1, <1>2, <1>12, <1>14
<1>16. Holds(r.dest, kept, src, k) /\ r.dest \in Seq(Bytes) /\ Len(r.dest) = size
    <2>1. CASE count = 0 \/ n = 0
        <3>1. r.dest = Block /\ k = 0 /\ l + 0 + 1 = l + 1 /\ l + 0 = l
            BY <1>2, <1>11, <1>12, <1>14, <2>1
        <3>2. Holds(Block, kept, src, 0)
            BY <1>1, <1>2, <1>4, <1>5, <1>15, <3>1 DEF Holds, l
        <3> QED BY <1>1, <3>1, <3>2
    <2>2. CASE ~(count = 0 \/ n = 0)
        <3>1. r.dest = e
            BY <1>11, <2>2
        <3>2. Holds(e, kept, src, k)
            BY <1>4, <1>14, <1>15 DEF Holds, l
        <3> QED BY <1>14, <3>1, <3>2
    <2> QED BY <2>1, <2>2
<1>17. src \in Seq(Bytes) /\ Nul \notin Range(src)
    OBVIOUS
<1>18. HoldsString(r.dest, kept \o Take(src, k))
    BY <1>2, <1>15, <1>16, <1>17, CopiedString
<1> QED BY <1>2, <1>15, <1>16, <1>18 DEF kept, l, n, k, r

\* The bounded copies, with the string that they leave.
LEMMA CopyIs ==
    ASSUME IInv, NEW op \in {"strncpy", "strncat"}, NEW src \in Texts, NEW count \in Counts, NEW r,
           Copy(op, r, src, count),
           r.dest \in Seq(Bytes), Len(r.dest) = size, NEW c, HoldsString(r.dest, c)
    PROVE  IInv' /\ Nul \in Range(text') /\ StringIn(text') = c
           /\ last'.op = op /\ last'.number = r.result
           /\ last'.given = Take(src, Min({count, Len(src)}))
<1>1. /\ Strings /\ size' = size /\ used' = 0 /\ last'.op = op /\ last'.number = r.result
      /\ last'.given = Take(src, Min({count, Len(src)}))
    BY DEF Copy, AnswerTo
<1>2. Nul \in Range(r.dest) /\ StringIn(r.dest) = c
      /\ c \in Seq(Bytes) /\ Len(c) < Len(r.dest) /\ Nul \notin Range(c)
    BY DEF HoldsString
<1>3. text' = Terminated(c)
    BY <1>2 DEF Copy
<1>4. text' \in Seq(Bytes) /\ Len(text') = Len(c) + 1 /\ Nul \in Range(text') /\ Len(c) \in Nat
    BY <1>2, <1>3, TextIs
<1>5. StringIn(text') = c
    BY <1>2, <1>3, StringInString, BytesAre
<1>6. size \in Nat /\ size \in 0..MaxSize
    BY TypedIs DEF IInv, Typed
<1>7. Len(text') <= size'
    BY <1>1, <1>2, <1>4, <1>6
<1>8. IInv'
    BY <1>1, <1>4, <1>6, <1>7, StringCall
<1> QED BY <1>1, <1>4, <1>5, <1>8

\* How much of the text the client's limit and the room leave.
LEMMA Limits ==
    ASSUME NEW s \in Seq(Bytes), NEW count \in Nat, NEW room \in Nat
    PROVE  LET given == Take(s, Min({count, Len(s)}))
               k == Min({Min({room, count}), Len(s)})
           IN  /\ Take(s, k) = Take(given, Min({room, Len(given)})) /\ Len(Take(s, k)) = k
               /\ given \in Seq(Bytes)
<1> DEFINE g == Min({count, Len(s)})
           given == Take(s, g)
           h == Min({room, count})
           k == Min({h, Len(s)})
           m == Min({room, Len(given)})
<1>1. Len(s) \in Nat
    BY LenProperties
<1>2. g = IF count <= Len(s) THEN count ELSE Len(s)
    BY <1>1, MinIs
<1>3. h = IF room <= count THEN room ELSE count
    BY MinIs
<1> HIDE DEF g, h
<1>4. g \in 0..Len(s) /\ g \in Nat /\ h \in Nat
    BY <1>1, <1>2, <1>3
<1>5. given \in Seq(Bytes) /\ Len(given) = g /\ \A j \in 1..g : given[j] = s[j]
    BY <1>4, TakeIs
<1>6. k = IF h <= Len(s) THEN h ELSE Len(s)
    BY <1>1, <1>4, MinIs
<1> HIDE DEF k, given
<1>7. m = IF room <= g THEN room ELSE g
    BY <1>4, <1>5, MinIs
<1> HIDE DEF m
<1>8. m = k /\ k \in 0..Len(s) /\ k \in 0..g
    BY <1>1, <1>2, <1>3, <1>6, <1>7
<1>9. Take(s, k) = Take(given, k) /\ Len(Take(s, k)) = k
    <2> DEFINE a == Take(s, k)
               b == Take(given, k)
    <2>1. a \in Seq(Bytes) /\ Len(a) = k /\ \A j \in 1..k : a[j] = s[j]
        BY <1>8, TakeIs
    <2>2. k \in 0..Len(given)
        BY <1>5, <1>8
    <2>3. b \in Seq(Bytes) /\ Len(b) = k /\ \A j \in 1..k : b[j] = given[j]
        BY <1>5, <2>2, TakeIs
    <2> HIDE DEF a, b
    <2>4. \A j \in 1..k : j \in 1..g
        BY <1>4, <1>8
    <2>5. \A j \in 1..Len(a) : a[j] = b[j]
        BY <1>5, <2>1, <2>3, <2>4
    <2>6. a = b
        BY <2>1, <2>3, <2>5, SeqEqual
    <2> QED BY <2>1, <2>6 DEF a, b
<1> QED BY <1>5, <1>8, <1>9 DEF g, h, k, m, given

--------------------------------------------------------------------------------
(* Comparisons *)

\* The bytes of a string, without its NUL.
IsText(s) == s \in Seq(Bytes) /\ Nul \notin Range(s)

LEMMA BytesOfText ==
    ASSUME NEW s, IsText(s)
    PROVE  LET T == Terminated(s)
           IN  /\ Len(s) \in Nat /\ scu_strlen(T) = Len(s) /\ Len(T) = Len(s) + 1
               /\ \A j \in 0..(Len(s) - 1) : At(T, j) = s[j + 1] /\ At(T, j) \in Nat \ {Nul}
               /\ At(T, Len(s)) = Nul
<1>1. /\ s \in Seq(Bytes) /\ Nul \notin Range(s) /\ Nul \in Bytes /\ Bytes \subseteq Nat
      /\ Len(s) \in Nat
    BY BytesAre, LenProperties DEF IsText
<1>2. /\ Terminated(s) \in Seq(Bytes) /\ Len(Terminated(s)) = Len(s) + 1
      /\ \A j \in 1..Len(s) : Terminated(s)[j] = s[j]
      /\ Terminated(s)[Len(s) + 1] = Nul
    BY <1>1, TerminatedIs
<1>3. scu_strlen(Terminated(s)) = Len(s)
    BY <1>1, StringInString
<1>4. \A j \in 1..Len(s) : s[j] \in Bytes /\ s[j] # Nul
    BY <1>1, Lacks, ElementOfSeq
<1>5. ASSUME NEW j \in 0..(Len(s) - 1)
      PROVE  At(Terminated(s), j) = s[j + 1] /\ At(Terminated(s), j) \in Nat \ {Nul}
    <2>1. j + 1 \in 1..Len(s)
        BY <1>1
    <2> QED BY <1>1, <1>2, <1>4, <2>1 DEF At
<1>6. At(Terminated(s), Len(s)) = Nul
    BY <1>2 DEF At
<1> QED BY <1>1, <1>2, <1>3, <1>5, <1>6

LEMMA SignIs ==
    ASSUME NEW n \in Int
    PROVE  /\ Sign(n) = 0 <=> n = 0
           /\ Sign(n) <= 0 <=> n <= 0
           /\ Sign(n) \in {-1, 0, 1}
BY DEF Sign

\* The indexes below k where two blocks differ.
Differ(l, r, k) == {j \in 0..(k - 1) : At(l, j) # At(r, j)}

LEMMA MemcmpIs ==
    ASSUME NEW l, NEW r, NEW k \in Nat, \A j \in 0..(k - 1) : At(l, j) \in Nat /\ At(r, j) \in Nat
    PROVE  /\ scu_memcmp(l, r, k) \in {-1, 0, 1}
           /\ scu_memcmp(l, r, k) = 0 <=> Differ(l, r, k) = {}
           /\ scu_memcmp(l, r, k) = -scu_memcmp(r, l, k)
           /\ Differ(l, r, k) # {} =>
                 \E i \in Differ(l, r, k) : /\ \A j \in Differ(l, r, k) : i <= j
                                            /\ scu_memcmp(l, r, k) = Sign(At(l, i) - At(r, i))
<1> DEFINE D == Differ(l, r, k)
           i == FirstOf(D)
           x == At(l, i) - At(r, i)
           y == At(r, i) - At(l, i)
<1>1. Differ(r, l, k) = D /\ D \in SUBSET Nat
    BY DEF Differ
<1>2. scu_memcmp(l, r, k) = IF i = -1 THEN 0 ELSE Sign(x)
    BY DEF scu_memcmp, Differ
<1>3. scu_memcmp(r, l, k) = IF i = -1 THEN 0 ELSE Sign(y)
    BY <1>1 DEF scu_memcmp, Differ
<1>4. D = {} => i = -1
    BY <1>1, FirstIs
<1>5. D # {} => i \in D /\ \A j \in D : i <= j
    BY <1>1, FirstIs
<1>6. D # {} => x \in Int /\ y \in Int /\ x # 0 /\ y = -x /\ i \in Nat
    <2>1. \A j \in D : j \in 0..(k - 1) /\ At(l, j) # At(r, j)
        BY DEF Differ
    <2> HIDE DEF D, i
    <2>2. D # {} => i \in Nat /\ At(l, i) \in Nat /\ At(r, i) \in Nat /\ At(l, i) # At(r, i)
        BY <1>5, <2>1
    <2> QED BY <2>2
<1> HIDE DEF D, i, x, y
<1>7. CASE D = {}
    <2>1. scu_memcmp(l, r, k) = 0 /\ scu_memcmp(r, l, k) = 0
        BY <1>2, <1>3, <1>4, <1>7
    <2>2. \A a, b \in Int : a + b = 0 => a = -b
        OBVIOUS
    <2>3. 0 \in Int /\ 0 + 0 = 0 /\ 0 \in {-1, 0, 1}
        OBVIOUS
    <2>4. scu_memcmp(l, r, k) = -scu_memcmp(r, l, k) /\ scu_memcmp(l, r, k) \in {-1, 0, 1}
        BY <2>1, <2>2, <2>3, Zenon
    <2> QED BY <1>7, <2>1, <2>4, Zenon DEF D
<1>8. CASE D # {}
    <2>1. scu_memcmp(l, r, k) = Sign(x) /\ scu_memcmp(r, l, k) = Sign(y)
        BY <1>2, <1>3, <1>6, <1>8
    <2>2. Sign(x) = -Sign(y) /\ Sign(x) \in {-1, 1}
        BY <1>6, <1>8 DEF Sign
    <2>3. i \in D /\ (\A j \in D : i <= j) /\ scu_memcmp(l, r, k) = Sign(At(l, i) - At(r, i))
        BY <1>5, <1>8, <2>1 DEF x
    <2> QED BY <1>8, <2>1, <2>2, <2>3 DEF D
<1> QED BY <1>7, <1>8

\* Blocks that differ at the same indexes, and there in the same way.
LEMMA MemcmpSame ==
    ASSUME NEW l, NEW r, NEW k \in Nat, NEW m, NEW q, NEW h \in Nat,
           Differ(l, r, k) = Differ(m, q, h),
           \A j \in Differ(l, r, k) : At(l, j) = At(m, j) /\ At(r, j) = At(q, j)
    PROVE  scu_memcmp(l, r, k) = scu_memcmp(m, q, h)
<1> DEFINE D == Differ(l, r, k)
           i == FirstOf(D)
<1>1. D \in SUBSET Nat
    BY DEF Differ
<1>2. scu_memcmp(l, r, k) = IF i = -1 THEN 0 ELSE Sign(At(l, i) - At(r, i))
    BY DEF scu_memcmp, Differ
<1>3. scu_memcmp(m, q, h) = IF i = -1 THEN 0 ELSE Sign(At(m, i) - At(q, i))
    BY DEF scu_memcmp, Differ
<1>4. i = -1 \/ i \in D
    BY <1>1, FirstIs
<1> HIDE DEF i
<1> QED BY <1>2, <1>3, <1>4

LEMMA LeastOfThree ==
    ASSUME NEW a \in Nat, NEW b \in Nat, NEW c \in Nat
    PROVE  /\ Min({a, b, c}) \in {a, b, c}
           /\ Min({a, b, c}) <= a /\ Min({a, b, c}) <= b /\ Min({a, b, c}) <= c
<1>1. \E x \in {a, b, c} : \A y \in {a, b, c} : x <= y
    OBVIOUS
<1> QED BY <1>1 DEF Min

\* How many bytes of two strings a comparison looks at.
Compared(s, t, n) == Min({n, Len(s) + 1, Len(t) + 1})

LEMMA ComparedIs ==
    ASSUME NEW s, IsText(s), NEW t, IsText(t), NEW n \in Nat
    PROVE  LET S == Terminated(s)
               T == Terminated(t)
               k == Compared(s, t, n)
           IN  /\ scu_strncmp(S, T, n) = scu_memcmp(S, T, k)
               /\ k \in Nat /\ k \in {n, Len(s) + 1, Len(t) + 1}
               /\ k <= n /\ k <= Len(s) + 1 /\ k <= Len(t) + 1
               /\ \A j \in 0..(k - 1) : At(S, j) \in Nat /\ At(T, j) \in Nat
<1> DEFINE S == Terminated(s)
           T == Terminated(t)
           k == Compared(s, t, n)
<1>1. /\ Len(s) \in Nat /\ scu_strlen(S) = Len(s)
      /\ \A j \in 0..(Len(s) - 1) : At(S, j) \in Nat
      /\ At(S, Len(s)) = Nul
    BY BytesOfText
<1>2. /\ Len(t) \in Nat /\ scu_strlen(T) = Len(t)
      /\ \A j \in 0..(Len(t) - 1) : At(T, j) \in Nat
      /\ At(T, Len(t)) = Nul
    BY BytesOfText
<1>3. scu_strncmp(S, T, n) = scu_memcmp(S, T, k)
    BY <1>1, <1>2 DEF scu_strncmp, Compared
<1>4. /\ k \in {n, Len(s) + 1, Len(t) + 1}
      /\ k <= n /\ k <= Len(s) + 1 /\ k <= Len(t) + 1
    BY <1>1, <1>2, LeastOfThree DEF Compared
<1> HIDE DEF S, T, k
<1>5. k \in Nat
    BY <1>1, <1>2, <1>4
<1>6. \A j \in 0..(k - 1) : At(S, j) \in Nat /\ At(T, j) \in Nat
    BY <1>1, <1>2, <1>4, <1>5 DEF Nul
<1> QED BY <1>3, <1>4, <1>5, <1>6 DEF S, T, k

\* Strings that are the same up to the NUL of one of them.
LEMMA StrcmpIs ==
    ASSUME NEW s, IsText(s), NEW t, IsText(t)
    PROVE  LET S == Terminated(s)
               T == Terminated(t)
               k == Compared(s, t, Len(S) + Len(T))
           IN  /\ scu_strcmp(S, T) = scu_memcmp(S, T, k)
               /\ Len(s) <= Len(t) => k = Len(s) + 1
               /\ Len(t) <= Len(s) => k = Len(t) + 1
<1> DEFINE S == Terminated(s)
           T == Terminated(t)
           k == Compared(s, t, Len(S) + Len(T))
<1>1. Len(s) \in Nat /\ Len(t) \in Nat /\ Len(S) = Len(s) + 1 /\ Len(T) = Len(t) + 1
    BY BytesOfText
<1>2. Len(S) + Len(T) \in Nat
    BY <1>1
<1>3. /\ scu_strncmp(S, T, Len(S) + Len(T)) = scu_memcmp(S, T, k)
      /\ k \in Nat /\ k \in {Len(S) + Len(T), Len(s) + 1, Len(t) + 1}
      /\ k <= Len(S) + Len(T) /\ k <= Len(s) + 1 /\ k <= Len(t) + 1
    BY <1>2, ComparedIs
<1>4. scu_strcmp(S, T) = scu_memcmp(S, T, k)
    BY <1>3 DEF scu_strcmp
<1> HIDE DEF S, T, k
<1> QED BY <1>1, <1>3, <1>4 DEF S, T, k

\* scu_strcmp is 0 for equal strings only, and the mirror changes its sign.
LEMMA StrcmpOrders ==
    ASSUME NEW s, IsText(s), NEW t, IsText(t)
    PROVE  LET S == Terminated(s)
               T == Terminated(t)
           IN  /\ scu_strcmp(S, T) = -scu_strcmp(T, S)
               /\ scu_strcmp(S, T) = 0 <=> S = T
<1> DEFINE S == Terminated(s)
           T == Terminated(t)
           k == Compared(s, t, Len(S) + Len(T))
           h == Compared(t, s, Len(T) + Len(S))
<1>1. /\ Len(s) \in Nat /\ Len(S) = Len(s) + 1 /\ At(S, Len(s)) = Nul
      /\ \A j \in 0..(Len(s) - 1) : At(S, j) = s[j + 1] /\ At(S, j) \in Nat \ {Nul}
    BY BytesOfText
<1>2. /\ Len(t) \in Nat /\ Len(T) = Len(t) + 1 /\ At(T, Len(t)) = Nul
      /\ \A j \in 0..(Len(t) - 1) : At(T, j) = t[j + 1] /\ At(T, j) \in Nat \ {Nul}
    BY BytesOfText
<1>3. /\ scu_strcmp(S, T) = scu_memcmp(S, T, k)
      /\ Len(s) <= Len(t) => k = Len(s) + 1
      /\ Len(t) <= Len(s) => k = Len(t) + 1
    BY StrcmpIs
<1>4. /\ scu_strcmp(T, S) = scu_memcmp(T, S, h)
      /\ Len(t) <= Len(s) => h = Len(t) + 1
      /\ Len(s) <= Len(t) => h = Len(s) + 1
    BY StrcmpIs
<1>5. s \in Seq(Bytes) /\ t \in Seq(Bytes)
    BY DEF IsText
<1> HIDE DEF S, T, k, h
<1>6. h = k /\ k \in Nat /\ k <= Len(s) + 1 /\ k <= Len(t) + 1
    BY <1>1, <1>2, <1>3, <1>4
<1>7. \A j \in 0..(k - 1) : At(S, j) \in Nat /\ At(T, j) \in Nat
    BY <1>1, <1>2, <1>6 DEF Nul
<1>8. /\ scu_memcmp(S, T, k) = 0 <=> Differ(S, T, k) = {}
      /\ scu_memcmp(S, T, k) = -scu_memcmp(T, S, k)
    BY <1>6, <1>7, MemcmpIs
<1>9. ASSUME S = T PROVE Differ(S, T, k) = {}
    BY <1>9 DEF Differ
<1>10. ASSUME Differ(S, T, k) = {} PROVE S = T
    <2>1. \A j \in 0..(k - 1) : At(S, j) = At(T, j)
        BY <1>10 DEF Differ
    <2>2. Len(s) = Len(t)
        <3>1. CASE Len(s) < Len(t)
            <4>1. Len(s) \in 0..(k - 1) /\ Len(s) \in 0..(Len(t) - 1)
                BY <1>1, <1>2, <1>3, <3>1
            <4> QED BY <1>1, <1>2, <2>1, <4>1
        <3>2. CASE Len(t) < Len(s)
            <4>1. Len(t) \in 0..(k - 1) /\ Len(t) \in 0..(Len(s) - 1)
                BY <1>1, <1>2, <1>3, <3>2
            <4> QED BY <1>1, <1>2, <2>1, <4>1
        <3> QED BY <1>1, <1>2, <3>1, <3>2
    <2>3. ASSUME NEW j \in 1..Len(s) PROVE s[j] = t[j]
        <3>1. j - 1 \in 0..(k - 1) /\ j - 1 \in 0..(Len(s) - 1) /\ (j - 1) + 1 = j
            BY <1>1, <1>2, <1>3, <2>2
        <3>2. At(S, j - 1) = s[(j - 1) + 1] /\ At(T, j - 1) = t[(j - 1) + 1]
            BY <1>1, <1>2, <2>2, <3>1
        <3> QED BY <2>1, <3>1, <3>2
    <2>4. s = t
        BY <1>5, <2>2, <2>3, SeqEqual
    <2> QED BY <2>4 DEF S, T
<1> QED BY <1>3, <1>4, <1>6, <1>8, <1>9, <1>10 DEF S, T

\* t is what s begins with.
Begins(s, t) == Len(t) <= Len(s) /\ \A j \in 1..Len(t) : s[j] = t[j]

LEMMA StartsWith ==
    ASSUME NEW s, IsText(s), NEW t, IsText(t)
    PROVE  scu_str_starts_with_str(Terminated(s), Terminated(t)) <=> Begins(s, t)
<1> DEFINE S == Terminated(s)
           T == Terminated(t)
           m == Min({scu_strlen(S), scu_strlen(T)})
           D == {j \in 0..m : At(T, j) = Nul \/ At(S, j) # At(T, j)}
           i == Min(D)
<1>1. /\ Len(s) \in Nat /\ scu_strlen(S) = Len(s) /\ At(S, Len(s)) = Nul
      /\ \A j \in 0..(Len(s) - 1) : At(S, j) = s[j + 1] /\ At(S, j) \in Nat \ {Nul}
    BY BytesOfText
<1>2. /\ Len(t) \in Nat /\ scu_strlen(T) = Len(t) /\ At(T, Len(t)) = Nul
      /\ \A j \in 0..(Len(t) - 1) : At(T, j) = t[j + 1] /\ At(T, j) \in Nat \ {Nul}
    BY BytesOfText
<1>3. m = IF Len(s) <= Len(t) THEN Len(s) ELSE Len(t)
    BY <1>1, <1>2, MinIs, SMTT(20)
<1>4. scu_str_starts_with_str(S, T) <=> At(T, i) = Nul
    BY DEF scu_str_starts_with_str
<1> HIDE DEF S, T, m, i
<1>5. m \in Nat /\ m \in D
    <2>1. CASE Len(t) <= Len(s)
        BY <1>1, <1>2, <1>3, <2>1
    <2>2. CASE Len(s) < Len(t)
        <3>1. m = Len(s) /\ m \in 0..(Len(t) - 1)
            BY <1>1, <1>2, <1>3, <2>2
        <3> QED BY <1>1, <1>2, <3>1
    <2> QED BY <1>1, <1>2, <2>1, <2>2
<1>6. i \in D /\ \A j \in D : i <= j
    <2>1. D \in SUBSET Nat /\ D # {}
        BY <1>5
    <2> HIDE DEF D
    <2>2. \E x \in D : \A y \in D : x <= y
        BY <2>1, LeastMember
    <2> QED BY <2>2 DEF Min, i
<1>7. i \in 0..m /\ (At(T, i) = Nul \/ At(S, i) # At(T, i))
    BY <1>6
<1>8. \A j \in 0..m : j < i => At(S, j) = At(T, j)
    <2>1. ASSUME NEW j \in 0..m, j < i PROVE At(S, j) = At(T, j)
        <3>1. j \notin D
            <4> HIDE DEF D
            <4>1. i \in Nat /\ j \in Nat
                BY <1>5, <1>7
            <4> QED BY <1>6, <2>1, <4>1
        <3> QED BY <3>1
    <2> QED BY <2>1
<1> HIDE DEF D
<1>9. ASSUME At(T, i) = Nul PROVE Begins(s, t)
    <2>1. i = Len(t) /\ Len(t) <= Len(s)
        <3>1. i \notin 0..(Len(t) - 1)
            BY <1>2, <1>9
        <3> QED BY <1>1, <1>2, <1>3, <1>7, <3>1
    <2>2. ASSUME NEW j \in 1..Len(t) PROVE s[j] = t[j]
        <3>1. /\ j - 1 \in 0..m /\ j - 1 < i /\ (j - 1) + 1 = j
              /\ j - 1 \in 0..(Len(s) - 1) /\ j - 1 \in 0..(Len(t) - 1)
            BY <1>1, <1>2, <1>3, <2>1
        <3>2. At(S, j - 1) = s[(j - 1) + 1] /\ At(T, j - 1) = t[(j - 1) + 1]
            BY <1>1, <1>2, <3>1
        <3> QED BY <1>8, <3>1, <3>2
    <2> QED BY <2>1, <2>2 DEF Begins
<1>10. ASSUME Begins(s, t) PROVE At(T, i) = Nul
    <2>1. Len(t) <= Len(s) /\ \A j \in 1..Len(t) : s[j] = t[j]
        BY <1>10 DEF Begins
    <2>2. CASE i = Len(t)
        BY <1>2, <2>2
    <2>3. CASE i # Len(t)
        <3>1. i \in 0..(Len(t) - 1) /\ i \in 0..(Len(s) - 1) /\ i + 1 \in 1..Len(t)
            BY <1>1, <1>2, <1>3, <1>7, <2>1, <2>3
        <3>2. At(S, i) = At(T, i)
            BY <1>1, <1>2, <2>1, <3>1
        <3> QED BY <1>7, <3>2
    <2> QED BY <2>2, <2>3
<1> QED BY <1>4, <1>9, <1>10 DEF S, T

\* A string precedes those it begins.
LEMMA PrefixPrecedes ==
    ASSUME NEW s, IsText(s), NEW t, IsText(t), Begins(s, t)
    PROVE  scu_strcmp(Terminated(t), Terminated(s)) <= 0
<1> DEFINE S == Terminated(s)
           T == Terminated(t)
           k == Compared(t, s, Len(T) + Len(S))
<1>1. /\ Len(s) \in Nat /\ At(S, Len(s)) = Nul
      /\ \A j \in 0..(Len(s) - 1) : At(S, j) = s[j + 1] /\ At(S, j) \in Nat \ {Nul}
    BY BytesOfText
<1>2. /\ Len(t) \in Nat /\ At(T, Len(t)) = Nul
      /\ \A j \in 0..(Len(t) - 1) : At(T, j) = t[j + 1] /\ At(T, j) \in Nat \ {Nul}
    BY BytesOfText
<1>3. /\ scu_strcmp(T, S) = scu_memcmp(T, S, k)
      /\ Len(t) <= Len(s) => k = Len(t) + 1
    BY StrcmpIs
<1>4. Len(t) <= Len(s) /\ \A j \in 1..Len(t) : s[j] = t[j]
    BY DEF Begins
<1> HIDE DEF S, T, k
<1>5. k \in Nat /\ k = Len(t) + 1
    BY <1>2, <1>3, <1>4
<1>6. ASSUME NEW j \in 0..(Len(t) - 1) PROVE At(S, j) = At(T, j)
    <2>1. j \in 0..(Len(s) - 1) /\ j + 1 \in 1..Len(t)
        BY <1>1, <1>2, <1>4
    <2> QED BY <1>1, <1>2, <1>4, <2>1
<1>7. At(S, Len(t)) \in Nat
    BY <1>1, <1>2, <1>4 DEF Nul
<1>8. \A j \in 0..(k - 1) : At(T, j) \in Nat /\ At(S, j) \in Nat
    BY <1>2, <1>5, <1>6, <1>7 DEF Nul
<1>9. /\ scu_memcmp(T, S, k) = 0 <=> Differ(T, S, k) = {}
      /\ Differ(T, S, k) # {} =>
            \E i \in Differ(T, S, k) : /\ \A j \in Differ(T, S, k) : i <= j
                                       /\ scu_memcmp(T, S, k) = Sign(At(T, i) - At(S, i))
    BY <1>5, <1>8, MemcmpIs
<1>10. \A i \in Differ(T, S, k) : i = Len(t)
    BY <1>2, <1>5, <1>6 DEF Differ
<1>11. Sign(At(T, Len(t)) - At(S, Len(t))) <= 0
    BY <1>2, <1>7 DEF Nul, Sign
<1>12. scu_memcmp(T, S, k) <= 0
    BY <1>9, <1>10, <1>11
<1> QED BY <1>3, <1>12 DEF S, T

LEMMA TakeTerminated ==
    ASSUME NEW s \in Seq(Bytes), NEW h \in 0..Len(s)
    PROVE  Take(Terminated(s), h) = Take(s, h)
<1> DEFINE T == Terminated(s)
<1>1. /\ Nul \in Bytes /\ Len(s) \in Nat
    BY BytesAre, LenProperties
<1>2. T \in Seq(Bytes) /\ Len(T) = Len(s) + 1 /\ \A j \in 1..Len(s) : T[j] = s[j]
    BY <1>1, TerminatedIs
<1> HIDE DEF T
<1>3. h \in 0..Len(T)
    BY <1>1, <1>2
<1>4. Take(T, h) \in Seq(Bytes) /\ Len(Take(T, h)) = h /\ \A j \in 1..h : Take(T, h)[j] = T[j]
    BY <1>2, <1>3, TakeIs
<1>5. Take(s, h) \in Seq(Bytes) /\ Len(Take(s, h)) = h /\ \A j \in 1..h : Take(s, h)[j] = s[j]
    BY TakeIs
<1>6. \A j \in 1..h : Take(T, h)[j] = Take(s, h)[j]
    BY <1>1, <1>2, <1>4, <1>5
<1>7. Take(T, h) = Take(s, h)
    BY <1>4, <1>5, <1>6, SeqEqual
<1> QED BY <1>7 DEF T

\* The string that scu_strndup copies.
LEMMA StrndupIs ==
    ASSUME NEW s, IsText(s), NEW n \in Nat
    PROVE  LET h == IF n <= Len(s) THEN n ELSE Len(s)
           IN  /\ scu_strndup(Terminated(s), n) = Terminated(Take(s, h))
               /\ IsText(Take(s, h)) /\ Len(Take(s, h)) = h
               /\ \A j \in 1..h : Take(s, h)[j] = s[j]
<1> DEFINE h == IF n <= Len(s) THEN n ELSE Len(s)
<1>1. s \in Seq(Bytes) /\ Nul \notin Range(s) /\ Nul \in Bytes /\ Len(s) \in Nat
    BY BytesAre, LenProperties DEF IsText
<1>2. scu_memchr(Terminated(s), Nul, n) = IF n <= Len(s) THEN -1 ELSE Len(s)
    BY <1>1, MemchrNul
<1>3. scu_strnlen(Terminated(s), n) = h
    BY <1>1, <1>2 DEF scu_strnlen
<1>4. h \in 0..Len(s)
    BY <1>1
<1> HIDE DEF h
<1>5. Take(Terminated(s), h) = Take(s, h)
    BY <1>1, <1>4, TakeTerminated
<1>6. /\ Take(s, h) \in Seq(Bytes) /\ Len(Take(s, h)) = h /\ \A j \in 1..h : Take(s, h)[j] = s[j]
      /\ Nul \notin Range(Take(s, h))
    BY <1>1, <1>4, TakeIs, LacksPart
<1> QED BY <1>3, <1>5, <1>6 DEF scu_strndup, IsText, h

\* A bounded comparison is one of bounded copies.
LEMMA StrncmpCopies ==
    ASSUME NEW s, IsText(s), NEW t, IsText(t), NEW n \in Nat
    PROVE  scu_strncmp(Terminated(s), Terminated(t), n) =
               scu_strcmp(scu_strndup(Terminated(s), n), scu_strndup(Terminated(t), n))
<1> DEFINE S == Terminated(s)
           T == Terminated(t)
           g == IF n <= Len(s) THEN n ELSE Len(s)
           h == IF n <= Len(t) THEN n ELSE Len(t)
           u == Take(s, g)
           v == Take(t, h)
           U == Terminated(u)
           V == Terminated(v)
           k == Compared(s, t, n)
           m == Compared(u, v, Len(U) + Len(V))
<1>1. scu_strndup(S, n) = U /\ IsText(u) /\ Len(u) = g /\ \A j \in 1..g : u[j] = s[j]
    BY StrndupIs
<1>2. scu_strndup(T, n) = V /\ IsText(v) /\ Len(v) = h /\ \A j \in 1..h : v[j] = t[j]
    BY StrndupIs
<1>3. /\ Len(s) \in Nat /\ At(S, Len(s)) = Nul
      /\ \A j \in 0..(Len(s) - 1) : At(S, j) = s[j + 1] /\ At(S, j) \in Nat \ {Nul}
    BY BytesOfText
<1>4. /\ Len(t) \in Nat /\ At(T, Len(t)) = Nul
      /\ \A j \in 0..(Len(t) - 1) : At(T, j) = t[j + 1] /\ At(T, j) \in Nat \ {Nul}
    BY BytesOfText
<1> HIDE DEF u, v
<1>5. /\ At(U, Len(u)) = Nul
      /\ \A j \in 0..(Len(u) - 1) : At(U, j) = u[j + 1] /\ At(U, j) \in Nat \ {Nul}
    BY <1>1, BytesOfText
<1>6. /\ At(V, Len(v)) = Nul
      /\ \A j \in 0..(Len(v) - 1) : At(V, j) = v[j + 1] /\ At(V, j) \in Nat \ {Nul}
    BY <1>2, BytesOfText
<1>7. /\ scu_strncmp(S, T, n) = scu_memcmp(S, T, k)
      /\ k \in Nat /\ k \in {n, Len(s) + 1, Len(t) + 1}
      /\ k <= n /\ k <= Len(s) + 1 /\ k <= Len(t) + 1
    BY ComparedIs
<1>8. /\ scu_strcmp(U, V) = scu_memcmp(U, V, m)
      /\ Len(u) <= Len(v) => m = Len(u) + 1
      /\ Len(v) <= Len(u) => m = Len(v) + 1
    BY <1>1, <1>2, StrcmpIs
<1> HIDE DEF S, T, U, V, k, m
<1>9. /\ g \in Nat /\ g <= n /\ g <= Len(s) /\ (g = n \/ g = Len(s))
      /\ h \in Nat /\ h <= n /\ h <= Len(t) /\ (h = n \/ h = Len(t))
    BY <1>3, <1>4
<1> HIDE DEF g, h
<1>10. m \in Nat /\ m <= g + 1 /\ m <= h + 1 /\ (m = g + 1 \/ m = h + 1)
    BY <1>1, <1>2, <1>8, <1>9
<1>11. k <= m /\ \A j \in k..(m - 1) : j = g /\ j = h
    BY <1>3, <1>4, <1>7, <1>9, <1>10
<1>12. ASSUME NEW j \in 0..(k - 1) PROVE At(U, j) = At(S, j) /\ At(V, j) = At(T, j)
    <2>1. At(U, j) = At(S, j)
        <3>1. CASE j < g
            <4>1. j \in 0..(Len(u) - 1) /\ j \in 0..(Len(s) - 1) /\ j + 1 \in 1..g
                BY <1>1, <1>3, <1>9, <3>1
            <4> QED BY <1>1, <1>3, <1>5, <4>1
        <3>2. CASE ~(j < g)
            <4>1. j = Len(s) /\ j = g
                BY <1>3, <1>7, <1>9, <3>2
            <4> QED BY <1>1, <1>3, <1>5, <4>1
        <3> QED BY <3>1, <3>2
    <2>2. At(V, j) = At(T, j)
        <3>1. CASE j < h
            <4>1. j \in 0..(Len(v) - 1) /\ j \in 0..(Len(t) - 1) /\ j + 1 \in 1..h
                BY <1>2, <1>4, <1>9, <3>1
            <4> QED BY <1>2, <1>4, <1>6, <4>1
        <3>2. CASE ~(j < h)
            <4>1. j = Len(t) /\ j = h
                BY <1>4, <1>7, <1>9, <3>2
            <4> QED BY <1>2, <1>4, <1>6, <4>1
        <3> QED BY <3>1, <3>2
    <2> QED BY <2>1, <2>2
<1>13. Differ(S, T, k) = Differ(U, V, m)
    <2>1. \A j \in 0..(m - 1) : j \in 0..(k - 1) \/ (j = g /\ j = h)
        BY <1>7, <1>10, <1>11
    <2>2. \A j \in 0..(m - 1) : j \notin 0..(k - 1) => At(U, j) = At(V, j)
        BY <1>1, <1>2, <1>5, <1>6, <2>1
    <2>3. \A j \in 0..(k - 1) : j \in 0..(m - 1)
        BY <1>7, <1>10, <1>11
    <2> QED BY <1>12, <2>2, <2>3 DEF Differ
<1>14. \A j \in Differ(S, T, k) : At(S, j) = At(U, j) /\ At(T, j) = At(V, j)
    BY <1>12 DEF Differ
<1>15. scu_memcmp(S, T, k) = scu_memcmp(U, V, m)
    BY <1>7, <1>10, <1>13, <1>14, MemcmpSame
<1> QED BY <1>1, <1>2, <1>7, <1>8, <1>15 DEF S, T

--------------------------------------------------------------------------------
(* Searches *)

\* What is found first in a set is found last in its mirror.
LEMMA MirrorIs ==
    ASSUME NEW n \in Int, NEW A \in SUBSET (0..n), NEW B \in SUBSET (0..n),
           \A i \in 0..n : i \in A <=> n - i \in B
    PROVE  LastOf(A) = IF FirstOf(B) = -1 THEN -1 ELSE n - FirstOf(B)
<1>1. /\ A = {} => LastOf(A) = -1
      /\ A # {} => LastOf(A) \in A /\ \A x \in A : x <= LastOf(A)
    BY LastIs
<1>2. B \in SUBSET Nat
    OBVIOUS
<1>3. /\ B = {} => FirstOf(B) = -1
      /\ B # {} => FirstOf(B) \in B /\ \A x \in B : FirstOf(B) <= x
    BY <1>2, FirstIs
<1>4. ASSUME NEW x \in B PROVE n - x \in A
    <2>1. x \in 0..n /\ n - x \in 0..n /\ n - (n - x) = x
        OBVIOUS
    <2> QED BY <2>1
<1>5. CASE B = {}
    <2>1. A = {}
        BY <1>5
    <2> QED BY <1>1, <1>3, <1>5, <2>1
<1>6. CASE B # {}
    <2> DEFINE f == FirstOf(B)
               g == LastOf(A)
    <2>1. f \in B /\ \A x \in B : f <= x
        BY <1>3, <1>6
    <2>2. g \in A /\ \A x \in A : x <= g
        BY <1>1, <1>4, <2>1
    <2> HIDE DEF f, g
    <2>3. n - f \in A /\ n - g \in B /\ f \in 0..n /\ g \in 0..n
        BY <1>4, <2>1, <2>2
    <2>4. n - f <= g /\ f <= n - g
        BY <2>1, <2>2, <2>3
    <2>5. g = n - f /\ f # -1
        BY <2>3, <2>4
    <2> QED BY <2>5 DEF f, g
<1> QED BY <1>5, <1>6

\* A place from the start of a string of length l is one from the end of its mirror.
Mirrored(l, i, n) == IF i = -1 THEN -1 ELSE (l - i) - n

LEMMA ReverseIs ==
    ASSUME NEW s, IsText(s)
    PROVE  /\ IsText(Reverse(s)) /\ Len(Reverse(s)) = Len(s) /\ Len(s) \in Nat
           /\ \A j \in 1..Len(s) : Reverse(s)[j] = s[(Len(s) - j) + 1]
<1> DEFINE r == Reverse(s)
<1>1. s \in Seq(Bytes) /\ Nul \notin Range(s) /\ Len(s) \in Nat
    BY LenProperties DEF IsText
<1>2. \A j \in 1..Len(s) : s[j] \in Bytes /\ s[j] # Nul
    BY <1>1, Lacks, ElementOfSeq
<1>3. \A j \in 1..Len(s) : (Len(s) - j) + 1 \in 1..Len(s)
    BY <1>1
<1>4. r = [j \in 1..Len(s) |-> s[(Len(s) - j) + 1]]
    BY DEF Reverse
<1> HIDE DEF r
<1>5. \A j \in 1..Len(s) : r[j] = s[(Len(s) - j) + 1] /\ r[j] \in Bytes /\ r[j] # Nul
    BY <1>2, <1>3, <1>4
<1>6. r \in Seq(Bytes)
    <2>1. r \in [1..Len(s) -> Bytes]
        BY <1>4, <1>5
    <2> QED BY <1>1, <2>1, SeqDef
<1>7. Len(r) = Len(s)
    <2>1. DOMAIN r = 1..Len(s)
        BY <1>4
    <2>2. DOMAIN r = 1..Len(r) /\ Len(r) \in Nat
        BY <1>6, LenProperties
    <2> QED BY <1>1, <2>1, <2>2, SameLength
<1>8. Nul \notin Range(r)
    BY <1>5, <1>6, <1>7, Lacks
<1> QED BY <1>1, <1>5, <1>6, <1>7, <1>8 DEF IsText, r

\* The bytes of a string and of its mirror.
LEMMA BytesOfMirror ==
    ASSUME NEW s, IsText(s), NEW j \in 0..(Len(s) - 1)
    PROVE  /\ At(Terminated(s), j) = At(Terminated(Reverse(s)), (Len(s) - 1) - j)
           /\ At(Terminated(s), j) # Nul
           /\ Indexes(Terminated(s)) = 0..(Len(s) - 1)
           /\ Indexes(Terminated(Reverse(s))) = 0..(Len(s) - 1)
<1> DEFINE r == Reverse(s)
<1>1. IsText(r) /\ Len(r) = Len(s) /\ Len(s) \in Nat /\ \A i \in 1..Len(s) : r[i] = s[(Len(s) - i) + 1]
    BY ReverseIs
<1> HIDE DEF r
<1>2. /\ scu_strlen(Terminated(s)) = Len(s)
      /\ At(Terminated(s), j) = s[j + 1] /\ At(Terminated(s), j) \in Nat \ {Nul}
    BY BytesOfText
<1>3. (Len(s) - 1) - j \in 0..(Len(r) - 1)
    BY <1>1
<1>4. /\ scu_strlen(Terminated(r)) = Len(s)
      /\ At(Terminated(r), (Len(s) - 1) - j) = r[((Len(s) - 1) - j) + 1]
    BY <1>1, <1>3, BytesOfText
<1>5. r[((Len(s) - 1) - j) + 1] = s[j + 1]
    <2>1. /\ ((Len(s) - 1) - j) + 1 \in 1..Len(s)
          /\ (Len(s) - (((Len(s) - 1) - j) + 1)) + 1 = j + 1
        BY <1>1
    <2> QED BY <1>1, <2>1
<1> QED BY <1>1, <1>2, <1>4, <1>5 DEF r, Indexes

\* Bytes of a set: last where their mirror has one first.
LEMMA OccursMirror ==
    ASSUME NEW s, IsText(s), NEW X
    PROVE  LastOf(Occurs(Terminated(s), X)) =
               Mirrored(Len(s), FirstOf(Occurs(Terminated(Reverse(s)), X)), 1)
<1> DEFINE n == Len(s) - 1
           A == Occurs(Terminated(s), X)
           B == Occurs(Terminated(Reverse(s)), X)
           f == FirstOf(B)
<1>1. Len(s) \in Nat /\ n \in Int
    BY ReverseIs
<1>2. Indexes(Terminated(s)) = 0..n /\ Indexes(Terminated(Reverse(s))) = 0..n
    <2>1. scu_strlen(Terminated(s)) = Len(s)
        BY BytesOfText
    <2>2. IsText(Reverse(s)) /\ Len(Reverse(s)) = Len(s)
        BY ReverseIs
    <2>3. scu_strlen(Terminated(Reverse(s))) = Len(s)
        BY <2>2, BytesOfText
    <2> QED BY <2>1, <2>3 DEF Indexes
<1>3. \A i \in 0..n : At(Terminated(s), i) = At(Terminated(Reverse(s)), n - i)
    BY BytesOfMirror
<1>4. \A i \in 0..n : n - i \in 0..n
    BY <1>1
<1> HIDE DEF n
<1>5. A \in SUBSET (0..n) /\ B \in SUBSET (0..n)
    BY <1>2 DEF Occurs
<1>6. \A i \in 0..n : i \in A <=> n - i \in B
    BY <1>2, <1>3, <1>4 DEF Occurs
<1> HIDE DEF A, B
<1>7. LastOf(A) = IF f = -1 THEN -1 ELSE n - f
    BY <1>1, <1>5, <1>6, MirrorIs
<1>8. f = -1 \/ f \in 0..n
    <2>1. B \in SUBSET Nat /\ \A x \in B : x \in 0..n
        BY <1>5
    <2>2. B = {} => f = -1
        BY <2>1, FirstIs
    <2>3. B # {} => f \in B
        BY <2>1, FirstIs
    <2> QED BY <2>1, <2>2, <2>3
<1> HIDE DEF f
<1>9. f # -1 => n - f = (Len(s) - f) - 1
    BY <1>1, <1>8 DEF n
<1>10. LastOf(A) = Mirrored(Len(s), f, 1)
    BY <1>7, <1>9 DEF Mirrored
<1> QED BY <1>10 DEF A, B, f

\* The bytes of t lie in s from the index i on.
Lies(s, t, i) == \A j \in 1..Len(t) : s[i + j] = t[j]

LEMMA LiesIs ==
    ASSUME NEW s, IsText(s), NEW t, IsText(t), NEW i \in 0..(Len(s) - Len(t))
    PROVE  /\ scu_memcmp(From(Terminated(s), i), Terminated(t), Len(t)) = 0 <=> Lies(s, t, i)
           /\ scu_strncmp(From(Terminated(s), i), Terminated(t), Len(t)) = 0 <=> Lies(s, t, i)
<1> DEFINE u == From(s, i)
           U == Terminated(u)
           T == Terminated(t)
           k == Compared(u, t, Len(t))
<1>1. s \in Seq(Bytes) /\ Nul \notin Range(s) /\ Len(s) \in Nat /\ Len(t) \in Nat
    BY LenProperties DEF IsText
<1>2. i \in 0..Len(s) /\ Len(t) <= Len(s) - i
    BY <1>1
<1>3. /\ u \in Seq(Bytes) /\ Len(u) = Len(s) - i /\ \A j \in 1..(Len(s) - i) : u[j] = s[i + j]
      /\ Nul \notin Range(u)
    BY <1>1, <1>2, FromIs, LacksPart
<1>4. From(Terminated(s), i) = U
    <2>1. /\ <<Nul>> \in Seq(Bytes) /\ Len(<<Nul>>) = 1
        BY BytesAre
    <2>2. i \in 0..(Len(s) + Len(<<Nul>>)) /\ i <= Len(s)
        BY <1>1, <1>2, <2>1
    <2>3. From(s \o <<Nul>>, i) = From(s, i) \o <<Nul>>
        BY <1>1, <2>1, <2>2, FromConcat
    <2> QED BY <2>3 DEF Terminated
<1> HIDE DEF u
<1>5. IsText(u)
    BY <1>3 DEF IsText
<1>6. \A j \in 0..(Len(u) - 1) : At(U, j) = u[j + 1] /\ At(U, j) \in Nat
    BY <1>5, BytesOfText
<1>7. \A j \in 0..(Len(t) - 1) : At(T, j) = t[j + 1] /\ At(T, j) \in Nat
    BY BytesOfText
<1>8. /\ scu_strncmp(U, T, Len(t)) = scu_memcmp(U, T, k)
      /\ k \in {Len(t), Len(u) + 1, Len(t) + 1}
      /\ k <= Len(t) /\ k <= Len(u) + 1
    BY <1>1, <1>5, ComparedIs
<1> HIDE DEF U, T, k
<1>9. k = Len(t)
    BY <1>1, <1>2, <1>3, <1>8
<1>10. \A j \in 0..(Len(t) - 1) : /\ At(U, j) = s[i + (j + 1)] /\ At(T, j) = t[j + 1]
                                 /\ At(U, j) \in Nat /\ At(T, j) \in Nat
    <2>1. ASSUME NEW j \in 0..(Len(t) - 1) PROVE At(U, j) = s[i + (j + 1)] /\ At(U, j) \in Nat
        <3>1. j \in 0..(Len(u) - 1) /\ j + 1 \in 1..(Len(s) - i)
            BY <1>1, <1>2, <1>3
        <3> QED BY <1>3, <1>6, <3>1
    <2> QED BY <1>7, <2>1
<1>11. scu_memcmp(U, T, Len(t)) = 0 <=> Differ(U, T, Len(t)) = {}
    BY <1>1, <1>10, MemcmpIs
<1>12. Differ(U, T, Len(t)) = {} <=> \A j \in 0..(Len(t) - 1) : At(U, j) = At(T, j)
    BY DEF Differ
<1>13. (\A j \in 0..(Len(t) - 1) : At(U, j) = At(T, j)) <=> Lies(s, t, i)
    <2>1. ASSUME \A j \in 0..(Len(t) - 1) : At(U, j) = At(T, j), NEW j \in 1..Len(t)
          PROVE  s[i + j] = t[j]
        <3>1. j - 1 \in 0..(Len(t) - 1) /\ (j - 1) + 1 = j
            BY <1>1
        <3>2. At(U, j - 1) = s[i + ((j - 1) + 1)] /\ At(T, j - 1) = t[(j - 1) + 1]
            BY <1>10, <3>1
        <3> QED BY <2>1, <3>1, <3>2
    <2>2. ASSUME Lies(s, t, i), NEW j \in 0..(Len(t) - 1) PROVE At(U, j) = At(T, j)
        <3>1. j + 1 \in 1..Len(t)
            BY <1>1
        <3> QED BY <1>10, <2>2, <3>1 DEF Lies
    <2> QED BY <2>1, <2>2 DEF Lies
<1> QED BY <1>4, <1>8, <1>9, <1>11, <1>12, <1>13 DEF T

\* Where t lies in s its mirror lies in that of s, the other way round.
LEMMA LiesMirror ==
    ASSUME NEW s, IsText(s), NEW t, IsText(t), NEW i \in 0..(Len(s) - Len(t))
    PROVE  Lies(s, t, i) <=> Lies(Reverse(s), Reverse(t), (Len(s) - Len(t)) - i)
<1> DEFINE r == Reverse(s)
           u == Reverse(t)
           h == (Len(s) - Len(t)) - i
<1>1. /\ Len(r) = Len(s) /\ Len(s) \in Nat
      /\ \A j \in 1..Len(s) : r[j] = s[(Len(s) - j) + 1]
    BY ReverseIs
<1>2. /\ Len(u) = Len(t) /\ Len(t) \in Nat
      /\ \A j \in 1..Len(t) : u[j] = t[(Len(t) - j) + 1]
    BY ReverseIs
<1> HIDE DEF r, u
<1>3. ASSUME NEW j \in 1..Len(t)
      PROVE  LET g == (Len(t) - j) + 1
             IN  g \in 1..Len(t) /\ r[h + j] = s[i + g] /\ u[j] = t[g] /\ (Len(t) - g) + 1 = j
    <2>1. h + j \in 1..Len(s) /\ (Len(s) - (h + j)) + 1 = i + ((Len(t) - j) + 1)
        BY <1>1, <1>2
    <2>2. r[h + j] = s[i + ((Len(t) - j) + 1)]
        BY <1>1, <2>1
    <2>3. (Len(t) - j) + 1 \in 1..Len(t) /\ (Len(t) - ((Len(t) - j) + 1)) + 1 = j
        BY <1>2
    <2> QED BY <1>2, <2>2, <2>3
<1> HIDE DEF h
<1>4. ASSUME Lies(s, t, i), NEW j \in 1..Len(u) PROVE r[h + j] = u[j]
    BY <1>2, <1>3, <1>4, SMTT(20) DEF Lies
<1>5. ASSUME Lies(r, u, h), NEW j \in 1..Len(t) PROVE s[i + j] = t[j]
    <2> DEFINE g == (Len(t) - j) + 1
    <2>1. g \in 1..Len(t) /\ r[h + g] = s[i + j] /\ u[g] = t[j]
        BY <1>2, <1>3
    <2> HIDE DEF g
    <2>2. r[h + g] = u[g]
        BY <1>2, <1>5, <2>1 DEF Lies
    <2> QED BY <2>1, <2>2
<1> QED BY <1>4, <1>5 DEF Lies, r, u, h

LEMMA IndexOfStrMirror ==
    ASSUME NEW s, IsText(s), NEW t, IsText(t)
    PROVE  scu_str_last_index_of_str(Terminated(s), Terminated(t)) =
               Mirrored(Len(s),
                        scu_str_index_of_str(Terminated(Reverse(s)), Terminated(Reverse(t))),
                        Len(t))
<1> DEFINE r == Reverse(s)
           u == Reverse(t)
           S == Terminated(s)
           T == Terminated(t)
           R == Terminated(r)
           U == Terminated(u)
           n == Len(s) - Len(t)
           A == {i \in 0..n : scu_strncmp(From(S, i), T, Len(t)) = 0}
           B == {i \in 0..n : scu_memcmp(From(R, i), U, Len(t)) = 0}
           f == FirstOf(B)
<1>1. /\ IsText(r) /\ Len(r) = Len(s) /\ Len(s) \in Nat /\ scu_strlen(S) = Len(s)
      /\ IsText(u) /\ Len(u) = Len(t) /\ Len(t) \in Nat /\ scu_strlen(T) = Len(t)
    BY ReverseIs, BytesOfText
<1> HIDE DEF r, u
<1>2. scu_strlen(R) = Len(s) /\ scu_strlen(U) = Len(t)
    BY <1>1, BytesOfText
<1>3. scu_str_index_of_str(R, U) = f
    BY <1>1, <1>2 DEF scu_str_index_of_str
<1>4. scu_str_last_index_of_str(S, T) = IF Len(t) = 0 THEN Len(s) ELSE LastOf(A)
    BY <1>1 DEF scu_str_last_index_of_str
<1>5. \A i \in 0..n : n - i \in 0..n
    BY <1>1
<1>6. \A i \in 0..n : i \in A <=> Lies(s, t, i)
    BY LiesIs
<1>7. \A i \in 0..n : i \in B <=> Lies(r, u, i)
    <2>1. \A i \in 0..(Len(r) - Len(u)) :
              scu_memcmp(From(R, i), U, Len(u)) = 0 <=> Lies(r, u, i)
        BY <1>1, LiesIs
    <2> QED BY <1>1, <2>1
<1>8. \A i \in 0..n : Lies(s, t, i) <=> Lies(r, u, n - i)
    BY LiesMirror DEF r, u
<1>9. A \in SUBSET (0..n) /\ B \in SUBSET (0..n) /\ n \in Int
    BY <1>1
<1> HIDE DEF S, T, R, U, A, B
<1>10. \A i \in 0..n : i \in A <=> n - i \in B
    BY <1>5, <1>6, <1>7, <1>8
<1>11. LastOf(A) = IF f = -1 THEN -1 ELSE n - f
    BY <1>9, <1>10, MirrorIs
<1>12. f = -1 \/ f \in 0..n
    <2>1. B \in SUBSET Nat /\ \A x \in B : x \in 0..n
        BY <1>9
    <2>2. B = {} => f = -1
        BY <2>1, FirstIs
    <2>3. B # {} => f \in B
        BY <2>1, FirstIs
    <2> QED BY <2>1, <2>2, <2>3
<1>13. ASSUME Len(t) = 0 PROVE f = 0
    <2>1. 0 \in 0..n
        BY <1>1, <1>13
    <2>2. Lies(r, u, 0)
        BY <1>1, <1>13 DEF Lies
    <2>3. 0 \in B /\ B \in SUBSET Nat /\ \A x \in B : 0 <= x
        BY <1>7, <1>9, <2>1, <2>2
    <2> QED BY <2>3, FirstIsThat
<1> HIDE DEF f
<1>14. f # -1 => n - f = (Len(s) - f) - Len(t)
    BY <1>1, <1>12
<1>15. scu_str_last_index_of_str(S, T) = Mirrored(Len(s), f, Len(t))
    <2>1. CASE Len(t) = 0
        BY <1>1, <1>4, <1>13, <2>1 DEF Mirrored
    <2>2. CASE Len(t) # 0
        BY <1>4, <1>11, <1>14, <2>2 DEF Mirrored
    <2> QED BY <2>1, <2>2
<1> QED BY <1>3, <1>15 DEF S, T, R, U, r, u

\* A string starts with those that are found at its beginning,
LEMMA BeginsAtFirst ==
    ASSUME NEW s, IsText(s), NEW t, IsText(t)
    PROVE  Begins(s, t) <=> scu_str_index_of_str(Terminated(s), Terminated(t)) = 0
<1> DEFINE S == Terminated(s)
           T == Terminated(t)
           n == Len(s) - Len(t)
           B == {i \in 0..n : scu_memcmp(From(S, i), T, Len(t)) = 0}
<1>1. /\ Len(s) \in Nat /\ scu_strlen(S) = Len(s)
      /\ Len(t) \in Nat /\ scu_strlen(T) = Len(t)
    BY BytesOfText
<1>2. scu_str_index_of_str(S, T) = FirstOf(B)
    BY <1>1 DEF scu_str_index_of_str
<1>3. \A i \in 0..n : i \in B <=> Lies(s, t, i)
    BY LiesIs
<1>4. B \in SUBSET Nat /\ (\A x \in B : x \in 0..n) /\ n \in Int
    BY <1>1
<1> HIDE DEF B
<1>5. B = {} => FirstOf(B) = -1
    BY <1>4, FirstIs
<1>6. B # {} => FirstOf(B) \in B
    BY <1>4, FirstIs
<1>7. FirstOf(B) = 0 <=> 0 \in B
    <2>1. ASSUME 0 \in B PROVE FirstOf(B) = 0
        <3>1. \A x \in B : 0 <= x
            BY <1>4
        <3> QED BY <1>4, <2>1, <3>1, FirstIsThat
    <2> QED BY <1>5, <1>6, <2>1
<1>8. 0 \in B <=> Len(t) <= Len(s) /\ Lies(s, t, 0)
    <2>1. 0 \in 0..n <=> Len(t) <= Len(s)
        BY <1>1
    <2> QED BY <1>3, <1>4, <2>1
<1>9. Lies(s, t, 0) <=> \A j \in 1..Len(t) : s[j] = t[j]
    <2>1. \A j \in 1..Len(t) : 0 + j = j
        BY <1>1
    <2> QED BY <2>1 DEF Lies
<1> QED BY <1>2, <1>7, <1>8, <1>9 DEF Begins, S, T

\* and ends with what its mirror starts with.
LEMMA EndsMirror ==
    ASSUME NEW s, IsText(s), NEW t, IsText(t)
    PROVE  scu_str_ends_with_str(Terminated(s), Terminated(t)) <=> Begins(Reverse(s), Reverse(t))
<1> DEFINE r == Reverse(s)
           u == Reverse(t)
           n == Len(s) - Len(t)
<1>1. /\ Len(r) = Len(s) /\ Len(s) \in Nat /\ scu_strlen(Terminated(s)) = Len(s)
      /\ Len(u) = Len(t) /\ Len(t) \in Nat /\ scu_strlen(Terminated(t)) = Len(t)
    BY ReverseIs, BytesOfText
<1>2. CASE Len(t) <= Len(s)
    <2>1. n \in 0..n /\ n - n = 0
        BY <1>1, <1>2
    <2>2. scu_strncmp(From(Terminated(s), n), Terminated(t), Len(t)) = 0 <=> Lies(s, t, n)
        BY <2>1, LiesIs
    <2>3. Lies(s, t, n) <=> Lies(r, u, 0)
        BY <2>1, LiesMirror
    <2> HIDE DEF r, u
    <2>4. Lies(r, u, 0) <=> \A j \in 1..Len(u) : r[j] = u[j]
        <3>1. \A j \in 1..Len(u) : 0 + j = j
            BY <1>1
        <3> QED BY <3>1 DEF Lies
    <2>5. Begins(r, u) <=> Lies(r, u, 0)
        BY <1>1, <1>2, <2>4 DEF Begins
    <2>6. Len(t) = 0 => Lies(s, t, n)
        BY <1>1 DEF Lies
    <2>7. scu_str_ends_with_str(Terminated(s), Terminated(t)) <=> Lies(s, t, n)
        BY <1>1, <1>2, <2>2, <2>6 DEF scu_str_ends_with_str
    <2> QED BY <2>3, <2>5, <2>7 DEF r, u
<1>3. CASE ~(Len(t) <= Len(s))
    <2>1. Len(t) # 0
        BY <1>1, <1>3
    <2> QED BY <1>1, <1>3, <2>1 DEF scu_str_ends_with_str, Begins
<1> QED BY <1>2, <1>3

LEMMA EndsWithByteMirror ==
    ASSUME NEW s, IsText(s), NEW c
    PROVE  scu_str_ends_with_byte(Terminated(s), c) <=>
               scu_str_starts_with_byte(Terminated(Reverse(s)), c)
<1> DEFINE r == Reverse(s)
<1>1. /\ IsText(r) /\ Len(r) = Len(s) /\ Len(s) \in Nat /\ scu_strlen(Terminated(s)) = Len(s)
    BY ReverseIs, BytesOfText
<1>2. CASE Len(s) = 0
    <2>1. At(Terminated(r), 0) = Nul
        <3>1. At(Terminated(r), Len(r)) = Nul
            BY <1>1, BytesOfText
        <3> QED BY <1>1, <1>2, <3>1
    <2> QED BY <1>1, <1>2, <2>1 DEF scu_str_ends_with_byte, scu_str_starts_with_byte
<1>3. CASE Len(s) # 0
    <2>1. Len(s) - 1 \in 0..(Len(s) - 1) /\ (Len(s) - 1) - (Len(s) - 1) = 0 /\ Len(s) > 0
        BY <1>1, <1>3
    <2>2. /\ At(Terminated(s), Len(s) - 1) = At(Terminated(r), (Len(s) - 1) - (Len(s) - 1))
          /\ At(Terminated(s), Len(s) - 1) # Nul
        BY <2>1, BytesOfMirror
    <2>3. At(Terminated(s), Len(s) - 1) = At(Terminated(r), 0) /\ At(Terminated(r), 0) # Nul
        BY <2>1, <2>2
    <2> QED BY <1>1, <2>1, <2>3 DEF scu_str_ends_with_byte, scu_str_starts_with_byte
<1> QED BY <1>2, <1>3

LEMMA IndexOfAnyMirror ==
    ASSUME NEW s, IsText(s), NEW T
    PROVE  scu_str_last_index_of_any(Terminated(s), T) =
               Mirrored(Len(s), scu_str_index_of_any(Terminated(Reverse(s)), T), 1)
<1> DEFINE S == Terminated(s)
           X == BytesOf(T)
<1>1. Len(s) \in Nat /\ scu_strlen(S) = Len(s) /\ \A j \in 0..(Len(s) - 1) : At(S, j) # Nul
    BY BytesOfText
<1> HIDE DEF X
<1>2. {i \in Indexes(S) : At(S, i) \in X \cup {Nul}} = Occurs(S, X)
    BY <1>1 DEF Occurs, Indexes
<1>3. LastOf(Occurs(S, X)) = Mirrored(Len(s), FirstOf(Occurs(Terminated(Reverse(s)), X)), 1)
    BY OccursMirror
<1> HIDE DEF S
<1>4. scu_str_last_index_of_any(S, T) = IF At(T, 0) = Nul THEN -1 ELSE LastOf(Occurs(S, X))
    BY <1>2 DEF scu_str_last_index_of_any, X
<1>5. CASE At(T, 0) = Nul
    BY <1>4, <1>5 DEF scu_str_index_of_any, Mirrored, S
<1>6. CASE At(T, 0) # Nul
    BY <1>3, <1>4, <1>6 DEF scu_str_index_of_any, S, X
<1> QED BY <1>5, <1>6

\* Texts and what the buffer holds are texts.
LEMMA StringIsText ==
    ASSUME Typed
    PROVE  IsText(StringIn(text)) /\ \A t \in Texts : IsText(t)
<1>1. text \in Seq(Bytes)
    BY TypedIs
<1> QED BY <1>1, StringInIs, BytesAre DEF IsText

\* Nothing but the types is needed for what the comparisons and searches answer.
LEMMA ComparisonsAlwaysAgree == Typed => ComparisonsAgree
<1> SUFFICES ASSUME Typed PROVE ComparisonsAgree
    OBVIOUS
<1> DEFINE s == StringIn(text)
           S == Terminated(s)
<1>1. IsText(s) /\ s \in Seq(Bytes) /\ scu_strlen(S) = Len(s) /\ Len(s) \in Nat
    BY StringIsText, BytesOfText DEF IsText
<1>2. scu_strdup(S) = S
    <2>1. Len(s) \in 0..Len(s)
        BY <1>1
    <2>2. Take(S, Len(s)) = Take(s, Len(s))
        BY <1>1, <2>1, TakeTerminated
    <2>3. Take(s, Len(s)) = s
        BY <1>1, TakeEnds
    <2> QED BY <1>1, <2>2, <2>3 DEF scu_strdup
<1> HIDE DEF s
<1>3. ASSUME NEW t \in Texts
      PROVE  /\ scu_strcmp(S, Terminated(t)) = -scu_strcmp(Terminated(t), S)
             /\ scu_strcmp(S, Terminated(t)) = 0 <=> S = Terminated(t)
             /\ scu_str_starts_with_str(S, Terminated(t)) => scu_strcmp(Terminated(t), S) <= 0
             /\ \A n \in Counts :
                   scu_strncmp(S, Terminated(t), n) =
                       scu_strcmp(scu_strndup(S, n), scu_strndup(Terminated(t), n))
    <2>1. IsText(t)
        BY StringIsText
    <2>2. /\ scu_strcmp(S, Terminated(t)) = -scu_strcmp(Terminated(t), S)
          /\ scu_strcmp(S, Terminated(t)) = 0 <=> S = Terminated(t)
        BY <1>1, <2>1, StrcmpOrders
    <2>3. scu_str_starts_with_str(S, Terminated(t)) => scu_strcmp(Terminated(t), S) <= 0
        BY <1>1, <2>1, StartsWith, PrefixPrecedes
    <2>4. ASSUME NEW n \in Counts
          PROVE  scu_strncmp(S, Terminated(t), n) =
                     scu_strcmp(scu_strndup(S, n), scu_strndup(Terminated(t), n))
        <3>1. n \in Nat
            BY CountsAssumption
        <3> QED BY <1>1, <2>1, <3>1, StrncmpCopies
    <2> QED BY <2>2, <2>3, <2>4
<1> HIDE DEF S
<1> QED BY <1>2, <1>3, Zenon DEF ComparisonsAgree, s, S

LEMMA SearchesAlwaysMirror == Typed => SearchesMirror
<1> SUFFICES ASSUME Typed PROVE SearchesMirror
    OBVIOUS
<1> DEFINE s == StringIn(text)
           S == Terminated(s)
           R == Terminated(Reverse(s))
           Place(i, n) == IF i = -1 THEN -1 ELSE Len(s) - i - n
<1>1. IsText(s) /\ IsText(Reverse(s))
    BY StringIsText, ReverseIs
<1> HIDE DEF s
<1>2. \A i, n : Place(i, n) = Mirrored(Len(s), i, n)
    BY DEF Mirrored
<1> HIDE DEF Place
<1>3. ASSUME NEW c \in Bytes
      PROVE  /\ scu_str_last_index_of_byte(S, c) = Place(scu_str_index_of_byte(R, c), 1)
             /\ c >= Newline => scu_str_last_index_in_range(S, Newline, c) =
                                    Place(scu_str_index_in_range(R, Newline, c), 1)
             /\ scu_str_ends_with_byte(S, c) = scu_str_starts_with_byte(R, c)
    <2>1. scu_str_last_index_of_byte(S, c) = Place(scu_str_index_of_byte(R, c), 1)
        <3>1. CASE c = Nul
            BY <1>2, <3>1 DEF scu_str_last_index_of_byte, scu_str_index_of_byte, Mirrored
        <3>2. CASE c # Nul
            BY <1>1, <1>2, <3>2, OccursMirror DEF scu_str_last_index_of_byte, scu_str_index_of_byte
        <3> QED BY <3>1, <3>2
    <2>2. scu_str_last_index_in_range(S, Newline, c) = Place(scu_str_index_in_range(R, Newline, c), 1)
        BY <1>1, <1>2, OccursMirror DEF scu_str_last_index_in_range, scu_str_index_in_range
    <2>3. scu_str_ends_with_byte(S, c) <=> scu_str_starts_with_byte(R, c)
        BY <1>1, EndsWithByteMirror
    <2>4. scu_str_ends_with_byte(S, c) \in BOOLEAN /\ scu_str_starts_with_byte(R, c) \in BOOLEAN
        BY DEF scu_str_ends_with_byte, scu_str_starts_with_byte
    <2>5. scu_str_ends_with_byte(S, c) = scu_str_starts_with_byte(R, c)
        BY <2>3, <2>4
    <2> QED BY <2>1, <2>2, <2>5
<1>4. ASSUME NEW t \in Texts
      PROVE  /\ scu_str_last_index_of_str(S, Terminated(t)) =
                    Place(scu_str_index_of_str(R, Terminated(Reverse(t))), Len(t))
             /\ scu_str_last_index_of_any(S, Terminated(t)) =
                    Place(scu_str_index_of_any(R, Terminated(t)), 1)
             /\ scu_str_ends_with_str(S, Terminated(t)) =
                    scu_str_starts_with_str(R, Terminated(Reverse(t)))
             /\ scu_str_starts_with_str(S, Terminated(t)) <=>
                    scu_str_index_of_str(S, Terminated(t)) = 0
    <2>1. IsText(t) /\ IsText(Reverse(t))
        BY StringIsText, ReverseIs
    <2>2. scu_str_last_index_of_str(S, Terminated(t)) =
              Place(scu_str_index_of_str(R, Terminated(Reverse(t))), Len(t))
        BY <1>1, <1>2, <2>1, IndexOfStrMirror
    <2>3. scu_str_last_index_of_any(S, Terminated(t)) =
              Place(scu_str_index_of_any(R, Terminated(t)), 1)
        BY <1>1, <1>2, IndexOfAnyMirror
    <2>4. scu_str_ends_with_str(S, Terminated(t)) <=>
              scu_str_starts_with_str(R, Terminated(Reverse(t)))
        BY <1>1, <2>1, EndsMirror, StartsWith
    <2>5. /\ scu_str_ends_with_str(S, Terminated(t)) \in BOOLEAN
          /\ scu_str_starts_with_str(R, Terminated(Reverse(t))) \in BOOLEAN
        BY DEF scu_str_ends_with_str, scu_str_starts_with_str
    <2>6. scu_str_ends_with_str(S, Terminated(t)) =
              scu_str_starts_with_str(R, Terminated(Reverse(t)))
        BY <2>4, <2>5
    <2>7. scu_str_starts_with_str(S, Terminated(t)) <=>
              scu_str_index_of_str(S, Terminated(t)) = 0
        BY <1>1, <2>1, StartsWith, BeginsAtFirst
    <2> QED BY <2>2, <2>3, <2>6, <2>7
<1> HIDE DEF S, R
<1>5. /\ \A c \in Bytes :
            /\ scu_str_last_index_of_byte(S, c) = Place(scu_str_index_of_byte(R, c), 1)
            /\ c >= Newline => scu_str_last_index_in_range(S, Newline, c) =
                                   Place(scu_str_index_in_range(R, Newline, c), 1)
            /\ scu_str_ends_with_byte(S, c) = scu_str_starts_with_byte(R, c)
      /\ \A t \in Texts :
            /\ scu_str_last_index_of_str(S, Terminated(t)) =
                   Place(scu_str_index_of_str(R, Terminated(Reverse(t))), Len(t))
            /\ scu_str_last_index_of_any(S, Terminated(t)) =
                   Place(scu_str_index_of_any(R, Terminated(t)), 1)
            /\ scu_str_ends_with_str(S, Terminated(t)) =
                   scu_str_starts_with_str(R, Terminated(Reverse(t)))
            /\ scu_str_starts_with_str(S, Terminated(t)) <=>
                   scu_str_index_of_str(S, Terminated(t)) = 0
    BY <1>3, <1>4
<1> QED BY <1>5, Zenon DEF SearchesMirror, s, S, R, Place

LEMMA StrncpyKeeps ==
    ASSUME IInv, NEW src \in Texts, NEW count \in Counts, Strncpy(src, count)
    PROVE  IInv' /\ AppendStep
<1> DEFINE r == scu_strncpy(Block, size, Terminated(src), count)
           h == Min({size - 1, count})
           k == Min({h, Len(src)})
           given == Take(src, Min({count, Len(src)}))
           added == Take(given, Min({size - 1, Len(given)}))
<1>1. /\ Typed /\ size > 0 /\ size \in Nat /\ src \in Seq(Bytes) /\ Nul \notin Range(src)
      /\ count \in Nat /\ size - 1 \in Nat
    BY TypedIs, BytesAre, CountsAssumption DEF IInv, Strncpy
<1>2. /\ k \in 0..Len(src) /\ k < size /\ r.result = k
      /\ r.dest \in Seq(Bytes) /\ Len(r.dest) = size /\ Nul \in Range(r.dest)
      /\ StringIn(r.dest) = Take(src, k)
    BY <1>1, StrncpyIs
<1>3. Copy("strncpy", r, src, count)
    BY DEF Strncpy
<1> HIDE DEF r
<1>4. Take(src, k) = added /\ Len(Take(src, k)) = k
    BY <1>1, Limits
<1> HIDE DEF k, h
<1>5. Take(src, k) \in Seq(Bytes) /\ Nul \notin Range(Take(src, k))
    BY <1>1, <1>2, TakeIs, LacksPart
<1>6. HoldsString(r.dest, Take(src, k))
    BY <1>2, <1>4, <1>5 DEF HoldsString
<1>7. /\ IInv' /\ Nul \in Range(text') /\ StringIn(text') = Take(src, k)
      /\ last'.op = "strncpy" /\ last'.number = r.result /\ last'.given = given
    BY <1>2, <1>3, <1>6, CopyIs
<1>8. <<>> \o Take(src, k) = Take(src, k)
    BY <1>5, EmptyIs
<1> HIDE DEF given
<1>9. AppendStep
    <2> DEFINE held == IF last'.op = "strncpy" THEN <<>> ELSE StringIn(text)
               left == size - Len(held) - 1
               put  == IF last'.op # "rasnprintf"
                       THEN Take(last'.given, Min({left, Len(last'.given)}))
                       ELSE IF last'.outcome = "NONE" THEN last'.given ELSE <<>>
    <2>1. size - Len(<<>>) - 1 = size - 1
        BY <1>1, EmptyIs
    <2>2. last'.op = "strncpy" /\ last'.op # "rasnprintf" /\ last'.given = given
        BY <1>7
    <2>3. StringIn(text') = <<>> \o added /\ Nul \in Range(text') /\ last'.number = Len(added)
        BY <1>2, <1>4, <1>7, <1>8
    <2>4. held = <<>>
        BY <2>2
    <2>5. put = Take(last'.given, Min({left, Len(last'.given)}))
        BY <2>2
    <2> HIDE DEF held, put
    <2>6. put = added
        BY <2>1, <2>2, <2>4, <2>5
    <2>7. /\ StringIn(text') = held \o put
          /\ last'.op # "rasnprintf" => Nul \in Range(text')
          /\ last'.op = "strncpy" => last'.number = Len(put)
        BY <2>3, <2>4, <2>6
    <2> USE DEF held, put
    <2> QED BY <2>7, Zenon DEF AppendStep
<1> QED BY <1>7, <1>9

LEMMA StrncatKeeps ==
    ASSUME IInv, NEW src \in Texts, NEW count \in Counts, Strncat(src, count)
    PROVE  IInv' /\ AppendStep
<1> DEFINE r == scu_strncat(Block, size, Terminated(src), count)
           kept == StringIn(text)
           room == size - Len(kept) - 1
           h == Min({room, count})
           k == Min({h, Len(src)})
           given == Take(src, Min({count, Len(src)}))
           added == Take(given, Min({room, Len(given)}))
<1>1. /\ Typed /\ size \in Nat /\ src \in Seq(Bytes) /\ Nul \notin Range(src)
      /\ count \in Nat /\ Nul \in Range(text)
    BY TypedIs, BytesAre, CountsAssumption DEF IInv, Strncat, IsString
<1>2. /\ k \in 0..Len(src) /\ Len(kept) + k < size /\ kept \in Seq(Bytes)
      /\ r.dest \in Seq(Bytes) /\ Len(r.dest) = size
      /\ HoldsString(r.dest, kept \o Take(src, k))
    BY <1>1, StrncatIs
<1>3. Copy("strncat", r, src, count)
    BY DEF Strncat
<1> HIDE DEF r, kept
<1>4. room \in Nat
    <2>1. Len(kept) \in Nat /\ Len(src) \in Nat
        BY <1>1, <1>2, LenProperties
    <2> QED BY <1>1, <1>2, <2>1
<1> HIDE DEF room
<1>5. Take(src, k) = added
    BY <1>1, <1>4, Limits
<1> HIDE DEF k, h
<1>6. /\ IInv' /\ Nul \in Range(text') /\ StringIn(text') = kept \o Take(src, k)
      /\ last'.op = "strncat" /\ last'.number = r.result /\ last'.given = given
    BY <1>2, <1>3, CopyIs
<1> HIDE DEF given
<1>7. AppendStep
    <2> DEFINE held == IF last'.op = "strncpy" THEN <<>> ELSE StringIn(text)
               left == size - Len(held) - 1
               put  == IF last'.op # "rasnprintf"
                       THEN Take(last'.given, Min({left, Len(last'.given)}))
                       ELSE IF last'.outcome = "NONE" THEN last'.given ELSE <<>>
    <2>1. last'.op # "strncpy" /\ last'.op # "rasnprintf" /\ last'.given = given
        BY <1>6
    <2>2. StringIn(text') = kept \o added /\ Nul \in Range(text')
        BY <1>5, <1>6
    <2>3. held = kept
        BY <2>1 DEF kept
    <2>4. put = Take(last'.given, Min({left, Len(last'.given)}))
        BY <2>1
    <2> HIDE DEF held, put
    <2>5. left = room
        BY <2>3 DEF room
    <2> HIDE DEF left
    <2>6. put = added
        BY <2>1, <2>4, <2>5
    <2>7. /\ StringIn(text') = held \o put
          /\ last'.op # "rasnprintf" => Nul \in Range(text')
          /\ last'.op = "strncpy" => last'.number = Len(put)
        BY <2>1, <2>2, <2>3, <2>6
    <2> USE DEF held, put, left
    <2> QED BY <2>7, Zenon DEF AppendStep
<1> QED BY <1>6, <1>7

\* Whichever step of scu_vrasnprintf fails, the string that is there stays.
LEMMA RasnprintfAppends ==
    ASSUME IInv, NEW printed \in Texts, Rasnprintf(printed)
    PROVE  AppendStep
<1> DEFINE offset == IF size = 0 THEN 0 ELSE scu_strlen(text)
           kept == StringIn(text)
<1>1. /\ Typed /\ text \in Seq(Bytes) /\ Len(text) \in Nat /\ size \in Nat /\ Len(text) <= size
      /\ printed \in Seq(Bytes) /\ Nul \notin Range(printed)
    BY TypedIs, BytesAre DEF IInv, Typed
<1>2. size = 0 \/ Nul \in Range(text)
    BY <1>1 DEF Rasnprintf, IsString
<1>3. /\ kept \in Seq(Bytes) /\ Nul \notin Range(kept) /\ Len(kept) \in Nat
      /\ Len(kept) <= Len(text) /\ kept = Take(text, Len(kept))
      /\ Nul \in Range(text) => Len(kept) = scu_strlen(text)
    BY <1>1, StringInIs
<1>4. offset = Len(kept)
    BY <1>1, <1>2, <1>3
<1>5. PrintAt("rasnprintf", offset, text, printed)
    BY DEF Rasnprintf
<1> HIDE DEF offset, kept
<1>6. offset \in 0..Len(text) /\ Take(text, offset) = kept /\ offset \in Nat /\ Len(printed) \in Nat
    BY <1>1, <1>3, <1>4, LenProperties
<1>7. last'.op = "rasnprintf" /\ last'.given = printed
    BY <1>5 DEF PrintAt, AnswerTo
<1>8. kept \o <<>> = kept /\ <<>> \in Seq(Bytes)
    BY <1>3, EmptyIs
<1>9. ASSUME NEW b \in Seq(Bytes), Nul \notin Range(b), text' = Put(text, offset, b)
      PROVE  StringIn(text') = kept \o b
    <2>1. text' = Terminated(kept \o b) /\ kept \o b \in Seq(Bytes)
        BY <1>1, <1>6, <1>9, PutIs
    <2>2. Nul \notin Range(kept \o b)
        BY <1>3, <1>9, LacksConcat
    <2> QED BY <2>1, <2>2, StringInString, BytesAre
<1>10. \/ last'.outcome = "NONE" /\ StringIn(text') = kept \o printed
       \/ last'.outcome # "NONE" /\ StringIn(text') = kept \o <<>>
    <2>1. CASE text' = text /\ last'.outcome # "NONE"
        BY <1>8, <2>1 DEF kept
    <2>2. ASSUME NEW new \in scu_ensure_size(size, Required(offset, Len(printed))),
                 ~OutOfMemory(new, Required(offset, Len(printed))),
                 \/ text' = vsnprintf(text, new, offset, printed) /\ last'.outcome = "NONE"
                 \/ text' = Put(text, offset, <<>>) /\ last'.outcome # "NONE"
          PROVE  \/ last'.outcome = "NONE" /\ StringIn(text') = kept \o printed
                 \/ last'.outcome # "NONE" /\ StringIn(text') = kept \o <<>>
        <3> DEFINE required == Required(offset, Len(printed))
        <3>1. required \in Nat /\ required = (offset + Len(printed)) + 1
            BY <1>6 DEF Required
        <3>2. new \in Nat /\ required <= new
            BY <1>1, <2>2, <3>1, GrownIs
        <3> HIDE DEF required
        <3>3. offset < new /\ offset + Len(printed) < new
            BY <1>6, <3>1, <3>2
        <3>4. CASE text' = vsnprintf(text, new, offset, printed) /\ last'.outcome = "NONE"
            <4>1. text' = Put(text, offset, printed)
                BY <1>1, <1>6, <3>2, <3>3, <3>4, PrintedIs
            <4> QED BY <1>1, <1>9, <3>4, <4>1
        <3>5. CASE text' = Put(text, offset, <<>>) /\ last'.outcome # "NONE"
            BY <1>8, <1>9, <3>5, EmptyString
        <3> QED BY <2>2, <3>4, <3>5
    <2>3. \/ text' = text /\ last'.outcome # "NONE"
          \/ \E new \in scu_ensure_size(size, Required(offset, Len(printed))) :
                /\ ~OutOfMemory(new, Required(offset, Len(printed)))
                /\ \/ text' = vsnprintf(text, new, offset, printed) /\ last'.outcome = "NONE"
                   \/ text' = Put(text, offset, <<>>) /\ last'.outcome # "NONE"
        BY <1>5 DEF PrintAt, AnswerTo
    <2> QED BY <2>1, <2>2, <2>3
<1>11. CASE last'.outcome = "NONE" /\ StringIn(text') = kept \o printed
    BY <1>7, <1>11 DEF AppendStep, kept
<1>12. CASE last'.outcome # "NONE" /\ StringIn(text') = kept \o <<>>
    BY <1>7, <1>12 DEF AppendStep, kept
<1> QED BY <1>10, <1>11, <1>12

--------------------------------------------------------------------------------
(* Every step, and the theorems *)

LEMMA FileCallKeeps ==
    ASSUME IInv, used = 0, FileCall
    PROVE  IInv'
<1>1. CASE Fopen("fopen", Contents)
    BY <1>1, BytesAre, FopenKeeps
<1>2. CASE Fopen("fopentmp", {<<>>})
    <2>1. \A t \in {<<>>} : t \in Seq(Bytes)
        BY EmptyString
    <2> QED BY <1>2, <2>1, FopenKeeps
<1>3. CASE Freopen \/ Fclose \/ Forget
    BY <1>3, FreopenKeeps, FcloseKeeps, ForgetKeeps
<1>4. CASE Freadc \/ Freads
    BY <1>4, FreadcKeeps, FreadsKeeps
<1>5. CASE \E n \in Counts : Fread(n)
    BY <1>5, FreadKeeps
<1>6. CASE \E p \in 0..MaxContent : Fseek(p)
    BY <1>6, FseekKeeps
<1>7. ASSUME NEW c \in UNION {Range(t) : t \in Texts}, Funreadc(c) \/ Fwritec(c) PROVE IInv'
    <2>1. c \in Bytes \ {Nul}
        BY BytesAre
    <2>2. <<c>> \in Seq(Bytes)
        BY <2>1
    <2>3. CASE Funreadc(c)
        BY <2>1, <2>3, FunreadcKeeps
    <2>4. CASE Fwritec(c)
        BY <2>2, <2>4, WriteKeeps DEF Fwritec
    <2> QED BY <1>7, <2>3, <2>4
<1>8. ASSUME NEW t \in Texts, Fwrites(t) \/ Fwriteln(t) PROVE IInv'
    <2>1. t \in Seq(Bytes) /\ Newline \in Bytes
        BY BytesAre
    <2>2. Append(t, Newline) \in Seq(Bytes)
        BY <2>1, AppendProperties
    <2>3. CASE Fwrites(t)
        BY <2>1, <2>3, WriteKeeps DEF Fwrites
    <2>4. CASE Fwriteln(t)
        BY <2>2, <2>4, WriteKeeps DEF Fwriteln
    <2> QED BY <1>8, <2>3, <2>4
<1>9. CASE Frewind \/ Fclear
    BY <1>9, FrewindKeeps, FclearKeeps
<1> QED BY <1>1, <1>2, <1>3, <1>4, <1>5, <1>6, <1>7, <1>8, <1>9 DEF FileCall

LEMMA BufferCallKeeps ==
    ASSUME IInv, used = 0, BufferCall
    PROVE  IInv'
<1>1. CASE FreeBuffer
    BY <1>1, FreeBufferKeeps
<1>2. ASSUME NEW n \in BufferSizes, ProvideBuffer(n) PROVE IInv'
    BY <1>2, ProvideBufferKeeps
<1>3. ASSUME NEW t \in Texts, Snprintf(t) \/ Rsnprintf(t) \/ Rasnprintf(t) PROVE IInv'
    BY <1>3, SnprintfKeeps, RsnprintfKeeps, RasnprintfKeeps
<1>4. ASSUME NEW t \in Texts, NEW count \in Counts, Strncpy(t, count) \/ Strncat(t, count)
      PROVE  IInv'
    BY <1>4, StrncpyKeeps, StrncatKeeps
<1> QED BY <1>1, <1>2, <1>3, <1>4 DEF BufferCall

LEMMA InvStep == IInv /\ [Next]_vars => IInv'
<1> SUFFICES ASSUME IInv, [Next]_vars PROVE IInv'
    OBVIOUS
<1>1. CASE Freadln
    BY <1>1, FreadlnKeeps
<1>2. CASE Freadall
    BY <1>2, FreadallKeeps
<1>3. CASE used = 0 /\ FileCall
    BY <1>3, FileCallKeeps
<1>4. CASE used = 0 /\ BufferCall
    BY <1>4, BufferCallKeeps
<1>5. CASE UNCHANGED vars
    BY <1>5 DEF vars, IInv, Typed, InLoop, PiecesAddUp, ReadsRight, BufferSound, IsString
<1> QED BY <1>1, <1>2, <1>3, <1>4, <1>5 DEF Next

LEMMA Invariance == Spec => []IInv
<1>1. Init => IInv
    BY Init_IInv
<1> QED BY <1>1, InvStep, PTL DEF Spec

\* A FILE is open for every open file and no other, whatever fails on the way, and no buffer
\* or position leaves its bounds.
THEOREM TypeCorrect == Spec => []TypeOK
<1>1. IInv => TypeOK
    BY TypedSuffices DEF IInv
<1> QED BY <1>1, Invariance, PTL

\* However calls that read follow one another, and wherever the loops of scu_freadln and
\* scu_freadall stand: what was given, what is in the buffer and what is left are the file.
THEOREM PiecesCorrect == Spec => []PiecesAddUp
BY Invariance, PTL DEF IInv

\* The answers of the functions that read say what is true of the file and of the string.
THEOREM ReadsCorrect == Spec => []ReadsRight
BY Invariance, PTL DEF IInv

\* After every call that writes a string to the buffer, there is one, within its size.
THEOREM BufferCorrect == Spec => []BufferSound
BY Invariance, PTL DEF IInv

\* The last call was not one that appends.
LEMMA OthersDoNotAppend ==
    ASSUME Next, last'.op \in {"rasnprintf", "strncpy", "strncat"}
    PROVE  \/ \E t \in Texts : Rasnprintf(t)
           \/ \E t \in Texts, count \in Counts : Strncpy(t, count) \/ Strncat(t, count)
<1>1. ASSUME Freadln \/ Freadall PROVE FALSE
    <2>1. last'.op \in {"freadln", "freadall"}
        BY <1>1 DEF Freadln, Freadall, NoRoom, FreadlnPiece, FreadallPiece, Return, GoesOn, Answer,
                    AnswerTo
    <2> QED BY <2>1
<1>2. ASSUME FileCall PROVE FALSE
    <2>1. ASSUME Fopen("fopen", Contents) PROVE last'.op = "fopen"
        BY <2>1 DEF Fopen, Answer, AnswerTo
    <2>2. ASSUME Fopen("fopentmp", {<<>>}) PROVE last'.op = "fopentmp"
        BY <2>2 DEF Fopen, Answer, AnswerTo
    <2>3. ASSUME Freopen PROVE FALSE
        BY <2>3 DEF Freopen, Answer, AnswerTo
    <2>4. ASSUME Fclose \/ Forget PROVE FALSE
        BY <2>4 DEF Fclose, Forget, Answer, AnswerTo
    <2>5. ASSUME Freadc PROVE FALSE
        BY <2>5 DEF Freadc, Answer, AnswerTo
    <2>6. ASSUME Freads PROVE FALSE
        BY <2>6 DEF Freads, Answer, AnswerTo
    <2>7. ASSUME NEW n \in Counts, Fread(n) PROVE FALSE
        BY <2>7 DEF Fread, Answer, AnswerTo
    <2>8. ASSUME NEW p \in 0..MaxContent, Fseek(p) PROVE FALSE
        BY <2>8 DEF Fseek, Answer, AnswerTo
    <2>9. ASSUME NEW c, Funreadc(c) PROVE FALSE
        BY <2>9 DEF Funreadc, Answer, AnswerTo
    <2>10. ASSUME NEW bytes, NEW op \in {"fwritec", "fwrites", "fwriteln"}, Write(op, bytes)
           PROVE  FALSE
        BY <2>10 DEF Write, Answer, AnswerTo
    <2>11. ASSUME NEW c, Fwritec(c) PROVE FALSE
        BY <2>10, <2>11 DEF Fwritec
    <2>12. ASSUME NEW t, Fwrites(t) \/ Fwriteln(t) PROVE FALSE
        BY <2>10, <2>12 DEF Fwrites, Fwriteln
    <2>13. ASSUME Frewind \/ Fclear PROVE FALSE
        BY <2>13 DEF Frewind, Fclear, Answer, AnswerTo
    <2> QED BY <1>2, <2>1, <2>2, <2>3, <2>4, <2>5, <2>6, <2>7, <2>8, <2>9, <2>11, <2>12, <2>13
            DEF FileCall
<1>3. ASSUME FreeBuffer \/ \E n \in BufferSizes : ProvideBuffer(n) PROVE FALSE
    BY <1>3 DEF FreeBuffer, ProvideBuffer, Answer, AnswerTo
<1>4. ASSUME NEW t \in Texts, Snprintf(t) \/ Rsnprintf(t) PROVE FALSE
    BY <1>4 DEF Snprintf, Rsnprintf, PrintAt, AnswerTo
<1> QED BY <1>1, <1>2, <1>3, <1>4 DEF Next, BufferCall

\* The string that is appended to stays, and what is appended is behind it: for the bounded
\* copies as much as fits, for scu_vrasnprintf all of it or, whichever step fails, nothing.
THEOREM AppendsCorrect == Spec => AppendsKeepTheString
<1>1. IInv /\ Next => AppendStep
    <2> SUFFICES ASSUME IInv, Next, last'.op \in {"rasnprintf", "strncpy", "strncat"}
                 PROVE  AppendStep
        BY DEF AppendStep
    <2>1. \/ \E t \in Texts : Rasnprintf(t)
          \/ \E t \in Texts, count \in Counts : Strncpy(t, count) \/ Strncat(t, count)
        BY OthersDoNotAppend
    <2> QED BY <2>1, RasnprintfAppends, StrncpyKeeps, StrncatKeeps
<1>2. IInv /\ [Next]_vars => [AppendStep]_vars
    BY <1>1
<1> QED BY <1>2, Invariance, PTL DEF Spec, AppendsKeepTheString

\* The comparison of any two strings is an order, and a bounded one is that of bounded copies.
THEOREM ComparisonsCorrect == Spec => []ComparisonsAgree
<1>1. IInv => ComparisonsAgree
    BY ComparisonsAlwaysAgree DEF IInv
<1> QED BY <1>1, Invariance, PTL

\* Whatever string is in the buffer, the searches from its end find what those from the
\* start find in its mirror.
THEOREM SearchesCorrect == Spec => []SearchesMirror
<1>1. IInv => SearchesMirror
    BY SearchesAlwaysMirror DEF IInv
<1> QED BY <1>1, Invariance, PTL
================================================================================
