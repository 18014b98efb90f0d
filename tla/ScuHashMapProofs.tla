--------------------------- MODULE ScuHashMapProofs ----------------------------
(***************************************************************************)
(* Proofs about ScuHashMap, for every set of keys and values, every hash   *)
(* function and all capacities: the fields are of their types, the pairs   *)
(* are counted, the Robin Hood order holds at every step of a call, no key *)
(* is in two places, a lookup that stops early has missed nothing, and the *)
(* whole map implements the dictionary of Dictionary.                      *)
(***************************************************************************)
EXTENDS ScuHashMap, FiniteSetTheorems, WellFoundedInduction, TLAPS

--------------------------------------------------------------------------------
(* Facts about %, and one about the order of the natural numbers, in place of induction *)

\* A remainder is one of the c indices of an array of c slots.
LEMMA ModRange ==
    ASSUME NEW c \in Nat \ {0}, NEW a \in Int
    PROVE  a % c \in 0..(c - 1)
BY SMT

\* An index inside the array is its own remainder.
LEMMA ModInside ==
    ASSUME NEW c \in Nat \ {0}, NEW a \in 0..(c - 1)
    PROVE  a % c = a
BY SMT

\* An index that ran over the end once comes back at the front.
LEMMA ModAbove ==
    ASSUME NEW c \in Nat \ {0}, NEW a \in c..(2 * c - 1)
    PROVE  a % c = a - c
BY SMTT(30)

\* A difference of two indices that is negative comes back at the end.
LEMMA ModBelow ==
    ASSUME NEW c \in Nat \ {0}, NEW a \in (-c)..(-1)
    PROVE  a % c = a + c
BY SMTT(30)

\* The slot of the element i places behind index h, for i up to a whole turn.
LEMMA RingSlot ==
    ASSUME NEW c \in Nat \ {0}, NEW h \in 0..(c - 1), NEW i \in 0..c
    PROVE  (h + i) % c = IF h + i < c THEN h + i ELSE h + i - c
<1>1. CASE h + i < c
    <2>1. h + i \in 0..(c - 1)
        BY <1>1
    <2>2. (h + i) % c = h + i
        BY <2>1, ModInside, Zenon
    <2> QED BY <1>1, <2>2
<1>2. CASE ~(h + i < c)
    <2>1. h + i \in c..(2 * c - 1)
        BY <1>2
    <2>2. (h + i) % c = (h + i) - c
        BY <2>1, ModAbove, Zenon
    <2> QED BY <1>2, <2>2
<1>3. QED BY <1>1, <1>2

\* A set of natural numbers that is not empty has a least member.
LEMMA LeastMember ==
    ASSUME NEW S \in SUBSET Nat, S # {}
    PROVE  \E x \in S : \A y \in S : x <= y
<1>1. \E x \in S : \A y \in S : ~(<<y, x>> \in OpToRel(<, Nat))
    <2>1. S \subseteq Nat
        OBVIOUS
    <2> HIDE DEF OpToRel
    <2> QED BY <2>1, NatLessThanWellFounded, WFMin, Zenon
<1>2. \A x, y \in Nat : y < x => <<y, x>> \in OpToRel(<, Nat)
    BY DEF OpToRel
<1>3. PICK x \in S : \A y \in S : ~(<<y, x>> \in OpToRel(<, Nat))
    BY <1>1, Zenon
<1>4. \A y \in S : ~(y < x)
    BY <1>2, <1>3, Zenon
<1>5. QED BY <1>4

--------------------------------------------------------------------------------
(* Positions in a table of n buckets *)

After(j, n) == (j + 1) % n
Before(j, n) == (j - 1) % n
Dist(b, j, n) == (j - (b.hash % n)) % n

\* A difference of two indices, wrapped.
LEMMA WrapDifference ==
    ASSUME NEW n \in Nat \ {0}, NEW i \in 0..(n - 1), NEW h \in 0..(n - 1)
    PROVE  (i - h) % n = IF i >= h THEN i - h ELSE i - h + n
<1>1. CASE i >= h
    <2>1. i - h \in 0..(n - 1)
        BY <1>1
    <2>2. (i - h) % n = i - h
        BY <2>1, ModInside, Zenon
    <2> QED BY <1>1, <2>2
<1>2. CASE ~(i >= h)
    <2>1. i - h \in (-n)..(-1)
        BY <1>2
    <2>2. (i - h) % n = (i - h) + n
        BY <2>1, ModBelow, Zenon
    <2> QED BY <1>2, <2>2
<1> QED BY <1>1, <1>2

LEMMA AfterIs ==
    ASSUME NEW n \in Nat \ {0}, NEW i \in 0..(n - 1)
    PROVE  /\ After(i, n) = (IF i = n - 1 THEN 0 ELSE i + 1)
           /\ After(i, n) \in 0..(n - 1)
<1>1. CASE i = n - 1
    <2>1. i + 1 \in n..(2 * n - 1)
        BY <1>1
    <2>2. (i + 1) % n = (i + 1) - n
        BY <2>1, ModAbove, Zenon
    <2> QED BY <1>1, <2>2 DEF After
<1>2. CASE i # n - 1
    <2>1. i + 1 \in 0..(n - 1)
        BY <1>2
    <2>2. (i + 1) % n = i + 1
        BY <2>1, ModInside, Zenon
    <2> QED BY <1>2, <2>1, <2>2 DEF After
<1> QED BY <1>1, <1>2

LEMMA BeforeIs ==
    ASSUME NEW n \in Nat \ {0}, NEW i \in 0..(n - 1)
    PROVE  /\ Before(i, n) = (IF i = 0 THEN n - 1 ELSE i - 1)
           /\ Before(i, n) \in 0..(n - 1)
<1>1. CASE i = 0
    <2>1. i - 1 \in (-n)..(-1)
        BY <1>1
    <2>2. (i - 1) % n = (i - 1) + n
        BY <2>1, ModBelow, Zenon
    <2> QED BY <1>1, <2>2 DEF Before
<1>2. CASE i # 0
    <2>1. i - 1 \in 0..(n - 1)
        BY <1>2
    <2>2. (i - 1) % n = i - 1
        BY <2>1, ModInside, Zenon
    <2> QED BY <1>2, <2>1, <2>2 DEF Before
<1> QED BY <1>1, <1>2

LEMMA BucketFields ==
    ASSUME NEW b \in Bucket
    PROVE  b.hash \in Nat /\ b.key \in Key /\ b.value \in Value /\ b # Vacant
BY VacantAssumption DEF Bucket

\* How far a pair in bucket i is behind its ideal bucket.
LEMMA DistIs ==
    ASSUME NEW n \in Nat \ {0}, NEW i \in 0..(n - 1), NEW b \in Bucket
    PROVE  /\ b.hash % n \in 0..(n - 1)
           /\ Dist(b, i, n) = (IF i >= b.hash % n THEN i - (b.hash % n) ELSE i - (b.hash % n) + n)
           /\ Dist(b, i, n) \in 0..(n - 1)
<1>1. b.hash \in Int
    BY BucketFields
<1>2. b.hash % n \in 0..(n - 1)
    BY <1>1, ModRange, Zenon
<1>3. Dist(b, i, n) = IF i >= b.hash % n THEN i - (b.hash % n) ELSE i - (b.hash % n) + n
    BY <1>2, WrapDifference DEF Dist
<1> QED BY <1>2, <1>3

\* In its ideal bucket a pair is not behind.
LEMMA DistAtHome ==
    ASSUME NEW n \in Nat \ {0}, NEW b \in Bucket
    PROVE  b.hash % n \in 0..(n - 1) /\ Dist(b, b.hash % n, n) = 0
<1>1. b.hash \in Int
    BY BucketFields
<1>2. b.hash % n \in 0..(n - 1)
    BY <1>1, ModRange, Zenon
<1>3. Dist(b, b.hash % n, n) = (IF b.hash % n >= b.hash % n THEN (b.hash % n) - (b.hash % n)
                               ELSE (b.hash % n) - (b.hash % n) + n)
    BY <1>2, DistIs, Zenon
<1> QED BY <1>2, <1>3

\* One bucket on it is one farther behind, until it comes home again.
LEMMA DistAfter ==
    ASSUME NEW n \in Nat \ {0}, NEW i \in 0..(n - 1), NEW b \in Bucket
    PROVE  Dist(b, After(i, n), n) = IF Dist(b, i, n) = n - 1 THEN 0 ELSE Dist(b, i, n) + 1
<1> DEFINE h == b.hash % n
<1>1. h \in 0..(n - 1) /\ After(i, n) \in 0..(n - 1)
    BY DistIs, AfterIs
<1>2. After(i, n) = IF i = n - 1 THEN 0 ELSE i + 1
    BY AfterIs
<1>3. Dist(b, i, n) = IF i >= h THEN i - h ELSE i - h + n
    BY DistIs
<1>4. Dist(b, After(i, n), n) = IF After(i, n) >= h THEN After(i, n) - h ELSE After(i, n) - h + n
    BY <1>1, DistIs
<1> HIDE DEF h
<1> QED BY <1>1, <1>2, <1>3, <1>4

LEMMA AfterBefore ==
    ASSUME NEW n \in Nat \ {0}, NEW i \in 0..(n - 1)
    PROVE  /\ Before(After(i, n), n) = i
           /\ After(Before(i, n), n) = i
           /\ \A j \in 0..(n - 1) : Before(j, n) = i => j = After(i, n)
           /\ n > 1 => Before(i, n) # i /\ After(i, n) # i
<1>1. \A j \in 0..(n - 1) : /\ After(j, n) = (IF j = n - 1 THEN 0 ELSE j + 1)
                            /\ After(j, n) \in 0..(n - 1)
                            /\ Before(j, n) = (IF j = 0 THEN n - 1 ELSE j - 1)
                            /\ Before(j, n) \in 0..(n - 1)
    BY AfterIs, BeforeIs
<1>2. Before(After(i, n), n) = i
    BY <1>1
<1>3. After(Before(i, n), n) = i
    BY <1>1
<1> QED BY <1>1, <1>2, <1>3

--------------------------------------------------------------------------------
(* The Robin Hood order of neighbours *)

\* b fits into bucket j: it is at most one bucket farther from home than the pair before it.
Fits(bs, n, b, j) ==
    Dist(b, j, n) > 0 =>
        /\ bs[Before(j, n)] # Vacant
        /\ Dist(bs[Before(j, n)], Before(j, n), n) >= Dist(b, j, n) - 1

Ordered(bs, n) == \A j \in 0..(n - 1) : bs[j] # Vacant => Fits(bs, n, bs[j], j)

LEMMA CellType ==
    ASSUME NEW n \in Nat, NEW bs \in Cells(n), NEW j \in 0..(n - 1)
    PROVE  bs[j] # Vacant => bs[j] \in Bucket
BY DEF Cells, Cell

LEMMA DistType ==
    ASSUME NEW n \in Nat \ {0}, NEW bs \in Cells(n), NEW j \in 0..(n - 1), bs[j] # Vacant
    PROVE  Dist(bs[j], j, n) \in 0..(n - 1)
<1>1. bs[j] \in Bucket
    BY CellType
<1> QED BY <1>1, DistIs

\* Changing a bucket matters to itself and to the next one.
LEMMA OrderedExcept ==
    ASSUME NEW n \in Nat \ {0}, NEW bs \in Cells(n), NEW i \in 0..(n - 1), NEW cell \in Cell,
           Ordered(bs, n),
           LET new == [bs EXCEPT ![i] = cell]
           IN  /\ cell # Vacant => Fits(new, n, cell, i)
               /\ After(i, n) # i /\ bs[After(i, n)] # Vacant =>
                      Fits(new, n, bs[After(i, n)], After(i, n))
    PROVE  Ordered([bs EXCEPT ![i] = cell], n)
<1> DEFINE new == [bs EXCEPT ![i] = cell]
<1>1. new[i] = cell /\ \A j \in 0..(n - 1) : j # i => new[j] = bs[j]
    BY DEF Cells
<1>2. SUFFICES ASSUME NEW j \in 0..(n - 1), j # i, j # After(i, n), bs[j] # Vacant
               PROVE  Fits(new, n, bs[j], j)
    BY <1>1 DEF Ordered
<1>3. Before(j, n) \in 0..(n - 1) /\ Before(j, n) # i
    BY <1>2, BeforeIs, AfterBefore, Zenon
<1>4. Fits(bs, n, bs[j], j)
    BY <1>2 DEF Ordered
<1>5. new[Before(j, n)] = bs[Before(j, n)]
    BY <1>1, <1>3
<1> QED BY <1>4, <1>5 DEF Fits

\* A pair that fits is put into a vacant bucket.
LEMMA PutKeepsOrder ==
    ASSUME NEW n \in Nat \ {0}, NEW bs \in Cells(n), NEW i \in 0..(n - 1), NEW b \in Bucket,
           Ordered(bs, n), Fits(bs, n, b, i), bs[i] = Vacant
    PROVE  Ordered([bs EXCEPT ![i] = b], n)
<1> DEFINE new == [bs EXCEPT ![i] = b]
<1>1. b \in Cell
    BY DEF Cell
<1>2. Before(i, n) \in 0..(n - 1) /\ After(i, n) \in 0..(n - 1)
    BY BeforeIs, AfterIs, Zenon
<1>3. Fits(new, n, b, i)
    <2>1. CASE Before(i, n) = i
        <3>1. bs[Before(i, n)] = Vacant
            BY <2>1
        <3> QED BY <3>1 DEF Fits
    <2>2. CASE Before(i, n) # i
        <3>1. new[Before(i, n)] = bs[Before(i, n)]
            BY <1>2, <2>2 DEF Cells
        <3> QED BY <3>1 DEF Fits
    <2> QED BY <2>1, <2>2
<1>4. ASSUME bs[After(i, n)] # Vacant PROVE Fits(new, n, bs[After(i, n)], After(i, n))
    <2>1. Before(After(i, n), n) = i
        BY AfterBefore, Zenon
    <2>2. Fits(bs, n, bs[After(i, n)], After(i, n))
        BY <1>2, <1>4 DEF Ordered
    <2> QED BY <2>1, <2>2 DEF Fits
<1> HIDE DEF new
<1>5. Ordered(new, n)
    BY <1>1, <1>3, <1>4, OrderedExcept DEF new
<1> QED BY <1>5 DEF new

\* A pair that is farther from home takes the bucket; the one that was there fits behind it.
LEMMA SwapKeepsOrder ==
    ASSUME NEW n \in Nat \ {0}, NEW bs \in Cells(n), NEW i \in 0..(n - 1), NEW b \in Bucket,
           Ordered(bs, n), Fits(bs, n, b, i), bs[i] # Vacant, Dist(b, i, n) > Dist(bs[i], i, n)
    PROVE  LET new == [bs EXCEPT ![i] = b]
           IN  /\ Ordered(new, n)
               /\ Dist(bs[i], After(i, n), n) = Dist(bs[i], i, n) + 1
               /\ Fits(new, n, bs[i], After(i, n))
<1> DEFINE new == [bs EXCEPT ![i] = b]
<1>1. b \in Cell /\ b # Vacant /\ new[i] = b
    BY BucketFields DEF Cell, Cells
<1>2. Before(i, n) \in 0..(n - 1) /\ After(i, n) \in 0..(n - 1) /\ Before(After(i, n), n) = i
    BY BeforeIs, AfterIs, AfterBefore, Zenon
<1>3. bs[i] \in Bucket /\ Dist(bs[i], i, n) \in 0..(n - 1) /\ Dist(b, i, n) \in 0..(n - 1)
    BY CellType, DistIs
<1>4. Dist(bs[i], After(i, n), n) = Dist(bs[i], i, n) + 1
    <2>1. Dist(bs[i], i, n) # n - 1
        BY <1>3
    <2>2. Dist(bs[i], After(i, n), n) =
              IF Dist(bs[i], i, n) = n - 1 THEN 0 ELSE Dist(bs[i], i, n) + 1
        BY <1>3, DistAfter, Zenon
    <2> QED BY <2>1, <2>2
<1>5. Fits(new, n, bs[i], After(i, n))
    BY <1>1, <1>2, <1>3, <1>4 DEF Fits
<1>6. n > 1
    BY <1>3
<1>7. Before(i, n) # i
    BY <1>6, AfterBefore, Zenon
<1>8. Fits(new, n, b, i)
    <2>1. new[Before(i, n)] = bs[Before(i, n)]
        BY <1>2, <1>7 DEF Cells
    <2> QED BY <2>1 DEF Fits
<1>9. ASSUME bs[After(i, n)] # Vacant PROVE Fits(new, n, bs[After(i, n)], After(i, n))
    <2>1. Fits(bs, n, bs[After(i, n)], After(i, n))
        BY <1>2, <1>9 DEF Ordered
    <2>2. Dist(bs[After(i, n)], After(i, n), n) \in 0..(n - 1)
        BY <1>2, <1>9, DistType
    <2> QED BY <1>1, <1>2, <1>3, <2>1, <2>2 DEF Fits
<1> HIDE DEF new
<1>10. Ordered(new, n)
    BY <1>1, <1>8, <1>9, OrderedExcept DEF new
<1> QED BY <1>4, <1>5, <1>10 DEF new

\* The bucket e places before bucket i.
Back(i, e, n) == (i - e) % n

LEMMA BackIs ==
    ASSUME NEW n \in Nat \ {0}, NEW i \in 0..(n - 1), NEW e \in 0..(n - 1)
    PROVE  /\ Back(i, e, n) \in 0..(n - 1)
           /\ Back(i, 0, n) = i
           /\ e > 0 => Before(Back(i, e - 1, n), n) = Back(i, e, n)
<1>1. \A d \in 0..(n - 1) : Back(i, d, n) = IF i >= d THEN i - d ELSE i - d + n
    BY WrapDifference DEF Back
<1>2. \A d \in 0..(n - 1) : Back(i, d, n) \in 0..(n - 1)
    BY <1>1
<1>3. 0 \in 0..(n - 1) /\ Back(i, 0, n) = i
    BY <1>1
<1>4. ASSUME e > 0 PROVE Before(Back(i, e - 1, n), n) = Back(i, e, n)
    <2>1. e - 1 \in 0..(n - 1)
        BY <1>4
    <2>2. Before(Back(i, e - 1, n), n) =
              IF Back(i, e - 1, n) = 0 THEN n - 1 ELSE Back(i, e - 1, n) - 1
        BY <1>2, <2>1, BeforeIs, Zenon
    <2>3. Back(i, e - 1, n) = IF i >= e - 1 THEN i - (e - 1) ELSE i - (e - 1) + n
        BY <1>1, <2>1, Zenon
    <2>4. Back(i, e, n) = IF i >= e THEN i - e ELSE i - e + n
        BY <1>1, Zenon
    <2> QED BY <1>4, <2>2, <2>3, <2>4
<1> QED BY <1>2, <1>3, <1>4

\* From neighbour to neighbour: e buckets before a pair that fits and is d behind its ideal
\* bucket is a pair at least d - e behind its own.
LEMMA Chain ==
    ASSUME NEW n \in Nat \ {0}, NEW bs \in Cells(n), NEW i \in 0..(n - 1), NEW b \in Bucket,
           Ordered(bs, n), Fits(bs, n, b, i)
    PROVE  \A e \in 1..Dist(b, i, n) :
               LET p == Back(i, e, n)
               IN  bs[p] # Vacant /\ Dist(bs[p], p, n) >= Dist(b, i, n) - e
<1> DEFINE d == Dist(b, i, n)
           Holds(e) == LET p == Back(i, e, n)
                       IN  bs[p] # Vacant /\ Dist(bs[p], p, n) >= d - e
           Bad == {e \in 1..d : ~Holds(e)}
<1>1. d \in 0..(n - 1)
    BY DistIs
<1>2. ASSUME NEW e \in Bad, \A f \in Bad : e <= f PROVE FALSE
    <2>1. e \in 1..d /\ e \in 0..(n - 1) /\ ~Holds(e)
        BY <1>1
    <2>2. Before(Back(i, e - 1, n), n) = Back(i, e, n) /\ Back(i, 0, n) = i
        BY <2>1, BackIs
    <2>3. CASE e = 1
        <3>1. Before(i, n) = Back(i, 1, n)
            BY <2>2, <2>3
        <3> QED BY <1>1, <2>1, <2>3, <3>1 DEF Fits
    <2>4. CASE e # 1
        <3> DEFINE q == Back(i, e - 1, n)
        <3>1. e - 1 \in 1..d /\ e - 1 \notin Bad /\ e - 1 \in 0..(n - 1)
            BY <1>1, <1>2, <2>1, <2>4
        <3>2. bs[q] # Vacant /\ Dist(bs[q], q, n) >= d - (e - 1)
            BY <3>1
        <3>3. q \in 0..(n - 1)
            BY <3>1, BackIs
        <3>4. Fits(bs, n, bs[q], q) /\ Dist(bs[q], q, n) \in 0..(n - 1)
            BY <3>2, <3>3, DistType DEF Ordered
        <3>5. Before(q, n) = Back(i, e, n)
            BY <2>2
        <3> HIDE DEF q, d
        <3>6. Dist(bs[q], q, n) > 0
            BY <1>1, <2>1, <3>2, <3>4
        <3>7. bs[Back(i, e, n)] # Vacant /\
              Dist(bs[Back(i, e, n)], Back(i, e, n), n) >= Dist(bs[q], q, n) - 1
            BY <3>4, <3>5, <3>6 DEF Fits
        <3>8. Back(i, e, n) \in 0..(n - 1)
            BY <2>1, BackIs
        <3>9. Dist(bs[Back(i, e, n)], Back(i, e, n), n) \in 0..(n - 1)
            BY <3>7, <3>8, DistType
        <3> QED BY <1>1, <2>1, <3>2, <3>4, <3>7, <3>9
    <2> QED BY <2>3, <2>4
<1>3. Bad = {}
    <2>1. Bad \in SUBSET Nat
        BY <1>1
    <2> HIDE DEF Bad
    <2> QED BY <1>2, <2>1, LeastMember, Zenon
<1> QED BY <1>3

\* A pair that is not farther from home than the one in its way goes on by one.  It cannot have
\* come around the whole table: then no bucket would be vacant.
LEMMA GoOn ==
    ASSUME NEW n \in Nat \ {0}, NEW bs \in Cells(n), NEW i \in 0..(n - 1), NEW b \in Bucket,
           Ordered(bs, n), Fits(bs, n, b, i), bs[i] # Vacant, Dist(b, i, n) <= Dist(bs[i], i, n),
           NEW v \in 0..(n - 1), bs[v] = Vacant
    PROVE  /\ Dist(b, After(i, n), n) = Dist(b, i, n) + 1
           /\ Fits(bs, n, b, After(i, n))
<1>1. Dist(b, i, n) \in 0..(n - 1) /\ Dist(bs[i], i, n) \in 0..(n - 1)
    BY DistIs, DistType
<1>2. Before(After(i, n), n) = i
    BY AfterBefore, Zenon
<1>3. Dist(b, i, n) # n - 1
    <2> SUFFICES ASSUME Dist(b, i, n) = n - 1 PROVE FALSE
        OBVIOUS
    <2> DEFINE e == IF i >= v THEN i - v ELSE i - v + n
    <2>1. e \in 1..(n - 1)
        BY DEF Cells
    <2>2. Back(i, e, n) = IF i >= e THEN i - e ELSE i - e + n
        BY <2>1, WrapDifference DEF Back
    <2>3. Back(i, e, n) = v
        BY <2>2
    <2> HIDE DEF e
    <2>4. bs[Back(i, e, n)] # Vacant
        BY <2>1, Chain
    <2> QED BY <2>3, <2>4
<1>4. Dist(b, After(i, n), n) = IF Dist(b, i, n) = n - 1 THEN 0 ELSE Dist(b, i, n) + 1
    BY DistAfter, Zenon
<1>5. Dist(b, After(i, n), n) = Dist(b, i, n) + 1
    BY <1>3, <1>4
<1> QED BY <1>1, <1>2, <1>5 DEF Fits

\* A pair that is not in its ideal bucket moves back by one.
LEMMA ShiftKeepsOrder ==
    ASSUME NEW n \in Nat \ {0}, NEW bs \in Cells(n), NEW i \in 0..(n - 1), Ordered(bs, n),
           bs[i] # Vacant, bs[After(i, n)] # Vacant, Dist(bs[After(i, n)], After(i, n), n) # 0
    PROVE  Ordered([bs EXCEPT ![i] = bs[After(i, n)]], n)
<1> DEFINE j == After(i, n)
           b == bs[j]
           new == [bs EXCEPT ![i] = b]
<1>1. j \in 0..(n - 1) /\ Before(j, n) = i /\ Before(i, n) \in 0..(n - 1)
    BY AfterIs, AfterBefore, BeforeIs, Zenon
<1>2. b \in Bucket /\ bs[i] \in Bucket
    BY <1>1, CellType
<1>3. Dist(b, i, n) \in 0..(n - 1) /\ Dist(b, j, n) \in 0..(n - 1) /\ Dist(bs[i], i, n) \in 0..(n - 1)
    BY <1>1, <1>2, DistIs
<1>4. Dist(b, j, n) = IF Dist(b, i, n) = n - 1 THEN 0 ELSE Dist(b, i, n) + 1
    BY <1>2, DistAfter
<1>5. Dist(b, j, n) = Dist(b, i, n) + 1
    BY <1>4
<1>6. Fits(bs, n, b, j) /\ Fits(bs, n, bs[i], i)
    BY <1>1 DEF Ordered
<1>7. Dist(bs[i], i, n) >= Dist(b, i, n)
    BY <1>1, <1>3, <1>5, <1>6 DEF Fits
<1>8. n > 1
    BY <1>3, <1>5
<1>9. Before(i, n) # i /\ j # i
    BY <1>8, AfterBefore, Zenon
<1>10. new[i] = b /\ new[j] = b /\ new[Before(i, n)] = bs[Before(i, n)]
    BY <1>1, <1>9 DEF Cells
<1>11. Fits(new, n, b, i)
    <2> SUFFICES ASSUME Dist(b, i, n) > 0
                 PROVE  /\ bs[Before(i, n)] # Vacant
                        /\ Dist(bs[Before(i, n)], Before(i, n), n) >= Dist(b, i, n) - 1
        BY <1>10 DEF Fits
    <2>1. /\ bs[Before(i, n)] # Vacant
          /\ Dist(bs[Before(i, n)], Before(i, n), n) >= Dist(bs[i], i, n) - 1
        BY <1>3, <1>6, <1>7 DEF Fits
    <2>2. Dist(bs[Before(i, n)], Before(i, n), n) \in 0..(n - 1)
        BY <1>1, <2>1, DistType
    <2> QED BY <1>3, <1>7, <2>1, <2>2
<1>12. Fits(new, n, b, j)
    <2>1. b # Vacant /\ Dist(new[i], i, n) >= Dist(b, j, n) - 1
        BY <1>3, <1>5, <1>10
    <2> QED BY <1>1, <1>10, <2>1 DEF Fits
<1>13. b \in Cell
    BY <1>2 DEF Cell
<1> HIDE DEF new, b
<1>14. Ordered(new, n)
    BY <1>11, <1>12, <1>13, OrderedExcept DEF new, b
<1> QED BY <1>14 DEF new, b

\* A bucket may be vacated when nothing behind it needs to move back.
LEMMA VacateKeepsOrder ==
    ASSUME NEW n \in Nat \ {0}, NEW bs \in Cells(n), NEW i \in 0..(n - 1), Ordered(bs, n),
           bs[After(i, n)] # Vacant => Dist(bs[After(i, n)], After(i, n), n) = 0
    PROVE  Ordered([bs EXCEPT ![i] = Vacant], n)
<1>1. Vacant \in Cell
    BY DEF Cell
<1>2. bs[After(i, n)] # Vacant =>
          Fits([bs EXCEPT ![i] = Vacant], n, bs[After(i, n)], After(i, n))
    BY DEF Fits
<1> QED BY <1>1, <1>2, OrderedExcept

--------------------------------------------------------------------------------
(* The table *)

OccupiedIn(bs, n) == {j \in 0..(n - 1) : bs[j] # Vacant}

\* n buckets with c pairs in order.
TableOK(n, c, bs) ==
    /\ n \in Nat /\ bs \in Cells(n)
    /\ c = Cardinality(OccupiedIn(bs, n))
    /\ Ordered(bs, n)

LEMMA OccupiedFinite ==
    ASSUME NEW n \in Nat, NEW bs
    PROVE  /\ IsFiniteSet(OccupiedIn(bs, n))
           /\ Cardinality(OccupiedIn(bs, n)) \in 0..n
           /\ Cardinality(OccupiedIn(bs, n)) = n => OccupiedIn(bs, n) = 0..(n - 1)
           /\ Cardinality(OccupiedIn(bs, n)) = 0 => OccupiedIn(bs, n) = {}
<1>1. IsFiniteSet(0..(n - 1)) /\ Cardinality(0..(n - 1)) = n
    <2>1. 0 \in Int /\ n - 1 \in Int
        OBVIOUS
    <2>2. IsFiniteSet(0..(n - 1)) /\
          Cardinality(0..(n - 1)) = IF 0 > n - 1 THEN 0 ELSE (n - 1) - 0 + 1
        BY <2>1, FS_Interval, Zenon
    <2> QED BY <2>2
<1>2. OccupiedIn(bs, n) \in SUBSET (0..(n - 1))
    BY DEF OccupiedIn
<1>3. /\ IsFiniteSet(OccupiedIn(bs, n))
      /\ Cardinality(OccupiedIn(bs, n)) <= Cardinality(0..(n - 1))
      /\ Cardinality(0..(n - 1)) = Cardinality(OccupiedIn(bs, n)) => 0..(n - 1) = OccupiedIn(bs, n)
    BY <1>1, <1>2, FS_Subset, Zenon
<1>4. Cardinality(OccupiedIn(bs, n)) \in Nat
    BY <1>3, FS_CardinalityType, Zenon
<1>5. Cardinality(OccupiedIn(bs, n)) = 0 => OccupiedIn(bs, n) = {}
    BY <1>3, FS_EmptySet, Zenon
<1> QED BY <1>1, <1>3, <1>4, <1>5

\* A table that is not full has a vacant bucket; one that holds pairs has buckets.
LEMMA TableFacts ==
    ASSUME NEW n, NEW c, NEW bs, TableOK(n, c, bs)
    PROVE  /\ n \in Nat /\ bs \in Cells(n) /\ c \in 0..n /\ Ordered(bs, n)
           /\ c < n => \E v \in 0..(n - 1) : bs[v] = Vacant
           /\ c = 0 => \A j \in 0..(n - 1) : bs[j] = Vacant
<1>1. n \in Nat /\ bs \in Cells(n) /\ Ordered(bs, n) /\ c = Cardinality(OccupiedIn(bs, n))
    BY DEF TableOK
<1>2. c \in 0..n
    BY <1>1, OccupiedFinite
<1>3. ASSUME \A v \in 0..(n - 1) : bs[v] # Vacant PROVE c = n
    <2>1. OccupiedIn(bs, n) = 0..(n - 1)
        BY <1>3 DEF OccupiedIn
    <2>2. Cardinality(0..(n - 1)) = IF 0 > n - 1 THEN 0 ELSE (n - 1) - 0 + 1
        <3>1. 0 \in Int /\ n - 1 \in Int
            BY <1>1
        <3> QED BY <3>1, FS_Interval, Zenon
    <2> QED BY <1>1, <2>1, <2>2
<1>4. ASSUME c = 0 PROVE \A j \in 0..(n - 1) : bs[j] = Vacant
    <2>1. OccupiedIn(bs, n) = {}
        BY <1>1, <1>4, OccupiedFinite
    <2> QED BY <2>1 DEF OccupiedIn
<1>5. ASSUME c < n PROVE \E v \in 0..(n - 1) : bs[v] = Vacant
    BY <1>2, <1>3, <1>5
<1> QED BY <1>1, <1>2, <1>4, <1>5

LEMMA TableCleared ==
    ASSUME NEW n \in Nat
    PROVE  TableOK(n, 0, Cleared(n))
<1>1. Cleared(n) \in Cells(n) /\ \A j \in 0..(n - 1) : Cleared(n)[j] = Vacant
    BY DEF Cleared, Cells, Cell
<1>2. OccupiedIn(Cleared(n), n) = {}
    BY <1>1 DEF OccupiedIn
<1>3. Cardinality({}) = 0
    BY FS_EmptySet
<1>4. Ordered(Cleared(n), n)
    BY <1>1 DEF Ordered
<1> QED BY <1>1, <1>2, <1>3, <1>4 DEF TableOK

LEMMA TablePut ==
    ASSUME NEW n, NEW c, NEW bs, TableOK(n, c, bs), NEW i \in 0..(n - 1), bs[i] = Vacant,
           NEW b \in Bucket, Fits(bs, n, b, i)
    PROVE  TableOK(n, c + 1, [bs EXCEPT ![i] = b])
<1> DEFINE new == [bs EXCEPT ![i] = b]
<1>1. n \in Nat \ {0} /\ bs \in Cells(n) /\ Ordered(bs, n) /\ c = Cardinality(OccupiedIn(bs, n))
    BY DEF TableOK
<1>2. new \in Cells(n)
    BY <1>1 DEF Cells, Cell
<1>3. OccupiedIn(new, n) = OccupiedIn(bs, n) \cup {i} /\ i \notin OccupiedIn(bs, n)
    BY <1>1, BucketFields DEF OccupiedIn, Cells
<1>4. IsFiniteSet(OccupiedIn(bs, n))
    BY <1>1, OccupiedFinite
<1>5. Cardinality(OccupiedIn(bs, n) \cup {i}) = Cardinality(OccupiedIn(bs, n)) + 1
    BY <1>3, <1>4, FS_AddElement, Zenon
<1>6. Ordered(new, n)
    BY <1>1, PutKeepsOrder
<1> HIDE DEF new
<1>7. TableOK(n, c + 1, new)
    BY <1>1, <1>2, <1>3, <1>5, <1>6 DEF TableOK
<1> QED BY <1>7 DEF new

\* Changing what is in an occupied bucket.
LEMMA TableReplace ==
    ASSUME NEW n, NEW c, NEW bs, TableOK(n, c, bs), NEW i \in 0..(n - 1), bs[i] # Vacant,
           NEW b \in Bucket, Ordered([bs EXCEPT ![i] = b], n)
    PROVE  TableOK(n, c, [bs EXCEPT ![i] = b])
<1> DEFINE new == [bs EXCEPT ![i] = b]
<1>1. n \in Nat \ {0} /\ bs \in Cells(n) /\ c = Cardinality(OccupiedIn(bs, n))
    BY DEF TableOK
<1>2. new \in Cells(n)
    BY <1>1 DEF Cells, Cell
<1>3. OccupiedIn(new, n) = OccupiedIn(bs, n)
    BY <1>1, BucketFields DEF OccupiedIn, Cells
<1> HIDE DEF new
<1>4. TableOK(n, c, new)
    BY <1>1, <1>2, <1>3 DEF TableOK, new
<1> QED BY <1>4 DEF new

LEMMA TableVacate ==
    ASSUME NEW n, NEW c, NEW bs, TableOK(n, c, bs), NEW i \in 0..(n - 1), bs[i] # Vacant,
           bs[After(i, n)] # Vacant => Dist(bs[After(i, n)], After(i, n), n) = 0
    PROVE  TableOK(n, c - 1, [bs EXCEPT ![i] = Vacant])
<1> DEFINE new == [bs EXCEPT ![i] = Vacant]
<1>1. n \in Nat \ {0} /\ bs \in Cells(n) /\ Ordered(bs, n) /\ c = Cardinality(OccupiedIn(bs, n))
    BY DEF TableOK
<1>2. new \in Cells(n)
    BY <1>1 DEF Cells, Cell
<1>3. OccupiedIn(new, n) = OccupiedIn(bs, n) \ {i} /\ i \in OccupiedIn(bs, n)
    BY <1>1 DEF OccupiedIn, Cells
<1>4. IsFiniteSet(OccupiedIn(bs, n))
    BY <1>1, OccupiedFinite
<1>5. Cardinality(OccupiedIn(bs, n) \ {i}) = Cardinality(OccupiedIn(bs, n)) - 1
    BY <1>3, <1>4, FS_RemoveElement, Zenon
<1>6. Ordered(new, n)
    BY <1>1, VacateKeepsOrder
<1> HIDE DEF new
<1>7. TableOK(n, c - 1, new)
    BY <1>1, <1>2, <1>3, <1>5, <1>6 DEF TableOK
<1> QED BY <1>7 DEF new

\* A value does not matter to the order.
LEMMA TableSetValue ==
    ASSUME NEW n, NEW c, NEW bs, TableOK(n, c, bs), NEW i \in 0..(n - 1), bs[i] # Vacant,
           NEW v \in Value
    PROVE  TableOK(n, c, [bs EXCEPT ![i].value = v])
<1> DEFINE b == [hash |-> bs[i].hash, key |-> bs[i].key, value |-> v]
           new == [bs EXCEPT ![i] = b]
<1>1. n \in Nat \ {0} /\ bs \in Cells(n) /\ Ordered(bs, n)
    BY DEF TableOK
<1>2. bs[i] \in Bucket
    BY <1>1, CellType
<1>3. b \in Bucket /\ [bs EXCEPT ![i].value = v] = new
    <2>1. b \in Bucket
        BY <1>2 DEF Bucket
    <2>2. [bs[i] EXCEPT !.value = v] = b
        BY <1>2 DEF Bucket
    <2>3. [bs EXCEPT ![i].value = v] = [bs EXCEPT ![i] = [bs[i] EXCEPT !.value = v]]
        OBVIOUS
    <2> QED BY <2>1, <2>2, <2>3
<1>4. b \in Cell /\ b # Vacant /\ new[i] = b
    BY <1>1, <1>3, BucketFields DEF Cell, Cells
<1>5. \A j \in 0..(n - 1) : Dist(b, j, n) = Dist(bs[i], j, n)
    BY DEF Dist
<1>6. /\ After(i, n) \in 0..(n - 1) /\ Before(i, n) \in 0..(n - 1)
      /\ \A j \in 0..(n - 1) : j # i => new[j] = bs[j]
    BY <1>1, AfterIs, BeforeIs, Zenon DEF Cells
<1>7. \A j \in 0..(n - 1) : /\ bs[j] # Vacant => new[j] # Vacant
                            /\ Dist(new[j], j, n) = Dist(bs[j], j, n)
    BY <1>4, <1>5, <1>6
<1>8. Fits(bs, n, bs[i], i)
    BY <1>1 DEF Ordered
<1> HIDE DEF new, b
<1>9. Fits(new, n, b, i)
    BY <1>5, <1>6, <1>7, <1>8 DEF Fits
<1>10. ASSUME bs[After(i, n)] # Vacant PROVE Fits(new, n, bs[After(i, n)], After(i, n))
    <2>1. Fits(bs, n, bs[After(i, n)], After(i, n))
        BY <1>1, <1>6, <1>10 DEF Ordered
    <2>2. Before(After(i, n), n) \in 0..(n - 1)
        BY <1>1, <1>6, BeforeIs, Zenon
    <2> QED BY <1>7, <2>1, <2>2 DEF Fits
<1>11. Ordered(new, n)
    BY <1>1, <1>4, <1>9, <1>10, OrderedExcept DEF new
<1>12. TableOK(n, c, new)
    BY <1>3, <1>11, TableReplace DEF new
<1> QED BY <1>3, <1>12

--------------------------------------------------------------------------------
(* The inductive invariant *)

Calls == [op : Ops, key : Key \cup {None}, value : Value \cup {None}]
Labels == {"idle", "probe", "shift", "reserve", "allocate", "next_old", "insert", "rehash"}
Outcomes == {"NONE", "OUT_OF_MEMORY", "ALREADY_PRESENT", "TRUE", "FALSE"}
Adders == {"try_add", "set"}
Seekers == {"try_get", "contains_key", "remove", "set"}
Growers == {"try_add", "set", "ensure_capacity", "trim_excess"}

\* The call a client made has the arguments it needs, whatever becomes of it.
GoodCall(c) ==
    /\ c \in Calls
    /\ c.op \in Adders => c.key \in Key /\ c.value \in Value
    /\ c.op \in Seekers => c.key \in Key

\* Which call is where.
CallShape ==
    /\ GoodCall(call)
    /\ pc = "probe" => call.op \in Seekers
    /\ pc = "shift" => call.op = "remove"
    /\ pc \in {"reserve", "allocate", "insert"} => call.op \in Adders
    /\ pc \in {"next_old", "rehash"} => call.op \in Growers

\* What the loops hold in their hands: a pair that is being placed, or a bucket to be vacated.
HandFull ==
    /\ Placing => carried \in Bucket
    /\ pc = "shift" => bucket # Vacant
    /\ pc = "idle" => distance = 0

\* The old buckets that a rehash has not placed yet.
OldLeft == {i \in next..(oldCapacity - 1) : oldBuckets[i] # Vacant}

\* The pairs that are to be placed fit, and that of try_add and set leaves a bucket vacant
\* until it is placed.
Room ==
    /\ pc \in {"allocate", "insert"} => count < capacity
    /\ pc = "next_old" =>
           /\ capacity > 0
           /\ count + Cardinality(OldLeft) <= capacity
           /\ call.op \in Adders => count + Cardinality(OldLeft) < capacity
    /\ pc = "rehash" =>
           /\ capacity > 0
           /\ count + Cardinality(OldLeft) + 1 <= capacity
           /\ call.op \in Adders => count + Cardinality(OldLeft) + 1 < capacity

\* The pair that is being placed fits into the bucket the loop looks at.
HandInOrder ==
    Placing => /\ distance = Dist(carried, index, capacity)
               /\ Fits(buckets, capacity, carried, index)

TableInOrder == TableOK(capacity, count, buckets)

\* The inductive invariant.
IInv == TypeOK /\ TableInOrder /\ CallShape /\ HandFull /\ Room /\ HandInOrder

\* Where the locals of a loop may be.
LocalsOK ==
    /\ pc \in {"probe", "shift", "insert", "rehash"} => index \in 0..(capacity - 1)
    /\ distance \in 0..capacity
    /\ carried \in Cell
    /\ oldCapacity \in Nat
    /\ oldBuckets \in Cells(oldCapacity)
    /\ next \in 0..oldCapacity

LEMMA State ==
    ASSUME IInv
    PROVE  /\ capacity \in Nat /\ count \in 0..capacity /\ buckets \in Cells(capacity)
           /\ TableOK(capacity, count, buckets) /\ Ordered(buckets, capacity)
           /\ allocated \in BOOLEAN /\ keyHashFunc \in [Key -> Nat] /\ keyHashFunc \in HashFuncs
           /\ pc \in Labels /\ LocalsOK /\ GoodCall(call)
           /\ iterIndex \in {NoIter} \cup (-1..capacity)
<1>1. TableOK(capacity, count, buckets)
    BY DEF IInv, TableInOrder
<1>2. Ordered(buckets, capacity)
    BY <1>1 DEF TableOK
<1>3. TypeOK /\ CallShape
    BY DEF IInv
<1>4. keyHashFunc \in HashFuncs /\ keyHashFunc \in [Key -> Nat]
    BY <1>3, HashAssumption DEF TypeOK
<1>5. pc \in Labels /\ LocalsOK
    BY <1>3 DEF TypeOK, Labels, LocalsOK
<1> QED BY <1>1, <1>2, <1>3, <1>4, <1>5 DEF TypeOK, CallShape

\* Nothing is in the hands of a call that has ended, or that starts to look for room.
LEMMA DroppedLocals ==
    ASSUME DropLocals, capacity' \in Nat, pc' \notin {"probe", "shift", "insert", "rehash"}
    PROVE  LocalsOK'
<1>1. Cleared(0) \in Cells(0) /\ Vacant \in Cell
    BY DEF Cleared, Cells, Cell
<1>2. /\ distance' = 0 /\ carried' = Vacant
      /\ oldBuckets' = Cleared(0) /\ oldCapacity' = 0 /\ next' = 0
    BY DEF DropLocals
<1>3. oldBuckets' \in Cells(oldCapacity')
    BY <1>1, <1>2
<1> QED BY <1>1, <1>2, <1>3 DEF LocalsOK

\* The iterator stays in the table, or ends with the capacity it knows.
LEMMA IterType ==
    ASSUME IInv, NEW c, DropIter(c), capacity' \in Nat, c.op \in Modifiers \/ capacity' = capacity
    PROVE  iterIndex' \in {NoIter} \cup (-1..capacity')
<1>1. CASE c.op \in Modifiers
    BY <1>1 DEF DropIter
<1>2. CASE c.op \notin Modifiers
    BY <1>2, State DEF DropIter
<1> QED BY <1>1, <1>2

LEMMA ContinueTypes ==
    ASSUME IInv, NEW c, NEW label, Continue(c, label), GoodCall(c), label \in Labels,
           TableOK(capacity', count', buckets'), keyHashFunc' = keyHashFunc,
           allocated' = allocated, c.op \in Modifiers \/ capacity' = capacity, LocalsOK'
    PROVE  TypeOK'
<1>1. capacity' \in Nat /\ count' \in 0..capacity' /\ buckets' \in Cells(capacity')
    BY TableFacts
<1>2. iterIndex' \in {NoIter} \cup (-1..capacity')
    BY <1>1, IterType DEF Continue
<1>3. pc' \in Labels /\ call' \in Calls /\ last' = NoAnswer
    BY DEF Continue, GoodCall
<1>4. last' \in [op : Ops, key : Key \cup {None}, value : Value \cup {None}, outcome : Outcomes]
    BY <1>3 DEF NoAnswer, Ops, Outcomes
<1>5. allocated' \in BOOLEAN /\ keyHashFunc' \in HashFuncs
    BY State
<1> QED BY <1>1, <1>2, <1>3, <1>4, <1>5 DEF TypeOK, LocalsOK, Labels, Outcomes, Calls

\* A call that returns leaves nothing but the table behind.
LEMMA AnswerInv ==
    ASSUME IInv, NEW c, NEW v, NEW outcome, Answer(c, v, outcome), c \in Calls,
           v \in Value \cup {None}, outcome \in Outcomes,
           TableOK(capacity', count', buckets'), keyHashFunc' \in HashFuncs,
           allocated' \in BOOLEAN, c.op \in Modifiers \/ capacity' = capacity
    PROVE  IInv'
<1>1. capacity' \in Nat /\ count' \in 0..capacity' /\ buckets' \in Cells(capacity')
    BY TableFacts
<1>2. iterIndex' \in {NoIter} \cup (-1..capacity')
    BY <1>1, IterType DEF Answer
<1>3. pc' = "idle" /\ call' = NoCall /\ DropLocals
    BY DEF Answer
<1>4. LocalsOK'
    BY <1>1, <1>3, DroppedLocals
<1>5. last' \in [op : Ops, key : Key \cup {None}, value : Value \cup {None}, outcome : Outcomes]
    BY DEF Answer, Calls
<1>6. GoodCall(NoCall)
    BY DEF NoCall, GoodCall, Calls, Ops, Adders, Seekers
<1>7. TypeOK'
    BY <1>1, <1>2, <1>3, <1>4, <1>5, <1>6
       DEF TypeOK, LocalsOK, Labels, Outcomes, Calls, GoodCall
<1>8. CallShape'
    BY <1>3, <1>6 DEF CallShape
<1>9. HandFull' /\ Room' /\ HandInOrder'
    BY <1>3 DEF HandFull, Room, HandInOrder, Placing, DropLocals
<1> QED BY <1>7, <1>8, <1>9 DEF IInv, TableInOrder

LEMMA ReturnInv ==
    ASSUME IInv, NEW c, NEW outcome, Return(c, outcome), c \in Calls, outcome \in Outcomes,
           TableOK(capacity', count', buckets'), keyHashFunc' \in HashFuncs,
           allocated' \in BOOLEAN, c.op \in Modifiers \/ capacity' = capacity
    PROVE  IInv'
<1>1. c.value \in Value \cup {None}
    BY DEF Calls
<1>2. Answer(c, c.value, outcome)
    BY DEF Return
<1> QED BY <1>1, <1>2, AnswerInv

LEMMA SameTable ==
    ASSUME IInv, UNCHANGED table
    PROVE  /\ TableOK(capacity', count', buckets')
           /\ capacity' = capacity /\ count' = count /\ buckets' = buckets
           /\ allocated' = allocated /\ allocated' \in BOOLEAN
           /\ keyHashFunc' = keyHashFunc /\ keyHashFunc' \in HashFuncs
<1>1. /\ capacity' = capacity /\ count' = count /\ buckets' = buckets
      /\ allocated' = allocated /\ keyHashFunc' = keyHashFunc
    BY DEF table
<1> QED BY <1>1, State

LEMMA OutOfMemoryInv ==
    ASSUME IInv, NEW c, OutOfMemory(c), c \in Calls
    PROVE  IInv'
<1>1. UNCHANGED table /\ Return(c, "OUT_OF_MEMORY") /\ "OUT_OF_MEMORY" \in Outcomes
    BY DEF OutOfMemory, Outcomes
<1> QED BY <1>1, SameTable, ReturnInv

--------------------------------------------------------------------------------
(* Sizes and positions *)

LEMMA PowersAbove ==
    ASSUME NEW n \in Nat, NEW p \in NextPowersOfTwo(n)
    PROVE  p \in Nat /\ p >= n /\ p >= 1
<1>1. CASE n <= 1
    <2>1. NextPowersOfTwo(n) = {1}
        BY <1>1, Zenon DEF NextPowersOfTwo
    <2> QED BY <1>1, <2>1
<1>2. CASE ~(n <= 1)
    <2>1. p \in n..(2 * n - 1)
        BY <1>2, Zenon DEF NextPowersOfTwo
    <2> QED BY <1>2, <2>1
<1> QED BY <1>1, <1>2

LEMMA MinCapacityAbove ==
    ASSUME NEW n \in Nat
    PROVE  MinCapacity(n) \in Nat /\ MinCapacity(n) >= n
BY DEF MinCapacity, SCU_MAX_LOAD_FACTOR_DEN, SCU_MAX_LOAD_FACTOR_NUM

LEMMA HomeIndex ==
    ASSUME IInv, capacity > 0, NEW h \in Nat
    PROVE  IdealIndex(h) \in 0..(capacity - 1) /\ capacity \in Nat \ {0}
<1>1. capacity \in Nat \ {0} /\ h \in Int
    BY State
<1> QED BY <1>1, ModRange, Zenon DEF IdealIndex

LEMMA DistOfProbe ==
    ASSUME NEW b, NEW i
    PROVE  ProbeDistance(b, i) = Dist(b, i, capacity) /\ nextIndex = After(index, capacity)
BY DEF ProbeDistance, WrapIndex, IdealIndex, Dist, nextIndex, After

\* The bucket a loop looks at.
LEMMA AtBucket ==
    ASSUME IInv, pc \in {"probe", "shift", "insert", "rehash"}
    PROVE  /\ capacity \in Nat \ {0} /\ index \in 0..(capacity - 1)
           /\ distance \in 0..capacity
           /\ WrapIndex(index + 1) = After(index, capacity)
           /\ After(index, capacity) \in 0..(capacity - 1)
           /\ bucket = buckets[index]
           /\ bucket # Vacant => /\ bucket \in Bucket
                                 /\ otherDistance = Dist(bucket, index, capacity)
                                 /\ otherDistance \in 0..(capacity - 1)
<1>1. capacity \in Nat \ {0} /\ index \in 0..(capacity - 1) /\ distance \in 0..capacity
    BY State DEF LocalsOK
<1>2. WrapIndex(index + 1) = After(index, capacity) /\ bucket = buckets[index]
    BY DEF WrapIndex, After, bucket
<1>3. After(index, capacity) \in 0..(capacity - 1)
    BY <1>1, AfterIs
<1>4. ASSUME bucket # Vacant
      PROVE  /\ bucket \in Bucket
             /\ otherDistance = Dist(bucket, index, capacity)
             /\ otherDistance \in 0..(capacity - 1)
    <2>1. bucket \in Bucket
        BY <1>1, <1>2, <1>4, State, CellType
    <2>2. otherDistance = Dist(bucket, index, capacity)
        BY DistOfProbe DEF otherDistance
    <2> QED BY <1>1, <2>1, <2>2, DistIs
<1> QED BY <1>1, <1>2, <1>3, <1>4

--------------------------------------------------------------------------------
(* Lookup *)

LEMMA MissInv ==
    ASSUME IInv, NEW c, Miss(c), GoodCall(c), c.op \in Seekers
    PROVE  IInv'
<1>1. CASE c.op = "set" /\ Continue(c, "reserve") /\ DropLocals /\ UNCHANGED table
    <2>1. pc' = "reserve" /\ call' = c
        BY <1>1 DEF Continue
    <2>2. LocalsOK'
        BY <1>1, <2>1, State, SameTable, DroppedLocals
    <2>3. TypeOK'
        BY <1>1, <2>2, SameTable, ContinueTypes DEF Modifiers, Labels
    <2>4. CallShape' /\ HandFull' /\ Room' /\ HandInOrder'
        BY <1>1, <2>1 DEF CallShape, HandFull, Room, HandInOrder, Placing, Adders
    <2> QED BY <1>1, <2>3, <2>4, SameTable DEF IInv, TableInOrder
<1>2. CASE c.op # "set" /\ UNCHANGED table /\ Answer(c, None, "FALSE")
    <2>1. c \in Calls /\ None \in Value \cup {None} /\ "FALSE" \in Outcomes
        BY DEF GoodCall, Outcomes
    <2> QED BY <1>2, <2>1, SameTable, AnswerInv
<1> QED BY <1>1, <1>2 DEF Miss

LEMMA StartLookupInv ==
    ASSUME IInv, NEW c, StartLookup(c), GoodCall(c), c.op \in Seekers
    PROVE  IInv'
<1>1. CASE Miss(c)
    BY <1>1, MissInv
<1>2. CASE /\ count > 0
           /\ Continue(c, "probe")
           /\ StartAt(keyHashFunc[c.key])
           /\ UNCHANGED <<table, carried, oldBuckets, oldCapacity, next>>
    <2>1. pc' = "probe" /\ call' = c /\ UNCHANGED table
        BY <1>2 DEF Continue
    <2>2. keyHashFunc[c.key] \in Nat /\ capacity > 0
        BY <1>2, State DEF GoodCall
    <2>3. index' \in 0..(capacity - 1) /\ distance' = 0
        BY <1>2, <2>2, HomeIndex DEF StartAt
    <2>4. LocalsOK'
        BY <1>2, <2>1, <2>3, State, SameTable DEF LocalsOK
    <2>5. TypeOK'
        BY <1>2, <2>1, <2>4, SameTable, ContinueTypes DEF Labels
    <2>6. CallShape' /\ HandFull' /\ Room' /\ HandInOrder'
        BY <2>1 DEF CallShape, HandFull, Room, HandInOrder, Placing
    <2> QED BY <2>1, <2>5, <2>6, SameTable DEF IInv, TableInOrder
<1> QED BY <1>1, <1>2 DEF StartLookup

LEMMA ProbeMissInv ==
    ASSUME IInv, ProbeMiss
    PROVE  IInv'
<1>1. GoodCall(call) /\ call.op \in Seekers /\ Miss(call)
    BY DEF ProbeMiss, IInv, CallShape
<1> QED BY <1>1, MissInv

LEMMA ProbeHitInv ==
    ASSUME IInv, ProbeHit
    PROVE  IInv'
<1>1. pc = "probe" /\ bucket # Vacant /\ GoodCall(call) /\ call \in Calls
    BY DEF ProbeHit, PassedBy, IInv, CallShape, GoodCall
<1>2. /\ capacity \in Nat \ {0} /\ index \in 0..(capacity - 1) /\ bucket = buckets[index]
      /\ bucket \in Bucket
    BY <1>1, AtBucket
<1>3. CASE call.op = "try_get" /\ Answer(call, bucket.value, "TRUE") /\ UNCHANGED table
    <2>1. bucket.value \in Value /\ "TRUE" \in Outcomes
        BY <1>2, BucketFields DEF Outcomes
    <2> QED BY <1>1, <1>3, <2>1, SameTable, AnswerInv
<1>4. CASE call.op = "contains_key" /\ Answer(call, None, "TRUE") /\ UNCHANGED table
    <2>1. "TRUE" \in Outcomes
        BY DEF Outcomes
    <2> QED BY <1>1, <1>4, <2>1, SameTable, AnswerInv
<1>5. CASE /\ call.op = "set"
           /\ SetTable(capacity, count, [buckets EXCEPT ![index].value = call.value])
           /\ Return(call, "NONE")
    <2>1. call.value \in Value /\ "NONE" \in Outcomes /\ call.op \in Modifiers
        BY <1>1, <1>5 DEF GoodCall, Adders, Outcomes, Modifiers
    <2>2. TableOK(capacity, count, [buckets EXCEPT ![index].value = call.value])
        BY <1>1, <1>2, <2>1, State, TableSetValue
    <2>3. /\ capacity' = capacity /\ count' = count
          /\ buckets' = [buckets EXCEPT ![index].value = call.value]
          /\ allocated' \in BOOLEAN /\ keyHashFunc' \in HashFuncs
        BY <1>5, State DEF SetTable
    <2>4. TableOK(capacity', count', buckets')
        BY <2>2, <2>3
    <2> QED BY <1>1, <1>5, <2>1, <2>3, <2>4, ReturnInv
<1>6. CASE call.op = "remove" /\ Continue(call, "shift") /\ UNCHANGED <<table, locals>>
    <2>1. pc' = "shift" /\ call' = call /\ UNCHANGED table /\ UNCHANGED locals
        BY <1>6 DEF Continue
    <2>2. LocalsOK'
        BY <1>2, <2>1, State, SameTable DEF LocalsOK, locals
    <2>3. TypeOK'
        BY <1>1, <1>6, <2>1, <2>2, SameTable, ContinueTypes DEF Labels
    <2>4. bucket' = bucket
        BY <2>1, SameTable DEF bucket, locals
    <2>5. CallShape' /\ HandFull' /\ Room' /\ HandInOrder'
        BY <1>1, <1>6, <2>1, <2>4 DEF CallShape, HandFull, Room, HandInOrder, Placing
    <2> QED BY <2>1, <2>3, <2>5, SameTable DEF IInv, TableInOrder
<1> QED BY <1>3, <1>4, <1>5, <1>6 DEF ProbeHit

LEMMA ProbeOnInv ==
    ASSUME IInv, ProbeOn
    PROVE  IInv'
<1>1. /\ pc = "probe" /\ bucket # Vacant /\ distance <= otherDistance
      /\ GoodCall(call) /\ call.op \in Seekers
    <2>1. pc = "probe" /\ bucket # Vacant /\ ~(distance > otherDistance)
        BY DEF ProbeOn, PassedBy
    <2>2. GoodCall(call) /\ call.op \in Seekers
        BY <2>1 DEF IInv, CallShape
    <2> QED BY <2>1, <2>2, AtBucket
<1>2. /\ Continue(call, "probe") /\ pc' = "probe" /\ call' = call /\ UNCHANGED table
      /\ index' = After(index, capacity) /\ distance' = distance + 1
      /\ UNCHANGED <<carried, oldBuckets, oldCapacity, next>>
    BY <1>1, AtBucket DEF ProbeOn, Continue, Advance
<1>3. index' \in 0..(capacity - 1) /\ distance' \in 0..capacity
    BY <1>1, <1>2, AtBucket
<1>4. LocalsOK'
    BY <1>2, <1>3, State, SameTable DEF LocalsOK
<1>5. TypeOK'
    BY <1>1, <1>2, <1>4, SameTable, ContinueTypes DEF Labels
<1>6. CallShape' /\ HandFull' /\ Room' /\ HandInOrder'
    BY <1>1, <1>2 DEF CallShape, HandFull, Room, HandInOrder, Placing
<1> QED BY <1>2, <1>5, <1>6, SameTable DEF IInv, TableInOrder

--------------------------------------------------------------------------------
(* Removal *)

LEMMA ShiftBackInv ==
    ASSUME IInv, ShiftBack
    PROVE  IInv'
<1> DEFINE n == capacity
           j == After(index, n)
           new == [buckets EXCEPT ![index] = buckets[j]]
<1>1. /\ pc = "shift" /\ bucket # Vacant /\ GoodCall(call) /\ call.op = "remove"
      /\ Continue(call, "shift") /\ pc' = "shift" /\ call' = call
    BY DEF ShiftBack, IInv, HandFull, CallShape, Continue
<1>2. /\ n \in Nat \ {0} /\ index \in 0..(n - 1) /\ j \in 0..(n - 1)
      /\ bucket = buckets[index] /\ nextIndex = j /\ WrapIndex(index + 1) = j
    BY <1>1, AtBucket, DistOfProbe
<1>3. buckets[j] # Vacant /\ Dist(buckets[j], j, n) # 0
    BY <1>2, DistOfProbe DEF ShiftBack, MovesBack
<1>4. Ordered(new, n)
    BY <1>1, <1>2, <1>3, State, ShiftKeepsOrder
<1>5. buckets[j] \in Bucket
    BY <1>2, <1>3, State, CellType
<1>6. TableOK(n, count, new)
    BY <1>1, <1>2, <1>4, <1>5, State, TableReplace
<1>7. /\ capacity' = n /\ count' = count /\ buckets' = new
      /\ allocated' = allocated /\ keyHashFunc' = keyHashFunc
      /\ index' = j /\ UNCHANGED <<distance, carried, oldBuckets, oldCapacity, next>>
    BY <1>2 DEF ShiftBack, SetTable, Advance
<1>8. buckets'[j] # Vacant
    BY <1>2, <1>3, <1>7, State DEF Cells
<1> HIDE DEF new, j, n
<1>9. TableOK(capacity', count', buckets')
    BY <1>6, <1>7
<1>10. LocalsOK'
    BY <1>1, <1>2, <1>7, State DEF LocalsOK, n
<1>11. TypeOK'
    BY <1>1, <1>7, <1>9, <1>10, ContinueTypes DEF Labels, n
<1>12. CallShape' /\ HandFull' /\ Room' /\ HandInOrder'
    BY <1>1, <1>7, <1>8 DEF CallShape, HandFull, Room, HandInOrder, Placing, bucket
<1> QED BY <1>9, <1>11, <1>12 DEF IInv, TableInOrder

LEMMA ShiftEndInv ==
    ASSUME IInv, ShiftEnd
    PROVE  IInv'
<1> DEFINE n == capacity
           j == After(index, n)
           new == [buckets EXCEPT ![index] = Vacant]
<1>1. /\ pc = "shift" /\ bucket # Vacant /\ call \in Calls /\ call.op = "remove"
      /\ Answer(call, None, "TRUE") /\ "TRUE" \in Outcomes
    BY DEF ShiftEnd, IInv, HandFull, CallShape, GoodCall, Outcomes
<1>2. /\ n \in Nat \ {0} /\ index \in 0..(n - 1)
      /\ bucket = buckets[index] /\ nextIndex = j
    BY <1>1, AtBucket, DistOfProbe
<1>3. buckets[j] # Vacant => Dist(buckets[j], j, n) = 0
    BY <1>2, DistOfProbe DEF ShiftEnd, MovesBack
<1>4. TableOK(n, count - 1, new)
    BY <1>1, <1>2, <1>3, State, TableVacate
<1>5. /\ capacity' = n /\ count' = count - 1 /\ buckets' = new
      /\ allocated' \in BOOLEAN /\ keyHashFunc' \in HashFuncs
    BY State DEF ShiftEnd, SetTable
<1> HIDE DEF new, j
<1>6. TableOK(capacity', count', buckets')
    BY <1>4, <1>5
<1> QED BY <1>1, <1>5, <1>6, AnswerInv DEF n

--------------------------------------------------------------------------------
(* Growth *)

\* There is room for one more pair when try_add and set go on.
LEMMA AfterResizeInv ==
    ASSUME IInv, NEW c, AfterResize(c), GoodCall(c), c.op \in Growers,
           TableOK(capacity', count', buckets'), keyHashFunc' = keyHashFunc,
           allocated' = allocated, c.op \in Adders => count' < capacity'
    PROVE  IInv'
<1>1. c.op \in Modifiers /\ c \in Calls /\ capacity' \in Nat
    BY TableFacts DEF Growers, Modifiers, GoodCall
<1>2. CASE c.op \in {"try_add", "set"} /\ Continue(c, "allocate") /\ DropLocals
    <2>1. pc' = "allocate" /\ call' = c
        BY <1>2 DEF Continue
    <2>2. LocalsOK'
        BY <1>1, <1>2, <2>1, DroppedLocals
    <2>3. TypeOK'
        BY <1>1, <1>2, <2>2, ContinueTypes DEF Labels
    <2>4. CallShape' /\ HandFull' /\ Room' /\ HandInOrder'
        BY <1>2, <2>1 DEF CallShape, HandFull, Room, HandInOrder, Placing, Adders
    <2> QED BY <2>3, <2>4 DEF IInv, TableInOrder
<1>3. CASE Return(c, "NONE")
    <2>1. allocated' \in BOOLEAN /\ keyHashFunc' \in HashFuncs /\ "NONE" \in Outcomes
        BY State DEF Outcomes
    <2> QED BY <1>1, <1>3, <2>1, ReturnInv
<1> QED BY <1>2, <1>3 DEF AfterResize

\* All pairs of the old buckets are left to a rehash that begins.
LEMMA ReallocateInv ==
    ASSUME IInv, NEW c, NEW n \in Nat, Reallocate(c, n), GoodCall(c), c.op \in Growers,
           n >= count, n >= 1, c.op \in Adders => n > count, pc = "idle" \/ n >= capacity
    PROVE  IInv'
<1>1. /\ capacity' = n /\ count' = 0 /\ buckets' = Cleared(n)
      /\ allocated' = allocated /\ keyHashFunc' = keyHashFunc /\ c.op \in Modifiers
    BY DEF Reallocate, SetTable, Growers, Modifiers
<1>2. TableOK(capacity', count', buckets')
    BY <1>1, TableCleared
<1>3. CASE count = 0 /\ AfterResize(c)
    BY <1>1, <1>2, <1>3, AfterResizeInv
<1>4. CASE /\ count > 0
           /\ Continue(c, "next_old")
           /\ oldBuckets' = buckets
           /\ oldCapacity' = capacity
           /\ next' = 0
           /\ UNCHANGED <<index, distance, carried>>
    <2>1. pc' = "next_old" /\ call' = c
        BY <1>4 DEF Continue
    <2>2. distance' \in 0..capacity'
        BY <1>1, <1>4, State DEF LocalsOK, IInv, HandFull
    <2>3. LocalsOK'
        BY <1>1, <1>4, <2>1, <2>2, State DEF LocalsOK
    <2>4. TypeOK'
        BY <1>1, <1>2, <1>4, <2>3, ContinueTypes DEF Labels
    <2>5. OldLeft' = OccupiedIn(buckets, capacity)
        BY <1>4 DEF OldLeft, OccupiedIn
    <2>6. Cardinality(OldLeft') = count
        BY <2>5, State DEF TableOK
    <2>7. count' + Cardinality(OldLeft') = count /\ count \in Nat
        BY <1>1, <2>6, State
    <2>8. Room'
        BY <1>1, <2>1, <2>7 DEF Room
    <2>9. CallShape' /\ HandFull' /\ HandInOrder'
        BY <2>1 DEF CallShape, HandFull, HandInOrder, Placing
    <2> QED BY <1>2, <2>4, <2>8, <2>9 DEF IInv, TableInOrder
<1> QED BY <1>3, <1>4 DEF Reallocate

LEMMA ResizeInv ==
    ASSUME IInv, NEW c, NEW wanted \in Nat, Resize(c, wanted), GoodCall(c), c.op \in Growers,
           c.op \in Adders => wanted > capacity
    PROVE  IInv'
<1> DEFINE least == MinCapacity(wanted)
<1>1. least \in Nat /\ least >= wanted /\ capacity \in Nat /\ count \in 0..capacity
    BY MinCapacityAbove, State
<1>2. CASE capacity >= least /\ UNCHANGED table /\ AfterResize(c)
    <2>1. c.op \notin Adders
        BY <1>1, <1>2
    <2> QED BY <1>2, <2>1, SameTable, AfterResizeInv
<1>3. CASE capacity < least /\ \E n \in NextPowersOfTwo(least) : Reallocate(c, n)
    <2>1. PICK n \in NextPowersOfTwo(least) : Reallocate(c, n)
        BY <1>3
    <2>2. n \in Nat /\ n >= least
        BY <1>1, <2>1, PowersAbove
    <2>3. n >= count /\ n >= 1 /\ n > count /\ n >= capacity
        BY <1>1, <1>3, <2>2
    <2> QED BY <2>1, <2>2, <2>3, ReallocateInv
<1>4. CASE OutOfMemory(c)
    BY <1>4, OutOfMemoryInv DEF GoodCall
<1> QED BY <1>2, <1>3, <1>4 DEF Resize

LEMMA ReserveInv ==
    ASSUME IInv, Reserve
    PROVE  IInv'
<1>1. /\ pc = "reserve" /\ GoodCall(call) /\ call.op \in Adders /\ call.op \in Growers
      /\ capacity \in Nat /\ count \in 0..capacity
    BY State DEF Reserve, IInv, CallShape, Adders, Growers
<1>2. CASE ~AtMaxLoad /\ Continue(call, "allocate") /\ UNCHANGED <<table, locals>>
    <2>1. pc' = "allocate" /\ call' = call /\ UNCHANGED table /\ UNCHANGED locals
          /\ call.op \in Modifiers
        BY <1>1, <1>2 DEF Continue, Adders, Modifiers
    <2>2. count < capacity
        BY <1>1, <1>2 DEF AtMaxLoad, SCU_MAX_LOAD_FACTOR_NUM, SCU_MAX_LOAD_FACTOR_DEN
    <2>3. LocalsOK'
        BY <2>1, State, SameTable DEF LocalsOK, locals
    <2>4. TypeOK'
        BY <1>1, <1>2, <2>1, <2>3, SameTable, ContinueTypes DEF Labels
    <2>5. Room'
        BY <2>1, <2>2, SameTable DEF Room
    <2>6. CallShape' /\ HandFull' /\ HandInOrder'
        BY <1>1, <2>1 DEF CallShape, HandFull, HandInOrder, Placing
    <2> QED BY <2>1, <2>4, <2>5, <2>6, SameTable DEF IInv, TableInOrder
<1>3. CASE AtMaxLoad /\ Resize(call, GrownCapacity)
    <2>1. GrownCapacity \in Nat /\ GrownCapacity > capacity
        BY <1>1 DEF GrownCapacity, SCU_DEFAULT_CAPACITY, SCU_GROWTH_FACTOR
    <2> QED BY <1>1, <1>3, <2>1, ResizeInv
<1> QED BY <1>2, <1>3 DEF Reserve

LEMMA TrimExcessInv ==
    ASSUME IInv, TrimExcess
    PROVE  IInv'
<1> DEFINE c == Call("trim_excess", None, None)
<1>1. c.op = "trim_excess" /\ c.op \in Modifiers /\ c.op \in Growers /\ c.op \notin Adders
    BY DEF Call, Modifiers, Growers, Adders
<1>2. GoodCall(c) /\ c \in Calls /\ "NONE" \in Outcomes /\ pc = "idle"
    BY DEF TrimExcess, GoodCall, Call, Calls, Ops, Modifiers, Adders, Seekers, Outcomes
<1>3. capacity \in Nat /\ count \in 0..capacity
    BY State
<1> HIDE DEF c
<1>4. CASE SetTable(0, 0, Cleared(0)) /\ Return(c, "NONE")
    <2>1. TableOK(0, 0, Cleared(0))
        BY TableCleared
    <2>2. /\ capacity' = 0 /\ count' = 0 /\ buckets' = Cleared(0)
          /\ allocated' \in BOOLEAN /\ keyHashFunc' \in HashFuncs
        BY <1>4, State DEF SetTable
    <2>3. TableOK(capacity', count', buckets')
        BY <2>1, <2>2
    <2> QED BY <1>1, <1>2, <1>4, <2>2, <2>3, ReturnInv
<1>5. ASSUME count > 0, NEW n \in NextPowersOfTwo(MinCapacity(count)),
             \/ UNCHANGED table /\ Return(c, "NONE")
             \/ Reallocate(c, n) \/ OutOfMemory(c)
      PROVE  IInv'
    <2>1. n \in Nat /\ n >= 1 /\ n >= count
        <3>1. MinCapacity(count) \in Nat /\ MinCapacity(count) >= count
            BY <1>3, MinCapacityAbove
        <3>2. n \in Nat /\ n >= MinCapacity(count) /\ n >= 1
            BY <1>5, <3>1, PowersAbove
        <3> QED BY <1>3, <3>1, <3>2
    <2>2. CASE UNCHANGED table /\ Return(c, "NONE")
        BY <1>1, <1>2, <2>2, SameTable, ReturnInv
    <2>3. CASE Reallocate(c, n)
        BY <1>1, <1>2, <2>1, <2>3, ReallocateInv
    <2>4. CASE OutOfMemory(c)
        BY <1>2, <2>4, OutOfMemoryInv
    <2> QED BY <1>5, <2>2, <2>3, <2>4
<1>6. \/ SetTable(0, 0, Cleared(0)) /\ Return(c, "NONE")
      \/ /\ count > 0
         /\ \E n \in NextPowersOfTwo(MinCapacity(count)) :
               \/ UNCHANGED table /\ Return(c, "NONE")
               \/ Reallocate(c, n) \/ OutOfMemory(c)
    BY DEF TrimExcess, c
<1> QED BY <1>4, <1>5, <1>6

LEMMA OldLeftFinite ==
    ASSUME IInv
    PROVE  IsFiniteSet(OldLeft) /\ Cardinality(OldLeft) \in Nat
<1>1. OldLeft \in SUBSET OccupiedIn(oldBuckets, oldCapacity) /\ oldCapacity \in Nat
    BY State DEF OldLeft, OccupiedIn, LocalsOK
<1>2. IsFiniteSet(OccupiedIn(oldBuckets, oldCapacity))
    BY <1>1, OccupiedFinite
<1>3. IsFiniteSet(OldLeft)
    BY <1>1, <1>2, FS_Subset, Zenon
<1> QED BY <1>3, FS_CardinalityType, Zenon

\* A pair fits into its ideal bucket.
LEMMA FitsAtHome ==
    ASSUME NEW bs, NEW n \in Nat \ {0}, NEW b \in Bucket
    PROVE  Fits(bs, n, b, b.hash % n) /\ Dist(b, b.hash % n, n) = 0
<1>1. Dist(b, b.hash % n, n) = 0
    BY DistAtHome, Zenon
<1> QED BY <1>1 DEF Fits

LEMMA NextOldInv ==
    ASSUME IInv, NextOld
    PROVE  IInv'
<1>1. /\ pc = "next_old" /\ UNCHANGED table /\ GoodCall(call) /\ call.op \in Growers
      /\ call.op \in Modifiers
    BY DEF NextOld, IInv, CallShape, Growers, Modifiers
<1>2. /\ capacity > 0 /\ count + Cardinality(OldLeft) <= capacity
      /\ call.op \in Adders => count + Cardinality(OldLeft) < capacity
    BY <1>1 DEF IInv, Room
<1>3. /\ oldCapacity \in Nat /\ next \in 0..oldCapacity /\ oldBuckets \in Cells(oldCapacity)
      /\ capacity \in Nat \ {0} /\ count \in Nat
    BY <1>2, State DEF LocalsOK
<1>4. PICK j \in NextOccupied(oldBuckets, oldCapacity, next) :
          \/ /\ j < oldCapacity
             /\ carried' = oldBuckets[j]
             /\ StartAt(oldBuckets[j].hash)
             /\ next' = j + 1
             /\ Continue(call, "rehash")
             /\ UNCHANGED <<oldBuckets, oldCapacity>>
          \/ /\ j = oldCapacity
             /\ AfterResize(call)
    BY DEF NextOld
<1>5. /\ j \in next..oldCapacity
      /\ j < oldCapacity => oldBuckets[j] # Vacant
      /\ \A i \in next..(j - 1) : oldBuckets[i] = Vacant
    BY <1>4 DEF NextOccupied
<1>6. CASE /\ j < oldCapacity
           /\ carried' = oldBuckets[j]
           /\ StartAt(oldBuckets[j].hash)
           /\ next' = j + 1
           /\ Continue(call, "rehash")
           /\ UNCHANGED <<oldBuckets, oldCapacity>>
    <2> DEFINE b == oldBuckets[j]
    <2>1. b \in Bucket /\ b \in Cell /\ b.hash \in Nat
        <3>1. j \in 0..(oldCapacity - 1) /\ b # Vacant
            BY <1>3, <1>5, <1>6
        <3>2. b \in Bucket
            BY <1>3, <3>1, CellType
        <3> QED BY <3>2, BucketFields DEF Cell
    <2>2. pc' = "rehash" /\ call' = call
        BY <1>6 DEF Continue
    <2>3. index' = IdealIndex(b.hash) /\ distance' = 0 /\ index' \in 0..(capacity - 1)
        BY <1>2, <1>6, <2>1, HomeIndex DEF StartAt
    <2>4. LocalsOK'
        BY <1>1, <1>3, <1>5, <1>6, <2>1, <2>3, SameTable DEF LocalsOK
    <2>5. TypeOK'
        BY <1>1, <1>6, <2>4, SameTable, ContinueTypes DEF Labels
    <2>6. Cardinality(OldLeft') + 1 = Cardinality(OldLeft) /\ Cardinality(OldLeft') \in Nat
        <3>1. OldLeft' = OldLeft \ {j} /\ j \in OldLeft
            BY <1>3, <1>5, <1>6 DEF OldLeft
        <3>2. Cardinality(OldLeft \ {j}) = Cardinality(OldLeft) - 1 /\ IsFiniteSet(OldLeft \ {j})
            BY <3>1, OldLeftFinite, FS_RemoveElement, Zenon
        <3>3. Cardinality(OldLeft \ {j}) \in Nat /\ Cardinality(OldLeft) \in Nat
            BY <3>2, OldLeftFinite, FS_CardinalityType, Zenon
        <3> QED BY <3>1, <3>2, <3>3
    <2>7. count' + Cardinality(OldLeft') + 1 = count + Cardinality(OldLeft)
        BY <1>1, <1>3, <2>6, SameTable
    <2>8. Room'
        BY <1>1, <1>2, <2>2, <2>7, SameTable DEF Room
    <2>9. Fits(buckets, capacity, b, index') /\ Dist(b, index', capacity) = 0
        BY <1>3, <2>1, <2>3, FitsAtHome DEF IdealIndex
    <2>10. CallShape' /\ HandFull' /\ HandInOrder'
        BY <1>1, <1>6, <2>1, <2>2, <2>3, <2>9, SameTable
           DEF CallShape, HandFull, HandInOrder, Placing
    <2> QED BY <1>1, <2>5, <2>8, <2>10, SameTable DEF IInv, TableInOrder
<1>7. CASE j = oldCapacity /\ AfterResize(call)
    <2>1. Cardinality(OldLeft) \in Nat
        BY OldLeftFinite
    <2>2. call.op \in Adders => count < capacity
        BY <1>2, <1>3, <2>1
    <2> QED BY <1>1, <1>7, <2>2, SameTable, AfterResizeInv
<1> QED BY <1>4, <1>6, <1>7

--------------------------------------------------------------------------------
(* Placing *)

LEMMA AllocateInv ==
    ASSUME IInv, Allocate
    PROVE  IInv'
<1>1. /\ pc = "allocate" /\ GoodCall(call) /\ call.op \in Adders /\ call.op \in Modifiers
      /\ call \in Calls /\ count < capacity
    BY DEF Allocate, IInv, CallShape, Room, GoodCall, Adders, Modifiers
<1>2. capacity \in Nat \ {0}
    BY <1>1, State
<1>3. CASE /\ carried' = [hash |-> keyHashFunc[call.key], key |-> call.key, value |-> call.value]
           /\ StartAt(keyHashFunc[call.key])
           /\ Continue(call, "insert")
           /\ UNCHANGED <<table, oldBuckets, oldCapacity, next>>
    <2> DEFINE h == keyHashFunc[call.key]
               b == [hash |-> h, key |-> call.key, value |-> call.value]
    <2>1. h \in Nat
        BY <1>1, State DEF GoodCall
    <2>2. b \in Bucket /\ b \in Cell /\ b.hash = h
        BY <1>1, <2>1 DEF GoodCall, Bucket, Cell
    <2>3. pc' = "insert" /\ call' = call /\ UNCHANGED table
        BY <1>3 DEF Continue
    <2>4. index' = IdealIndex(h) /\ distance' = 0 /\ index' \in 0..(capacity - 1)
        BY <1>2, <1>3, <2>1, HomeIndex DEF StartAt
    <2>5. carried' = b
        BY <1>3
    <2> HIDE DEF b, h
    <2>6. LocalsOK'
        BY <1>3, <2>2, <2>3, <2>4, <2>5, State, SameTable DEF LocalsOK
    <2>7. TypeOK'
        BY <1>1, <1>3, <2>3, <2>6, SameTable, ContinueTypes DEF Labels
    <2>8. Fits(buckets, capacity, b, index') /\ Dist(b, index', capacity) = 0
        BY <1>2, <2>2, <2>4, FitsAtHome DEF IdealIndex
    <2>9. HandInOrder' /\ Room'
        BY <1>1, <2>3, <2>4, <2>5, <2>8, SameTable DEF HandInOrder, Room
    <2>10. CallShape' /\ HandFull'
        BY <1>1, <2>2, <2>3, <2>5 DEF CallShape, HandFull, Placing
    <2> QED BY <2>3, <2>7, <2>9, <2>10, SameTable DEF IInv, TableInOrder
<1>4. CASE OutOfMemory(call)
    BY <1>1, <1>4, OutOfMemoryInv
<1> QED BY <1>3, <1>4 DEF Allocate

\* What is known while a pair is being placed.
LEMMA InHand ==
    ASSUME IInv, Placing
    PROVE  /\ pc \in {"insert", "rehash"} /\ carried \in Bucket
           /\ distance = Dist(carried, index, capacity)
           /\ Fits(buckets, capacity, carried, index)
           /\ GoodCall(call) /\ call \in Calls /\ call.op \in Growers /\ call.op \in Modifiers
           /\ capacity \in Nat \ {0} /\ count \in Nat /\ count < capacity
<1>1. pc \in {"insert", "rehash"}
    BY DEF Placing
<1>2. GoodCall(call) /\ call \in Calls /\ call.op \in Growers /\ call.op \in Modifiers
    BY <1>1 DEF IInv, CallShape, GoodCall, Adders, Growers, Modifiers
<1>3. capacity \in Nat \ {0} /\ count \in Nat
    BY <1>1, AtBucket, State
<1>4. Cardinality(OldLeft) \in Nat
    BY OldLeftFinite
<1>5. pc = "rehash" => count + Cardinality(OldLeft) + 1 <= capacity
    BY DEF IInv, Room
<1>6. pc = "insert" => count < capacity
    BY DEF IInv, Room
<1>7. count < capacity
    BY <1>1, <1>3, <1>4, <1>5, <1>6
<1> QED BY <1>1, <1>2, <1>3, <1>7 DEF IInv, HandFull, HandInOrder

LEMMA PlaceVacantInv ==
    ASSUME IInv, PlaceVacant
    PROVE  IInv'
<1> DEFINE new == [buckets EXCEPT ![index] = carried]
<1>1. Placing /\ bucket = Vacant /\ SetTable(capacity, count + 1, new)
    BY DEF PlaceVacant
<1>2. index \in 0..(capacity - 1) /\ buckets[index] = Vacant
    BY <1>1, InHand, AtBucket
<1>3. TableOK(capacity, count + 1, new)
    BY <1>1, <1>2, InHand, State, TablePut
<1>4. /\ capacity' = capacity /\ count' = count + 1 /\ buckets' = new
      /\ allocated' = allocated /\ allocated' \in BOOLEAN
      /\ keyHashFunc' = keyHashFunc /\ keyHashFunc' \in HashFuncs
    BY <1>1, State DEF SetTable
<1>5. TableOK(capacity', count', buckets')
    BY <1>3, <1>4
<1> HIDE DEF new
<1>6. CASE Return(call, "NONE")
    BY <1>1, <1>4, <1>5, <1>6, InHand, ReturnInv DEF Outcomes
<1>7. CASE /\ pc = "rehash"
           /\ Continue(call, "next_old")
           /\ index' = 0 /\ distance' = 0 /\ carried' = Vacant
           /\ UNCHANGED <<oldBuckets, oldCapacity, next>>
    <2>1. pc' = "next_old" /\ call' = call
        BY <1>7 DEF Continue
    <2>2. LocalsOK'
        BY <1>4, <1>7, <2>1, State DEF LocalsOK, Cell
    <2>3. TypeOK'
        BY <1>1, <1>4, <1>5, <1>7, <2>2, InHand, ContinueTypes DEF Labels
    <2>4. OldLeft' = OldLeft /\ Cardinality(OldLeft) \in Nat
        BY <1>7, OldLeftFinite DEF OldLeft
    <2>5. count' + Cardinality(OldLeft') = count + Cardinality(OldLeft) + 1
        BY <1>1, <1>4, <2>4, InHand
    <2>6. /\ capacity > 0 /\ count + Cardinality(OldLeft) + 1 <= capacity
          /\ call.op \in Adders => count + Cardinality(OldLeft) + 1 < capacity
        BY <1>7 DEF IInv, Room
    <2>7. Room'
        BY <1>4, <2>1, <2>5, <2>6 DEF Room
    <2>8. CallShape' /\ HandFull' /\ HandInOrder'
        BY <1>1, <2>1, InHand DEF CallShape, HandFull, HandInOrder, Placing
    <2> QED BY <1>5, <2>3, <2>7, <2>8 DEF IInv, TableInOrder
<1> QED BY <1>6, <1>7 DEF PlaceVacant

LEMMA PlacePresentInv ==
    ASSUME IInv, PlacePresent
    PROVE  IInv'
<1>1. Placing /\ UNCHANGED table /\ Return(call, "ALREADY_PRESENT")
      /\ "ALREADY_PRESENT" \in Outcomes
    BY DEF PlacePresent, Outcomes
<1> QED BY <1>1, InHand, SameTable, ReturnInv

LEMMA PlaceOnInv ==
    ASSUME IInv, PlaceOn
    PROVE  IInv'
<1> DEFINE n == capacity
           j == After(index, n)
           new == [buckets EXCEPT ![index] = carried]
<1>1. /\ Placing /\ bucket # Vacant /\ pc \in {"insert", "rehash"}
      /\ index' = j /\ UNCHANGED <<oldBuckets, oldCapacity, next>>
      /\ Continue(call, pc) /\ pc' = pc /\ call' = call
    BY InHand, AtBucket DEF PlaceOn, Advance, Continue
<1>2. /\ n \in Nat \ {0} /\ index \in 0..(n - 1) /\ j \in 0..(n - 1)
      /\ buckets[index] # Vacant /\ bucket = buckets[index] /\ bucket \in Bucket
      /\ otherDistance = Dist(buckets[index], index, n) /\ otherDistance \in 0..(n - 1)
    BY <1>1, AtBucket
<1>3. distance = Dist(carried, index, n) /\ distance \in 0..(n - 1)
    BY <1>1, <1>2, InHand, DistIs
<1>4. OldLeft' = OldLeft
    BY <1>1 DEF OldLeft
<1>5. ASSUME /\ capacity' = n /\ count' = count
             /\ allocated' = allocated /\ keyHashFunc' = keyHashFunc
             /\ TableOK(n, count, buckets') /\ carried' \in Bucket /\ distance' \in 0..n
             /\ distance' = Dist(carried', j, n) /\ Fits(buckets', n, carried', j)
      PROVE  IInv'
    <2>1. TableOK(capacity', count', buckets')
        BY <1>5
    <2>2. LocalsOK'
        BY <1>1, <1>2, <1>5, State DEF LocalsOK, Cell
    <2>3. TypeOK'
        BY <1>1, <1>5, <2>1, <2>2, InHand, ContinueTypes DEF Labels
    <2>4. Room'
        BY <1>1, <1>4, <1>5 DEF IInv, Room
    <2>5. CallShape'
        BY <1>1 DEF IInv, CallShape
    <2>6. HandFull' /\ HandInOrder'
        BY <1>1, <1>5 DEF HandFull, HandInOrder
    <2> QED BY <2>1, <2>3, <2>4, <2>5, <2>6 DEF IInv, TableInOrder
<1>6. CASE /\ distance > otherDistance
           /\ SetTable(capacity, count, new)
           /\ carried' = bucket
           /\ distance' = otherDistance + 1
    <2>1. /\ Ordered(new, n)
          /\ Dist(bucket, j, n) = otherDistance + 1
          /\ Fits(new, n, bucket, j)
        BY <1>1, <1>2, <1>3, <1>6, InHand, State, SwapKeepsOrder
    <2>2. TableOK(n, count, new)
        BY <1>1, <1>2, <2>1, InHand, State, TableReplace
    <2>3. distance' \in 0..n
        BY <1>2, <1>6
    <2>4. capacity' = n /\ count' = count /\ buckets' = new
          /\ allocated' = allocated /\ keyHashFunc' = keyHashFunc
        BY <1>6 DEF SetTable
    <2> HIDE DEF new, j, n
    <2> QED BY <1>2, <1>5, <1>6, <2>1, <2>2, <2>3, <2>4
<1>7. CASE distance <= otherDistance /\ distance' = distance + 1 /\ UNCHANGED <<table, carried>>
    <2>1. \E v \in 0..(n - 1) : buckets[v] = Vacant
        BY <1>1, InHand, State, TableFacts
    <2>2. Dist(carried, j, n) = distance + 1 /\ Fits(buckets, n, carried, j)
        BY <1>1, <1>2, <1>3, <1>7, <2>1, InHand, State, GoOn
    <2>3. distance' \in 0..n /\ carried' = carried /\ UNCHANGED table
        BY <1>2, <1>3, <1>7
    <2>4. capacity' = n /\ count' = count /\ buckets' = buckets
          /\ allocated' = allocated /\ keyHashFunc' = keyHashFunc
        BY <2>3, SameTable
    <2> HIDE DEF j, n
    <2>5. TableOK(n, count, buckets') /\ Fits(buckets', n, carried', j) /\ carried' \in Bucket
        BY <1>1, <2>2, <2>3, <2>4, InHand, State DEF n
    <2>6. distance' = Dist(carried', j, n)
        BY <1>7, <2>2, <2>3
    <2> QED BY <1>5, <2>3, <2>4, <2>5, <2>6
<1> QED BY <1>6, <1>7 DEF PlaceOn

--------------------------------------------------------------------------------
(* The other calls *)

LEMMA NewMapInv ==
    ASSUME IInv, NEW cap \in Nat, NEW f \in HashFuncs, NewMap(cap, f)
    PROVE  IInv'
<1> DEFINE c == Call("new", None, None)
<1>1. c \in Calls /\ c.op \in Modifiers /\ "NONE" \in Outcomes
    BY DEF Call, Calls, Ops, Modifiers, Outcomes
<1> HIDE DEF c
<1>2. CASE /\ allocated' = TRUE
           /\ keyHashFunc' = f
           /\ capacity' \in IF cap > 0 THEN NextPowersOfTwo(cap) ELSE {0}
           /\ count' = 0
           /\ buckets' = Cleared(capacity')
           /\ Return(c, "NONE")
    <2>1. capacity' \in Nat
        BY <1>2, PowersAbove
    <2>2. TableOK(capacity', 0, Cleared(capacity'))
        BY <2>1, TableCleared
    <2>3. TableOK(capacity', count', buckets')
        BY <1>2, <2>2
    <2> QED BY <1>1, <1>2, <2>3, ReturnInv
<1>3. CASE OutOfMemory(c)
    BY <1>1, <1>3, OutOfMemoryInv
<1> QED BY <1>2, <1>3 DEF NewMap, c

\* Calls that leave the table alone, and those that leave it empty.
LEMMA SimpleCallInv ==
    ASSUME IInv, Clone \/ Free \/ Clear \/ (\E v \in Value : ContainsValue(v))
    PROVE  IInv'
<1>1. Outcomes = {"NONE", "OUT_OF_MEMORY", "ALREADY_PRESENT", "TRUE", "FALSE"}
    BY DEF Outcomes
<1>2. CASE Clone
    <2>1. PICK o \in {"NONE", "OUT_OF_MEMORY"} : Return(Call("clone", None, None), o)
        BY <1>2 DEF Clone
    <2>2. Call("clone", None, None) \in Calls /\ Call("clone", None, None).op \in Modifiers
        BY DEF Call, Calls, Ops, Modifiers
    <2>3. UNCHANGED table /\ o \in Outcomes
        BY <1>1, <1>2 DEF Clone
    <2> QED BY <2>1, <2>2, <2>3, SameTable, ReturnInv
<1>3. CASE Free
    <2>1. Call("free", None, None) \in Calls /\ Call("free", None, None).op \in Modifiers
        BY DEF Call, Calls, Ops, Modifiers
    <2>2. /\ allocated' \in BOOLEAN /\ keyHashFunc' \in HashFuncs
          /\ capacity' = 0 /\ count' = 0 /\ buckets' = Cleared(0)
          /\ Return(Call("free", None, None), "NONE")
        BY <1>3, State DEF Free
    <2>3. TableOK(capacity', count', buckets')
        BY <2>2, TableCleared
    <2> QED BY <1>1, <2>1, <2>2, <2>3, ReturnInv
<1>4. CASE Clear
    <2>1. Call("clear", None, None) \in Calls /\ Call("clear", None, None).op \in Modifiers
        BY DEF Call, Calls, Ops, Modifiers
    <2>2. /\ allocated' = allocated /\ keyHashFunc' = keyHashFunc
          /\ \/ capacity' = capacity /\ count' = 0 /\ buckets' = Cleared(capacity)
             \/ UNCHANGED table
          /\ Return(Call("clear", None, None), "NONE")
        BY <1>4 DEF Clear, SetTable, table
    <2>3. TableOK(capacity', count', buckets')
        BY <2>2, State, SameTable, TableCleared
    <2>4. allocated' \in BOOLEAN /\ keyHashFunc' \in HashFuncs
        BY <2>2, State
    <2> QED BY <1>1, <2>1, <2>2, <2>3, <2>4, ReturnInv
<1>5. CASE \E v \in Value : ContainsValue(v)
    <2>1. PICK v \in Value : ContainsValue(v)
        BY <1>5
    <2>2. Call("contains_value", None, v) \in Calls
        BY DEF Call, Calls, Ops
    <2>3. /\ UNCHANGED table
          /\ \E o \in {"TRUE", "FALSE"} : Return(Call("contains_value", None, v), o)
        BY <2>1 DEF ContainsValue
    <2> QED BY <1>1, <2>2, <2>3, SameTable, ReturnInv
<1> QED BY <1>2, <1>3, <1>4, <1>5

LEMMA TryAddInv ==
    ASSUME IInv, NEW k \in Key, NEW v \in Value, TryAdd(k, v)
    PROVE  IInv'
<1> DEFINE c == Call("try_add", k, v)
<1>1. GoodCall(c) /\ c.op \in Adders /\ c.op \in Modifiers
    BY DEF GoodCall, Call, Calls, Ops, Modifiers, Adders, Seekers
<1> HIDE DEF c
<1>2. Continue(c, "reserve") /\ UNCHANGED table /\ UNCHANGED locals /\ pc' = "reserve" /\ call' = c
    BY DEF TryAdd, Continue, c
<1>3. LocalsOK'
    BY <1>2, State, SameTable DEF LocalsOK, locals
<1>4. TypeOK'
    BY <1>1, <1>2, <1>3, SameTable, ContinueTypes DEF Labels
<1>5. CallShape' /\ HandFull' /\ Room' /\ HandInOrder'
    BY <1>1, <1>2 DEF CallShape, HandFull, Room, HandInOrder, Placing
<1> QED BY <1>2, <1>4, <1>5, SameTable DEF IInv, TableInOrder

\* The iterator and the answers do not matter to anything else.
LEMMA OnlyAnswers ==
    ASSUME IInv, UNCHANGED <<table, pc, call, locals>>,
           iterIndex' \in {NoIter} \cup (-1..capacity),
           last' \in [op : Ops, key : Key \cup {None}, value : Value \cup {None}, outcome : Outcomes]
    PROVE  IInv'
<1>1. TypeOK'
    BY DEF IInv, TypeOK, table, locals, Outcomes
<1>2. /\ CallShape' /\ HandFull' /\ Room' /\ HandInOrder'
    BY DEF IInv, CallShape, HandFull, Room, HandInOrder, Placing, bucket, OldLeft, table, locals
<1> QED BY <1>1, <1>2, SameTable DEF IInv, TableInOrder

LEMMA IterInv ==
    ASSUME IInv, IterStart \/ IterMoveNext
    PROVE  IInv'
<1>1. UNCHANGED <<table, pc, call, locals>> /\ capacity \in Nat
    BY State DEF IterStart, IterMoveNext
<1>2. CASE IterStart
    <2>1. /\ iterIndex' = -1
          /\ last' = [op |-> "iter", key |-> None, value |-> None, outcome |-> "NONE"]
        BY <1>2 DEF IterStart
    <2> QED BY <1>1, <2>1, OnlyAnswers DEF Ops, Outcomes
<1>3. CASE IterMoveNext
    <2>1. PICK j \in IF count = 0 \/ iterIndex = capacity THEN {capacity}
                     ELSE NextOccupied(buckets, capacity, iterIndex + 1) :
              /\ iterIndex' = j
              /\ last' = IF j < capacity
                         THEN [op |-> "iter_move_next", key |-> buckets[j].key,
                               value |-> buckets[j].value, outcome |-> "TRUE"]
                         ELSE [op |-> "iter_move_next", key |-> None, value |-> None,
                               outcome |-> "FALSE"]
        BY <1>3 DEF IterMoveNext
    <2>2. iterIndex \in -1..capacity
        BY <1>3, State DEF IterMoveNext
    <2>3. j \in 0..capacity /\ (j < capacity => buckets[j] # Vacant)
        BY <1>1, <2>1, <2>2 DEF NextOccupied
    <2>4. j < capacity => buckets[j].key \in Key /\ buckets[j].value \in Value
        <3> SUFFICES ASSUME j < capacity PROVE buckets[j].key \in Key /\ buckets[j].value \in Value
            OBVIOUS
        <3>1. j \in 0..(capacity - 1) /\ buckets[j] # Vacant
            BY <1>1, <2>3
        <3>2. buckets[j] \in Bucket
            BY <3>1, State, CellType
        <3> QED BY <3>2, BucketFields
    <2>5. last' \in [op : Ops, key : Key \cup {None}, value : Value \cup {None}, outcome : Outcomes]
        BY <2>1, <2>4 DEF Ops, Outcomes
    <2> QED BY <1>1, <2>1, <2>3, <2>5, OnlyAnswers
<1> QED BY <1>2, <1>3

LEMMA SeekInv ==
    ASSUME IInv, NEW k \in Key, TryGet(k) \/ ContainsKey(k) \/ Remove(k)
    PROVE  IInv'
<1>1. PICK op \in {"try_get", "contains_key", "remove"} : StartLookup(Call(op, k, None))
    BY DEF TryGet, ContainsKey, Remove
<1>2. GoodCall(Call(op, k, None)) /\ Call(op, k, None).op \in Seekers
    BY DEF GoodCall, Call, Calls, Ops, Modifiers, Adders, Seekers
<1> QED BY <1>1, <1>2, StartLookupInv

LEMMA SetInv ==
    ASSUME IInv, NEW k \in Key, NEW v \in Value, Set(k, v)
    PROVE  IInv'
<1>1. GoodCall(Call("set", k, v)) /\ Call("set", k, v).op \in Seekers
    BY DEF GoodCall, Call, Calls, Ops, Modifiers, Adders, Seekers
<1> QED BY <1>1, StartLookupInv DEF Set

LEMMA EnsureCapacityInv ==
    ASSUME IInv, NEW wanted \in Nat, EnsureCapacity(wanted)
    PROVE  IInv'
<1> DEFINE c == Call("ensure_capacity", None, None)
<1>1. GoodCall(c) /\ c.op \in Growers /\ c.op \notin Adders
    BY DEF GoodCall, Call, Calls, Ops, Modifiers, Adders, Seekers, Growers
<1>2. Resize(c, wanted)
    BY DEF EnsureCapacity
<1> QED BY <1>1, <1>2, ResizeInv

--------------------------------------------------------------------------------
(* The theorems *)

LEMMA InitInv == Init => IInv
<1> SUFFICES ASSUME Init PROVE IInv
    OBVIOUS
<1>1. TableOK(0, 0, Cleared(0)) /\ Cleared(0) \in Cells(0) /\ Vacant \in Cell
    BY TableCleared DEF Cleared, Cells, Cell
<1>2. GoodCall(NoCall)
    BY DEF NoCall, GoodCall, Calls, Ops, Adders, Seekers
<1>3. last \in [op : Ops, key : Key \cup {None}, value : Value \cup {None}, outcome : Outcomes]
    BY DEF Init, NoAnswer, Ops, Outcomes
<1>4. /\ oldBuckets \in Cells(oldCapacity) /\ buckets \in Cells(capacity)
      /\ TableOK(capacity, count, buckets)
    BY <1>1 DEF Init
<1>5. TypeOK
    <2>1. /\ allocated = FALSE /\ keyHashFunc \in HashFuncs
          /\ capacity = 0 /\ count = 0 /\ iterIndex = NoIter /\ pc = "idle"
          /\ distance = 0 /\ carried = Vacant /\ oldCapacity = 0 /\ next = 0
        BY DEF Init
    <2>2. call \in Calls
        BY <1>2 DEF Init, GoodCall
    <2>3. /\ capacity \in Nat /\ count \in 0..capacity /\ distance \in 0..capacity
          /\ oldCapacity \in Nat /\ next \in 0..oldCapacity
        BY <2>1
    <2>4. iterIndex \in {NoIter} \cup (-1..capacity) /\ pc \in Labels
          /\ pc \notin {"probe", "shift", "insert", "rehash"}
        BY <2>1 DEF Labels
    <2> QED BY <1>1, <1>3, <1>4, <2>1, <2>2, <2>3, <2>4, Zenon DEF TypeOK, Outcomes, Calls, Labels
<1>6. CallShape /\ HandFull /\ Room /\ HandInOrder
    BY <1>2 DEF Init, CallShape, HandFull, Room, HandInOrder, Placing
<1> QED BY <1>4, <1>5, <1>6 DEF IInv, TableInOrder

LEMMA ClientCallInv ==
    ASSUME IInv, ClientCall
    PROVE  IInv'
<1>1. InitialCapacities \subseteq Nat /\ WantedCapacities \subseteq Nat
    BY CapacitiesAssumption
<1>2. CASE \E cap \in InitialCapacities, f \in HashFuncs : NewMap(cap, f)
    BY <1>1, <1>2, NewMapInv
<1>3. CASE \E k \in Key, v \in Value : TryAdd(k, v)
    BY <1>3, TryAddInv
<1>4. CASE \E k \in Key, v \in Value : Set(k, v)
    BY <1>4, SetInv
<1>5. CASE \E k \in Key : TryGet(k) \/ ContainsKey(k) \/ Remove(k)
    BY <1>5, SeekInv
<1>6. CASE \E wanted \in WantedCapacities : EnsureCapacity(wanted)
    BY <1>1, <1>6, EnsureCapacityInv
<1>7. CASE Clone \/ Free \/ Clear \/ (\E v \in Value : ContainsValue(v))
    BY <1>7, SimpleCallInv
<1>8. CASE TrimExcess
    BY <1>8, TrimExcessInv
<1>9. CASE IterStart \/ IterMoveNext
    BY <1>9, IterInv
<1> QED BY <1>2, <1>3, <1>4, <1>5, <1>6, <1>7, <1>8, <1>9 DEF ClientCall

LEMMA NextInv == IInv /\ [Next]_vars => IInv'
<1> SUFFICES ASSUME IInv, [Next]_vars PROVE IInv'
    OBVIOUS
<1>1. CASE ClientCall
    BY <1>1, ClientCallInv
<1>2. CASE Work
    BY <1>2, ProbeMissInv, ProbeHitInv, ProbeOnInv, ShiftBackInv, ShiftEndInv, ReserveInv,
       NextOldInv, AllocateInv, PlaceVacantInv, PlacePresentInv, PlaceOnInv DEF Work
<1>3. CASE UNCHANGED vars
    <2>1. UNCHANGED <<table, pc, call, locals>> /\ iterIndex' = iterIndex /\ last' = last
        BY <1>3 DEF vars
    <2>2. last \in [op : Ops, key : Key \cup {None}, value : Value \cup {None}, outcome : Outcomes]
        BY DEF IInv, TypeOK, Outcomes
    <2> QED BY <2>1, <2>2, State, OnlyAnswers
<1> QED BY <1>1, <1>2, <1>3 DEF Next

LEMMA InductiveInvariant == Spec => []IInv
BY InitInv, NextInv, PTL DEF Spec

\* The fields of struct ScuHashMap and the locals of its functions are of their types in every
\* state of every call: the indices of the probing, placing and shifting loops stay inside
\* the bucket array, whatever the capacities and the hash functions are.
THEOREM TypeCorrect == Spec => []TypeOK
<1>1. IInv => TypeOK
    BY DEF IInv
<1> QED BY <1>1, InductiveInvariant, PTL

\* count is the number of occupied buckets, also while a call places, shifts or rehashes.
THEOREM CountCorrect == Spec => []CountMatches
<1>1. IInv => CountMatches
    BY DEF IInv, TableInOrder, TableOK, CountMatches, Occupied, OccupiedIn
<1> QED BY <1>1, InductiveInvariant, PTL

LEMMA RobinHoodHolds == IInv => RobinHood
<1> SUFFICES ASSUME IInv PROVE RobinHood
    OBVIOUS
<1>1. \A b, j : ProbeDistance(b, j) = Dist(b, j, capacity)
    BY DistOfProbe
<1>2. \A j, e : WrapIndex(j - e) = Back(j, e, capacity)
    BY DEF WrapIndex, Back
<1>3. ASSUME NEW b \in Bucket, NEW j \in 0..(capacity - 1), Fits(buckets, capacity, b, j)
      PROVE  ChainBehind(b, j, 1)
    <2>1. \A e \in 1..Dist(b, j, capacity) :
              LET p == Back(j, e, capacity)
              IN  buckets[p] # Vacant /\ Dist(buckets[p], p, capacity) >= Dist(b, j, capacity) - e
        <3>1. capacity \in Nat \ {0} /\ buckets \in Cells(capacity) /\ Ordered(buckets, capacity)
            BY State
        <3> QED BY <1>3, <3>1, Chain
    <2> QED BY <1>1, <1>2, <2>1 DEF ChainBehind
<1>4. ASSUME NEW j \in Occupied PROVE ChainBehind(buckets[j], j, 0)
    <2>1. /\ j \in 0..(capacity - 1) /\ buckets[j] # Vacant
          /\ capacity \in Nat \ {0} /\ buckets \in Cells(capacity) /\ Ordered(buckets, capacity)
        BY <1>4, State DEF Occupied
    <2>2. buckets[j] \in Bucket /\ Fits(buckets, capacity, buckets[j], j)
        BY <2>1, CellType DEF Ordered
    <2>3. ChainBehind(buckets[j], j, 1)
        BY <1>3, <2>1, <2>2
    <2>4. 0 \in 0..(capacity - 1)
        BY <2>1
    <2>5. WrapIndex(j - 0) = j
        BY <1>2, <2>1, <2>4, BackIs
    <2>6. ProbeDistance(buckets[j], j) \in 0..(capacity - 1)
        BY <1>1, <2>1, <2>2, DistIs
    <2> HIDE DEF WrapIndex, ProbeDistance
    <2>7. \A e \in 0..ProbeDistance(buckets[j], j) :
              e = 0 \/ e \in 1..ProbeDistance(buckets[j], j)
        BY <2>6
    <2>8. /\ buckets[WrapIndex(j - 0)] # Vacant
          /\ ProbeDistance(buckets[WrapIndex(j - 0)], WrapIndex(j - 0)) >=
                 ProbeDistance(buckets[j], j) - 0
        BY <2>1, <2>5, <2>6
    <2> QED BY <2>3, <2>7, <2>8 DEF ChainBehind
<1>5. ASSUME Placing
      PROVE  distance = ProbeDistance(carried, index) /\ ChainBehind(carried, index, 1)
    <2>1. index \in 0..(capacity - 1)
        BY <1>5, InHand, AtBucket
    <2> QED BY <1>1, <1>3, <1>5, <2>1, InHand
<1> QED BY <1>4, <1>5 DEF RobinHood

\* The order the early exits of the lookups rely on holds in every state of every call, also
\* while pairs are displaced, rehashed and shifted back, and however the capacity grew.
THEOREM OrderCorrect == Spec => []RobinHood
BY RobinHoodHolds, InductiveInvariant, PTL

--------------------------------------------------------------------------------
(* Where the keys are *)

\* The buckets that hold a pair: the one a removal is about to overwrite holds none.
Held == IF pc = "shift" THEN Occupied \ {index} ELSE Occupied

InTable == {buckets[j] : j \in Held}
InOld == {oldBuckets[j] : j \in OldLeft}
InTransit == IF Placing THEN {carried} ELSE {}

DistinctIn(bs, S) == \A i, j \in S : bs[i].key = bs[j].key => i = j
Lacks(S, k) == \A b \in S : b.key # k
Hashed(S, f) == \A b \in S : b.hash = f[b.key]

\* The bucket e behind the ideal one of hash h.
Seat(h, e, n) == ((h % n) + e) % n

\* The key k, of hash h, is in none of the d buckets from its ideal one on.
NotIn(bs, n, k, h, d) ==
    \A e \in 0..(d - 1) :
        LET p == Seat(h, e, n) IN bs[p] # Vacant => bs[p].key # k

\* The loop looked at every bucket from the ideal one of its key to the one before index.
Passed ==
    /\ index = Seat(keyHashFunc[call.key], distance, capacity)
    /\ NotIn(buckets, capacity, call.key, keyHashFunc[call.key], distance)

\* No key is twice in the table and what is left of the old one.
KeysOnce ==
    /\ DistinctIn(buckets, Held)
    /\ DistinctIn(oldBuckets, OldLeft)
    /\ \A b \in InTable : Lacks(InOld, b.key)
    /\ Hashed(InTable \cup InOld \cup InTransit, keyHashFunc)

NewPair == [hash |-> keyHashFunc[call.key], key |-> call.key, value |-> call.value]

\* What the loops know of the keys they look for.
Known ==
    /\ pc = "probe" => Passed
    /\ call.op = "set" /\ pc \in {"reserve", "allocate", "next_old", "rehash"} =>
           Lacks(InTable \cup InOld \cup InTransit, call.key)
    /\ pc = "rehash" => Lacks(InTable \cup InOld, carried.key)
    /\ pc = "insert" =>
           /\ NewPair \in InTable \cup {carried}
           /\ \/ Lacks(InTable, carried.key)
              \/ call.op = "try_add" /\ carried = NewPair /\ Passed

\* What is over is forgotten.
Tidy ==
    /\ pc \notin {"next_old", "rehash"} => oldCapacity = 0
    /\ ~Placing => carried = Vacant
    /\ pc # "idle" => last = NoAnswer
    /\ pc # "idle" /\ call.op \in Modifiers => iterIndex = NoIter

KeyInv == KeysOnce /\ Known /\ Tidy

\* A pair is as far behind its ideal bucket as its bucket is.
LEMMA PlaceOfPair ==
    ASSUME NEW n \in Nat \ {0}, NEW j \in 0..(n - 1), NEW b \in Bucket
    PROVE  j = Seat(b.hash, Dist(b, j, n), n)
<1> DEFINE h == b.hash % n
           d == Dist(b, j, n)
<1>1. h \in 0..(n - 1) /\ d \in 0..(n - 1) /\ d = IF j >= h THEN j - h ELSE j - h + n
    BY DistIs
<1> HIDE DEF h, d
<1>2. d \in 0..n
    BY <1>1
<1>3. (h + d) % n = IF h + d < n THEN h + d ELSE h + d - n
    BY <1>1, <1>2, RingSlot, Zenon
<1>4. j = (h + d) % n
    BY <1>1, <1>3
<1> QED BY <1>4 DEF h, d, Seat

\* A lookup may stop where no bucket is, or a pair that is closer to home: behind that place
\* its key cannot be.
LEMMA Absent ==
    ASSUME NEW n \in Nat \ {0}, NEW bs \in Cells(n), Ordered(bs, n),
           NEW k, NEW h \in Nat, NEW d \in 0..n, NEW i \in 0..(n - 1), i = Seat(h, d, n),
           NotIn(bs, n, k, h, d), bs[i] # Vacant => d > Dist(bs[i], i, n),
           \A j \in 0..(n - 1) : bs[j] # Vacant /\ bs[j].key = k => bs[j].hash = h
    PROVE  \A j \in 0..(n - 1) : bs[j] # Vacant => bs[j].key # k
<1> SUFFICES ASSUME NEW j \in 0..(n - 1), bs[j] # Vacant, bs[j].key = k
             PROVE  FALSE
    OBVIOUS
<1> DEFINE home == h % n
           t == Dist(bs[j], j, n)
<1>1. bs[j] \in Bucket /\ bs[j].hash = h
    BY CellType
<1>2. home \in 0..(n - 1) /\ t \in 0..(n - 1) /\ t = IF j >= home THEN j - home ELSE j - home + n
    BY <1>1, DistIs
<1>3. j = Seat(h, t, n)
    BY <1>1, PlaceOfPair
<1>4. ~(t < d)
    <2> SUFFICES ASSUME t < d PROVE FALSE
        OBVIOUS
    <2>1. t \in 0..(d - 1)
        BY <1>2
    <2> QED BY <1>3, <2>1 DEF NotIn
<1> DEFINE e == t - d
<1>5. e \in 0..t /\ e \in 0..(n - 1)
    BY <1>2, <1>4
<1>6. i = IF home + d < n THEN home + d ELSE home + d - n
    BY <1>2, RingSlot DEF Seat
<1>7. Back(j, e, n) = IF j >= e THEN j - e ELSE j - e + n
    BY <1>5, WrapDifference DEF Back
<1>8. Back(j, e, n) = i
    <2> HIDE DEF home, t
    <2> QED BY <1>2, <1>5, <1>6, <1>7
<1>9. CASE e = 0
    <2>1. i = j
        BY <1>5, <1>8, <1>9, BackIs
    <2> QED BY <1>2, <1>9, <2>1
<1>10. CASE e # 0
    <2>1. e \in 1..t
        BY <1>2, <1>5, <1>10
    <2>2. Fits(bs, n, bs[j], j)
        BY DEF Ordered
    <2>3. bs[i] # Vacant /\ Dist(bs[i], i, n) >= t - e
        BY <1>1, <1>8, <2>1, <2>2, Chain
    <2>4. Dist(bs[i], i, n) \in 0..(n - 1)
        BY <2>3, DistType
    <2> QED BY <1>2, <2>3, <2>4
<1> QED BY <1>9, <1>10

\* One bucket farther.
LEMMA NotInNext ==
    ASSUME NEW n \in Nat \ {0}, NEW bs, NEW k, NEW h \in Nat, NEW d \in 0..(n - 1),
           NEW i \in 0..(n - 1), i = Seat(h, d, n),
           NotIn(bs, n, k, h, d), bs[i] # Vacant => bs[i].key # k
    PROVE  /\ NotIn(bs, n, k, h, d + 1)
           /\ After(i, n) = Seat(h, d + 1, n)
<1>1. ASSUME NEW e \in 0..d
      PROVE  LET p == Seat(h, e, n) IN bs[p] # Vacant => bs[p].key # k
    <2>1. CASE e = d
        BY <2>1
    <2>2. CASE e # d
        <3>1. e \in 0..(d - 1)
            BY <2>2
        <3> QED BY <3>1 DEF NotIn
    <2> QED BY <2>1, <2>2
<1>2. (d + 1) - 1 = d
    OBVIOUS
<1>3. NotIn(bs, n, k, h, d + 1)
    BY <1>1, <1>2 DEF NotIn
<1> DEFINE home == h % n
<1>4. home \in 0..(n - 1)
    <2>1. h \in Int
        OBVIOUS
    <2> QED BY <2>1, ModRange, Zenon
<1>5. d \in 0..n /\ d + 1 \in 0..n
    OBVIOUS
<1> HIDE DEF home
<1>6. (home + d) % n = IF home + d < n THEN home + d ELSE home + d - n
    BY <1>4, <1>5, RingSlot, Zenon
<1>7. (home + (d + 1)) % n = IF home + (d + 1) < n THEN home + (d + 1) ELSE home + (d + 1) - n
    BY <1>4, <1>5, RingSlot, Zenon
<1>8. After(i, n) = IF i = n - 1 THEN 0 ELSE i + 1
    BY AfterIs, Zenon
<1>9. i = (home + d) % n
    BY DEF home, Seat
<1>10. After(i, n) = (home + (d + 1)) % n
    BY <1>4, <1>6, <1>7, <1>8, <1>9
<1> QED BY <1>3, <1>10 DEF home, Seat

\* In the beginning no bucket was passed.
LEMMA NotInNone ==
    ASSUME NEW n \in Nat \ {0}, NEW bs, NEW k, NEW h \in Nat
    PROVE  NotIn(bs, n, k, h, 0) /\ h % n = Seat(h, 0, n)
<1>1. h \in Int
    OBVIOUS
<1>2. h % n \in 0..(n - 1)
    BY <1>1, ModRange, Zenon
<1>3. (h % n) % n = h % n
    BY <1>2, ModInside, Zenon
<1>4. (h % n) + 0 = h % n
    BY <1>2
<1>5. NotIn(bs, n, k, h, 0)
    BY DEF NotIn
<1> QED BY <1>3, <1>4, <1>5 DEF Seat

--------------------------------------------------------------------------------
(* Every key is in one place *)

\* The pairs in the buckets at hand, the old ones and the one that is carried.
LEMMA KeyState ==
    ASSUME IInv, KeyInv
    PROVE  /\ Held \subseteq Occupied /\ Occupied \subseteq 0..(capacity - 1)
           /\ \A j \in Occupied : buckets[j] \in Bucket
           /\ \A j \in OldLeft : oldBuckets[j] \in Bucket
           /\ InTable \subseteq Bucket /\ InOld \subseteq Bucket /\ InTransit \subseteq Bucket
           /\ \A a, b \in InTable : a.key = b.key => a = b
           /\ \A a, b \in InOld : a.key = b.key => a = b
           /\ pc \notin {"next_old", "rehash"} => OldLeft = {} /\ InOld = {}
           /\ ~Placing => InTransit = {}
           /\ pc # "shift" => Held = Occupied
<1>1. /\ Held \subseteq Occupied /\ Occupied \subseteq 0..(capacity - 1)
      /\ pc # "shift" => Held = Occupied
    BY DEF Held, Occupied
<1>2. \A j \in Occupied : buckets[j] \in Bucket
    BY State, CellType DEF Occupied
<1>3. \A j \in OldLeft : oldBuckets[j] \in Bucket
    <2>1. oldCapacity \in Nat /\ next \in 0..oldCapacity /\ oldBuckets \in Cells(oldCapacity)
        BY State DEF LocalsOK
    <2>2. \A j \in OldLeft : j \in 0..(oldCapacity - 1) /\ oldBuckets[j] # Vacant
        BY <2>1 DEF OldLeft
    <2> QED BY <2>1, <2>2, CellType
<1>4. InTable \subseteq Bucket /\ InOld \subseteq Bucket /\ InTransit \subseteq Bucket
    BY <1>1, <1>2, <1>3 DEF InTable, InOld, InTransit, IInv, HandFull
<1>5. /\ \A a, b \in InTable : a.key = b.key => a = b
      /\ \A a, b \in InOld : a.key = b.key => a = b
    BY DEF KeyInv, KeysOnce, DistinctIn, InTable, InOld
<1>6. pc \notin {"next_old", "rehash"} => OldLeft = {} /\ InOld = {}
    <2> SUFFICES ASSUME pc \notin {"next_old", "rehash"} PROVE OldLeft = {}
        BY DEF InOld
    <2>1. oldCapacity = 0 /\ next \in 0..oldCapacity
        BY State DEF KeyInv, Tidy, LocalsOK
    <2> QED BY <2>1 DEF OldLeft
<1>7. ~Placing => InTransit = {}
    BY DEF InTransit
<1> QED BY <1>1, <1>2, <1>3, <1>4, <1>5, <1>6, <1>7

\* A call returns, the pairs in the table are in order.
LEMMA AnswerKey ==
    ASSUME NEW c, NEW v, NEW outcome, Answer(c, v, outcome),
           DistinctIn(buckets', Occupied'), Hashed({buckets'[j] : j \in Occupied'}, keyHashFunc')
    PROVE  KeyInv'
<1>1. /\ pc' = "idle" /\ call' = NoCall /\ carried' = Vacant
      /\ oldBuckets' = Cleared(0) /\ oldCapacity' = 0 /\ next' = 0
    BY DEF Answer, DropLocals
<1>2. Held' = Occupied' /\ OldLeft' = {} /\ ~Placing'
    BY <1>1 DEF Held, OldLeft, Placing
<1>3. InTable' = {buckets'[j] : j \in Occupied'} /\ InOld' = {} /\ InTransit' = {}
    BY <1>2 DEF InTable, InOld, InTransit
<1>4. KeysOnce'
    BY <1>2, <1>3 DEF KeysOnce, DistinctIn, Hashed, Lacks
<1>5. Known' /\ Tidy'
    BY <1>1 DEF Known, Tidy
<1> QED BY <1>4, <1>5 DEF KeyInv

\* The table between two steps that leave it alone.
LEMMA SamePairs ==
    ASSUME IInv, KeyInv, UNCHANGED table, pc # "shift"
    PROVE  /\ Occupied' = Occupied /\ Held = Occupied
           /\ {buckets'[j] : j \in Occupied'} = InTable
           /\ pc' # "shift" => Held' = Held /\ InTable' = InTable
           /\ DistinctIn(buckets', Occupied')
           /\ Hashed({buckets'[j] : j \in Occupied'}, keyHashFunc')
<1>1. Occupied' = Occupied /\ buckets' = buckets /\ keyHashFunc' = keyHashFunc
    BY DEF table, Occupied
<1>2. Held = Occupied /\ (pc' # "shift" => Held' = Occupied')
    BY DEF Held
<1>3. {buckets'[j] : j \in Occupied'} = InTable
    BY <1>1, <1>2 DEF InTable
<1>4. pc' # "shift" => InTable' = InTable
    BY <1>1, <1>2 DEF InTable
<1> QED BY <1>1, <1>2, <1>3, <1>4 DEF KeyInv, KeysOnce, Hashed

LEMMA QuietAnswerKey ==
    ASSUME IInv, KeyInv, NEW c, NEW v, NEW outcome, Answer(c, v, outcome), UNCHANGED table,
           pc # "shift"
    PROVE  KeyInv'
BY SamePairs, AnswerKey

LEMMA NoPairs ==
    ASSUME buckets' = Cleared(capacity')
    PROVE  Occupied' = {}
BY DEF Occupied, Cleared

LEMMA EmptyAnswerKey ==
    ASSUME NEW c, NEW v, NEW outcome, Answer(c, v, outcome), buckets' = Cleared(capacity')
    PROVE  KeyInv'
<1>1. Occupied' = {}
    BY NoPairs
<1>2. DistinctIn(buckets', Occupied') /\ Hashed({buckets'[j] : j \in Occupied'}, keyHashFunc')
    BY <1>1 DEF DistinctIn, Hashed
<1> QED BY <1>2, AnswerKey

\* When a loop may stop its key is nowhere in the table.
LEMMA NotThere ==
    ASSUME IInv, KeyInv, pc \in {"probe", "insert"}, Passed,
           bucket # Vacant => distance > otherDistance
    PROVE  Lacks(InTable, call.key)
<1> DEFINE k == call.key
           h == keyHashFunc[k]
<1>1. k \in Key /\ h \in Nat
    <2>1. GoodCall(call) /\ call.op \in Seekers \cup Adders
        BY DEF IInv, CallShape
    <2>2. k \in Key
        BY <2>1 DEF GoodCall
    <2> QED BY <2>2, State
<1>2. /\ capacity \in Nat \ {0} /\ index \in 0..(capacity - 1) /\ distance \in 0..capacity
      /\ buckets \in Cells(capacity) /\ Ordered(buckets, capacity)
    BY AtBucket, State
<1>3. buckets[index] # Vacant => distance > Dist(buckets[index], index, capacity)
    BY AtBucket
<1>4. \A j \in 0..(capacity - 1) : buckets[j] # Vacant /\ buckets[j].key = k => buckets[j].hash = h
    <2>1. Held = Occupied
        BY DEF Held
    <2> QED BY <2>1 DEF KeyInv, KeysOnce, Hashed, InTable, Occupied
<1>5. index = Seat(h, distance, capacity) /\ NotIn(buckets, capacity, k, h, distance)
    BY DEF Passed
<1> HIDE DEF h, k
<1>6. \A j \in 0..(capacity - 1) : buckets[j] # Vacant => buckets[j].key # k
    BY <1>1, <1>2, <1>3, <1>4, <1>5, Absent
<1> QED BY <1>6 DEF Lacks, InTable, Held, Occupied, k

\* The key of the bucket is that of the call only if the loop says so.
LEMMA OtherKey ==
    ASSUME IInv, KeyInv, pc \in {"probe", "insert"}, bucket # Vacant, NEW k \in Key,
           ~SameKey(bucket, keyHashFunc[k], k)
    PROVE  bucket.key # k
<1>1. index \in Held /\ bucket = buckets[index]
    BY AtBucket DEF Held, Occupied
<1>2. bucket.hash = keyHashFunc[bucket.key]
    BY <1>1 DEF KeyInv, KeysOnce, Hashed, InTable
<1> QED BY <1>2 DEF SameKey

\* Passed goes on with the loop.
LEMMA PassedOn ==
    ASSUME IInv, KeyInv, pc \in {"probe", "insert"}, Passed, bucket # Vacant,
           bucket.key # call.key, distance \in 0..(capacity - 1),
           UNCHANGED <<table, call>>, index' = After(index, capacity), distance' = distance + 1
    PROVE  Passed'
<1> DEFINE k == call.key
           h == keyHashFunc[k]
<1>1. h \in Nat
    <2>1. GoodCall(call) /\ call.op \in Seekers \cup Adders
        BY DEF IInv, CallShape
    <2>2. k \in Key
        BY <2>1 DEF GoodCall
    <2> QED BY <2>2, State
<1>2. /\ capacity \in Nat \ {0} /\ index \in 0..(capacity - 1) /\ buckets[index].key # k
    BY AtBucket
<1>3. index = Seat(h, distance, capacity) /\ NotIn(buckets, capacity, k, h, distance)
    BY DEF Passed
<1> HIDE DEF k, h
<1>4. /\ NotIn(buckets, capacity, k, h, distance + 1)
      /\ After(index, capacity) = Seat(h, distance + 1, capacity)
    BY <1>1, <1>2, <1>3, NotInNext
<1>5. /\ buckets' = buckets /\ capacity' = capacity /\ keyHashFunc' = keyHashFunc /\ call' = call
    BY DEF table
<1> QED BY <1>4, <1>5 DEF Passed, k, h

LEMMA MissKey ==
    ASSUME IInv, KeyInv, NEW c, Miss(c), pc # "shift", Lacks(InTable, c.key)
    PROVE  KeyInv'
<1>1. CASE c.op = "set" /\ Continue(c, "reserve") /\ DropLocals /\ UNCHANGED table
    <2>1. /\ pc' = "reserve" /\ call' = c /\ last' = NoAnswer /\ iterIndex' = NoIter
          /\ carried' = Vacant /\ oldBuckets' = Cleared(0) /\ oldCapacity' = 0 /\ next' = 0
        BY <1>1 DEF Continue, DropIter, DropLocals, Modifiers
    <2>2. OldLeft' = {} /\ ~Placing'
        BY <2>1 DEF OldLeft, Placing
    <2>3. InTable' = InTable /\ InOld' = {} /\ InTransit' = {} /\ Held' = Occupied'
        BY <1>1, <2>1, <2>2, SamePairs DEF InOld, InTransit
    <2>4. Hashed(InTable', keyHashFunc')
        BY <1>1, <2>3, SamePairs
    <2>5. KeysOnce'
        BY <1>1, <2>2, <2>3, <2>4, SamePairs DEF KeysOnce, DistinctIn, Lacks
    <2>6. Known' /\ Tidy'
        BY <2>1, <2>3 DEF Known, Tidy, Lacks
    <2> QED BY <2>5, <2>6 DEF KeyInv
<1>2. CASE UNCHANGED table /\ Answer(c, None, "FALSE")
    BY <1>2, QuietAnswerKey
<1> QED BY <1>1, <1>2 DEF Miss

LEMMA StartLookupKey ==
    ASSUME IInv, KeyInv, NEW c, StartLookup(c), GoodCall(c), c.op \in Seekers
    PROVE  KeyInv'
<1>1. pc = "idle"
    BY DEF StartLookup
<1>2. CASE count = 0 /\ Miss(c)
    <2>1. \A j \in 0..(capacity - 1) : buckets[j] = Vacant
        BY <1>2, State, TableFacts
    <2>2. Lacks(InTable, c.key)
        BY <2>1 DEF Lacks, InTable, Held, Occupied
    <2> QED BY <1>1, <1>2, <2>2, MissKey
<1>3. CASE /\ count > 0
           /\ Continue(c, "probe")
           /\ StartAt(keyHashFunc[c.key])
           /\ UNCHANGED <<table, carried, oldBuckets, oldCapacity, next>>
    <2>1. pc' = "probe" /\ call' = c /\ last' = NoAnswer /\ UNCHANGED table
          /\ UNCHANGED <<carried, oldBuckets, oldCapacity, next>>
        BY <1>3 DEF Continue
    <2>2. keyHashFunc[c.key] \in Nat /\ capacity \in Nat \ {0}
        BY <1>3, State DEF GoodCall
    <2>3. /\ index' = keyHashFunc[c.key] % capacity /\ distance' = 0
          /\ keyHashFunc' = keyHashFunc /\ buckets' = buckets /\ capacity' = capacity
        BY <1>3 DEF StartAt, IdealIndex, table
    <2>4. /\ NotIn(buckets, capacity, c.key, keyHashFunc[c.key], 0)
          /\ keyHashFunc[c.key] % capacity = Seat(keyHashFunc[c.key], 0, capacity)
        BY <2>2, NotInNone
    <2>5. Passed'
        BY <2>1, <2>3, <2>4 DEF Passed
    <2>6. OldLeft' = OldLeft /\ OldLeft = {} /\ ~Placing /\ ~Placing'
        BY <1>1, <2>1, KeyState DEF OldLeft, Placing
    <2>7. InTable' = InTable /\ InOld' = {} /\ InTransit' = {} /\ Held' = Occupied'
        BY <1>1, <2>1, <2>6, SamePairs DEF InOld, InTransit
    <2>8. Hashed(InTable', keyHashFunc')
        BY <1>1, <2>1, <2>7, SamePairs
    <2>9. KeysOnce'
        BY <1>1, <2>1, <2>6, <2>7, <2>8, SamePairs DEF KeysOnce, DistinctIn, Lacks
    <2>10. iterIndex' = NoIter \/ call'.op \notin Modifiers
        BY <1>3, <2>1 DEF Continue, DropIter
    <2>11. carried = Vacant /\ oldCapacity = 0
        BY <1>1, <2>6 DEF KeyInv, Tidy
    <2>12. Known' /\ Tidy'
        BY <2>1, <2>5, <2>10, <2>11 DEF Known, Tidy
    <2> QED BY <2>9, <2>12 DEF KeyInv
<1> QED BY <1>2, <1>3 DEF StartLookup

LEMMA ProbeMissKey ==
    ASSUME IInv, KeyInv, ProbeMiss
    PROVE  KeyInv' /\ Lacks(InTable, call.key)
<1>1. pc = "probe" /\ Miss(call) /\ Passed /\ (bucket # Vacant => distance > otherDistance)
    BY DEF ProbeMiss, PassedBy, KeyInv, Known
<1>2. Lacks(InTable, call.key)
    BY <1>1, NotThere
<1> QED BY <1>1, <1>2, MissKey

LEMMA ProbeHitKey ==
    ASSUME IInv, KeyInv, ProbeHit
    PROVE  KeyInv'
<1>1. pc = "probe" /\ bucket # Vacant
    BY DEF ProbeHit, PassedBy
<1>2. /\ index \in Occupied /\ Held = Occupied /\ buckets \in Cells(capacity)
      /\ capacity \in Nat /\ index \in 0..(capacity - 1) /\ buckets[index] \in Bucket
    BY <1>1, AtBucket, State, KeyState DEF Occupied
<1>3. CASE UNCHANGED table /\ \E v : Answer(call, v, "TRUE")
    BY <1>1, <1>3, QuietAnswerKey
<1>4. CASE /\ call.op = "set"
           /\ SetTable(capacity, count, [buckets EXCEPT ![index].value = call.value])
           /\ Return(call, "NONE")
    <2>1. /\ capacity' = capacity /\ keyHashFunc' = keyHashFunc
          /\ buckets' = [buckets EXCEPT ![index].value = call.value]
          /\ Answer(call, call.value, "NONE")
        BY <1>4 DEF SetTable, Return
    <2>2. \A j \in 0..(capacity - 1) : j # index => buckets'[j] = buckets[j]
        BY <1>2, <2>1 DEF Cells
    <2>3. buckets'[index] = [hash |-> buckets[index].hash, key |-> buckets[index].key,
                             value |-> call.value]
        <3>1. buckets'[index] = [buckets[index] EXCEPT !.value = call.value]
            BY <1>2, <2>1 DEF Cells
        <3> QED BY <1>2, <3>1 DEF Bucket
    <2>4. call.value \in Value
        BY <1>1, <1>4 DEF IInv, CallShape, GoodCall, Adders
    <2>5. buckets'[index] \in Bucket
        BY <1>2, <2>3, <2>4 DEF Bucket
    <2>6. buckets'[index] # Vacant
        BY <2>5, BucketFields
    <2>7. Occupied' = Occupied
        BY <1>2, <2>1, <2>2, <2>6 DEF Occupied
    <2>8. \A j \in Occupied : buckets'[j].key = buckets[j].key /\ buckets'[j].hash = buckets[j].hash
        BY <2>2, <2>3 DEF Occupied
    <2>9. DistinctIn(buckets', Occupied')
        BY <1>2, <2>7, <2>8 DEF KeyInv, KeysOnce, DistinctIn
    <2>10. Hashed({buckets'[j] : j \in Occupied'}, keyHashFunc')
        <3>1. \A j \in Occupied : buckets[j].hash = keyHashFunc[buckets[j].key]
            BY <1>2 DEF KeyInv, KeysOnce, Hashed, InTable
        <3>2. \A j \in Occupied : buckets'[j].hash = keyHashFunc[buckets'[j].key]
            BY <2>8, <3>1
        <3> QED BY <2>1, <2>7, <3>2 DEF Hashed
    <2> QED BY <2>1, <2>9, <2>10, AnswerKey
<1>5. CASE call.op = "remove" /\ Continue(call, "shift") /\ UNCHANGED <<table, locals>>
    <2>1. /\ pc' = "shift" /\ call' = call /\ last' = NoAnswer /\ iterIndex' = NoIter
          /\ index' = index /\ carried' = carried
          /\ oldBuckets' = oldBuckets /\ oldCapacity' = oldCapacity /\ next' = next
        BY <1>5 DEF Continue, DropIter, Modifiers, locals
    <2>2. buckets' = buckets /\ Occupied' = Occupied /\ keyHashFunc' = keyHashFunc
        BY <1>5 DEF table, Occupied
    <2>3. Held' = Held \ {index} /\ OldLeft' = {} /\ OldLeft = {} /\ ~Placing /\ ~Placing'
        BY <1>1, <1>2, <2>1, <2>2, KeyState DEF Held, OldLeft, Placing
    <2>4. InTable' \subseteq InTable /\ InOld' = {} /\ InTransit' = {}
        BY <2>2, <2>3 DEF InTable, InOld, InTransit
    <2>5. KeysOnce'
        BY <2>1, <2>2, <2>3, <2>4 DEF KeyInv, KeysOnce, DistinctIn, Lacks, Hashed
    <2>6. carried = Vacant /\ oldCapacity = 0
        BY <1>1, <2>3 DEF KeyInv, Tidy
    <2>7. Known' /\ Tidy'
        BY <2>1, <2>6 DEF Known, Tidy
    <2> QED BY <2>5, <2>7 DEF KeyInv
<1> QED BY <1>3, <1>4, <1>5 DEF ProbeHit

LEMMA ProbeOnKey ==
    ASSUME IInv, KeyInv, ProbeOn
    PROVE  KeyInv'
<1>1. /\ pc = "probe" /\ bucket # Vacant /\ Continue(call, "probe")
      /\ ~SameKey(bucket, keyHashFunc[call.key], call.key)
      /\ pc' = "probe" /\ call' = call /\ last' = NoAnswer
      /\ UNCHANGED table /\ UNCHANGED <<carried, oldBuckets, oldCapacity, next>>
      /\ index' = WrapIndex(index + 1) /\ distance' = distance + 1
      /\ ~(distance > otherDistance)
    BY DEF ProbeOn, PassedBy, Continue, Advance
<1>2. index' = After(index, capacity) /\ distance \in 0..(capacity - 1)
    BY <1>1, AtBucket
<1>3. call.key \in Key
    BY <1>1 DEF IInv, CallShape, GoodCall
<1>4. bucket.key # call.key
    BY <1>1, <1>3, OtherKey
<1>5. Passed'
    <2>1. Passed
        BY <1>1 DEF KeyInv, Known
    <2> QED BY <1>1, <1>2, <1>4, <2>1, PassedOn
<1>6. OldLeft' = OldLeft /\ OldLeft = {} /\ ~Placing /\ ~Placing'
    BY <1>1, KeyState DEF OldLeft, Placing
<1>7. InTable' = InTable /\ InOld' = {} /\ InTransit' = {} /\ Held' = Occupied'
    BY <1>1, <1>6, SamePairs DEF InOld, InTransit
<1>8. Hashed(InTable', keyHashFunc')
    BY <1>1, <1>7, SamePairs
<1>9. KeysOnce'
    BY <1>1, <1>6, <1>7, <1>8, SamePairs DEF KeysOnce, DistinctIn, Lacks
<1>10. iterIndex' = NoIter \/ call'.op \notin Modifiers
    BY <1>1 DEF Continue, DropIter
<1>11. carried = Vacant /\ oldCapacity = 0
    BY <1>1, <1>6 DEF KeyInv, Tidy
<1>12. Known' /\ Tidy'
    BY <1>1, <1>5, <1>10, <1>11 DEF Known, Tidy
<1> QED BY <1>9, <1>12 DEF KeyInv

\* The pair that moves back is in one bucket only: the one it leaves is overwritten next.
LEMMA ShiftBackMoves ==
    ASSUME IInv, KeyInv, ShiftBack
    PROVE  /\ pc = "shift" /\ pc' = "shift" /\ call' = call /\ last' = NoAnswer
           /\ keyHashFunc' = keyHashFunc /\ UNCHANGED <<carried, oldBuckets, oldCapacity, next>>
           /\ iterIndex' = NoIter
           /\ DistinctIn(buckets', Held')
           /\ InTable' = InTable
<1> DEFINE n == capacity
           j == After(index, n)
<1>1. /\ pc = "shift" /\ bucket # Vacant /\ call.op = "remove" /\ call.op \in Modifiers
      /\ Continue(call, "shift") /\ pc' = "shift" /\ call' = call /\ last' = NoAnswer
    BY DEF ShiftBack, IInv, HandFull, CallShape, Continue, Modifiers
<1>2. /\ n \in Nat \ {0} /\ index \in 0..(n - 1) /\ j \in 0..(n - 1)
      /\ bucket = buckets[index] /\ nextIndex = j /\ WrapIndex(index + 1) = j
      /\ buckets \in Cells(n)
    BY <1>1, AtBucket, DistOfProbe, State
<1>3. buckets[j] # Vacant /\ Dist(buckets[j], j, n) # 0
    BY <1>2, DistOfProbe DEF ShiftBack, MovesBack
<1>4. Dist(buckets[j], j, n) \in 0..(n - 1)
    BY <1>2, <1>3, DistType
<1>5. n > 1
    BY <1>2, <1>3, <1>4
<1>6. j # index
    BY <1>2, <1>5, AfterBefore
<1>7. /\ capacity' = n /\ buckets' = [buckets EXCEPT ![index] = buckets[j]]
      /\ keyHashFunc' = keyHashFunc
      /\ index' = j /\ UNCHANGED <<carried, oldBuckets, oldCapacity, next>>
    BY <1>2 DEF ShiftBack, SetTable, Advance
<1>8. buckets'[index] = buckets[j] /\ \A i \in 0..(n - 1) : i # index => buckets'[i] = buckets[i]
    BY <1>2, <1>7 DEF Cells
<1> HIDE DEF j
<1>9. Occupied' = Occupied /\ index \in Occupied /\ j \in Occupied
    BY <1>1, <1>2, <1>3, <1>7, <1>8 DEF Occupied
<1>10. Held = Occupied \ {index} /\ Held' = Occupied \ {j}
    BY <1>1, <1>7, <1>9 DEF Held
<1>11. DistinctIn(buckets, Held)
    BY DEF KeyInv, KeysOnce
<1>12. ASSUME NEW a \in Held', NEW b \in Held', buckets'[a].key = buckets'[b].key
       PROVE  a = b
    <2>1. \A i \in Held' : i \in 0..(n - 1) /\ (i # index => i \in Held) /\ i # j
        BY <1>10 DEF Occupied
    <2>2. j \in Held
        BY <1>6, <1>9, <1>10
    <2> QED BY <1>8, <1>11, <1>12, <2>1, <2>2 DEF DistinctIn
<1>13. InTable' \subseteq InTable
    <2>1. \A i \in Held' : i \in 0..(n - 1) /\ (i # index => i \in Held)
        BY <1>10 DEF Occupied
    <2>2. j \in Held
        BY <1>6, <1>9, <1>10
    <2> QED BY <1>8, <2>1, <2>2 DEF InTable
<1>14. InTable \subseteq InTable'
    <2>1. \A i \in Held : i \in 0..(n - 1) /\ i # index /\ (i # j => i \in Held')
        BY <1>10 DEF Occupied
    <2>2. index \in Held'
        BY <1>6, <1>9, <1>10
    <2> QED BY <1>8, <2>1, <2>2 DEF InTable
<1>15. iterIndex' = NoIter
    BY <1>1 DEF Continue, DropIter
<1> QED BY <1>1, <1>7, <1>12, <1>13, <1>14, <1>15 DEF DistinctIn

LEMMA ShiftBackKey ==
    ASSUME IInv, KeyInv, ShiftBack
    PROVE  KeyInv'
<1>1. OldLeft' = {} /\ OldLeft = {} /\ ~Placing /\ ~Placing'
    BY ShiftBackMoves, KeyState DEF OldLeft, Placing
<1>2. InOld' = {} /\ InTransit' = {}
    BY <1>1 DEF InOld, InTransit
<1>3. Hashed(InTable, keyHashFunc)
    BY DEF KeyInv, KeysOnce, Hashed
<1>4. KeysOnce'
    BY <1>1, <1>2, <1>3, ShiftBackMoves DEF KeysOnce, DistinctIn, Lacks
<1>5. carried = Vacant /\ oldCapacity = 0
    BY <1>1, ShiftBackMoves DEF KeyInv, Tidy
<1>6. Known' /\ Tidy'
    BY <1>5, ShiftBackMoves DEF Known, Tidy
<1> QED BY <1>4, <1>6 DEF KeyInv

\* The pairs that stay are those that were there without the removed one.
LEMMA ShiftEndLeaves ==
    ASSUME IInv, KeyInv, ShiftEnd
    PROVE  /\ pc = "shift" /\ Answer(call, None, "TRUE") /\ keyHashFunc' = keyHashFunc
           /\ call.op = "remove" /\ call.key \in Key
           /\ Occupied' = Held /\ {buckets'[j] : j \in Occupied'} = InTable
           /\ \A j \in Held : buckets'[j] = buckets[j]
<1>1. /\ pc = "shift" /\ capacity' = capacity /\ keyHashFunc' = keyHashFunc
      /\ buckets' = [buckets EXCEPT ![index] = Vacant] /\ Answer(call, None, "TRUE")
      /\ call.op = "remove" /\ call.key \in Key
    BY DEF ShiftEnd, SetTable, IInv, CallShape, GoodCall, Seekers
<1>2. index \in 0..(capacity - 1) /\ buckets \in Cells(capacity) /\ capacity \in Nat
    BY <1>1, AtBucket, State
<1>3. buckets'[index] = Vacant /\ \A i \in 0..(capacity - 1) : i # index => buckets'[i] = buckets[i]
    BY <1>1, <1>2 DEF Cells
<1>4. Occupied' = Held
    BY <1>1, <1>2, <1>3 DEF Occupied, Held
<1>5. \A j \in Held : buckets'[j] = buckets[j]
    BY <1>1, <1>3 DEF Occupied, Held
<1> QED BY <1>1, <1>4, <1>5 DEF InTable

LEMMA ShiftEndKey ==
    ASSUME IInv, KeyInv, ShiftEnd
    PROVE  KeyInv'
<1>1. DistinctIn(buckets', Occupied')
    BY ShiftEndLeaves DEF KeyInv, KeysOnce, DistinctIn
<1>2. Hashed({buckets'[j] : j \in Occupied'}, keyHashFunc')
    BY ShiftEndLeaves DEF KeyInv, KeysOnce, Hashed
<1> QED BY <1>1, <1>2, ShiftEndLeaves, AnswerKey

LEMMA AfterResizeKey ==
    ASSUME IInv, KeyInv, NEW c, AfterResize(c),
           DistinctIn(buckets', Occupied'), Hashed({buckets'[j] : j \in Occupied'}, keyHashFunc'),
           c.op = "set" => Lacks({buckets'[j] : j \in Occupied'}, c.key)
    PROVE  KeyInv'
<1>1. CASE c.op \in {"try_add", "set"} /\ Continue(c, "allocate") /\ DropLocals
    <2>1. /\ pc' = "allocate" /\ call' = c /\ last' = NoAnswer /\ iterIndex' = NoIter
          /\ carried' = Vacant /\ oldBuckets' = Cleared(0) /\ oldCapacity' = 0 /\ next' = 0
        BY <1>1 DEF Continue, DropIter, DropLocals, Modifiers
    <2>2. OldLeft' = {} /\ ~Placing' /\ Held' = Occupied'
        BY <2>1 DEF OldLeft, Placing, Held
    <2>3. InTable' = {buckets'[j] : j \in Occupied'} /\ InOld' = {} /\ InTransit' = {}
        BY <2>2 DEF InTable, InOld, InTransit
    <2>4. KeysOnce'
        BY <2>2, <2>3 DEF KeysOnce, DistinctIn, Lacks, Hashed
    <2>5. Known' /\ Tidy'
        BY <2>1, <2>3 DEF Known, Tidy, Lacks
    <2> QED BY <2>4, <2>5 DEF KeyInv
<1>2. CASE Return(c, "NONE")
    BY <1>2, AnswerKey DEF Return
<1> QED BY <1>1, <1>2 DEF AfterResize

\* All pairs of the table are left to the rehash, none is in the new table yet.
LEMMA ReallocateMoves ==
    ASSUME IInv, KeyInv, NEW c, NEW n, Reallocate(c, n), pc \in {"idle", "reserve"}, count > 0
    PROVE  /\ pc' = "next_old" /\ call' = c /\ last' = NoAnswer /\ DropIter(c)
           /\ keyHashFunc' = keyHashFunc /\ carried' = Vacant
           /\ Held' = {} /\ InTable' = {} /\ InTransit' = {}
           /\ OldLeft' = Held /\ InOld' = InTable /\ oldBuckets' = buckets
<1>1. /\ pc' = "next_old" /\ call' = c /\ last' = NoAnswer /\ DropIter(c)
      /\ buckets' = Cleared(n) /\ capacity' = n /\ keyHashFunc' = keyHashFunc
      /\ carried' = carried /\ oldBuckets' = buckets /\ oldCapacity' = capacity /\ next' = 0
    BY State DEF Reallocate, Continue, SetTable
<1>2. Held' = {} /\ ~Placing'
    BY <1>1, NoPairs DEF Held, Placing
<1>3. carried = Vacant
    BY DEF KeyInv, Tidy, Placing
<1>4. InTable' = {} /\ InTransit' = {}
    BY <1>2 DEF InTable, InTransit
<1>5. OldLeft' = Held
    BY <1>1 DEF OldLeft, Held, Occupied
<1>6. InOld' = InTable
    BY <1>1, <1>5 DEF InOld, InTable
<1> QED BY <1>1, <1>2, <1>3, <1>4, <1>5, <1>6

LEMMA ReallocateKey ==
    ASSUME IInv, KeyInv, NEW c, NEW n, Reallocate(c, n), pc \in {"idle", "reserve"},
           c.op = "set" => Lacks(InTable, c.key)
    PROVE  KeyInv'
<1>1. CASE count > 0
    <2>1. KeysOnce'
        BY <1>1, ReallocateMoves DEF KeyInv, KeysOnce, DistinctIn, Lacks, Hashed
    <2>2. iterIndex' = NoIter \/ call'.op \notin Modifiers
        BY <1>1, ReallocateMoves DEF DropIter
    <2>3. Known' /\ Tidy'
        BY <1>1, <2>2, ReallocateMoves DEF Known, Tidy, Lacks
    <2> QED BY <2>1, <2>3 DEF KeyInv
<1>2. CASE count = 0 /\ AfterResize(c)
    <2>1. buckets' = Cleared(capacity')
        BY DEF Reallocate, SetTable
    <2>2. Occupied' = {}
        BY <2>1, NoPairs
    <2>3. /\ DistinctIn(buckets', Occupied') /\ Hashed({buckets'[j] : j \in Occupied'}, keyHashFunc')
          /\ Lacks({buckets'[j] : j \in Occupied'}, c.key)
        BY <2>2 DEF DistinctIn, Hashed, Lacks
    <2> QED BY <1>2, <2>3, AfterResizeKey
<1> QED BY <1>1, <1>2 DEF Reallocate

LEMMA ResizeKey ==
    ASSUME IInv, KeyInv, NEW c, NEW wanted, Resize(c, wanted), pc \in {"idle", "reserve"},
           c.op = "set" => Lacks(InTable, c.key)
    PROVE  KeyInv'
<1>1. CASE UNCHANGED table /\ AfterResize(c)
    <2>1. /\ {buckets'[j] : j \in Occupied'} = InTable /\ DistinctIn(buckets', Occupied')
          /\ Hashed({buckets'[j] : j \in Occupied'}, keyHashFunc')
        BY <1>1, SamePairs
    <2> QED BY <1>1, <2>1, AfterResizeKey
<1>2. CASE \E n \in NextPowersOfTwo(MinCapacity(wanted)) : Reallocate(c, n)
    BY <1>2, ReallocateKey
<1>3. CASE OutOfMemory(c)
    BY <1>3, QuietAnswerKey DEF OutOfMemory, Return
<1> QED BY <1>1, <1>2, <1>3 DEF Resize

LEMMA ReserveKey ==
    ASSUME IInv, KeyInv, Reserve
    PROVE  KeyInv'
<1>1. pc = "reserve" /\ (call.op = "set" => Lacks(InTable, call.key))
    BY DEF Reserve, KeyInv, Known, Lacks
<1>2. CASE Continue(call, "allocate") /\ UNCHANGED <<table, locals>>
    <2>1. /\ pc' = "allocate" /\ call' = call /\ last' = NoAnswer /\ UNCHANGED table
          /\ carried' = carried
          /\ oldBuckets' = oldBuckets /\ oldCapacity' = oldCapacity /\ next' = next
        BY <1>2 DEF Continue, locals
    <2>2. OldLeft' = OldLeft /\ OldLeft = {} /\ ~Placing /\ ~Placing'
        BY <1>1, <2>1, KeyState DEF OldLeft, Placing
    <2>3. InTable' = InTable /\ InOld' = {} /\ InTransit' = {} /\ Held' = Occupied'
        BY <1>1, <2>1, <2>2, SamePairs DEF InOld, InTransit
    <2>4. Hashed(InTable', keyHashFunc')
        BY <1>1, <2>1, <2>3, SamePairs
    <2>5. KeysOnce'
        BY <1>1, <2>1, <2>2, <2>3, <2>4, SamePairs DEF KeysOnce, DistinctIn, Lacks
    <2>6. iterIndex' = NoIter \/ call'.op \notin Modifiers
        BY <1>2, <2>1 DEF Continue, DropIter
    <2>7. carried = Vacant /\ oldCapacity = 0
        BY <1>1, <2>2 DEF KeyInv, Tidy
    <2>8. Known' /\ Tidy'
        BY <1>1, <2>1, <2>3, <2>6, <2>7 DEF Known, Tidy, Lacks
    <2> QED BY <2>5, <2>8 DEF KeyInv
<1>3. CASE Resize(call, GrownCapacity)
    BY <1>1, <1>3, ResizeKey
<1> QED BY <1>2, <1>3 DEF Reserve

LEMMA TrimExcessKey ==
    ASSUME IInv, KeyInv, TrimExcess
    PROVE  KeyInv'
<1> DEFINE c == Call("trim_excess", None, None)
<1>1. pc = "idle" /\ c.op # "set"
    BY DEF TrimExcess, Call
<1> HIDE DEF c
<1>2. CASE SetTable(0, 0, Cleared(0)) /\ Return(c, "NONE")
    BY <1>2, EmptyAnswerKey DEF SetTable, Return
<1>3. CASE (UNCHANGED table /\ Return(c, "NONE")) \/ OutOfMemory(c)
    BY <1>1, <1>3, QuietAnswerKey DEF Return, OutOfMemory
<1>4. CASE \E n : Reallocate(c, n)
    BY <1>1, <1>4, ReallocateKey
<1>5. \/ SetTable(0, 0, Cleared(0)) /\ Return(c, "NONE")
      \/ (UNCHANGED table /\ Return(c, "NONE")) \/ OutOfMemory(c)
      \/ \E n : Reallocate(c, n)
    BY DEF TrimExcess, c
<1> QED BY <1>2, <1>3, <1>4, <1>5

\* The next old pair is taken from the old buckets, or none is left.
LEMMA NextOldMoves ==
    ASSUME IInv, KeyInv, NextOld
    PROVE  /\ pc = "next_old" /\ UNCHANGED table
           /\ \/ \E j \in OldLeft :
                     /\ pc' = "rehash" /\ call' = call /\ last' = NoAnswer /\ DropIter(call)
                     /\ carried' = oldBuckets[j] /\ oldBuckets' = oldBuckets
                     /\ OldLeft' = OldLeft \ {j}
              \/ OldLeft = {} /\ AfterResize(call)
<1>1. pc = "next_old" /\ UNCHANGED table
    BY DEF NextOld
<1>2. /\ oldCapacity \in Nat /\ next \in 0..oldCapacity
    BY State DEF LocalsOK
<1>3. PICK j \in NextOccupied(oldBuckets, oldCapacity, next) :
          \/ /\ j < oldCapacity
             /\ carried' = oldBuckets[j]
             /\ StartAt(oldBuckets[j].hash)
             /\ next' = j + 1
             /\ Continue(call, "rehash")
             /\ UNCHANGED <<oldBuckets, oldCapacity>>
          \/ /\ j = oldCapacity
             /\ AfterResize(call)
    BY DEF NextOld
<1>4. /\ j \in next..oldCapacity
      /\ j < oldCapacity => oldBuckets[j] # Vacant
      /\ \A i \in next..(j - 1) : oldBuckets[i] = Vacant
    BY <1>3 DEF NextOccupied
<1>5. CASE /\ j < oldCapacity
           /\ carried' = oldBuckets[j]
           /\ next' = j + 1
           /\ Continue(call, "rehash")
           /\ UNCHANGED <<oldBuckets, oldCapacity>>
    <2>1. j \in OldLeft
        BY <1>2, <1>4, <1>5 DEF OldLeft
    <2>2. OldLeft' = OldLeft \ {j}
        BY <1>2, <1>4, <1>5 DEF OldLeft
    <2> QED BY <1>1, <1>5, <2>1, <2>2 DEF Continue
<1>6. CASE j = oldCapacity /\ AfterResize(call)
    BY <1>1, <1>2, <1>4, <1>6 DEF OldLeft
<1> QED BY <1>3, <1>5, <1>6

LEMMA NextOldKey ==
    ASSUME IInv, KeyInv, NextOld
    PROVE  KeyInv'
<1>1. CASE OldLeft = {} /\ AfterResize(call)
    <2>1. /\ {buckets'[j] : j \in Occupied'} = InTable /\ DistinctIn(buckets', Occupied')
          /\ Hashed({buckets'[j] : j \in Occupied'}, keyHashFunc')
        BY NextOldMoves, SamePairs
    <2>2. call.op = "set" => Lacks(InTable, call.key)
        BY NextOldMoves DEF KeyInv, Known, Lacks
    <2> QED BY <1>1, <2>1, <2>2, AfterResizeKey
<1>2. ASSUME NEW j \in OldLeft,
             pc' = "rehash", call' = call, last' = NoAnswer, DropIter(call),
             carried' = oldBuckets[j], oldBuckets' = oldBuckets, OldLeft' = OldLeft \ {j}
      PROVE  KeyInv'
    <2>1. pc = "next_old" /\ UNCHANGED table
        BY NextOldMoves
    <2>2. /\ InTable' = InTable /\ Held' = Held /\ Placing' /\ ~Placing
          /\ buckets' = buckets /\ keyHashFunc' = keyHashFunc
        BY <1>2, <2>1, SamePairs DEF Placing, table
    <2>3. InOld' \subseteq InOld /\ InTransit' = {carried'} /\ carried' \in InOld /\ InTransit = {}
        BY <1>2, <2>2 DEF InOld, InTransit
    <2>4. Lacks(InOld', carried'.key)
        BY <1>2 DEF InOld, Lacks, KeyInv, KeysOnce, DistinctIn
    <2>5. Lacks(InTable', carried'.key)
        BY <2>2, <2>3 DEF KeyInv, KeysOnce, Lacks
    <2>6. KeysOnce'
        <3>1. DistinctIn(buckets', Held') /\ DistinctIn(oldBuckets', OldLeft')
            BY <1>2, <2>2 DEF KeyInv, KeysOnce, DistinctIn
        <3>2. \A b \in InTable' : Lacks(InOld', b.key)
            BY <2>2, <2>3 DEF KeyInv, KeysOnce, Lacks
        <3>3. Hashed(InTable' \cup InOld' \cup InTransit', keyHashFunc')
            BY <2>2, <2>3 DEF KeyInv, KeysOnce, Hashed
        <3> QED BY <3>1, <3>2, <3>3 DEF KeysOnce
    <2>7. call.op = "set" => Lacks(InTable \cup InOld, call.key)
        BY <2>1 DEF KeyInv, Known, Lacks
    <2>8. Known'
        BY <1>2, <2>2, <2>3, <2>4, <2>5, <2>7 DEF Known, Lacks
    <2>9. Tidy'
        BY <1>2, <2>2 DEF Tidy, DropIter
    <2> QED BY <2>6, <2>8, <2>9 DEF KeyInv
<1> QED BY <1>1, <1>2, NextOldMoves

LEMMA AllocateKey ==
    ASSUME IInv, KeyInv, Allocate
    PROVE  KeyInv'
<1>1. /\ pc = "allocate" /\ GoodCall(call) /\ call.op \in Adders
    BY DEF Allocate, IInv, CallShape
<1>2. CASE /\ carried' = NewPair
           /\ StartAt(keyHashFunc[call.key])
           /\ Continue(call, "insert")
           /\ UNCHANGED <<table, oldBuckets, oldCapacity, next>>
    <2>1. /\ pc' = "insert" /\ call' = call /\ last' = NoAnswer /\ UNCHANGED table
          /\ UNCHANGED <<oldBuckets, oldCapacity, next>>
        BY <1>2 DEF Continue
    <2>2. keyHashFunc[call.key] \in Nat /\ capacity \in Nat \ {0}
        <3>1. count < capacity
            BY <1>1 DEF IInv, Room
        <3> QED BY <1>1, <3>1, State DEF GoodCall
    <2>3. /\ index' = keyHashFunc[call.key] % capacity /\ distance' = 0
          /\ keyHashFunc' = keyHashFunc /\ buckets' = buckets /\ capacity' = capacity
        BY <1>2 DEF StartAt, IdealIndex, table
    <2>4. /\ NotIn(buckets, capacity, call.key, keyHashFunc[call.key], 0)
          /\ keyHashFunc[call.key] % capacity = Seat(keyHashFunc[call.key], 0, capacity)
        BY <2>2, NotInNone
    <2>5. Passed'
        BY <2>1, <2>3, <2>4 DEF Passed
    <2>6. OldLeft' = OldLeft /\ OldLeft = {} /\ ~Placing /\ Placing'
        BY <1>1, <2>1, KeyState DEF OldLeft, Placing
    <2>7. InTable' = InTable /\ InOld' = {} /\ InTransit' = {NewPair} /\ Held' = Held
        BY <1>1, <1>2, <2>1, <2>6, SamePairs DEF InOld, InTransit
    <2>8. NewPair' = NewPair /\ NewPair.key = call.key /\ NewPair.hash = keyHashFunc[call.key]
        BY <2>1, <2>3 DEF NewPair
    <2>9. Hashed(InTable' \cup InOld' \cup InTransit', keyHashFunc')
        BY <2>3, <2>7, <2>8 DEF KeyInv, KeysOnce, Hashed
    <2>10. KeysOnce'
        BY <2>3, <2>6, <2>7, <2>9 DEF KeyInv, KeysOnce, DistinctIn, Lacks
    <2>11. call.op = "set" => Lacks(InTable, call.key)
        BY <1>1 DEF KeyInv, Known, Lacks
    <2>12. Known'
        <3>1. NewPair' \in InTable' \cup {carried'}
            BY <1>2, <2>8
        <3>2. call.op = "set" => Lacks(InTable', carried'.key)
            BY <1>2, <2>7, <2>8, <2>11
        <3>3. call.op = "try_add" => carried' = NewPair' /\ Passed'
            BY <1>2, <2>5, <2>8
        <3> QED BY <1>1, <2>1, <3>1, <3>2, <3>3 DEF Known, Adders
    <2>13. oldCapacity = 0
        BY <1>1 DEF KeyInv, Tidy
    <2>14. iterIndex' = NoIter
        BY <1>1, <1>2 DEF Continue, DropIter, Adders, Modifiers
    <2>15. Tidy'
        BY <2>1, <2>6, <2>13, <2>14 DEF Tidy
    <2> QED BY <2>10, <2>12, <2>15 DEF KeyInv
<1>3. CASE OutOfMemory(call)
    BY <1>1, <1>3, QuietAnswerKey DEF OutOfMemory, Return
<1> QED BY <1>2, <1>3 DEF Allocate, NewPair

\* Where a pair is put no other one has its key.
LEMMA PutLacks ==
    ASSUME IInv, KeyInv, Placing, bucket # Vacant => distance > otherDistance
    PROVE  Lacks(InTable, carried.key) /\ (pc = "rehash" => Lacks(InOld, carried.key))
<1>1. CASE pc = "rehash"
    BY <1>1 DEF KeyInv, Known, Lacks
<1>2. CASE pc = "insert"
    <2>1. CASE Lacks(InTable, carried.key)
        BY <1>2, <2>1
    <2>2. CASE carried = NewPair /\ Passed
        <3>1. Lacks(InTable, call.key)
            BY <1>2, <2>2, NotThere
        <3> QED BY <1>2, <2>2, <3>1 DEF NewPair
    <2> QED BY <1>2, <2>1, <2>2 DEF KeyInv, Known
<1> QED BY <1>1, <1>2 DEF Placing

LEMMA PlaceVacantMoves ==
    ASSUME IInv, KeyInv, PlaceVacant
    PROVE  /\ pc \in {"insert", "rehash"} /\ carried \in Bucket
           /\ Lacks(InTable, carried.key) /\ (pc = "rehash" => Lacks(InOld, carried.key))
           /\ keyHashFunc' = keyHashFunc
           /\ {buckets'[j] : j \in Occupied'} = InTable \cup {carried}
           /\ DistinctIn(buckets', Occupied')
           /\ Hashed({buckets'[j] : j \in Occupied'}, keyHashFunc')
<1>1. Placing /\ bucket = Vacant /\ pc \in {"insert", "rehash"} /\ carried \in Bucket
    BY InHand DEF PlaceVacant
<1>2. /\ capacity' = capacity /\ buckets' = [buckets EXCEPT ![index] = carried]
      /\ keyHashFunc' = keyHashFunc
    BY DEF PlaceVacant, SetTable
<1>3. /\ index \in 0..(capacity - 1) /\ buckets \in Cells(capacity) /\ capacity \in Nat
      /\ buckets[index] = Vacant /\ carried # Vacant
    BY <1>1, AtBucket, State, BucketFields
<1>4. buckets'[index] = carried /\ \A i \in 0..(capacity - 1) : i # index => buckets'[i] = buckets[i]
    BY <1>2, <1>3 DEF Cells
<1>5. Occupied' = Occupied \cup {index} /\ index \notin Occupied
    BY <1>2, <1>3, <1>4 DEF Occupied
<1>6. Held = Occupied
    BY <1>1 DEF Held
<1>7. \A j \in Held : buckets'[j] = buckets[j]
    BY <1>4, <1>5, <1>6 DEF Occupied
<1>8. {buckets'[j] : j \in Occupied'} = InTable \cup {carried}
    BY <1>4, <1>5, <1>6, <1>7 DEF InTable
<1>9. Lacks(InTable, carried.key) /\ (pc = "rehash" => Lacks(InOld, carried.key))
    BY <1>1, PutLacks
<1>10. \A j \in Held : buckets[j].key # carried.key
    BY <1>9 DEF Lacks, InTable
<1>11. DistinctIn(buckets', Occupied')
    BY <1>4, <1>5, <1>6, <1>7, <1>10 DEF KeyInv, KeysOnce, DistinctIn
<1>12. Hashed({buckets'[j] : j \in Occupied'}, keyHashFunc')
    <2>1. carried \in InTransit
        BY <1>1 DEF InTransit
    <2> QED BY <1>2, <1>8, <2>1 DEF KeyInv, KeysOnce, Hashed
<1> QED BY <1>1, <1>2, <1>8, <1>9, <1>11, <1>12

LEMMA PlaceVacantKey ==
    ASSUME IInv, KeyInv, PlaceVacant
    PROVE  KeyInv'
<1>1. CASE Return(call, "NONE")
    BY <1>1, PlaceVacantMoves, AnswerKey DEF Return
<1>2. CASE /\ pc = "rehash"
           /\ Continue(call, "next_old")
           /\ carried' = Vacant
           /\ UNCHANGED <<oldBuckets, oldCapacity, next>>
    <2>1. pc' = "next_old" /\ call' = call /\ last' = NoAnswer
        BY <1>2 DEF Continue
    <2>2. OldLeft' = OldLeft /\ InOld' = InOld /\ ~Placing' /\ Placing
        BY <1>2, <2>1 DEF OldLeft, InOld, Placing
    <2>3. Held' = Occupied' /\ InTransit' = {} /\ InTransit = {carried}
        BY <2>1, <2>2 DEF Held, InTransit
    <2>4. InTable' = InTable \cup {carried}
        BY <2>3, PlaceVacantMoves DEF InTable
    <2>5. \A b \in InTable' : Lacks(InOld', b.key)
        BY <1>2, <2>2, <2>4, PlaceVacantMoves DEF KeyInv, KeysOnce
    <2>6. DistinctIn(oldBuckets', OldLeft')
        BY <1>2, <2>2 DEF KeyInv, KeysOnce
    <2>7. Hashed(InTable' \cup InOld' \cup InTransit', keyHashFunc')
        BY <2>2, <2>3, <2>4, PlaceVacantMoves DEF KeyInv, KeysOnce, Hashed
    <2>8. KeysOnce'
        BY <2>3, <2>5, <2>6, <2>7, PlaceVacantMoves DEF KeysOnce
    <2>9. call.op = "set" => Lacks(InTable \cup InOld \cup InTransit, call.key)
        BY <1>2 DEF KeyInv, Known
    <2>10. Known'
        BY <2>1, <2>2, <2>3, <2>4, <2>9 DEF Known, Lacks
    <2>11. Tidy'
        BY <1>2, <2>1 DEF Tidy, Continue, DropIter
    <2> QED BY <2>8, <2>10, <2>11 DEF KeyInv
<1> QED BY <1>1, <1>2 DEF PlaceVacant

LEMMA PlacePresentKey ==
    ASSUME IInv, KeyInv, PlacePresent
    PROVE  KeyInv'
<1>1. pc # "shift" /\ UNCHANGED table /\ Answer(call, call.value, "ALREADY_PRESENT")
    BY DEF PlacePresent, AlreadyPresent, Return
<1> QED BY <1>1, QuietAnswerKey

\* What PlaceOn leaves alone.
LEMMA PlaceOnKeeps ==
    ASSUME IInv, KeyInv, PlaceOn
    PROVE  /\ pc \in {"insert", "rehash"} /\ pc' = pc /\ call' = call /\ last' = NoAnswer
           /\ DropIter(call) /\ call.op \in Modifiers
           /\ bucket # Vacant /\ bucket \in Bucket /\ carried \in Bucket
           /\ keyHashFunc' = keyHashFunc /\ capacity' = capacity /\ NewPair' = NewPair
           /\ index' = After(index, capacity) /\ index \in Held /\ bucket = buckets[index]
           /\ distance \in 0..(capacity - 1)
           /\ OldLeft' = OldLeft /\ InOld' = InOld /\ oldBuckets' = oldBuckets
           /\ Placing /\ Placing' /\ InTransit = {carried} /\ InTransit' = {carried'}
           /\ Held = Occupied /\ Held' = Occupied'
<1>1. /\ Placing /\ bucket # Vacant /\ pc \in {"insert", "rehash"}
      /\ Continue(call, pc) /\ pc' = pc /\ call' = call /\ last' = NoAnswer /\ DropIter(call)
      /\ UNCHANGED <<oldBuckets, oldCapacity, next>>
    BY InHand DEF PlaceOn, Advance, Continue
<1>2. index' = After(index, capacity) /\ bucket = buckets[index] /\ index \in Occupied
    BY <1>1, AtBucket DEF PlaceOn, Advance, Occupied
<1>3. carried \in Bucket /\ distance \in 0..(capacity - 1) /\ bucket \in Bucket
      /\ call.op \in Modifiers
    <2>1. /\ distance = Dist(carried, index, capacity) /\ capacity \in Nat \ {0}
          /\ carried \in Bucket /\ index \in 0..(capacity - 1)
        BY <1>1, InHand, AtBucket
    <2> QED BY <1>1, <2>1, DistIs, AtBucket, InHand
<1>4. keyHashFunc' = keyHashFunc /\ capacity' = capacity
    BY DEF PlaceOn, SetTable, table
<1>5. NewPair' = NewPair
    BY <1>1, <1>4 DEF NewPair
<1>6. OldLeft' = OldLeft /\ InOld' = InOld
    BY <1>1 DEF OldLeft, InOld
<1>7. Placing' /\ InTransit = {carried} /\ InTransit' = {carried'}
    BY <1>1 DEF Placing, InTransit
<1>8. Held = Occupied /\ Held' = Occupied'
    BY <1>1 DEF Held
<1> QED BY <1>1, <1>2, <1>3, <1>4, <1>5, <1>6, <1>7, <1>8

\* Two pairs change places: none is lost, none is twice in the table.
LEMMA SwapMoves ==
    ASSUME IInv, KeyInv, PlaceOn, distance > otherDistance,
           buckets' = [buckets EXCEPT ![index] = carried], carried' = bucket
    PROVE  /\ Lacks(InTable, carried.key) /\ (pc = "rehash" => Lacks(InOld, carried.key))
           /\ InTable' = (InTable \ {bucket}) \cup {carried} /\ bucket \in InTable
           /\ DistinctIn(buckets', Held')
           /\ Lacks(InTable', carried'.key)
<1>1. Lacks(InTable, carried.key) /\ (pc = "rehash" => Lacks(InOld, carried.key))
    BY PlaceOnKeeps, PutLacks
<1>2. /\ buckets \in Cells(capacity) /\ capacity \in Nat /\ index \in 0..(capacity - 1)
      /\ carried # Vacant
    BY State, PlaceOnKeeps, BucketFields, AtBucket
<1>3. buckets'[index] = carried /\ \A i \in 0..(capacity - 1) : i # index => buckets'[i] = buckets[i]
    BY <1>2 DEF Cells
<1>4. Occupied' = Occupied
    BY <1>2, <1>3, PlaceOnKeeps DEF Occupied
<1>5. Held' = Held /\ index \in Held /\ bucket = buckets[index]
      /\ \A j \in Held : j # index => buckets'[j] = buckets[j]
    BY <1>3, <1>4, PlaceOnKeeps DEF Occupied
<1>6. \A j \in Held : buckets[j].key # carried.key
    BY <1>1 DEF Lacks, InTable
<1>7. DistinctIn(buckets, Held)
    BY DEF KeyInv, KeysOnce
<1>8. DistinctIn(buckets', Held')
    BY <1>3, <1>5, <1>6, <1>7 DEF DistinctIn
<1>9. \A j \in Held : j # index => buckets[j] # bucket
    BY <1>5, <1>7 DEF DistinctIn
<1>10. InTable' = (InTable \ {bucket}) \cup {carried}
    BY <1>3, <1>5, <1>9 DEF InTable
<1>11. bucket \in InTable
    BY <1>5 DEF InTable
<1>12. Lacks(InTable', carried'.key)
    <2>1. \A b \in InTable : b.key = bucket.key => b = bucket
        BY <1>11, KeyState
    <2>2. carried.key # bucket.key
        BY <1>1, <1>11 DEF Lacks
    <2> QED BY <1>10, <2>1, <2>2 DEF Lacks
<1> QED BY <1>1, <1>8, <1>10, <1>11, <1>12

LEMMA PlaceOnKey ==
    ASSUME IInv, KeyInv, PlaceOn
    PROVE  KeyInv'
<1>1. Tidy'
    BY PlaceOnKeeps DEF KeyInv, Tidy, DropIter, PlaceOn, Advance
<1>2. CASE /\ distance > otherDistance
           /\ SetTable(capacity, count, [buckets EXCEPT ![index] = carried])
           /\ carried' = bucket
    <2>1. /\ Lacks(InTable, carried.key) /\ (pc = "rehash" => Lacks(InOld, carried.key))
          /\ InTable' = (InTable \ {bucket}) \cup {carried} /\ bucket \in InTable
          /\ DistinctIn(buckets', Held')
          /\ Lacks(InTable', carried'.key)
        BY <1>2, SwapMoves DEF SetTable
    <2>2. \A b \in InTable : Lacks(InOld, b.key)
        BY DEF KeyInv, KeysOnce
    <2>3. pc = "insert" => InOld = {}
        BY KeyState
    <2>4. \A b \in InTable' : Lacks(InOld', b.key)
        BY <2>1, <2>2, <2>3, PlaceOnKeeps DEF Lacks
    <2>5. Hashed(InTable' \cup InOld' \cup InTransit', keyHashFunc')
        BY <1>2, <2>1, PlaceOnKeeps DEF KeyInv, KeysOnce, Hashed
    <2>6. DistinctIn(oldBuckets', OldLeft')
        BY PlaceOnKeeps DEF KeyInv, KeysOnce
    <2>7. KeysOnce'
        BY <2>1, <2>4, <2>5, <2>6 DEF KeysOnce
    <2>8. Lacks(InOld', carried'.key)
        BY <1>2, <2>1, <2>2, PlaceOnKeeps
    <2>9. pc = "insert" => NewPair \in InTable \cup {carried}
        BY DEF KeyInv, Known
    <2>10. pc = "rehash" /\ call.op = "set" => Lacks(InTable \cup InOld \cup {carried}, call.key)
        BY PlaceOnKeeps DEF KeyInv, Known
    <2>11. pc = "insert" => NewPair' \in InTable' \cup {carried'}
        BY <1>2, <2>1, <2>9, PlaceOnKeeps
    <2>12. pc = "rehash" /\ call.op = "set" => Lacks(InTable' \cup InOld' \cup InTransit', call.key)
        BY <1>2, <2>1, <2>10, PlaceOnKeeps DEF Lacks
    <2>13. Lacks(InTable' \cup InOld', carried'.key)
        BY <2>1, <2>8 DEF Lacks
    <2>14. Known'
        BY <2>1, <2>11, <2>12, <2>13, PlaceOnKeeps DEF Known
    <2> QED BY <1>1, <2>7, <2>14 DEF KeyInv
<1>3. CASE distance' = distance + 1 /\ UNCHANGED <<table, carried>>
    <2>1. UNCHANGED table /\ carried' = carried /\ InTable' = InTable /\ Held' = Held
          /\ buckets' = buckets
        BY <1>3, PlaceOnKeeps, SamePairs DEF table
    <2>2. KeysOnce'
        BY <2>1, PlaceOnKeeps DEF KeyInv, KeysOnce
    <2>3. ASSUME pc = "insert", call.op = "try_add", carried = NewPair, Passed
          PROVE  Passed'
        <3>1. ~SameKey(bucket, carried.hash, carried.key)
            BY <2>3 DEF PlaceOn, AlreadyPresent
        <3>2. carried.hash = keyHashFunc[call.key] /\ carried.key = call.key
            BY <2>3 DEF NewPair
        <3>3. call.key \in Key
            BY <3>2, PlaceOnKeeps, BucketFields
        <3>4. bucket.key # call.key
            BY <2>3, <3>1, <3>2, <3>3, PlaceOnKeeps, OtherKey
        <3>5. UNCHANGED <<table, call>>
            BY <2>1, PlaceOnKeeps
        <3> QED BY <1>3, <2>3, <3>4, <3>5, PlaceOnKeeps, PassedOn
    <2>4. pc = "insert" =>
              /\ NewPair' \in InTable' \cup {carried'}
              /\ \/ Lacks(InTable', carried'.key)
                 \/ call'.op = "try_add" /\ carried' = NewPair' /\ Passed'
        BY <2>1, <2>3, PlaceOnKeeps DEF KeyInv, Known
    <2>5. pc = "rehash" => Lacks(InTable' \cup InOld', carried'.key)
        BY <2>1, PlaceOnKeeps DEF KeyInv, Known
    <2>6. pc = "rehash" /\ call.op = "set" => Lacks(InTable' \cup InOld' \cup InTransit', call.key)
        BY <2>1, PlaceOnKeeps DEF KeyInv, Known
    <2>7. Known'
        BY <2>4, <2>5, <2>6, PlaceOnKeeps DEF Known
    <2> QED BY <1>1, <2>2, <2>7 DEF KeyInv
<1> QED BY <1>2, <1>3 DEF PlaceOn

\* Calls of one step.
LEMMA SimpleCallKey ==
    ASSUME IInv, KeyInv,
           \/ Clone \/ Free \/ Clear \/ (\E v \in Value : ContainsValue(v))
           \/ \E cap \in InitialCapacities, f \in HashFuncs : NewMap(cap, f)
    PROVE  KeyInv'
<1>1. pc = "idle"
    BY DEF Clone, Free, Clear, ContainsValue, NewMap
<1>2. CASE UNCHANGED table /\ \E c, v, o : Answer(c, v, o)
    BY <1>1, <1>2, QuietAnswerKey
<1>3. CASE buckets' = Cleared(capacity') /\ \E c, v, o : Answer(c, v, o)
    BY <1>3, EmptyAnswerKey
<1>4. UNCHANGED table \/ buckets' = Cleared(capacity')
    BY DEF Clone, Free, Clear, ContainsValue, NewMap, OutOfMemory, SetTable
<1>5. \E c, v, o : Answer(c, v, o)
    BY DEF Clone, Free, Clear, ContainsValue, NewMap, OutOfMemory, Return
<1> QED BY <1>2, <1>3, <1>4, <1>5

LEMMA TryAddKey ==
    ASSUME IInv, KeyInv, NEW k \in Key, NEW v \in Value, TryAdd(k, v)
    PROVE  KeyInv'
<1>1. /\ pc = "idle" /\ pc' = "reserve" /\ call' = Call("try_add", k, v) /\ last' = NoAnswer
      /\ UNCHANGED table /\ iterIndex' = NoIter /\ carried' = carried
      /\ oldBuckets' = oldBuckets /\ oldCapacity' = oldCapacity /\ next' = next
    BY DEF TryAdd, Continue, DropIter, Modifiers, Call, locals
<1>2. OldLeft' = OldLeft /\ OldLeft = {} /\ ~Placing /\ ~Placing'
    BY <1>1, KeyState DEF OldLeft, Placing
<1>3. InTable' = InTable /\ InOld' = {} /\ InTransit' = {} /\ Held' = Occupied'
    BY <1>1, <1>2, SamePairs DEF InOld, InTransit
<1>4. Hashed(InTable', keyHashFunc')
    BY <1>1, <1>3, SamePairs
<1>5. KeysOnce'
    BY <1>1, <1>2, <1>3, <1>4, SamePairs DEF KeysOnce, DistinctIn, Lacks
<1>6. carried = Vacant /\ oldCapacity = 0
    BY <1>1, <1>2 DEF KeyInv, Tidy
<1>7. Known' /\ Tidy'
    BY <1>1, <1>6 DEF Known, Tidy, Call
<1> QED BY <1>5, <1>7 DEF KeyInv

LEMMA OnlyAnswersKey ==
    ASSUME KeyInv, UNCHANGED <<table, pc, call, locals>>,
           pc = "idle" \/ UNCHANGED <<iterIndex, last>>
    PROVE  KeyInv'
<1>1. /\ pc' = pc /\ call' = call /\ index' = index /\ distance' = distance /\ carried' = carried
      /\ oldBuckets' = oldBuckets /\ oldCapacity' = oldCapacity /\ next' = next
      /\ buckets' = buckets /\ capacity' = capacity /\ keyHashFunc' = keyHashFunc
    BY DEF table, locals
<1>2. Held' = Held /\ OldLeft' = OldLeft /\ Placing' = Placing /\ NewPair' = NewPair
    BY <1>1 DEF Held, OldLeft, Placing, NewPair, Occupied
<1>3. InTable' = InTable /\ InOld' = InOld /\ InTransit' = InTransit
    BY <1>1, <1>2 DEF InTable, InOld, InTransit
<1>4. Passed' = Passed
    BY <1>1 DEF Passed
<1>5. KeysOnce'
    BY <1>1, <1>2, <1>3 DEF KeyInv, KeysOnce
<1>6. Known'
    BY <1>1, <1>2, <1>3, <1>4 DEF KeyInv, Known
<1>7. Tidy'
    BY <1>1, <1>2 DEF KeyInv, Tidy
<1> QED BY <1>5, <1>6, <1>7 DEF KeyInv

LEMMA ClientCallKey ==
    ASSUME IInv, KeyInv, ClientCall
    PROVE  KeyInv'
<1>1. CASE \/ Clone \/ Free \/ Clear \/ (\E v \in Value : ContainsValue(v))
           \/ \E cap \in InitialCapacities, f \in HashFuncs : NewMap(cap, f)
    BY <1>1, SimpleCallKey
<1>2. CASE \E k \in Key, v \in Value : TryAdd(k, v)
    BY <1>2, TryAddKey
<1>3. CASE \E k \in Key, v \in Value : Set(k, v)
    <2>1. PICK k \in Key, v \in Value : StartLookup(Call("set", k, v))
        BY <1>3 DEF Set
    <2>2. GoodCall(Call("set", k, v)) /\ Call("set", k, v).op \in Seekers
        BY DEF GoodCall, Call, Calls, Ops, Modifiers, Adders, Seekers
    <2> QED BY <2>1, <2>2, StartLookupKey
<1>4. CASE \E k \in Key : TryGet(k) \/ ContainsKey(k) \/ Remove(k)
    <2>1. PICK k \in Key, op \in {"try_get", "contains_key", "remove"} :
              StartLookup(Call(op, k, None))
        BY <1>4 DEF TryGet, ContainsKey, Remove
    <2>2. GoodCall(Call(op, k, None)) /\ Call(op, k, None).op \in Seekers
        BY DEF GoodCall, Call, Calls, Ops, Modifiers, Adders, Seekers
    <2> QED BY <2>1, <2>2, StartLookupKey
<1>5. CASE \E wanted \in WantedCapacities : EnsureCapacity(wanted)
    <2>1. PICK wanted : /\ pc = "idle"
                        /\ Resize(Call("ensure_capacity", None, None), wanted)
        BY <1>5 DEF EnsureCapacity
    <2>2. Call("ensure_capacity", None, None).op # "set"
        BY DEF Call
    <2> QED BY <2>1, <2>2, ResizeKey
<1>6. CASE TrimExcess
    BY <1>6, TrimExcessKey
<1>7. CASE IterStart \/ IterMoveNext
    <2>1. pc = "idle" /\ UNCHANGED <<table, pc, call, locals>>
        BY <1>7 DEF IterStart, IterMoveNext
    <2> QED BY <2>1, OnlyAnswersKey
<1> QED BY <1>1, <1>2, <1>3, <1>4, <1>5, <1>6, <1>7 DEF ClientCall

LEMMA NextKey == IInv /\ KeyInv /\ [Next]_vars => KeyInv'
<1> SUFFICES ASSUME IInv, KeyInv, [Next]_vars PROVE KeyInv'
    OBVIOUS
<1>1. CASE ClientCall
    BY <1>1, ClientCallKey
<1>2. CASE Work
    BY <1>2, ProbeMissKey, ProbeHitKey, ProbeOnKey, ShiftBackKey, ShiftEndKey, ReserveKey,
       NextOldKey, AllocateKey, PlaceVacantKey, PlacePresentKey, PlaceOnKey DEF Work
<1>3. CASE UNCHANGED vars
    BY <1>3, OnlyAnswersKey DEF vars
<1> QED BY <1>1, <1>2, <1>3 DEF Next

LEMMA InitKey == Init => KeyInv
<1> SUFFICES ASSUME Init PROVE KeyInv
    OBVIOUS
<1>1. /\ capacity = 0 /\ buckets = Cleared(0) /\ pc = "idle" /\ carried = Vacant
      /\ oldBuckets = Cleared(0) /\ oldCapacity = 0 /\ next = 0
    BY DEF Init
<1>2. Held = {} /\ OldLeft = {} /\ ~Placing
    BY <1>1 DEF Held, Occupied, OldLeft, Placing
<1>3. InTable = {} /\ InOld = {} /\ InTransit = {}
    BY <1>2 DEF InTable, InOld, InTransit
<1>4. KeysOnce
    BY <1>2, <1>3 DEF KeysOnce, DistinctIn, Lacks, Hashed
<1>5. Known /\ Tidy
    BY <1>1 DEF Known, Tidy
<1> QED BY <1>4, <1>5 DEF KeyInv

LEMMA KeyInvariant == Spec => [](IInv /\ KeyInv)
<1>1. Init => IInv /\ KeyInv
    BY InitInv, InitKey
<1>2. IInv /\ KeyInv /\ [Next]_vars => IInv' /\ KeyInv'
    BY NextInv, NextKey
<1> QED BY <1>1, <1>2, PTL DEF Spec

LEMMA KeysInOnePlace == IInv /\ KeyInv => OnePlaceForAKey
<1> SUFFICES ASSUME IInv, KeyInv, NEW p \in Places, NEW q \in Places,
                    PairAt(p).key = PairAt(q).key, p # q
             PROVE  pc = "insert" /\ call.op = "try_add" /\ <<"carried", 0>> \in {p, q}
    BY DEF OnePlaceForAKey
<1>1. \A x \in Places :
          \/ \E j \in Held : x = <<"bucket", j>> /\ PairAt(x) = buckets[j] /\ buckets[j] \in InTable
          \/ \E j \in OldLeft : x = <<"old", j>> /\ PairAt(x) = oldBuckets[j] /\ oldBuckets[j] \in InOld
          \/ x = <<"carried", 0>> /\ PairAt(x) = carried /\ Placing
    BY DEF Places, PairAt, Held, OldLeft, InTable, InOld, KeyInv, Tidy
<1>2. /\ \A i, j \in Held : buckets[i].key = buckets[j].key => i = j
      /\ \A i, j \in OldLeft : oldBuckets[i].key = oldBuckets[j].key => i = j
      /\ \A a \in InTable, b \in InOld : a.key # b.key
    BY DEF KeyInv, KeysOnce, DistinctIn, Lacks
<1>3. pc = "rehash" => \A b \in InTable \cup InOld : b.key # carried.key
    BY DEF KeyInv, Known, Lacks
<1>4. pc = "insert" => InOld = {} /\ (call.op = "try_add" \/ \A b \in InTable : b.key # carried.key)
    BY KeyState DEF KeyInv, Known, Lacks
<1>5. Placing => pc \in {"insert", "rehash"}
    BY DEF Placing
<1> QED BY <1>1, <1>2, <1>3, <1>4, <1>5

\* A key is in one place only, in the table, in the old table of a rehash or in the hands of the
\* loop that places a pair, while pairs are displaced, rehashed and shifted back. Only try_add
\* places a pair before it has compared its key with the rest of its chain.
THEOREM OneKeyCorrect == Spec => []OnePlaceForAKey
BY KeysInOnePlace, KeyInvariant, PTL

\* The early exit of the lookups is right: where try_get, contains_key, remove and set give up,
\* no bucket of the whole table holds their key.
THEOREM MissCorrect ==
    Spec => [][ProbeMiss => \A j \in Occupied : buckets[j].key # call.key]_vars
<1>1. IInv /\ KeyInv /\ [Next]_vars =>
          [ProbeMiss => \A j \in Occupied : buckets[j].key # call.key]_vars
    <2> SUFFICES ASSUME IInv, KeyInv, ProbeMiss, NEW j \in Occupied
                 PROVE  buckets[j].key # call.key
        OBVIOUS
    <2>1. pc = "probe" /\ Lacks(InTable, call.key)
        BY ProbeMissKey DEF ProbeMiss
    <2> QED BY <2>1 DEF Lacks, InTable, Held
<1> QED BY <1>1, KeyInvariant, PTL DEF Spec

--------------------------------------------------------------------------------
(* The table implements the dictionary *)

\* The pairs of the map as its client sees them, as a set.
Visible ==
    IF pc = "insert"
    THEN IF carried.key = call.key THEN InTable
         ELSE {b \in InTable \cup {carried} : b.key # call.key}
    ELSE InTable \cup InOld \cup InTransit

\* The answer the client has, or is certain to get.
DictLast ==
    IF pc = "shift" THEN [op |-> "remove", key |-> call.key, value |-> None, outcome |-> "TRUE"]
    ELSE last

\* d is the dictionary of the pairs in S.
Denotes(S, d) ==
    /\ d \in [Key -> Value \cup {None}]
    /\ \A b \in S : d[b.key] = b.value
    /\ \A k \in Key : Lacks(S, k) => d[k] = None

LEMMA DenotesOne ==
    ASSUME NEW S \in SUBSET Bucket, NEW d, NEW e, Denotes(S, d), Denotes(S, e)
    PROVE  d = e
<1>1. \A k \in Key : d[k] = e[k]
    BY DEF Denotes, Lacks
<1> QED BY <1>1 DEF Denotes

LEMMA DenotesWith ==
    ASSUME NEW S \in SUBSET Bucket, NEW d, NEW b \in Bucket, Denotes(S, d)
    PROVE  Denotes({a \in S : a.key # b.key} \cup {b}, [d EXCEPT ![b.key] = b.value])
<1> DEFINE T == {a \in S : a.key # b.key} \cup {b}
           e == [d EXCEPT ![b.key] = b.value]
<1>1. b.key \in Key /\ b.value \in Value /\ \A a \in S : a.key \in Key
    BY BucketFields
<1>2. e \in [Key -> Value \cup {None}] /\ e[b.key] = b.value
      /\ \A k \in Key : k # b.key => e[k] = d[k]
    BY <1>1 DEF Denotes
<1>3. \A a \in T : e[a.key] = a.value
    BY <1>1, <1>2 DEF Denotes
<1>4. ASSUME NEW k \in Key, Lacks(T, k) PROVE e[k] = None
    <2>1. k # b.key /\ Lacks(S, k)
        BY <1>4 DEF Lacks
    <2> QED BY <1>2, <2>1 DEF Denotes
<1> HIDE DEF T, e
<1>5. Denotes(T, e)
    BY <1>2, <1>3, <1>4 DEF Denotes
<1> QED BY <1>5 DEF T, e

LEMMA DenotesWithout ==
    ASSUME NEW S \in SUBSET Bucket, NEW d, NEW k \in Key, Denotes(S, d)
    PROVE  Denotes({a \in S : a.key # k}, [d EXCEPT ![k] = None])
<1> DEFINE T == {a \in S : a.key # k}
           e == [d EXCEPT ![k] = None]
<1>1. \A a \in S : a.key \in Key
    BY BucketFields
<1>2. /\ e \in [Key -> Value \cup {None}] /\ e[k] = None
      /\ \A j \in Key : j # k => e[j] = d[j]
    BY DEF Denotes
<1>3. \A a \in T : e[a.key] = a.value
    BY <1>1, <1>2 DEF Denotes
<1>4. ASSUME NEW j \in Key, Lacks(T, j) PROVE e[j] = None
    <2>1. CASE j # k
        <3>1. Lacks(S, j)
            BY <1>4, <2>1 DEF Lacks
        <3> QED BY <1>2, <2>1, <3>1 DEF Denotes
    <2>2. CASE j = k
        BY <1>2, <2>2
    <2> QED BY <2>1, <2>2
<1> HIDE DEF T, e
<1>5. Denotes(T, e)
    BY <1>2, <1>3, <1>4 DEF Denotes
<1> QED BY <1>5 DEF T, e

LEMMA DenotesNothing ==
    ASSUME NEW d, Denotes({}, d)
    PROVE  d = [k \in Key |-> None]
BY DEF Denotes, Lacks

\* The set of pairs, for every place of the call.
LEMMA VisibleIs ==
    IInv /\ KeyInv =>
        /\ Visible \in SUBSET Bucket
        /\ \A a, b \in Visible : a.key = b.key => a = b
        /\ pc \notin {"next_old", "insert", "rehash"} => Visible = InTable
        /\ pc = "idle" => Visible = {buckets[j] : j \in Occupied}
        /\ pc = "next_old" => Visible = InTable \cup InOld
        /\ pc = "rehash" => Visible = InTable \cup InOld \cup {carried}
<1> SUFFICES ASSUME IInv, KeyInv
             PROVE  /\ Visible \in SUBSET Bucket
                    /\ \A a, b \in Visible : a.key = b.key => a = b
                    /\ pc \notin {"next_old", "insert", "rehash"} => Visible = InTable
                    /\ pc = "idle" => Visible = {buckets[j] : j \in Occupied}
                    /\ pc = "next_old" => Visible = InTable \cup InOld
                    /\ pc = "rehash" => Visible = InTable \cup InOld \cup {carried}
    OBVIOUS
<1>1. pc \notin {"next_old", "insert", "rehash"} => Visible = InTable
    BY KeyState DEF Visible, Placing
<1>2. pc = "idle" => Visible = {buckets[j] : j \in Occupied}
    BY <1>1 DEF InTable, Held
<1>3. pc = "next_old" => Visible = InTable \cup InOld
    BY KeyState DEF Visible, Placing
<1>4. pc = "rehash" => Visible = InTable \cup InOld \cup {carried}
    BY DEF Visible, InTransit, Placing
<1>5. pc = "insert" => /\ InTransit = {carried}
                       /\ carried.key = call.key => Visible = InTable
                       /\ carried.key # call.key =>
                              Visible = {b \in InTable \cup {carried} : b.key # call.key}
    BY DEF Visible, InTransit, Placing
<1>6. Visible \subseteq InTable \cup InOld \cup InTransit
    BY <1>5 DEF Visible
<1>7. Visible \in SUBSET Bucket
    BY <1>6, KeyState
<1>8. \A a \in InTable, b \in InOld : a.key # b.key
    BY DEF KeyInv, KeysOnce, Lacks
<1>9. pc = "rehash" => \A b \in InTable \cup InOld : b.key # carried.key
    BY DEF KeyInv, Known, Lacks
<1>10. pc = "insert" /\ carried.key # call.key => \A b \in InTable : b.key # carried.key
    BY DEF KeyInv, Known, Lacks, NewPair
<1>11. pc \in Labels
    BY State
<1>12. ASSUME NEW a \in Visible, NEW b \in Visible, a.key = b.key PROVE a = b
    <2>1. CASE pc \notin {"next_old", "insert", "rehash"}
        BY <1>1, <1>12, <2>1, KeyState
    <2>2. CASE pc = "next_old"
        BY <1>3, <1>8, <1>12, <2>2, KeyState
    <2>3. CASE pc = "rehash"
        BY <1>4, <1>8, <1>9, <1>12, <2>3, KeyState
    <2>4. CASE pc = "insert"
        BY <1>5, <1>10, <1>12, <2>4, KeyState
    <2> QED BY <2>1, <2>2, <2>3, <2>4
<1> QED BY <1>1, <1>2, <1>3, <1>4, <1>7, <1>12

LEMMA PairsDenoted == IInv /\ KeyInv => Denotes(Visible, Pairs)
<1> SUFFICES ASSUME IInv, KeyInv PROVE Denotes(Visible, Pairs)
    OBVIOUS
<1> DEFINE V == IF pc = "insert" /\ carried.key = call.key THEN Places \ {<<"carried", 0>>}
                ELSE IF pc = "insert" THEN {p \in Places : PairAt(p).key # call.key}
                ELSE Places
<1>1. \A x \in Places :
          \/ \E j \in Held : x = <<"bucket", j>> /\ PairAt(x) = buckets[j] /\ buckets[j] \in InTable
          \/ \E j \in OldLeft : x = <<"old", j>> /\ PairAt(x) = oldBuckets[j] /\ oldBuckets[j] \in InOld
          \/ x = <<"carried", 0>> /\ PairAt(x) = carried /\ carried \in InTransit
    BY DEF Places, PairAt, Held, OldLeft, InTable, InOld, InTransit, KeyInv, Tidy
<1>2. \A b \in InTable : \E x \in Places : PairAt(x) = b /\ x # <<"carried", 0>>
    BY DEF Places, PairAt, Held, InTable
<1>3. \A b \in InOld : \E x \in Places : PairAt(x) = b /\ x # <<"carried", 0>>
    BY DEF Places, PairAt, OldLeft, InOld
<1>4. \A b \in InTransit : \E x \in Places : PairAt(x) = b
    <2>1. Placing => carried # Vacant
        BY InHand, BucketFields
    <2>2. carried # Vacant => <<"carried", 0>> \in {<<"carried", 0>> : j \in IF carried = Vacant THEN {} ELSE {0}}
        OBVIOUS
    <2>3. carried # Vacant => <<"carried", 0>> \in Places
        BY <2>2 DEF Places
    <2>4. PairAt(<<"carried", 0>>) = carried
        BY DEF PairAt
    <2>5. \A b \in InTransit : b = carried /\ Placing
        BY DEF InTransit
    <2> QED BY <2>1, <2>3, <2>4, <2>5
<1>5. pc = "insert" => InOld = {} /\ InTransit = {carried}
    BY KeyState DEF InTransit, Placing
<1>6. \A p \in V : PairAt(p) \in Visible
    BY <1>1, <1>5 DEF Visible
<1>7. \A b \in Visible : \E p \in V : PairAt(p) = b
    BY <1>2, <1>3, <1>4, <1>5 DEF Visible
<1> HIDE DEF V
<1>8. \A k \in Key : Pairs[k] = IF \E p \in V : PairAt(p).key = k
                                THEN PairAt(CHOOSE p \in V : PairAt(p).key = k).value
                                ELSE None
    BY DEF Pairs, V
<1>9. \A b \in Visible : b \in Bucket /\ b.key \in Key /\ b.value \in Value
    BY VisibleIs, BucketFields
<1>10. ASSUME NEW k \in Key, \E p \in V : PairAt(p).key = k
       PROVE  \A b \in Visible : b.key = k => Pairs[k] = b.value /\ Pairs[k] \in Value
    <2> DEFINE q == CHOOSE p \in V : PairAt(p).key = k
    <2>1. q \in V /\ PairAt(q).key = k
        BY <1>10
    <2>2. Pairs[k] = PairAt(q).value
        BY <1>8, <1>10
    <2> HIDE DEF q
    <2> QED BY <1>6, <1>9, <2>1, <2>2, VisibleIs
<1>11. \A b \in Visible : Pairs[b.key] = b.value
    BY <1>7, <1>9, <1>10
<1>12. \A k \in Key : Lacks(Visible, k) => Pairs[k] = None
    BY <1>6, <1>8 DEF Lacks
<1>13. Pairs \in [Key -> Value \cup {None}]
    <2>1. \A k \in Key : Pairs[k] \in Value \cup {None}
        <3> SUFFICES ASSUME NEW k \in Key PROVE Pairs[k] \in Value \cup {None}
            OBVIOUS
        <3>1. CASE \E p \in V : PairAt(p).key = k
            BY <1>6, <1>10, <3>1
        <3>2. CASE ~ \E p \in V : PairAt(p).key = k
            BY <1>8, <3>2
        <3> QED BY <3>1, <3>2
    <2>2. Pairs = [k \in Key |-> Pairs[k]]
        BY DEF Pairs
    <2> QED BY <2>1, <2>2
<1> QED BY <1>11, <1>12, <1>13 DEF Denotes

\* What the client sees, in one formula.
Sight ==
    /\ Visible \in SUBSET Bucket
    /\ Denotes(Visible, Pairs)
    /\ pc \notin {"next_old", "insert", "rehash"} => Visible = InTable
    /\ pc = "idle" => Visible = {buckets[j] : j \in Occupied}
    /\ pc = "next_old" => Visible = InTable \cup InOld
    /\ pc = "rehash" => Visible = InTable \cup InOld \cup {carried}

LEMMA SightHolds == IInv /\ KeyInv => Sight
BY PairsDenoted, VisibleIs DEF Sight

LEMMA SightNext == IInv' /\ KeyInv' => Sight'
BY SightHolds, PTL

LEMMA SamePairsSeen ==
    ASSUME Sight, Sight', Visible' = Visible
    PROVE  Pairs' = Pairs
<1>1. Visible \in SUBSET Bucket /\ Denotes(Visible, Pairs) /\ Denotes(Visible, Pairs')
    BY DEF Sight
<1> QED BY <1>1, DenotesOne

\* What the client holds is what it sees.
LEMMA PresentIs ==
    ASSUME Sight
    PROVE  /\ \A b \in Visible : Pairs[b.key] = b.value /\ b.key \in Dict!Present
           /\ \A k \in Key : Lacks(Visible, k) => k \notin Dict!Present
<1>1. \A b \in Visible : b.key \in Key /\ b.value \in Value /\ b.value # None
    BY BucketFields, NoneAssumption DEF Sight
<1>2. \A b \in Visible : Pairs[b.key] = b.value
    BY DEF Sight, Denotes
<1>3. \A k \in Key : Lacks(Visible, k) => Pairs[k] = None
    BY DEF Sight, Denotes
<1> QED BY <1>1, <1>2, <1>3 DEF Dict!Present

\* A call goes on: the client sees only that the last answer is history.
LEMMA GoesOn ==
    ASSUME Sight, Sight', NEW c, NEW label, Continue(c, label), label # "shift",
           Visible' = Visible, c.op \in Modifiers \/ UNCHANGED table
    PROVE  Dict!Next
<1>1. Pairs' = Pairs
    BY SamePairsSeen
<1>2. Seen' \in {Seen, None}
    <2>1. CASE c.op \in Modifiers
        BY <2>1 DEF Continue, DropIter, Seen
    <2>2. CASE c.op \notin Modifiers
        BY <2>2 DEF Continue, DropIter, Seen, table, Occupied
    <2> QED BY <2>1, <2>2
<1>3. pc' # "shift" /\ last' = Dict!NoAnswer
    BY DEF Continue, NoAnswer, Dict!NoAnswer
<1>4. Dict!Begin
    BY <1>1, <1>2, <1>3 DEF Dict!Begin
<1> QED BY <1>4 DEF Dict!Next

\* A call returns.
LEMMA Answered ==
    ASSUME NEW c, NEW v, NEW outcome, Answer(c, v, outcome)
    PROVE  /\ Dict!Answer(c.op, c.key, v, outcome)
           /\ pc' = "idle"
           /\ c.op \in Modifiers => Seen' = None
           /\ c.op \notin Modifiers /\ UNCHANGED table => Seen' = Seen
<1>1. pc' = "idle" /\ last' = [op |-> c.op, key |-> c.key, value |-> v, outcome |-> outcome]
    BY DEF Answer
<1>2. Dict!Answer(c.op, c.key, v, outcome)
    BY <1>1 DEF Dict!Answer
<1>3. c.op \in Modifiers => Seen' = None
    BY DEF Answer, DropIter, Seen
<1>4. c.op \notin Modifiers /\ UNCHANGED table => Seen' = Seen
    BY DEF Answer, DropIter, Seen, table, Occupied
<1> QED BY <1>1, <1>2, <1>3, <1>4

\* A call that leaves the table alone returns.
LEMMA NothingChanged ==
    ASSUME IInv, KeyInv, Sight, Sight', UNCHANGED table, pc' = "idle",
           pc \notin {"shift", "next_old", "insert", "rehash"}
    PROVE  Visible' = Visible /\ Pairs' = Pairs
<1>1. Visible' = InTable
    BY SamePairs DEF Sight
<1>2. Visible = InTable
    BY DEF Sight
<1> QED BY <1>1, <1>2, SamePairsSeen

\* A call that needs a block and gets none.
LEMMA OutOfMemoryStep ==
    ASSUME IInv, KeyInv, Sight, Sight', NEW c, OutOfMemory(c),
           pc \notin {"shift", "next_old", "insert", "rehash"},
           \/ c.op \in Adders /\ c.key \in Key /\ c.value \in Value
           \/ /\ c.op \in {"new", "ensure_capacity", "trim_excess", "clone"}
              /\ c.key = None /\ c.value = None
    PROVE  Dict!Next
<1>1. Answer(c, c.value, "OUT_OF_MEMORY") /\ UNCHANGED table
    BY DEF OutOfMemory, Return
<1>2. Pairs' = Pairs
    BY <1>1, Answered, NothingChanged
<1>3. c.op \in Modifiers
    BY DEF Adders, Modifiers
<1>4. Dict!OutOfMemory(c.op, c.key, c.value)
    BY <1>1, <1>2, <1>3, Answered DEF Dict!OutOfMemory, Dict!Change
<1> QED BY <1>4 DEF Dict!Next, Adders

\* A call that moves the pairs about, and changes none, returns.
LEMMA ReorganiseStep ==
    ASSUME Sight, Sight', NEW c, Return(c, "NONE"), Visible' = Visible,
           c.op \in {"ensure_capacity", "trim_excess", "clone"}, c.key = None, c.value = None
    PROVE  Dict!Next
<1>1. Answer(c, None, "NONE") /\ c.op \in Modifiers
    BY DEF Return, Modifiers
<1>2. Dict!Reorganise(c.op)
    BY <1>1, Answered, SamePairsSeen DEF Dict!Reorganise, Dict!Change
<1> QED BY <1>2 DEF Dict!Next

\* A call returns an empty map.
LEMMA EmptyStep ==
    ASSUME Sight', NEW c, Return(c, "NONE"), Occupied' = {},
           c.op \in {"new", "clear", "free"}, c.key = None, c.value = None
    PROVE  Dict!Next
<1>1. Answer(c, None, "NONE") /\ c.op \in Modifiers
    BY DEF Return, Modifiers
<1>2. Visible' = {}
    BY <1>1, Answered DEF Sight
<1>3. Pairs' = [k \in Key |-> None]
    BY <1>2, DenotesNothing DEF Sight
<1>4. Dict!Empty(c.op)
    BY <1>1, <1>3, Answered DEF Dict!Empty, Dict!Change
<1> QED BY <1>4 DEF Dict!Next

\* A call learns that its key is not present.
LEMMA MissStep ==
    ASSUME IInv, KeyInv, Sight, Sight', NEW c, Miss(c), c.op \in Seekers, c.key \in Key,
           pc \in {"idle", "probe"}, Lacks(InTable, c.key)
    PROVE  Dict!Next
<1>1. Visible = InTable /\ c.key \notin Dict!Present
    BY PresentIs DEF Sight
<1>2. CASE Continue(c, "reserve") /\ UNCHANGED table
    <2>1. pc' = "reserve"
        BY <1>2 DEF Continue
    <2>2. Visible' = InTable
        BY <1>2, <2>1, SamePairs DEF Sight
    <2> QED BY <1>1, <1>2, <2>2, GoesOn
<1>3. CASE c.op # "set" /\ UNCHANGED table /\ Answer(c, None, "FALSE")
    <2>1. Pairs' = Pairs
        BY <1>3, Answered, NothingChanged
    <2>2. CASE c.op = "remove"
        <3>1. Dict!RemoveAbsent(c.key)
            BY <1>1, <1>3, <2>1, <2>2, Answered
               DEF Dict!RemoveAbsent, Dict!Change, Modifiers
        <3> QED BY <3>1 DEF Dict!Next
    <2>3. CASE c.op = "try_get"
        <3>1. Dict!GetAbsent(c.key)
            BY <1>1, <1>3, <2>1, <2>3, Answered DEF Dict!GetAbsent, Modifiers
        <3> QED BY <3>1 DEF Dict!Next
    <2>4. CASE c.op = "contains_key"
        <3>1. Dict!ContainsKey(c.key)
            BY <1>1, <1>3, <2>1, <2>4, Answered DEF Dict!ContainsKey, Modifiers
        <3> QED BY <3>1 DEF Dict!Next
    <2> QED BY <1>3, <2>2, <2>3, <2>4 DEF Seekers
<1> QED BY <1>2, <1>3 DEF Miss

LEMMA StartLookupStep ==
    ASSUME IInv, KeyInv, Sight, Sight', NEW c, StartLookup(c), c.op \in Seekers, c.key \in Key
    PROVE  Dict!Next
<1>1. pc = "idle"
    BY DEF StartLookup
<1>2. CASE count = 0 /\ Miss(c)
    <2>1. \A j \in 0..(capacity - 1) : buckets[j] = Vacant
        BY <1>2, State, TableFacts
    <2>2. Lacks(InTable, c.key)
        BY <2>1 DEF Lacks, InTable, Held, Occupied
    <2> QED BY <1>1, <1>2, <2>2, MissStep
<1>3. CASE Continue(c, "probe") /\ UNCHANGED table
    <2>1. pc' = "probe"
        BY <1>3 DEF Continue
    <2>2. Visible' = Visible
        BY <1>1, <1>3, <2>1, SamePairs DEF Sight
    <2> QED BY <1>3, <2>2, GoesOn
<1> QED BY <1>2, <1>3 DEF StartLookup

LEMMA ProbeMissStep ==
    ASSUME IInv, KeyInv, Sight, Sight', ProbeMiss
    PROVE  Dict!Next
<1>1. pc = "probe" /\ Miss(call) /\ Lacks(InTable, call.key)
    BY ProbeMissKey DEF ProbeMiss
<1>2. call.op \in Seekers /\ call.key \in Key
    BY <1>1 DEF IInv, CallShape, GoodCall
<1> QED BY <1>1, <1>2, MissStep

LEMMA ProbeOnStep ==
    ASSUME IInv, KeyInv, Sight, Sight', ProbeOn
    PROVE  Dict!Next
<1>1. pc = "probe" /\ Continue(call, "probe") /\ pc' = "probe" /\ UNCHANGED table
    BY DEF ProbeOn, Continue
<1>2. Visible' = Visible
    BY <1>1, SamePairs DEF Sight
<1> QED BY <1>1, <1>2, GoesOn

\* A lookup that found its key.
LEMMA ProbeHitStep ==
    ASSUME IInv, KeyInv, Sight, Sight', ProbeHit
    PROVE  Dict!Next
<1> DEFINE k == call.key
<1>1. /\ pc = "probe" /\ bucket # Vacant /\ bucket.key = k /\ k \in Key
      /\ bucket.hash = keyHashFunc[k]
    BY DEF ProbeHit, PassedBy, SameKey, IInv, CallShape, GoodCall
<1>2. /\ index \in Occupied /\ Held = Occupied /\ buckets \in Cells(capacity)
      /\ capacity \in Nat /\ index \in 0..(capacity - 1) /\ bucket = buckets[index]
      /\ bucket \in Bucket /\ bucket.value \in Value
    BY <1>1, AtBucket, State, KeyState, BucketFields DEF Occupied
<1>3. bucket \in InTable /\ Visible = InTable
    BY <1>1, <1>2 DEF InTable, Sight
<1>4. Pairs[k] = bucket.value /\ k \in Dict!Present
    BY <1>1, <1>3, PresentIs
<1>5. \A b \in InTable : b.key = k => b = bucket
    BY <1>1, <1>3, KeyState
<1>6. CASE call.op = "try_get" /\ Answer(call, bucket.value, "TRUE") /\ UNCHANGED table
    <2>1. Pairs' = Pairs
        BY <1>1, <1>6, Answered, NothingChanged
    <2>2. Dict!Get(k)
        BY <1>4, <1>6, <2>1, Answered DEF Dict!Get, Modifiers
    <2> QED BY <1>1, <2>2 DEF Dict!Next
<1>7. CASE call.op = "contains_key" /\ Answer(call, None, "TRUE") /\ UNCHANGED table
    <2>1. Pairs' = Pairs
        BY <1>1, <1>7, Answered, NothingChanged
    <2>2. Dict!ContainsKey(k)
        BY <1>4, <1>7, <2>1, Answered DEF Dict!ContainsKey, Modifiers
    <2> QED BY <1>1, <2>2 DEF Dict!Next
<1>8. CASE /\ call.op = "set"
           /\ SetTable(capacity, count, [buckets EXCEPT ![index].value = call.value])
           /\ Return(call, "NONE")
    <2> DEFINE b == [hash |-> bucket.hash, key |-> k, value |-> call.value]
    <2>1. call.value \in Value /\ Answer(call, call.value, "NONE") /\ pc' = "idle"
        BY <1>1, <1>8, Answered DEF IInv, CallShape, GoodCall, Adders, Return
    <2>2. b \in Bucket /\ b.key = k /\ b.value = call.value /\ b # Vacant
        BY <1>1, <1>2, <2>1, BucketFields DEF Bucket
    <2>3. capacity' = capacity /\ buckets' = [buckets EXCEPT ![index].value = call.value]
        BY <1>8 DEF SetTable
    <2>4. \A j \in 0..(capacity - 1) : j # index => buckets'[j] = buckets[j]
        BY <1>2, <2>3 DEF Cells
    <2>5. buckets'[index] = b
        <3>1. buckets'[index] = [bucket EXCEPT !.value = call.value]
            BY <1>2, <2>3 DEF Cells
        <3> QED BY <1>1, <1>2, <3>1 DEF Bucket
    <2> HIDE DEF b
    <2>6. Occupied' = Occupied
        BY <1>2, <2>2, <2>3, <2>4, <2>5 DEF Occupied
    <2>7. \A j \in Held : j # index => buckets[j].key # k
        BY <1>1, <1>2 DEF KeyInv, KeysOnce, DistinctIn
    <2>8. {buckets'[j] : j \in Occupied'} = {a \in InTable : a.key # b.key} \cup {b}
        <3>1. \A j \in Occupied : j # index => buckets'[j] = buckets[j]
            BY <2>4 DEF Occupied
        <3> QED BY <1>1, <1>2, <2>2, <2>5, <2>6, <2>7, <3>1 DEF InTable
    <2>9. Visible' = {a \in Visible : a.key # b.key} \cup {b}
        BY <1>3, <2>1, <2>8 DEF Sight
    <2>10. Pairs' = [Pairs EXCEPT ![k] = call.value]
        <3>1. Denotes(Visible', [Pairs EXCEPT ![b.key] = b.value])
            BY <2>2, <2>9, DenotesWith DEF Sight
        <3>2. Denotes(Visible', Pairs') /\ Visible' \in SUBSET Bucket
            BY DEF Sight
        <3> QED BY <2>2, <3>1, <3>2, DenotesOne
    <2>11. Dict!Set(k, call.value)
        BY <1>8, <2>1, <2>10, Answered DEF Dict!Set, Dict!Change, Modifiers
    <2> QED BY <1>1, <2>1, <2>11 DEF Dict!Next
<1>9. CASE call.op = "remove" /\ Continue(call, "shift") /\ UNCHANGED <<table, locals>>
    <2>1. /\ pc' = "shift" /\ call' = call /\ iterIndex' = NoIter /\ index' = index
          /\ buckets' = buckets /\ Occupied' = Occupied
        BY <1>9 DEF Continue, DropIter, Modifiers, locals, table, Occupied
    <2>2. Held' = Held \ {index}
        BY <1>2, <2>1 DEF Held
    <2>3. InTable' = {a \in InTable : a.key # k}
        <3>1. \A j \in Held : j # index => buckets[j].key # k
            BY <1>1, <1>2 DEF KeyInv, KeysOnce, DistinctIn
        <3> QED BY <1>1, <1>2, <2>1, <2>2, <3>1 DEF InTable
    <2>4. Visible' = {a \in Visible : a.key # k}
        BY <1>3, <2>1, <2>3 DEF Sight
    <2>5. Pairs' = [Pairs EXCEPT ![k] = None]
        <3>1. Denotes(Visible', [Pairs EXCEPT ![k] = None])
            BY <1>1, <2>4, DenotesWithout DEF Sight
        <3>2. Denotes(Visible', Pairs') /\ Visible' \in SUBSET Bucket
            BY DEF Sight
        <3> QED BY <3>1, <3>2, DenotesOne
    <2>6. Seen' = None
        BY <2>1 DEF Seen
    <2>7. Dict!Answer("remove", k, None, "TRUE")
        BY <2>1 DEF Dict!Answer
    <2>8. Dict!Remove(k)
        BY <1>4, <2>5, <2>6, <2>7 DEF Dict!Remove, Dict!Change
    <2> QED BY <1>1, <2>8 DEF Dict!Next
<1> QED BY <1>6, <1>7, <1>8, <1>9 DEF ProbeHit

\* The client has its pairs without the removed one already: what shifts back, and the bucket
\* that is vacated, it does not see.
LEMMA ShiftStep ==
    ASSUME IInv, KeyInv, Sight, Sight', ShiftBack \/ ShiftEnd
    PROVE  UNCHANGED Dict!vars
<1>1. pc = "shift" /\ call.op = "remove" /\ iterIndex = NoIter /\ Visible = InTable
    BY DEF ShiftBack, ShiftEnd, IInv, CallShape, KeyInv, Tidy, Modifiers, Sight
<1>2. CASE ShiftBack
    <2>1. /\ pc' = "shift" /\ call' = call /\ iterIndex' = NoIter /\ InTable' = InTable
        BY <1>2, ShiftBackMoves
    <2>2. Visible' = Visible
        BY <1>1, <2>1 DEF Sight
    <2>3. Pairs' = Pairs /\ Seen' = Seen
        BY <1>1, <2>1, <2>2, SamePairsSeen DEF Seen
    <2> QED BY <1>1, <2>1, <2>3 DEF Dict!vars
<1>3. CASE ShiftEnd
    <2>1. Answer(call, None, "TRUE") /\ {buckets'[j] : j \in Occupied'} = InTable
        BY <1>3, ShiftEndLeaves
    <2>2. /\ pc' = "idle" /\ Seen' = None
          /\ last' = [op |-> "remove", key |-> call.key, value |-> None, outcome |-> "TRUE"]
        BY <1>1, <2>1, Answered DEF Answer, Modifiers
    <2>3. Visible' = Visible
        BY <1>1, <2>1, <2>2 DEF Sight
    <2>4. Pairs' = Pairs /\ Seen' = Seen
        BY <1>1, <2>2, <2>3, SamePairsSeen DEF Seen
    <2> QED BY <1>1, <2>2, <2>4 DEF Dict!vars
<1> QED BY <1>2, <1>3

\* A table that has grown, or has not, is what the call goes on with.
LEMMA AfterResizeStep ==
    ASSUME Sight, Sight', NEW c, AfterResize(c), {buckets'[j] : j \in Occupied'} = Visible,
           c.op \in {"ensure_capacity", "trim_excess"} => c.key = None /\ c.value = None
    PROVE  Dict!Next
<1>1. CASE c.op \in {"try_add", "set"} /\ Continue(c, "allocate")
    <2>1. pc' = "allocate" /\ c.op \in Modifiers
        BY <1>1 DEF Continue, Modifiers
    <2>2. Visible' = Visible
        BY <2>1 DEF Sight, InTable, Held
    <2> QED BY <1>1, <2>1, <2>2, GoesOn
<1>2. CASE c.op \in {"ensure_capacity", "trim_excess"} /\ Return(c, "NONE")
    <2>1. pc' = "idle"
        BY <1>2 DEF Return, Answer
    <2>2. Visible' = Visible
        BY <2>1 DEF Sight
    <2> QED BY <1>2, <2>2, ReorganiseStep
<1> QED BY <1>1, <1>2 DEF AfterResize

LEMMA ReallocateStep ==
    ASSUME IInv, KeyInv, Sight, Sight', NEW c, NEW n, Reallocate(c, n), pc \in {"idle", "reserve"},
           c.op \in Growers,
           c.op \in {"ensure_capacity", "trim_excess"} => c.key = None /\ c.value = None
    PROVE  Dict!Next
<1>1. CASE count > 0 /\ Continue(c, "next_old")
    <2>1. Visible' = Visible
        BY <1>1, ReallocateMoves DEF Sight
    <2>2. c.op \in Modifiers
        BY DEF Growers, Modifiers
    <2> QED BY <1>1, <2>1, <2>2, GoesOn
<1>2. CASE count = 0 /\ AfterResize(c)
    <2>1. \A j \in 0..(capacity - 1) : buckets[j] = Vacant
        BY <1>2, State, TableFacts
    <2>2. Visible = {}
        BY <2>1 DEF Sight, InTable, Held, Occupied
    <2>3. Occupied' = {}
        BY NoPairs DEF Reallocate, SetTable
    <2> QED BY <1>2, <2>2, <2>3, AfterResizeStep
<1> QED BY <1>1, <1>2, State DEF Reallocate

LEMMA ResizeStep ==
    ASSUME IInv, KeyInv, Sight, Sight', NEW c, NEW wanted, Resize(c, wanted),
           pc \in {"idle", "reserve"},
           \/ c.op \in Adders /\ c.key \in Key /\ c.value \in Value
           \/ c.op = "ensure_capacity" /\ c.key = None /\ c.value = None
    PROVE  Dict!Next
<1>1. CASE UNCHANGED table /\ AfterResize(c)
    <2>1. {buckets'[j] : j \in Occupied'} = Visible
        BY <1>1, SamePairs DEF Sight
    <2> QED BY <1>1, <2>1, AfterResizeStep DEF Adders
<1>2. CASE \E n \in NextPowersOfTwo(MinCapacity(wanted)) : Reallocate(c, n)
    BY <1>2, ReallocateStep DEF Adders, Growers
<1>3. CASE OutOfMemory(c)
    BY <1>3, OutOfMemoryStep
<1> QED BY <1>1, <1>2, <1>3 DEF Resize

LEMMA ReserveStep ==
    ASSUME IInv, KeyInv, Sight, Sight', Reserve
    PROVE  Dict!Next
<1>1. pc = "reserve" /\ call.op \in Adders /\ call.key \in Key /\ call.value \in Value
    BY DEF Reserve, IInv, CallShape, GoodCall
<1>2. CASE Continue(call, "allocate") /\ UNCHANGED table
    <2>1. pc' = "allocate" /\ call.op \in Modifiers
        BY <1>1, <1>2 DEF Continue, Adders, Modifiers
    <2>2. Visible' = Visible
        BY <1>1, <1>2, <2>1, SamePairs DEF Sight
    <2> QED BY <1>2, <2>1, <2>2, GoesOn
<1>3. CASE Resize(call, GrownCapacity)
    BY <1>1, <1>3, ResizeStep
<1> QED BY <1>2, <1>3 DEF Reserve

LEMMA TrimExcessStep ==
    ASSUME IInv, KeyInv, Sight, Sight', TrimExcess
    PROVE  Dict!Next
<1> DEFINE c == Call("trim_excess", None, None)
<1>1. pc = "idle" /\ c.op = "trim_excess" /\ c.key = None /\ c.value = None /\ c.op \in Growers
    BY DEF TrimExcess, Call, Growers
<1>2. \/ count = 0 /\ SetTable(0, 0, Cleared(0)) /\ Return(c, "NONE")
      \/ UNCHANGED table /\ Return(c, "NONE")
      \/ OutOfMemory(c)
      \/ \E n : Reallocate(c, n)
    BY DEF TrimExcess
<1> HIDE DEF c
<1>3. CASE count = 0 /\ SetTable(0, 0, Cleared(0)) /\ Return(c, "NONE")
    <2>1. \A j \in 0..(capacity - 1) : buckets[j] = Vacant
        BY <1>3, State, TableFacts
    <2>2. Visible = {}
        BY <1>1, <2>1 DEF Sight, Occupied
    <2>3. pc' = "idle" /\ Occupied' = {}
        BY <1>3, NoPairs DEF SetTable, Return, Answer
    <2>4. Visible' = {}
        BY <2>3 DEF Sight
    <2> QED BY <1>1, <1>3, <2>2, <2>4, ReorganiseStep
<1>4. CASE UNCHANGED table /\ Return(c, "NONE")
    <2>1. Visible' = Visible
        BY <1>1, <1>4, NothingChanged DEF Return, Answer
    <2> QED BY <1>1, <1>4, <2>1, ReorganiseStep
<1>5. CASE OutOfMemory(c)
    BY <1>1, <1>5, OutOfMemoryStep
<1>6. CASE \E n : Reallocate(c, n)
    BY <1>1, <1>6, ReallocateStep
<1> QED BY <1>2, <1>3, <1>4, <1>5, <1>6

\* A call other than the four that name a key has no arguments the answer repeats.
Bare == call.op \in {"ensure_capacity", "trim_excess"} => call.key = None /\ call.value = None

LEMMA NextOldStep ==
    ASSUME IInv, KeyInv, Bare, Sight, Sight', NextOld
    PROVE  Dict!Next
<1>1. pc = "next_old" /\ UNCHANGED table /\ call.op \in Modifiers /\ Visible = InTable \cup InOld
    BY DEF NextOld, IInv, CallShape, Growers, Modifiers, Sight
<1>2. CASE OldLeft = {} /\ AfterResize(call)
    <2>1. InOld = {}
        BY <1>2 DEF InOld
    <2>2. {buckets'[j] : j \in Occupied'} = Visible
        BY <1>1, <2>1, SamePairs
    <2> QED BY <1>2, <2>2, AfterResizeStep DEF Bare
<1>3. ASSUME NEW j \in OldLeft,
             pc' = "rehash", call' = call, last' = NoAnswer, DropIter(call),
             carried' = oldBuckets[j], oldBuckets' = oldBuckets, OldLeft' = OldLeft \ {j}
      PROVE  Dict!Next
    <2>1. InTable' = InTable
        BY <1>1, <1>3, SamePairs
    <2>2. InOld' \cup {carried'} = InOld
        BY <1>3 DEF InOld
    <2>3. Visible' = Visible
        BY <1>1, <1>3, <2>1, <2>2 DEF Sight
    <2>4. Continue(call, "rehash")
        BY <1>3 DEF Continue
    <2> QED BY <1>1, <2>3, <2>4, GoesOn
<1> QED BY <1>2, <1>3, NextOldMoves

LEMMA AllocateStep ==
    ASSUME IInv, KeyInv, Sight, Sight', Allocate
    PROVE  Dict!Next
<1>1. pc = "allocate" /\ call.op \in Adders /\ call.key \in Key /\ call.value \in Value
    BY DEF Allocate, IInv, CallShape, GoodCall
<1>2. CASE carried' = NewPair /\ Continue(call, "insert") /\ UNCHANGED table
    <2>1. pc' = "insert" /\ call' = call /\ call.op \in Modifiers /\ NewPair.key = call.key
        BY <1>1, <1>2 DEF Continue, Adders, Modifiers, NewPair
    <2>2. Visible' = InTable'
        BY <1>2, <2>1 DEF Visible
    <2>3. Visible' = Visible
        BY <1>1, <1>2, <2>1, <2>2, SamePairs DEF Sight
    <2> QED BY <1>2, <2>1, <2>3, GoesOn
<1>3. CASE OutOfMemory(call)
    BY <1>1, <1>3, OutOfMemoryStep
<1> QED BY <1>2, <1>3 DEF Allocate, NewPair

\* The pair of the call is placed: from now on the client sees it.
LEMMA PlaceVacantStep ==
    ASSUME IInv, KeyInv, Sight, Sight', PlaceVacant
    PROVE  Dict!Next
<1>1. CASE pc = "insert" /\ Return(call, "NONE")
    <2> DEFINE k == call.key
               b == NewPair
    <2>1. /\ call.op \in Adders /\ k \in Key /\ call.value \in Value
          /\ Answer(call, call.value, "NONE") /\ pc' = "idle"
        BY <1>1, Answered DEF IInv, CallShape, GoodCall, Return
    <2>2. b \in Bucket /\ b.key = k /\ b.value = call.value
        <3>1. keyHashFunc[k] \in Nat
            BY <2>1, State
        <3> QED BY <2>1, <3>1 DEF NewPair, Bucket
    <2>3. Lacks(InTable, carried.key) /\ Visible' = InTable \cup {carried}
        BY <2>1, PlaceVacantMoves DEF Sight
    <2>4. b \in InTable \cup {carried}
        BY <1>1 DEF KeyInv, Known
    <2> HIDE DEF b
    <2>5. /\ carried.key = k => Visible = InTable
          /\ carried.key # k => Visible = {a \in InTable \cup {carried} : a.key # k}
        BY <1>1 DEF Visible
    <2>6. \A a \in InTable : b \in InTable /\ a.key = b.key => a = b
        BY KeyState
    <2>7. Lacks(Visible, k)
        BY <2>3, <2>5 DEF Lacks
    <2>8. Visible' = {a \in Visible : a.key # b.key} \cup {b}
        <3>1. CASE carried.key = k
            <4>1. b = carried
                BY <2>2, <2>3, <2>4, <3>1 DEF Lacks
            <4> QED BY <2>2, <2>3, <2>5, <2>7, <3>1, <4>1 DEF Lacks
        <3>2. CASE carried.key # k
            <4>1. b \in InTable
                BY <2>2, <2>4, <3>2
            <4> QED BY <2>2, <2>3, <2>5, <2>6, <3>2, <4>1
        <3> QED BY <3>1, <3>2
    <2>9. Pairs' = [Pairs EXCEPT ![k] = call.value]
        <3>1. Denotes(Visible', [Pairs EXCEPT ![b.key] = b.value])
            BY <2>2, <2>8, DenotesWith DEF Sight
        <3>2. Denotes(Visible', Pairs') /\ Visible' \in SUBSET Bucket
            BY DEF Sight
        <3> QED BY <2>2, <3>1, <3>2, DenotesOne
    <2>10. k \notin Dict!Present
        BY <2>1, <2>7, PresentIs
    <2>11. CASE call.op = "try_add"
        <3>1. Dict!Add(k, call.value)
            BY <2>1, <2>9, <2>10, <2>11, Answered DEF Dict!Add, Dict!Change, Modifiers
        <3> QED BY <2>1, <3>1 DEF Dict!Next
    <2>12. CASE call.op = "set"
        <3>1. Dict!Set(k, call.value)
            BY <2>1, <2>9, <2>12, Answered DEF Dict!Set, Dict!Change, Modifiers
        <3> QED BY <2>1, <3>1 DEF Dict!Next
    <2> QED BY <2>1, <2>11, <2>12 DEF Adders
<1>2. CASE pc = "rehash" /\ Continue(call, "next_old") /\ UNCHANGED <<oldBuckets, oldCapacity, next>>
    <2>1. pc' = "next_old" /\ call.op \in Modifiers
        BY <1>2 DEF Continue, IInv, CallShape, Growers, Modifiers
    <2>2. InOld' = InOld
        BY <1>2 DEF InOld, OldLeft
    <2>3. InTable' = InTable \cup {carried}
        BY <2>1, PlaceVacantMoves DEF InTable, Held
    <2>4. Visible' = Visible
        BY <1>2, <2>1, <2>2, <2>3 DEF Sight
    <2> QED BY <1>2, <2>1, <2>4, GoesOn
<1> QED BY <1>1, <1>2 DEF PlaceVacant

LEMMA PlacePresentStep ==
    ASSUME IInv, KeyInv, Sight, Sight', PlacePresent
    PROVE  Dict!Next
<1> DEFINE k == call.key
<1>1. /\ pc = "insert" /\ call.op = "try_add" /\ bucket # Vacant /\ UNCHANGED table
      /\ bucket.key = carried.key /\ Answer(call, call.value, "ALREADY_PRESENT")
    BY DEF PlacePresent, AlreadyPresent, SameKey, Return
<1>2. k \in Key /\ call.value \in Value
    BY <1>1 DEF IInv, CallShape, GoodCall, Adders
<1>3. bucket \in InTable
    BY <1>1, AtBucket DEF InTable, Held, Occupied
<1>4. carried.key = k
    BY <1>1, <1>3 DEF KeyInv, Known, NewPair, Lacks
<1>5. Visible = InTable
    BY <1>1, <1>4 DEF Visible
<1>6. k \in Dict!Present
    BY <1>1, <1>3, <1>4, <1>5, PresentIs
<1>7. Visible' = InTable
    BY <1>1, Answered, SamePairs DEF Sight
<1>8. Pairs' = Pairs
    BY <1>5, <1>7, SamePairsSeen
<1>9. Dict!AddPresent(k, call.value)
    BY <1>1, <1>6, <1>8, Answered DEF Dict!AddPresent, Dict!Change, Modifiers
<1> QED BY <1>2, <1>9 DEF Dict!Next

\* Whichever pair is in the hands of the loop, the client sees the same ones.
LEMMA PlaceOnStep ==
    ASSUME IInv, KeyInv, Sight, Sight', PlaceOn
    PROVE  Dict!Next
<1>1. /\ pc \in {"insert", "rehash"} /\ pc' = pc /\ call' = call /\ Continue(call, pc)
      /\ call.op \in Modifiers /\ InOld' = InOld
    BY PlaceOnKeeps DEF PlaceOn
<1>2. /\ pc = "rehash" => /\ Visible = InTable \cup InOld \cup {carried}
                          /\ Visible' = InTable' \cup InOld' \cup {carried'}
      /\ pc = "insert" /\ carried.key = call.key => Visible = InTable
      /\ pc = "insert" /\ carried.key # call.key =>
             Visible = {b \in InTable \cup {carried} : b.key # call.key}
      /\ pc = "insert" /\ carried'.key = call.key => Visible' = InTable'
      /\ pc = "insert" /\ carried'.key # call.key =>
             Visible' = {b \in InTable' \cup {carried'} : b.key # call.key}
    <2>1. pc = "rehash" => /\ Visible = InTable \cup InOld \cup {carried}
                           /\ Visible' = InTable' \cup InOld' \cup {carried'}
        BY <1>1 DEF Sight
    <2> QED BY <1>1, <2>1 DEF Visible
<1>3. CASE /\ distance > otherDistance
           /\ SetTable(capacity, count, [buckets EXCEPT ![index] = carried])
           /\ carried' = bucket
    <2>1. /\ Lacks(InTable, carried.key) /\ Lacks(InTable', carried'.key)
          /\ InTable' = (InTable \ {bucket}) \cup {carried} /\ bucket \in InTable
        BY <1>3, SwapMoves DEF SetTable
    <2>2. InTable' \cup {carried'} = InTable \cup {carried}
        BY <1>3, <2>1
    <2>3. \A b \in InTable : b.key = bucket.key => b = bucket
        BY <2>1, KeyState
    <2>4. carried.key # bucket.key
        BY <2>1 DEF Lacks
    <2>5. pc = "insert" => NewPair \in InTable \cup {carried} /\ NewPair.key = call.key
        BY DEF KeyInv, Known, NewPair
    <2>6. CASE pc = "rehash"
        BY <1>1, <1>2, <2>2, <2>6, GoesOn
    <2>7. CASE pc = "insert" /\ carried.key = call.key
        <3>1. Visible' = Visible
            BY <1>2, <1>3, <2>1, <2>2, <2>4, <2>7 DEF Lacks
        <3> QED BY <1>1, <2>7, <3>1, GoesOn
    <2>8. CASE pc = "insert" /\ carried.key # call.key /\ bucket.key # call.key
        <3>1. Visible' = Visible
            BY <1>2, <1>3, <2>2, <2>8
        <3> QED BY <1>1, <2>8, <3>1, GoesOn
    <2>9. CASE pc = "insert" /\ carried.key # call.key /\ bucket.key = call.key
        <3>1. Visible' = Visible
            BY <1>2, <1>3, <2>1, <2>3, <2>9
        <3> QED BY <1>1, <2>9, <3>1, GoesOn
    <2> QED BY <1>1, <2>6, <2>7, <2>8, <2>9
<1>4. CASE UNCHANGED <<table, carried>>
    <2>1. InTable' = InTable
        BY <1>1, <1>4, SamePairs
    <2>2. Visible' = Visible
        BY <1>1, <1>2, <1>4, <2>1
    <2> QED BY <1>1, <2>2, GoesOn
<1> QED BY <1>3, <1>4 DEF PlaceOn

\* Calls of one step.
LEMMA NewMapStep ==
    ASSUME IInv, KeyInv, Sight, Sight', NEW cap, NEW f, NewMap(cap, f)
    PROVE  Dict!Next
<1> DEFINE c == Call("new", None, None)
<1>1. pc = "idle" /\ c.op = "new" /\ c.key = None /\ c.value = None
    BY DEF NewMap, Call
<1>2. \/ buckets' = Cleared(capacity') /\ Return(c, "NONE")
      \/ OutOfMemory(c)
    BY DEF NewMap
<1> HIDE DEF c
<1>3. CASE buckets' = Cleared(capacity') /\ Return(c, "NONE")
    BY <1>1, <1>3, NoPairs, EmptyStep
<1>4. CASE OutOfMemory(c)
    BY <1>1, <1>4, OutOfMemoryStep
<1> QED BY <1>2, <1>3, <1>4

LEMMA CloneStep ==
    ASSUME IInv, KeyInv, Sight, Sight', Clone
    PROVE  Dict!Next
<1> DEFINE c == Call("clone", None, None)
<1>1. pc = "idle" /\ c.op = "clone" /\ c.key = None /\ c.value = None
    BY DEF Clone, Call
<1>2. UNCHANGED table /\ (Return(c, "NONE") \/ Return(c, "OUT_OF_MEMORY"))
    BY DEF Clone
<1> HIDE DEF c
<1>3. CASE Return(c, "NONE")
    <2>1. Visible' = Visible
        BY <1>1, <1>2, <1>3, NothingChanged DEF Return, Answer
    <2> QED BY <1>1, <1>3, <2>1, ReorganiseStep
<1>4. CASE Return(c, "OUT_OF_MEMORY")
    BY <1>1, <1>2, <1>4, OutOfMemoryStep DEF OutOfMemory
<1> QED BY <1>2, <1>3, <1>4

LEMMA EmptyTable ==
    ASSUME IInv, count = 0
    PROVE  Occupied = {}
<1>1. \A j \in 0..(capacity - 1) : buckets[j] = Vacant
    BY State, TableFacts
<1> QED BY <1>1 DEF Occupied

LEMMA FreeClearStep ==
    ASSUME IInv, KeyInv, Sight, Sight', Free \/ Clear
    PROVE  Dict!Next
<1>1. Occupied' = {}
    <2>1. CASE buckets' = Cleared(capacity')
        BY <2>1, NoPairs
    <2>2. CASE count = 0 /\ UNCHANGED table
        BY <2>2, EmptyTable DEF table, Occupied
    <2> QED BY <2>1, <2>2 DEF Free, Clear, SetTable
<1>2. PICK op \in {"free", "clear"} : Return(Call(op, None, None), "NONE")
    BY DEF Free, Clear
<1>3. /\ Call(op, None, None).op = op
      /\ Call(op, None, None).key = None /\ Call(op, None, None).value = None
    BY DEF Call
<1> QED BY <1>1, <1>2, <1>3, EmptyStep

LEMMA ContainsValueStep ==
    ASSUME IInv, KeyInv, Sight, Sight', NEW v \in Value, ContainsValue(v)
    PROVE  Dict!Next
<1> DEFINE c == Call("contains_value", None, v)
           outcome == IF \E j \in Occupied : buckets[j].value = v THEN "TRUE" ELSE "FALSE"
<1>1. pc = "idle" /\ UNCHANGED table /\ c.op \notin Modifiers
    BY DEF ContainsValue, Call, Modifiers
<1>2. Answer(c, v, outcome)
    <2>1. count = 0 => ~ \E j \in Occupied : buckets[j].value = v
        BY EmptyTable
    <2>2. c.value = v
        BY DEF Call
    <2> HIDE DEF c
    <2> QED BY <2>1, <2>2 DEF ContainsValue, Return, c
<1>3. Visible = {buckets[j] : j \in Occupied}
    BY <1>1 DEF Sight
<1>4. (\E k \in Key : Pairs[k] = v) <=> (\E j \in Occupied : buckets[j].value = v)
    <2>1. ASSUME NEW j \in Occupied, buckets[j].value = v PROVE \E k \in Key : Pairs[k] = v
        <3>1. buckets[j] \in Visible /\ buckets[j].key \in Key
            BY <1>3, BucketFields DEF Sight
        <3> QED BY <2>1, <3>1, PresentIs
    <2>2. ASSUME NEW k \in Key, Pairs[k] = v PROVE \E j \in Occupied : buckets[j].value = v
        <3>1. ~Lacks(Visible, k)
            BY <2>2, NoneAssumption DEF Sight, Denotes
        <3>2. PICK b \in Visible : b.key = k
            BY <3>1 DEF Lacks
        <3>3. b.value = v
            BY <2>2, <3>2, PresentIs
        <3> QED BY <1>3, <3>2, <3>3
    <2> QED BY <2>1, <2>2
<1>5. Pairs' = Pairs
    BY <1>1, <1>2, Answered, NothingChanged
<1>6. Seen' = Seen /\ Dict!Answer("contains_value", None, v, outcome)
    <2>1. c.op = "contains_value" /\ c.key = None
        BY DEF Call
    <2> HIDE DEF c, outcome
    <2> QED BY <1>1, <1>2, <2>1, Answered
<1>7. Dict!ContainsValue(v)
    BY <1>4, <1>5, <1>6 DEF Dict!ContainsValue
<1> QED BY <1>7 DEF Dict!Next

LEMMA TryAddStep ==
    ASSUME IInv, KeyInv, Sight, Sight', NEW k \in Key, NEW v \in Value, TryAdd(k, v)
    PROVE  Dict!Next
<1>1. /\ pc = "idle" /\ pc' = "reserve" /\ UNCHANGED table
      /\ Continue(Call("try_add", k, v), "reserve")
    BY DEF TryAdd, Continue
<1>2. Visible' = Visible
    BY <1>1, SamePairs DEF Sight
<1> QED BY <1>1, <1>2, GoesOn

LEMMA IterStartStep ==
    ASSUME IInv, KeyInv, Sight, Sight', IterStart
    PROVE  Dict!Next
<1>1. /\ pc = "idle" /\ pc' = "idle" /\ UNCHANGED table /\ iterIndex' = -1
      /\ last' = [op |-> "iter", key |-> None, value |-> None, outcome |-> "NONE"]
    BY DEF IterStart
<1>2. Pairs' = Pairs
    BY <1>1, NothingChanged
<1>3. Seen' = {}
    <2>1. \A j \in Occupied' : ~(j <= iterIndex')
        <3>1. Occupied' = Occupied
            BY <1>1 DEF table, Occupied
        <3>2. \A j \in Occupied : j \in Nat
            BY State DEF Occupied
        <3> QED BY <1>1, <3>1, <3>2
    <2> QED BY <1>1, <2>1 DEF Seen, NoIter
<1>4. Dict!IterStart
    BY <1>1, <1>2, <1>3 DEF Dict!IterStart, Dict!Answer
<1> QED BY <1>4 DEF Dict!Next

LEMMA IterMoveNextStep ==
    ASSUME IInv, KeyInv, Sight, Sight', IterMoveNext
    PROVE  Dict!Next
<1> DEFINE Told(i) == {buckets[j].key : j \in {o \in Occupied : o <= i}}
<1>1. /\ pc = "idle" /\ pc' = "idle" /\ UNCHANGED table /\ iterIndex # NoIter
      /\ capacity \in Nat /\ iterIndex \in -1..capacity
    BY State DEF IterMoveNext
<1>2. PICK j \in IF count = 0 \/ iterIndex = capacity THEN {capacity}
                 ELSE NextOccupied(buckets, capacity, iterIndex + 1) :
          /\ iterIndex' = j
          /\ last' = IF j < capacity
                     THEN [op |-> "iter_move_next", key |-> buckets[j].key,
                           value |-> buckets[j].value, outcome |-> "TRUE"]
                     ELSE [op |-> "iter_move_next", key |-> None, value |-> None,
                           outcome |-> "FALSE"]
    BY DEF IterMoveNext
<1>3. Pairs' = Pairs
    BY <1>1, NothingChanged
<1>4. /\ j \in (iterIndex + 1)..capacity \/ j = capacity
      /\ j < capacity => j \in Occupied /\ iterIndex < j
      /\ \A i \in Occupied : i <= j => i <= iterIndex \/ i = j
      /\ \A i \in Occupied : i \in 0..(capacity - 1)
    <2>1. CASE count = 0 \/ iterIndex = capacity
        BY <1>1, <1>2, <2>1, EmptyTable DEF Occupied
    <2>2. CASE ~(count = 0 \/ iterIndex = capacity)
        <3>1. /\ j \in (iterIndex + 1)..capacity
              /\ j < capacity => buckets[j] # Vacant
              /\ \A i \in (iterIndex + 1)..(j - 1) : buckets[i] = Vacant
            BY <1>2, <2>2 DEF NextOccupied
        <3> QED BY <1>1, <3>1 DEF Occupied
    <2> QED BY <2>1, <2>2
<1>5. Seen = Told(iterIndex) /\ Seen' = Told(j)
    <2>1. buckets' = buckets /\ Occupied' = Occupied
        BY <1>1 DEF table, Occupied
    <2>2. iterIndex' # NoIter
        BY <1>1, <1>2, <1>4 DEF NoIter
    <2> QED BY <1>1, <1>2, <2>1, <2>2 DEF Seen
<1>6. Seen \in SUBSET Key /\ Seen # None
    <2>1. Seen \in SUBSET Key
        BY <1>5, KeyState, BucketFields
    <2> QED BY <2>1, NoSetAssumption
<1>7. Visible = {buckets[i] : i \in Occupied} /\ DistinctIn(buckets, Occupied)
    BY <1>1 DEF Sight, KeyInv, KeysOnce, Held
<1> HIDE DEF Told
<1>8. CASE j < capacity
    <2> DEFINE k == buckets[j].key
    <2>1. k \in Dict!Present /\ Pairs[k] = buckets[j].value
        BY <1>4, <1>7, <1>8, PresentIs
    <2>2. k \notin Seen
        <3>1. \A i \in Occupied : i <= iterIndex => i # j
            BY <1>1, <1>4, <1>8
        <3> QED BY <1>4, <1>5, <1>7, <1>8, <3>1 DEF DistinctIn, Told
    <2>3. Seen' = Seen \cup {k}
        <3>1. {o \in Occupied : o <= j} = {o \in Occupied : o <= iterIndex} \cup {j}
            BY <1>1, <1>4, <1>8
        <3> QED BY <1>5, <3>1 DEF Told
    <2>4. Dict!Answer("iter_move_next", k, Pairs[k], "TRUE")
        BY <1>1, <1>2, <1>8, <2>1 DEF Dict!Answer
    <2> HIDE DEF k
    <2>5. Dict!IterNext
        BY <1>3, <1>6, <2>1, <2>2, <2>3, <2>4 DEF Dict!IterNext
    <2> QED BY <2>5 DEF Dict!Next
<1>9. CASE ~(j < capacity)
    <2>1. j = capacity
        BY <1>1, <1>4, <1>9
    <2>2. {o \in Occupied : o <= j} = {o \in Occupied : o <= iterIndex}
        BY <1>1, <1>4, <2>1
    <2>3. Seen' = Seen /\ Seen = {buckets[i].key : i \in Occupied}
        <3>1. {o \in Occupied : o <= j} = Occupied
            BY <1>1, <1>4, <2>1
        <3> QED BY <1>5, <2>2, <3>1 DEF Told
    <2>4. Dict!Present = {buckets[i].key : i \in Occupied}
        <3>1. \A i \in Occupied : buckets[i].key \in Dict!Present
            BY <1>7, PresentIs
        <3>2. ASSUME NEW k \in Dict!Present PROVE \E i \in Occupied : k = buckets[i].key
            <4>1. k \in Key /\ ~Lacks(Visible, k)
                BY PresentIs DEF Dict!Present
            <4> QED BY <1>7, <4>1 DEF Lacks
        <3> QED BY <3>1, <3>2
    <2>5. Dict!Answer("iter_move_next", None, None, "FALSE")
        BY <1>1, <1>2, <1>9 DEF Dict!Answer
    <2>6. Dict!IterEnd
        BY <1>3, <2>3, <2>4, <2>5 DEF Dict!IterEnd
    <2> QED BY <2>6 DEF Dict!Next
<1> QED BY <1>8, <1>9

LEMMA ClientCallStep ==
    ASSUME IInv, KeyInv, Sight, Sight', ClientCall
    PROVE  Dict!Next
<1>1. CASE Clone \/ Free \/ Clear \/ \E v \in Value : ContainsValue(v)
    BY <1>1, CloneStep, FreeClearStep, ContainsValueStep
<1>2. CASE \E cap \in InitialCapacities, f \in HashFuncs : NewMap(cap, f)
    BY <1>2, NewMapStep
<1>3. CASE \E k \in Key, v \in Value : TryAdd(k, v)
    BY <1>3, TryAddStep
<1>4. CASE \E k \in Key, v \in Value : Set(k, v)
    <2>1. PICK k \in Key, v \in Value : StartLookup(Call("set", k, v))
        BY <1>4 DEF Set
    <2>2. Call("set", k, v).op \in Seekers /\ Call("set", k, v).key = k
        BY DEF Call, Seekers
    <2> QED BY <2>1, <2>2, StartLookupStep
<1>5. CASE \E k \in Key : TryGet(k) \/ ContainsKey(k) \/ Remove(k)
    <2>1. PICK k \in Key, op \in {"try_get", "contains_key", "remove"} :
              StartLookup(Call(op, k, None))
        BY <1>5 DEF TryGet, ContainsKey, Remove
    <2>2. Call(op, k, None).op \in Seekers /\ Call(op, k, None).key = k
        BY DEF Call, Seekers
    <2> QED BY <2>1, <2>2, StartLookupStep
<1>6. CASE \E wanted \in WantedCapacities : EnsureCapacity(wanted)
    <2> DEFINE c == Call("ensure_capacity", None, None)
    <2>1. PICK wanted : pc = "idle" /\ Resize(c, wanted)
        BY <1>6 DEF EnsureCapacity
    <2>2. c.op = "ensure_capacity" /\ c.key = None /\ c.value = None
        BY DEF Call
    <2> HIDE DEF c
    <2> QED BY <2>1, <2>2, ResizeStep
<1>7. CASE TrimExcess \/ IterStart \/ IterMoveNext
    BY <1>7, TrimExcessStep, IterStartStep, IterMoveNextStep
<1> QED BY <1>1, <1>2, <1>3, <1>4, <1>5, <1>6, <1>7 DEF ClientCall

LEMMA NothingHappens ==
    ASSUME Sight, Sight', UNCHANGED vars
    PROVE  UNCHANGED Dict!vars
<1>1. /\ pc' = pc /\ call' = call /\ carried' = carried /\ iterIndex' = iterIndex /\ last' = last
      /\ index' = index /\ oldBuckets' = oldBuckets /\ oldCapacity' = oldCapacity /\ next' = next
      /\ buckets' = buckets /\ capacity' = capacity
    BY DEF vars, table, locals
<1>2. Occupied' = Occupied /\ Held' = Held /\ OldLeft' = OldLeft /\ Placing' = Placing
    BY <1>1 DEF Occupied, Held, OldLeft, Placing
<1>3. InTable' = InTable /\ InOld' = InOld /\ InTransit' = InTransit
    BY <1>1, <1>2 DEF InTable, InOld, InTransit
<1>4. Visible' = Visible
    BY <1>1, <1>3 DEF Visible
<1>5. Pairs' = Pairs /\ Seen' = Seen
    BY <1>1, <1>2, <1>4, SamePairsSeen DEF Seen
<1> QED BY <1>1, <1>5 DEF Dict!vars

LEMMA DictStep ==
    IInv /\ KeyInv /\ Bare /\ Sight /\ Sight' /\ [Next]_vars => [Dict!Next]_(Dict!vars)
<1> SUFFICES ASSUME IInv, KeyInv, Bare, Sight, Sight', [Next]_vars
             PROVE  [Dict!Next]_(Dict!vars)
    OBVIOUS
<1>1. CASE ClientCall
    BY <1>1, ClientCallStep
<1>2. CASE ProbeMiss \/ ProbeHit \/ ProbeOn
    BY <1>2, ProbeMissStep, ProbeHitStep, ProbeOnStep
<1>3. CASE ShiftBack \/ ShiftEnd
    BY <1>3, ShiftStep
<1>4. CASE Reserve \/ NextOld \/ Allocate
    BY <1>4, ReserveStep, NextOldStep, AllocateStep
<1>5. CASE PlaceVacant \/ PlacePresent \/ PlaceOn
    BY <1>5, PlaceVacantStep, PlacePresentStep, PlaceOnStep
<1>6. CASE UNCHANGED vars
    BY <1>6, NothingHappens
<1> QED BY <1>1, <1>2, <1>3, <1>4, <1>5, <1>6 DEF Next, Work

\* Only a call that begins brings arguments with it.
LEMMA BareNext == Bare /\ [Next]_vars => Bare'
<1> SUFFICES ASSUME Bare, [Next]_vars PROVE Bare'
    OBVIOUS
<1>1. ASSUME NEW c, NEW v, NEW outcome, Answer(c, v, outcome) PROVE Bare'
    BY <1>1 DEF Answer, NoCall, Bare
<1>2. ASSUME NEW c, NEW label, Continue(c, label),
             c.op \in {"ensure_capacity", "trim_excess"} => c.key = None /\ c.value = None
      PROVE  Bare'
    BY <1>2 DEF Continue, Bare
<1>3. ASSUME call' = call PROVE Bare'
    BY <1>3 DEF Bare
<1>4. ASSUME NEW c, AfterResize(c) \/ OutOfMemory(c) \/ \E n : Reallocate(c, n),
             c.op \in {"ensure_capacity", "trim_excess"} => c.key = None /\ c.value = None
      PROVE  Bare'
    BY <1>1, <1>2, <1>4 DEF AfterResize, OutOfMemory, Reallocate, Return
<1>5. ASSUME NEW c, NEW wanted, Resize(c, wanted),
             c.op \in {"ensure_capacity", "trim_excess"} => c.key = None /\ c.value = None
      PROVE  Bare'
    BY <1>4, <1>5 DEF Resize
<1>6. ASSUME NEW c, Miss(c) PROVE Bare'
    BY <1>1, <1>2, <1>6 DEF Miss
<1>7. ASSUME NEW c, StartLookup(c), c.op \in Seekers PROVE Bare'
    <2>1. c.op \notin {"ensure_capacity", "trim_excess"}
        BY <1>7 DEF Seekers
    <2>2. CASE Miss(c)
        BY <1>6, <2>2
    <2>3. CASE Continue(c, "probe")
        BY <1>2, <2>1, <2>3
    <2> QED BY <1>7, <2>2, <2>3 DEF StartLookup
<1>8. \A k, v : /\ Call("set", k, v).op \in Seekers /\ Call("remove", k, v).op \in Seekers
                /\ Call("try_get", k, v).op \in Seekers /\ Call("contains_key", k, v).op \in Seekers
    BY DEF Call, Seekers
<1>9. ASSUME ClientCall PROVE Bare'
    <2>1. CASE \E k \in Key, v \in Value : Set(k, v)
        BY <1>7, <1>8, <2>1 DEF Set
    <2>2. CASE \E k \in Key : TryGet(k) \/ ContainsKey(k) \/ Remove(k)
        BY <1>7, <1>8, <2>2 DEF TryGet, ContainsKey, Remove
    <2>3. CASE \E k \in Key, v \in Value : TryAdd(k, v)
        BY <2>3 DEF TryAdd, Continue, Call, Bare
    <2>4. CASE \E wanted \in WantedCapacities : EnsureCapacity(wanted)
        <3>1. Call("ensure_capacity", None, None).key = None
              /\ Call("ensure_capacity", None, None).value = None
            BY DEF Call
        <3> QED BY <1>5, <2>4, <3>1 DEF EnsureCapacity
    <2>5. CASE TrimExcess
        <3>1. Call("trim_excess", None, None).key = None
              /\ Call("trim_excess", None, None).value = None
            BY DEF Call
        <3> QED BY <1>1, <1>4, <2>5, <3>1 DEF TrimExcess, Return
    <2>6. CASE Clone \/ Free \/ Clear \/ (\E v \in Value : ContainsValue(v))
               \/ \E cap \in InitialCapacities, f \in HashFuncs : NewMap(cap, f)
        <3>1. \E c, v, outcome : Answer(c, v, outcome)
            BY <2>6 DEF Clone, Free, Clear, ContainsValue, NewMap, Return, OutOfMemory
        <3> QED BY <1>1, <3>1
    <2>7. CASE IterStart \/ IterMoveNext
        BY <1>3, <2>7 DEF IterStart, IterMoveNext
    <2> QED BY <1>9, <2>1, <2>2, <2>3, <2>4, <2>5, <2>6, <2>7 DEF ClientCall
<1>10. ASSUME Work PROVE Bare'
    <2>1. call.op \in {"ensure_capacity", "trim_excess"} => call.key = None /\ call.value = None
        BY DEF Bare
    <2>2. CASE ProbeMiss
        BY <1>6, <2>2 DEF ProbeMiss
    <2>3. CASE ProbeHit \/ ProbeOn \/ ShiftBack \/ ShiftEnd
        <3>1. (\E c, v, outcome : Answer(c, v, outcome)) \/ call' = call
            BY <2>3 DEF ProbeHit, ProbeOn, ShiftBack, ShiftEnd, Return, Continue
        <3> QED BY <1>1, <1>3, <3>1
    <2>4. CASE Reserve
        <3>1. Resize(call, GrownCapacity) \/ call' = call
            BY <2>4 DEF Reserve, Continue
        <3> QED BY <1>3, <1>5, <2>1, <3>1
    <2>5. CASE NextOld
        <3>1. AfterResize(call) \/ call' = call
            BY <2>5 DEF NextOld, Continue
        <3> QED BY <1>3, <1>4, <2>1, <3>1
    <2>6. CASE Allocate
        <3>1. OutOfMemory(call) \/ call' = call
            BY <2>6 DEF Allocate, Continue
        <3> QED BY <1>3, <1>4, <2>1, <3>1
    <2>7. CASE PlaceVacant \/ PlacePresent \/ PlaceOn
        <3>1. (\E c, v, outcome : Answer(c, v, outcome)) \/ call' = call
            BY <2>7 DEF PlaceVacant, PlacePresent, PlaceOn, Return, Continue
        <3> QED BY <1>1, <1>3, <3>1
    <2> QED BY <1>10, <2>2, <2>3, <2>4, <2>5, <2>6, <2>7 DEF Work
<1>11. CASE UNCHANGED vars
    BY <1>3, <1>11 DEF vars
<1> QED BY <1>9, <1>10, <1>11 DEF Next

LEMMA DictInit == Init => Bare /\ Dict!Init
<1> SUFFICES ASSUME Init PROVE Bare /\ Dict!Init
    OBVIOUS
<1>1. /\ pc = "idle" /\ call = NoCall /\ iterIndex = NoIter /\ last = NoAnswer
      /\ capacity = 0 /\ count = 0
    BY DEF Init
<1>2. Bare
    BY <1>1 DEF Bare, NoCall
<1>3. Sight
    BY InitInv, InitKey, SightHolds
<1>4. Visible = {}
    BY <1>1, <1>3 DEF Sight, Occupied
<1>5. Pairs = [k \in Key |-> None]
    BY <1>3, <1>4, DenotesNothing DEF Sight
<1> QED BY <1>1, <1>2, <1>5 DEF Dict!Init, Seen, NoAnswer, Dict!NoAnswer

\* hash-map.h: an unordered collection of key-value pairs. Whatever is displaced, rehashed or
\* shifted back, and whichever allocation fails, every call answers as that of a dictionary does
\* and changes the pairs as that does; an iterator hands out every pair once.
THEOREM DictionaryCorrect == Spec => DictionarySpec
<1>1. Init => Bare /\ Dict!Init
    BY DictInit
<1>2. Bare /\ [Next]_vars => Bare'
    BY BareNext
<1>3. IInv /\ KeyInv => Sight
    BY SightHolds
<1>4. IInv /\ KeyInv /\ Bare /\ Sight /\ Sight' /\ [Next]_vars => [Dict!Next]_(Dict!vars)
    BY DictStep
<1> QED BY <1>1, <1>2, <1>3, <1>4, KeyInvariant, PTL DEF Spec, DictionarySpec, Dict!Spec

================================================================================
