------------------------------- MODULE ScuString -------------------------------
(***************************************************************************)
(* The functions of src/string.c, and those of src/memory.c they are built *)
(* on.  A block of memory is a sequence of bytes, an index into it counts  *)
(* from 0 as in C, and -1 stands for "not found" and for a null pointer.   *)
(* A string is a block with a NUL in it; what is behind the NUL is there,  *)
(* but no function may look at it.                                         *)
(***************************************************************************)
EXTENDS Integers, Sequences, FiniteSetsExt

Nul == 0

At(block, i) == block[i + 1]
\* The pointer block + i.
From(block, i) == SubSeq(block, i + 1, Len(block))
Take(block, n) == SubSeq(block, 1, n)
\* The string with the given bytes.
Terminated(bytes) == bytes \o <<Nul>>

FirstOf(S) == IF S = {} THEN -1 ELSE Min(S)
LastOf(S) == IF S = {} THEN -1 ELSE Max(S)
Sign(n) == IF n < 0 THEN -1 ELSE IF n > 0 THEN 1 ELSE 0

--------------------------------------------------------------------------------
(* Memory *)

\* Indexes below count that lie in the block: a search that has found what it looks for
\* reads no further, so that count may exceed the block.
Within(block, count) == {i \in 0..(count - 1) : i < Len(block)}

scu_memchr(block, c, count) == FirstOf({i \in Within(block, count) : At(block, i) = c})
scu_memrchr(block, c, count) == LastOf({i \in 0..(count - 1) : At(block, i) = c})

scu_memcmp(left, right, count) ==
    LET i == FirstOf({j \in 0..(count - 1) : At(left, j) # At(right, j)})
    IN  IF i = -1 THEN 0 ELSE Sign(At(left, i) - At(right, i))

\* dest after n bytes of src have been copied to dest + offset.
scu_memcpy(dest, offset, src, n) ==
    [j \in DOMAIN dest |-> IF j - offset \in 1..n THEN src[j - offset] ELSE dest[j]]

\* Both blocks after scu_memswap.
scu_memswap(left, right, count) ==
    <<scu_memcpy(left, 0, right, count), scu_memcpy(right, 0, left, count)>>

\* dest after scu_memccpy to dest + offset, and the index behind the copied c in dest.
scu_memccpy(dest, offset, src, c, count) ==
    LET i == scu_memchr(src, c, count)
    IN  [dest |-> scu_memcpy(dest, offset, src, IF i = -1 THEN count ELSE i + 1),
         p    |-> IF i = -1 THEN -1 ELSE offset + i + 1]

--------------------------------------------------------------------------------
(* Lengths and comparison *)

scu_strlen(s) == FirstOf({i \in Within(s, Len(s)) : At(s, i) = Nul})

scu_strnlen(s, count) ==
    LET p == scu_memchr(s, Nul, count) IN IF p = -1 THEN count ELSE p

\* Mutant: the comparison stops in front of the NUL.
CompareToTheShorter(left, right, count) ==
    scu_memcmp(left, right, Min({count, scu_strlen(left), scu_strlen(right)}))
\* The strings are compared up to the first NUL of either.
scu_strncmp(left, right, count) ==
    scu_memcmp(left, right, Min({count, scu_strlen(left) + 1, scu_strlen(right) + 1}))

scu_strcmp(left, right) == scu_strncmp(left, right, Len(left) + Len(right))

--------------------------------------------------------------------------------
(* Searches *)

\* The indexes of the bytes of s.
Indexes(s) == 0..(scu_strlen(s) - 1)
Occurs(s, bytes) == {i \in Indexes(s) : At(s, i) \in bytes}
BytesOf(s) == {At(s, i) : i \in Indexes(s)}

scu_str_index_of_byte(s, c) == IF c = Nul THEN -1 ELSE FirstOf(Occurs(s, {c}))
scu_str_last_index_of_byte(s, c) == IF c = Nul THEN -1 ELSE LastOf(Occurs(s, {c}))

scu_str_index_of_str(s, other) ==
    FirstOf({i \in 0..(scu_strlen(s) - scu_strlen(other)) :
                scu_memcmp(From(s, i), other, scu_strlen(other)) = 0})

\* Mutant: the search starts a byte too early.
LastIndexOfStrOffByOne(s, other) ==
    LET length == scu_strlen(s)
        otherLength == scu_strlen(other)
    IN  IF otherLength = 0 THEN length
        ELSE LastOf({i \in 0..(length - otherLength - 1) :
                        scu_strncmp(From(s, i), other, otherLength) = 0})

\* The loop runs from the last place where other fits down to 0.
scu_str_last_index_of_str(s, other) ==
    LET length == scu_strlen(s)
        otherLength == scu_strlen(other)
    IN  IF otherLength = 0 THEN length
        ELSE LastOf({i \in 0..(length - otherLength) :
                        scu_strncmp(From(s, i), other, otherLength) = 0})

scu_str_index_of_any(s, anyOf) ==
    IF At(anyOf, 0) = Nul THEN -1 ELSE FirstOf(Occurs(s, BytesOf(anyOf)))
\* strchr(anyOf, s[i]) would also find the NUL of anyOf, but no s[i] is one.
scu_str_last_index_of_any(s, anyOf) ==
    IF At(anyOf, 0) = Nul THEN -1
    ELSE LastOf({i \in Indexes(s) : At(s, i) \in BytesOf(anyOf) \cup {Nul}})

scu_str_index_in_range(s, low, high) == FirstOf(Occurs(s, low..high))
scu_str_last_index_in_range(s, low, high) == LastOf(Occurs(s, low..high))

scu_str_starts_with_byte(s, c) == At(s, 0) # Nul /\ At(s, 0) = c
scu_str_ends_with_byte(s, c) == scu_strlen(s) > 0 /\ At(s, scu_strlen(s) - 1) = c

\* The loop stops at the first i where prefix ends or differs from s; s has ended there at
\* the latest, because its NUL differs from every byte of prefix.
scu_str_starts_with_str(s, prefix) ==
    LET i == Min({j \in 0..Min({scu_strlen(s), scu_strlen(prefix)}) :
                     At(prefix, j) = Nul \/ At(s, j) # At(prefix, j)})
    IN  At(prefix, i) = Nul

scu_str_ends_with_str(s, suffix) ==
    LET length == scu_strlen(s)
        suffixLength == scu_strlen(suffix)
    IN  \/ suffixLength = 0
        \/ /\ suffixLength <= length
           /\ scu_strncmp(From(s, length - suffixLength), suffix, suffixLength) = 0

--------------------------------------------------------------------------------
(* Copies: the allocated copies, and dest with the number returned for the bounded ones *)

scu_strdup(src) == Terminated(Take(src, scu_strlen(src)))
scu_strndup(src, count) == Terminated(Take(src, scu_strnlen(src, count)))

scu_strncpy(dest, size, src, count) ==
    LET n == Min({size - 1, count})
        copied == scu_memccpy(dest, 0, src, Nul, n)
    IN  IF size = 0 THEN [dest |-> dest, result |-> 0]
        ELSE IF copied.p = -1 \/ n = 0
             THEN [dest |-> [copied.dest EXCEPT ![n + 1] = Nul], result |-> n]
        ELSE [dest |-> copied.dest, result |-> copied.p - 1]

scu_strncat(dest, size, src, count) ==
    LET length == scu_strlen(dest)
        n == Min({size - length - 1, count})
        copied == scu_memccpy(dest, length, src, Nul, n)
    IN  IF size = 0 \/ count = 0 \/ n = 0 THEN [dest |-> dest, result |-> 0]
        ELSE IF copied.p = -1
             THEN [dest |-> [copied.dest EXCEPT ![length + n + 1] = Nul], result |-> n]
        ELSE [dest |-> copied.dest, result |-> copied.p + length - 1]
================================================================================
