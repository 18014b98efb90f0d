------------------------------- MODULE ScuValues -------------------------------
(***************************************************************************)
(* The hash, equality and comparison functions of src/hash.c, src/equal.c  *)
(* and src/compare.c.  A value is what its memory holds: the bits of a     *)
(* number, or the address of a string.  What the bits denote depends on    *)
(* the type: [signed, width], both scaled down; so are the constants of    *)
(* the hashes, which keep their low UsizeWidth bits.                       *)
(***************************************************************************)
EXTENDS ScuString, Bitwise

LOCAL INSTANCE SequencesExt

CONSTANTS
    UsizeWidth,     \* the bits of a usize
    StringAt        \* the string at every address: bytes without the terminating NUL

ASSUME WidthAssumption == UsizeWidth \in Nat \ {0}

Wrapped(n) == n % 2^UsizeWidth

--------------------------------------------------------------------------------
(* What the bits denote *)

Patterns(t) == 0..(2^t.width - 1)

IntegerValue(t, bits) ==
    IF t.signed /\ bits >= 2^(t.width - 1) THEN bits - 2^t.width ELSE bits

\* A sign bit and a magnitude; larger exponents and mantissas are larger bits.  Two
\* patterns denote zero.  The callers exclude NaNs.
FloatValue(t, bits) ==
    IF bits >= 2^(t.width - 1) THEN -(bits - 2^(t.width - 1)) ELSE bits

--------------------------------------------------------------------------------
(* Equality and order *)

\* The body of every comparison function; rev: that of its _rev function.
Ordered(rev, l, r) ==
    IF l = r THEN 0
    ELSE IF (l < r /\ ~rev) \/ (l > r /\ rev) THEN -1 ELSE 1

scu_equal_integer(t, a, b) == IntegerValue(t, a) = IntegerValue(t, b)
scu_equal_float(t, a, b) == FloatValue(t, a) = FloatValue(t, b)
scu_equal_str(a, b) == scu_strcmp(Terminated(StringAt[a]), Terminated(StringAt[b])) = 0

scu_compare_integer(rev, t, a, b) == Ordered(rev, IntegerValue(t, a), IntegerValue(t, b))
scu_compare_float(rev, t, a, b) == Ordered(rev, FloatValue(t, a), FloatValue(t, b))
scu_compare_str(rev, a, b) ==
    Ordered(rev, scu_strcmp(Terminated(StringAt[a]), Terminated(StringAt[b])), 0)

--------------------------------------------------------------------------------
(* Hashes *)

SCU_FNV_OFFSET_BASIS == 37                                  \* 0x..25
SCU_FNV_PRIME == 179                                        \* 0x..B3
SCU_HASH_MULTIPLIER == 21                                   \* 0x..15
Shifted(v, n) == shiftR(v, (n * UsizeWidth) \div 64)

\* The bits of v, mixed so that no two values of usize get the same.
scu_hash_mix_usize(v) ==
    LET v1 == Wrapped((v ^^ Shifted(v, 30)) * 185)          \* 0x..B9
        v2 == Wrapped((v1 ^^ Shifted(v1, 27)) * 235)        \* 0x..EB
    IN  v2 ^^ Shifted(v2, 31)

scu_hash_combine(seed, hash) ==
    seed ^^ Wrapped(hash + SCU_HASH_MULTIPLIER + seed * 2^6 + shiftR(seed, 2))

\* A value wider than usize, an i64 on a 32-bit platform, is hashed in halves.
scu_hash_mix(t, v) ==
    IF t.width <= UsizeWidth THEN scu_hash_mix_usize(v)
    ELSE scu_hash_combine(scu_hash_mix_usize(Wrapped(v)),
                          scu_hash_mix_usize(v \div 2^UsizeWidth))

\* Signed values are cast to the unsigned type of their own width.
scu_hash_integer(t, bits) == scu_hash_mix(t, bits)

\* Mutant: the sign of a zero is hashed.
HashFloatBits(t, bits) == scu_hash_mix(t, bits)
\* A negative zero is hashed as a positive one.
scu_hash_float(t, bits) == scu_hash_mix(t, IF FloatValue(t, bits) = 0 THEN 0 ELSE bits)

\* FNV-1a over the bytes; a string is hashed up to its NUL.
scu_hash_bytes(bytes) ==
    FoldLeft(LAMBDA v, b : Wrapped((v ^^ b) * SCU_FNV_PRIME), Wrapped(SCU_FNV_OFFSET_BASIS), bytes)
scu_hash_str(address) == scu_hash_bytes(StringAt[address])
================================================================================
