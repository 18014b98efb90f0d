----------------------------- MODULE MCScuHashSet ------------------------------
(***************************************************************************)
(* A small instance of ScuHashSet.  Its sets are created with the          *)
(* functions of ScuValues for small types, and with two made-up hash       *)
(* functions that collide the way no small type does.                      *)
(***************************************************************************)
EXTENDS ScuHashSet, ScuValues

MCUsizeWidth == 4

Signed == [signed |-> TRUE, width |-> 3]
Float == [signed |-> TRUE, width |-> 4]
\* An i64 on a platform with 32-bit words.
Wide == [signed |-> TRUE, width |-> 8]

\* Addresses; two of them hold the same text, and one the empty string.
MCStringAt == <<<<1, 2>>, <<1>>, <<1, 2>>, <<>>>>

\* The functions of a type with the given elements.
KindOf(elems, Hash(_), Equal(_, _), Compare(_, _), CompareRev(_, _)) ==
    [elems       |-> elems,
     hashFunc    |-> [e \in elems |-> Hash(e)],
     equalFunc   |-> {p \in elems \X elems : Equal(p[1], p[2])},
     compareFunc |-> [order   |-> [p \in elems \X elems |-> Compare(p[1], p[2])],
                      reverse |-> [p \in elems \X elems |-> CompareRev(p[1], p[2])]]]

IntegerKind(t, elems) ==
    KindOf(elems, LAMBDA e : scu_hash_integer(t, e),
           LAMBDA a, b : scu_equal_integer(t, a, b),
           LAMBDA a, b : scu_compare_integer(FALSE, t, a, b),
           LAMBDA a, b : scu_compare_integer(TRUE, t, a, b))

\* Both zeros and numbers of either sign.
FloatKind ==
    KindOf({0, 1, 8, 11}, LAMBDA e : scu_hash_float(Float, e),
           LAMBDA a, b : scu_equal_float(Float, a, b),
           LAMBDA a, b : scu_compare_float(FALSE, Float, a, b),
           LAMBDA a, b : scu_compare_float(TRUE, Float, a, b))

StringKind ==
    KindOf(DOMAIN StringAt, scu_hash_str, scu_equal_str,
           LAMBDA a, b : scu_compare_str(FALSE, a, b),
           LAMBDA a, b : scu_compare_str(TRUE, a, b))

\* The hash function of the client.
HashedAs(hashes) ==
    LET t == [signed |-> FALSE, width |-> 4]
    IN  [IntegerKind(t, 1..Len(hashes)) EXCEPT !.hashFunc = hashes]

MCKinds ==
    {IntegerKind(Signed, {0, 3, 4, 7}),
     IntegerKind(Wide, {0, 17, 128, 255}),
     FloatKind,
     StringKind,
     HashedAs(<<7, 7, 0, 7>>),          \* a chain that runs into another over the end
     HashedAs(<<3, 11, 19, 2>>)}        \* collisions in small tables only

MCElement == UNION {k.elems : k \in MCKinds}
MCInitialCapacities == {0, 1, 3}
MCWantedCapacities == {0, 4}

\* Buckets reserved for n elements are below the maximum load until all n are in, in tables of
\* up to 32 buckets too, far larger than those of the sets above.
ASSUME ReserveIsRoom ==
    \A n \in 1..27 :
        (n - 1) * SCU_MAX_LOAD_FACTOR_DEN
            < scu_next_power_of_two(MinCapacity(n)) * SCU_MAX_LOAD_FACTOR_NUM
================================================================================
