------------------------------ MODULE ScuHashSet -------------------------------
(***************************************************************************)
(* The Robin Hood hash set of src/hash-set.c.  A call is one step: nothing *)
(* else runs while it does.  Its loops are recursive operators on a table, *)
(* a record of the fields of struct ScuHashSet that change.  Every         *)
(* allocation may fail.  A bucket that is not occupied is Vacant.          *)
(***************************************************************************)
EXTENDS Integers, FiniteSets, Functions

CONSTANTS
    Element,
    Vacant,             \* a bucket with isOccupied = false
    None,               \* no element, no set, no iterator
    Kinds,              \* what a client creates sets with: records of the elements of a type,
                        \* hashFunc, equalFunc (a set of pairs) and compareFunc (the function a
                        \* client sorts with)
    InitialCapacities,
    WantedCapacities    \* the capacities scu_hash_set_ensure_capacity is called with

ASSUME CapacitiesAssumption == InitialCapacities \subseteq Nat /\ WantedCapacities \subseteq Nat
ASSUME NoneAssumption == None \notin Element

\* Equality is an equivalence.  That equal elements have equal hashes is left to the functions:
\* SetSpec and MembersSort fail without it.
ASSUME KindsAssumption ==
    \A k \in Kinds :
        /\ k.elems \subseteq Element
        /\ \A a, b, c \in k.elems :
              /\ <<a, a>> \in k.equalFunc
              /\ <<a, b>> \in k.equalFunc => <<b, a>> \in k.equalFunc
              /\ {<<a, b>>, <<b, c>>} \subseteq k.equalFunc => <<a, c>> \in k.equalFunc

VARIABLES
    kind,               \* what the set was created with
    hashSet,            \* [capacity, count, buckets]; None without a set
    iterIndex,          \* ScuHashSetIter.index; NoIter when no iterator is valid
    reserved,           \* how many elements the client has made room for
    last                \* the last call, its element (given or handed out) and its outcome

vars == <<kind, hashSet, iterIndex, reserved, last>>

NoIter == -2

Bucket == [hash : Nat, elem : Element]
Cleared(n) == [capacity |-> n, count |-> 0, buckets |-> [j \in 0..(n - 1) |-> Vacant]]

--------------------------------------------------------------------------------
(* Sizes and positions *)

SCU_DEFAULT_CAPACITY == 8
SCU_MAX_LOAD_FACTOR_NUM == 9
SCU_MAX_LOAD_FACTOR_DEN == 10
SCU_GROWTH_FACTOR == 2

scu_next_power_of_two(n) ==
    IF n <= 1 THEN 1 ELSE CHOOSE p \in n..(2 * n - 1) : \E k \in 1..n : p = 2^k

\* The fewest buckets that hold n elements within the load factor.
MinCapacity(n) ==
    (n * SCU_MAX_LOAD_FACTOR_DEN + SCU_MAX_LOAD_FACTOR_NUM - 1) \div SCU_MAX_LOAD_FACTOR_NUM

\* Mutant: the load factor was lowered here, but not where the capacity is computed.
AtHalfLoad(t) == t.count * 2 >= t.capacity
AtMaxLoad(t) == t.count * SCU_MAX_LOAD_FACTOR_DEN >= t.capacity * SCU_MAX_LOAD_FACTOR_NUM

scu_ideal_index(hash, capacity) == hash % capacity
scu_wrap_index(index, capacity) == index % capacity
scu_probe_distance(hash, index, capacity) ==
    scu_wrap_index(index - scu_ideal_index(hash, capacity), capacity)

Distance(t, i) == scu_probe_distance(t.buckets[i].hash, i, t.capacity)
Same(k, b, c) == b.hash = c.hash /\ <<b.elem, c.elem>> \in k.equalFunc
BucketOf(k, e) == [hash |-> k.hashFunc[e], elem |-> e]

--------------------------------------------------------------------------------
(* The loops.  They are entered at the ideal index of a hash, at distance 0.   *)

\* The index of the bucket with an element equal to that of b, -1 if there is none.
RECURSIVE FindFrom(_, _, _, _, _)
FindFrom(k, t, b, index, distance) ==
    IF t.buckets[index] = Vacant THEN -1
    ELSE IF distance > Distance(t, index) THEN -1
    ELSE IF Same(k, t.buckets[index], b) THEN index
    ELSE FindFrom(k, t, b, scu_wrap_index(index + 1, t.capacity), distance + 1)

Find(k, t, e) ==
    IF t.count = 0 THEN -1
    ELSE LET b == BucketOf(k, e)
         IN  FindFrom(k, t, b, scu_ideal_index(b.hash, t.capacity), 0)

\* The table with b in it; the same table if checked and an equal element is met.
RECURSIVE PlaceFrom(_, _, _, _, _, _)
PlaceFrom(k, t, b, checked, index, distance) ==
    LET next == scu_wrap_index(index + 1, t.capacity)
    IN  IF t.buckets[index] = Vacant
        THEN [t EXCEPT !.count = @ + 1, !.buckets[index] = b]
        ELSE IF checked /\ Same(k, t.buckets[index], b) THEN t
        ELSE IF distance > Distance(t, index)
        THEN PlaceFrom(k, [t EXCEPT !.buckets[index] = b], t.buckets[index], checked, next,
                       Distance(t, index) + 1)
        ELSE PlaceFrom(k, t, b, checked, next, distance + 1)

\* Mutant: no element is displaced.
PlaceWithoutSwaps(k, t, b, checked) ==
    LET first == CHOOSE d \in 0..(t.capacity - 1) :
                    /\ t.buckets[(b.hash + d) % t.capacity] = Vacant
                    /\ \A c \in 0..(d - 1) : t.buckets[(b.hash + c) % t.capacity] # Vacant
    IN  IF checked /\ \E c \in 0..(t.capacity - 1) :
                         t.buckets[c] # Vacant /\ Same(k, t.buckets[c], b)
        THEN t
        ELSE [t EXCEPT !.count = @ + 1, !.buckets[(b.hash + first) % t.capacity] = b]

Place(k, t, b, checked) ==
    PlaceFrom(k, t, b, checked, scu_ideal_index(b.hash, t.capacity), 0)

RECURSIVE RehashFrom(_, _, _, _)
RehashFrom(k, t, old, i) ==
    IF i = old.capacity THEN t
    ELSE RehashFrom(k, IF old.buckets[i] = Vacant THEN t ELSE Place(k, t, old.buckets[i], FALSE),
                    old, i + 1)

\* Mutant: the count is not reset before the elements are counted again.
RehashKeepsCount(k, old, n) == RehashFrom(k, [Cleared(n) EXCEPT !.count = old.count], old, 0)
\* The elements of old in a table of n buckets.
scu_hash_set_rehash_buckets(k, old, n) == RehashFrom(k, Cleared(n), old, 0)

\* Mutant: the bucket is vacated, the chain behind it stays.
VacateFrom(t, index) == [t EXCEPT !.count = @ - 1, !.buckets[index] = Vacant]

\* The chain behind index moves back by a bucket, up to an element in its ideal place.
RECURSIVE ShiftBackFrom(_, _)
ShiftBackFrom(t, index) ==
    LET next == scu_wrap_index(index + 1, t.capacity)
    IN  IF t.buckets[next] = Vacant \/ Distance(t, next) = 0
        THEN [t EXCEPT !.count = @ - 1, !.buckets[index] = Vacant]
        ELSE ShiftBackFrom([t EXCEPT !.buckets[index] = t.buckets[next]], next)

RemoveAt(t, index) == ShiftBackFrom(t, index)

--------------------------------------------------------------------------------
(* Calls *)

Answer(op, e, outcome) == last' = [op |-> op, elem |-> e, outcome |-> outcome]

\* The call leaves the table t; iterators are no longer valid.
Leave(t) ==
    /\ hashSet' = t
    /\ iterIndex' = NoIter
    /\ UNCHANGED kind

OutOfMemory(op, e, t) ==
    /\ Leave(t)
    /\ UNCHANGED reserved
    /\ Answer(op, e, "OUT_OF_MEMORY")

\* The tables scu_hash_set_ensure_capacity may leave; None when it could not allocate.
Ensured(k, t, wanted) ==
    IF t.capacity >= MinCapacity(wanted) THEN {t}
    ELSE {None, scu_hash_set_rehash_buckets(k, t, scu_next_power_of_two(MinCapacity(wanted)))}

New(k, capacity) ==
    /\ hashSet = None
    /\ \/ /\ kind' = k
          /\ hashSet' = Cleared(IF capacity > 0 THEN scu_next_power_of_two(capacity) ELSE 0)
          /\ Answer("new", None, "NONE")
       \/ /\ UNCHANGED <<kind, hashSet>>
          /\ Answer("new", None, "OUT_OF_MEMORY")
    /\ iterIndex' = NoIter
    /\ reserved' = 0

\* The client goes on with the clone: the original is only read.
Clone ==
    /\ hashSet # None
    /\ \/ /\ Leave(hashSet)
          /\ Answer("clone", None, "NONE")
          /\ UNCHANGED reserved
       \/ OutOfMemory("clone", None, hashSet)

EnsureCapacity(wanted) ==
    /\ hashSet # None
    /\ \E t \in Ensured(kind, hashSet, wanted) :
          \/ /\ t # None
             /\ Leave(t)
             /\ reserved' = IF wanted > reserved THEN wanted ELSE reserved
             /\ Answer("ensure_capacity", None, "NONE")
          \/ /\ t = None
             /\ OutOfMemory("ensure_capacity", None, hashSet)

\* scu_hash_set_add and scu_hash_set_try_add.  The table grows before the element is looked
\* for; then tempBucket is allocated.
TryAdd(e) ==
    /\ hashSet # None
    /\ \E t \in IF ~AtMaxLoad(hashSet) THEN {hashSet}
                ELSE Ensured(kind, hashSet, IF hashSet.capacity = 0 THEN SCU_DEFAULT_CAPACITY
                                            ELSE hashSet.capacity * SCU_GROWTH_FACTOR) :
          \/ /\ t = None
             /\ OutOfMemory("try_add", e, hashSet)
          \/ /\ t # None
             /\ \/ OutOfMemory("try_add", e, t)
                \/ LET placed == Place(kind, t, BucketOf(kind, e), TRUE)
                   IN  /\ Leave(placed)
                       /\ UNCHANGED reserved
                       /\ Answer("try_add", e, IF placed.count = t.count
                                               THEN "ALREADY_PRESENT" ELSE "NONE")

Contains(e) ==
    /\ hashSet # None
    /\ Answer("contains", e, IF Find(kind, hashSet, e) # -1 THEN "TRUE" ELSE "FALSE")
    /\ UNCHANGED <<kind, hashSet, iterIndex, reserved>>

Remove(e) ==
    /\ hashSet # None
    /\ LET index == Find(kind, hashSet, e)
       IN  /\ Leave(IF index = -1 THEN hashSet ELSE RemoveAt(hashSet, index))
           /\ Answer("remove", e, IF index # -1 THEN "TRUE" ELSE "FALSE")
    /\ UNCHANGED reserved

Clear ==
    /\ hashSet # None
    /\ Leave(IF hashSet.count > 0 THEN Cleared(hashSet.capacity) ELSE hashSet)
    /\ Answer("clear", None, "NONE")
    /\ UNCHANGED reserved

TrimExcess ==
    LET n == scu_next_power_of_two(MinCapacity(hashSet.count))
    IN  /\ hashSet # None
        /\ \/ /\ Leave(IF hashSet.count = 0 THEN Cleared(0)
                       ELSE IF hashSet.capacity <= n THEN hashSet
                       ELSE scu_hash_set_rehash_buckets(kind, hashSet, n))
              /\ Answer("trim_excess", None, "NONE")
              /\ reserved' = hashSet.count
           \/ /\ hashSet.count > 0 /\ hashSet.capacity > n
              /\ OutOfMemory("trim_excess", None, hashSet)

Free ==
    /\ hashSet # None
    /\ Leave(None)
    /\ Answer("free", None, "NONE")
    /\ reserved' = 0

\* scu_hash_set_iter and scu_hash_set_iter_reset.
IterStart ==
    /\ hashSet # None
    /\ iterIndex' = -1
    /\ Answer("iter", None, "NONE")
    /\ UNCHANGED <<kind, hashSet, reserved>>

\* One turn of SCU_HASH_SET_FOREACH: move_next, and current when it returned true.
IterMoveNext ==
    /\ hashSet # None
    /\ iterIndex # NoIter
    /\ LET n == hashSet.capacity
           j == IF hashSet.count = 0 THEN n
                ELSE CHOOSE i \in (iterIndex + 1)..(n + 1) :
                        /\ i < n => hashSet.buckets[i] # Vacant
                        /\ \A h \in (iterIndex + 1)..(i - 1) : h < n => hashSet.buckets[h] = Vacant
       IN  \/ /\ j < n
              /\ iterIndex' = j
              /\ Answer("iter_move_next", hashSet.buckets[j].elem, "TRUE")
           \/ /\ j >= n
              /\ iterIndex' = n
              /\ Answer("iter_move_next", None, "FALSE")
    /\ UNCHANGED <<kind, hashSet, reserved>>

--------------------------------------------------------------------------------
(* The specification *)

Init ==
    /\ kind \in Kinds
    /\ hashSet = None
    /\ iterIndex = NoIter
    /\ reserved = 0
    /\ last = [op |-> "free", elem |-> None, outcome |-> "NONE"]

Next ==
    \/ \E k \in Kinds, capacity \in InitialCapacities : New(k, capacity)
    \/ \E e \in kind.elems : TryAdd(e) \/ Contains(e) \/ Remove(e)
    \/ \E wanted \in WantedCapacities : EnsureCapacity(wanted)
    \/ Clone \/ Clear \/ TrimExcess \/ Free
    \/ IterStart \/ IterMoveNext

Spec == Init /\ [][Next]_vars

--------------------------------------------------------------------------------
(* Properties *)

Occupied == IF hashSet = None THEN {}
            ELSE {j \in DOMAIN hashSet.buckets : hashSet.buckets[j] # Vacant}

\* The types of the fields of struct ScuHashSet; count is the number of occupied buckets, and
\* the number of buckets is a power of two or zero, which the masks rely on.
TypeOK ==
    /\ kind \in Kinds
    /\ hashSet # None =>
          /\ hashSet.capacity = 0 \/ hashSet.capacity = scu_next_power_of_two(hashSet.capacity)
          /\ hashSet.count = Cardinality(Occupied)
          /\ hashSet.buckets \in [0..(hashSet.capacity - 1) -> Bucket \cup {Vacant}]
          /\ iterIndex \in {NoIter} \cup (-1..hashSet.capacity)
    /\ reserved \in Nat
    /\ last.elem \in Element \cup {None}

Members == {hashSet.buckets[j].elem : j \in Occupied}

ASet == INSTANCE ElementSet WITH
    members <- Members,
    seen <- IF iterIndex = NoIter THEN None
            ELSE {hashSet.buckets[j].elem : j \in {i \in Occupied : i <= iterIndex}}

\* hash-set.h calls the set a collection of elements: whatever is displaced, rehashed or
\* shifted, and whichever allocation fails, the calls do what those of a set do.
SetSpec == ASet!Spec

\* Which buckets are occupied, and by elements of which ideal index, does not depend on the
\* history of the set: removals, growth and trims leave the layout that adding the elements
\* to an empty table in any order does.  Probes are never longer than in a fresh table.
HistoryIndependent ==
    LET Layout(t) == [j \in DOMAIN t.buckets |->
                        IF t.buckets[j] = Vacant THEN -1
                        ELSE scu_ideal_index(t.buckets[j].hash, t.capacity)]
        Fresh(order) == FoldFunctionOnSet(LAMBDA b, t : Place(kind, t, b, FALSE),
                                          Cleared(hashSet.capacity), order, DOMAIN order)
    IN  hashSet # None =>
            \A order \in Bijection(Occupied, Occupied) :
                Layout(hashSet) = Layout(Fresh([j \in Occupied |-> hashSet.buckets[order[j]]]))

\* scu_hash_set_ensure_capacity(n): up to n elements are added without another growth, the
\* iterators' and pointers' only guarantee.  Nothing is claimed of new_with_capacity(n), which
\* makes buckets for n elements without regard to the load factor.
ReserveHolds ==
    [][/\ hashSet # None /\ hashSet' # None
       /\ hashSet.count < reserved
       /\ last'.op = "try_add"
       => hashSet'.capacity = hashSet.capacity]_vars

\* No two elements of a set compare as equal, and its elements can be sorted: the comparison
\* function of a type is a total order that agrees with its equality and hash functions, and
\* the reverse function is its mirror.
MembersSort ==
    \A a, b \in Members :
        LET cmp == kind.compareFunc
        IN  /\ cmp.order[a, b] = 0 <=> a = b
            /\ cmp.order[a, b] = -cmp.order[b, a]
            /\ cmp.reverse[a, b] = cmp.order[b, a]
            /\ \A c \in Members : cmp.order[a, b] < 0 /\ cmp.order[b, c] < 0 => cmp.order[a, c] < 0
================================================================================
