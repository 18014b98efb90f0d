----------------------------- MODULE ScuListProofs -----------------------------
(***************************************************************************)
(* Theorems about ScuList for every number of lists and blocks, every set  *)
(* of elements, every set of initial capacities and every bound.           *)
(***************************************************************************)
EXTENDS ScuList, SequenceTheorems, TLAPS

\* PointersRight is what keeps a change of one block from changing two lists, or a block
\* that is handed out from being in use: neither conjunct is inductive alone.
IInv == TypeOK /\ PointersRight

--------------------------------------------------------------------------------
(* Blocks *)

\* The types of one header and its elements.
ListType(cap, n, d) ==
    /\ cap \in Nat
    /\ n \in 0..cap
    /\ d \in [0..(cap - 1) -> Cell]
    /\ \A i \in 0..(n - 1) : d[i] \in Elem

LEMMA ListHasType ==
    ASSUME IInv, NEW h \in Handle, list[h] # Nullptr
    PROVE  list[h] \in Block /\ list[h] \in live /\ ListType(Capacity(h), Count(h), Data(h))
BY DEF IInv, TypeOK, PointersRight, ListType, Capacity, Count, Data

\* GrownCapacities only holds capacities with the room asked for.
LEMMA GrownEnough ==
    ASSUME NEW cap \in Nat, NEW wanted \in Nat, NEW n \in GrownCapacities(cap, wanted)
    PROVE  n \in Nat /\ n >= wanted
BY DEF GrownCapacities

\* A reallocated array with room for the elements holds them.
LEMMA ResizedKeeps ==
    ASSUME IInv, NEW h \in Handle, list[h] # Nullptr, NEW n \in Nat, n >= Count(h)
    PROVE  /\ ListType(n, Count(h), Resized(h, n))
           /\ \A i \in 0..(Count(h) - 1) : Resized(h, n)[i] = Data(h)[i]
<1>1. ListType(Capacity(h), Count(h), Data(h))
    BY ListHasType
<1>2. QED BY <1>1 DEF ListType, Resized, Cell

\* An element is put into an array with room for it, the ones behind it move up.
LEMMA InsertedType ==
    ASSUME NEW h \in Handle, NEW i \in Nat, i <= Count(h), NEW e \in Elem, NEW cap, NEW d,
           ListType(cap, Count(h), d), cap >= Count(h) + 1
    PROVE  /\ ListType(cap, Count(h) + 1, Inserted(h, i, e, d))
           /\ \A j \in 0..Count(h) :
                 Inserted(h, i, e, d)[j] = IF j < i THEN d[j] ELSE IF j = i THEN e ELSE d[j - 1]
<1> DEFINE n == Count(h)
           moved == MovedUp(d, i, n)
<1>1. /\ cap \in Nat /\ n \in Nat /\ n + 1 <= cap /\ d \in [0..(cap - 1) -> Cell]
      /\ \A j \in 0..(n - 1) : d[j] \in Elem
    BY DEF ListType
<1>2. /\ moved \in [0..(cap - 1) -> Cell]
      /\ \A j \in 0..(cap - 1) : moved[j] = IF i < j /\ j <= n THEN d[j - 1] ELSE d[j]
    <2> HIDE DEF n
    <2> QED BY <1>1 DEF MovedUp
<1>3. Inserted(h, i, e, d) = [moved EXCEPT ![i] = e]
    BY DEF Inserted
<1> HIDE DEF n, moved
<1>4. Inserted(h, i, e, d) \in [0..(cap - 1) -> Cell]
    BY <1>1, <1>2, <1>3 DEF Cell
<1>5. \A j \in 0..n :
         Inserted(h, i, e, d)[j] = IF j < i THEN d[j] ELSE IF j = i THEN e ELSE d[j - 1]
    BY <1>1, <1>2, <1>3 DEF n
<1>6. \A j \in 0..n : Inserted(h, i, e, d)[j] \in Elem
    BY <1>1, <1>5 DEF n
<1>7. QED BY <1>1, <1>4, <1>5, <1>6 DEF ListType, n

\* The elements behind the one that is removed move down.
LEMMA MovedDownType ==
    ASSUME NEW cap, NEW n, NEW d, ListType(cap, n, d), NEW i \in Nat, i < n
    PROVE  /\ ListType(cap, n - 1, MovedDown(d, i + 1, n))
           /\ \A j \in 0..(n - 2) :
                 MovedDown(d, i + 1, n)[j] = IF j < i THEN d[j] ELSE d[j + 1]
<1>1. /\ cap \in Nat /\ n \in 1..cap /\ d \in [0..(cap - 1) -> Cell]
      /\ \A j \in 0..(n - 1) : d[j] \in Elem
    BY DEF ListType
<1>2. /\ MovedDown(d, i + 1, n) \in [0..(cap - 1) -> Cell]
      /\ \A j \in 0..(cap - 1) :
            MovedDown(d, i + 1, n)[j] = IF i <= j /\ j < n - 1 THEN d[j + 1] ELSE d[j]
    BY <1>1 DEF MovedDown
<1>3. \A j \in 0..(n - 2) : MovedDown(d, i + 1, n)[j] = IF j < i THEN d[j] ELSE d[j + 1]
    BY <1>1, <1>2
<1>4. \A j \in 0..(n - 2) : MovedDown(d, i + 1, n)[j] \in Elem
    BY <1>1, <1>3
<1>5. QED BY <1>1, <1>2, <1>3, <1>4 DEF ListType

\* The sorted array: the elements in use are permuted.
SortedData(n, d, p) == [j \in DOMAIN d |-> IF j \in 0..(n - 1) THEN d[p[j]] ELSE d[j]]

LEMMA SortedType ==
    ASSUME NEW cap, NEW n, NEW d, ListType(cap, n, d), NEW p \in [0..(n - 1) -> 0..(n - 1)]
    PROVE  /\ ListType(cap, n, SortedData(n, d, p))
           /\ \A j \in 0..(n - 1) : SortedData(n, d, p)[j] = d[p[j]]
BY DEF ListType, SortedData, Cell

--------------------------------------------------------------------------------
(* The invariant *)

LEMMA NothingKeeps ==
    ASSUME IInv, UNCHANGED <<list, live, memory>>
    PROVE  IInv'
BY DEF IInv, TypeOK, PointersRight

LEMMA SetListKeeps ==
    ASSUME IInv, NEW h \in Handle, list[h] # Nullptr, NEW op, NEW cap, NEW n, NEW d,
           ListType(cap, n, d), SetList(h, op, cap, n, d)
    PROVE  IInv'
<1>1. PointersRight'
    BY DEF IInv, PointersRight, SetList
<1>2. TypeOK'
    <2>1. /\ list[h] \in Block /\ list' = list /\ live' = live
          /\ memory' = [memory EXCEPT ![list[h]] = [capacity |-> cap, count |-> n, data |-> d]]
        BY ListHasType DEF SetList
    <2> QED BY <2>1 DEF IInv, TypeOK, ListType
<1>3. QED BY <1>1, <1>2 DEF IInv

LEMMA ReallocateKeeps ==
    ASSUME IInv, NEW h \in Handle, list[h] # Nullptr, NEW op, NEW cap, NEW n, NEW d,
           ListType(cap, n, d), Reallocate(h, op, cap, n, d)
    PROVE  IInv'
<1>1. PICK b \in (Block \ live) \cup {list[h]} :
          /\ list' = [list EXCEPT ![h] = b]
          /\ live' = (live \ {list[h]}) \cup {b}
          /\ memory' = [memory EXCEPT ![list[h]] = Unused,
                                      ![b] = [capacity |-> cap, count |-> n, data |-> d]]
    BY DEF Reallocate, Assign
<1>2. list[h] \in Block /\ b \in Block
    BY <1>1, ListHasType
<1>3. TypeOK'
    <2>1. Unused.capacity = 0 /\ Unused.count = 0 /\ Unused.data \in [0..-1 -> Cell]
        BY DEF Unused, Cell
    <2> QED BY <1>1, <1>2, <2>1 DEF IInv, TypeOK, ListType
<1>4. PointersRight'
    BY <1>1, <1>2, NullptrAssumption DEF IInv, TypeOK, PointersRight
<1>5. QED BY <1>3, <1>4 DEF IInv

LEMMA AllocateKeeps ==
    ASSUME IInv, NEW h \in Handle, NEW op, NEW cap, NEW n, NEW d,
           ListType(cap, n, d), Allocate(h, op, cap, n, d)
    PROVE  IInv'
<1>1. CASE NothingChanges(op, "OUT_OF_MEMORY")
    BY <1>1, NothingKeeps DEF NothingChanges
<1>2. CASE ~NothingChanges(op, "OUT_OF_MEMORY")
    <2>1. PICK b \in Block \ live :
              /\ list' = [list EXCEPT ![h] = b]
              /\ live' = live \cup {b}
              /\ memory' = [memory EXCEPT ![b] = [capacity |-> cap, count |-> n, data |-> d]]
        BY <1>2 DEF Allocate
    <2>2. TypeOK'
        BY <2>1 DEF IInv, TypeOK, ListType
    <2>3. list[h] = Nullptr
        BY DEF Allocate
    <2>4. PointersRight'
        BY <2>1, <2>3, NullptrAssumption DEF IInv, TypeOK, PointersRight
    <2> QED BY <2>2, <2>4 DEF IInv
<1>3. QED BY <1>1, <1>2

LEMMA FreeKeeps ==
    ASSUME IInv, NEW h \in Handle, Free(h)
    PROVE  IInv'
<1>1. TypeOK'
    <2>1. Unused.capacity = 0 /\ Unused.count = 0 /\ Unused.data \in [0..-1 -> Cell]
        BY DEF Unused, Cell
    <2> QED BY <2>1 DEF IInv, TypeOK, Free
<1>2. PointersRight'
    BY NullptrAssumption DEF IInv, TypeOK, PointersRight, Free
<1>3. QED BY <1>1, <1>2 DEF IInv

LEMMA PutAtKeeps ==
    ASSUME IInv, NEW h \in Handle, list[h] # Nullptr, NEW op, NEW e \in Elem,
           NEW i \in Nat, i <= Count(h), PutAt(h, op, i, e)
    PROVE  IInv'
<1>1. ListType(Capacity(h), Count(h), Data(h))
    BY ListHasType
<1>2. Capacity(h) \in Nat /\ Count(h) \in Nat
    BY <1>1 DEF ListType
<1>3. CASE Capacity(h) >= Count(h) + 1 /\ SetList(h, op, Capacity(h), Count(h) + 1,
                                                 Inserted(h, i, e, Data(h)))
    <2>1. ListType(Capacity(h), Count(h) + 1, Inserted(h, i, e, Data(h)))
        BY <1>1, <1>3, InsertedType
    <2> QED BY <1>3, <2>1, SetListKeeps
<1>4. ASSUME NEW n \in GrownCapacities(Capacity(h), Count(h) + 1),
             Reallocate(h, op, n, Count(h) + 1, Inserted(h, i, e, Resized(h, n)))
      PROVE  IInv'
    <2>1. n \in Nat /\ n >= Count(h) + 1
        BY <1>2, GrownEnough
    <2>2. ListType(n, Count(h), Resized(h, n))
        BY <1>2, <2>1, ResizedKeeps
    <2>3. ListType(n, Count(h) + 1, Inserted(h, i, e, Resized(h, n)))
        BY <2>1, <2>2, InsertedType
    <2> QED BY <1>4, <2>3, ReallocateKeeps
<1>5. CASE NothingChanges(op, "OUT_OF_MEMORY")
    BY <1>5, NothingKeeps DEF NothingChanges
<1>6. QED BY <1>3, <1>4, <1>5 DEF PutAt

\* The copy a clone is made of has the types of a list.
LEMMA CloneType ==
    ASSUME NEW cap, NEW n, NEW d, ListType(cap, n, d)
    PROVE  ListType(cap, n, [j \in 0..(cap - 1) |-> IF j < n THEN d[j] ELSE Junk])
BY DEF ListType, Cell

LEMMA NewKeeps ==
    ASSUME IInv, NEW h \in Handle, NEW cap \in InitialCapacities, New(h, cap)
    PROVE  IInv'
<1>1. ListType(cap, 0, [j \in 0..(cap - 1) |-> Junk])
    BY CapacitiesAssumption DEF ListType, Cell
<1>2. QED BY <1>1, AllocateKeeps DEF New

LEMMA CloneKeeps ==
    ASSUME IInv, NEW h \in Handle, NEW g \in Handle, Clone(h, g)
    PROVE  IInv'
<1>1. list[h] # Nullptr
    BY DEF Clone
<1>2. ListType(Capacity(h), Count(h), Data(h))
    BY <1>1, ListHasType
<1>3. ListType(Capacity(h), Count(h),
               [j \in 0..(Capacity(h) - 1) |-> IF j < Count(h) THEN Data(h)[j] ELSE Junk])
    BY <1>2, CloneType
<1>4. QED BY <1>3, AllocateKeeps DEF Clone

LEMMA EnsureCapacityKeeps ==
    ASSUME IInv, NEW h \in Handle, NEW wanted \in Nat, EnsureCapacity(h, wanted)
    PROVE  IInv'
<1>1. list[h] # Nullptr
    BY DEF EnsureCapacity
<1>2. Capacity(h) \in Nat /\ Count(h) \in 0..Capacity(h)
    BY <1>1, ListHasType DEF ListType
<1>3. ASSUME Capacity(h) < wanted, NEW n \in GrownCapacities(Capacity(h), wanted),
             Reallocate(h, "ensure_capacity", n, Count(h), Resized(h, n))
      PROVE  IInv'
    <2>1. n \in Nat /\ n >= wanted
        BY <1>2, GrownEnough
    <2>2. n >= Count(h)
        BY <1>2, <1>3, <2>1
    <2>3. ListType(n, Count(h), Resized(h, n))
        BY <1>1, <2>1, <2>2, ResizedKeeps
    <2> QED BY <1>1, <1>3, <2>3, ReallocateKeeps
<1>4. QED BY <1>3, NothingKeeps DEF EnsureCapacity, NothingChanges

LEMMA TrimExcessKeeps ==
    ASSUME IInv, NEW h \in Handle, TrimExcess(h)
    PROVE  IInv'
<1>1. list[h] # Nullptr
    BY DEF TrimExcess
<1>2. ASSUME Reallocate(h, "trim_excess", Count(h), Count(h), Resized(h, Count(h)))
      PROVE  IInv'
    <2>1. Count(h) \in Nat
        BY <1>1, ListHasType DEF ListType
    <2>2. ListType(Count(h), Count(h), Resized(h, Count(h)))
        BY <1>1, <2>1, ResizedKeeps
    <2> QED BY <1>1, <1>2, <2>2, ReallocateKeeps
<1>3. QED BY <1>2, NothingKeeps DEF TrimExcess, NothingChanges

LEMMA RemoveAtKeeps ==
    ASSUME IInv, NEW h \in Handle, NEW i \in Nat, RemoveAt(h, i)
    PROVE  IInv'
<1>1. list[h] # Nullptr /\ i < Count(h)
    BY DEF RemoveAt
<1>2. ListType(Capacity(h), Count(h), Data(h))
    BY <1>1, ListHasType
<1>3. ListType(Capacity(h), Count(h) - 1, MovedDown(Data(h), i + 1, Count(h)))
    BY <1>1, <1>2, MovedDownType
<1>4. QED BY <1>1, <1>3, SetListKeeps DEF RemoveAt

LEMMA ClearKeeps ==
    ASSUME IInv, NEW h \in Handle, Clear(h)
    PROVE  IInv'
<1>1. list[h] # Nullptr
    BY DEF Clear
<1>2. ListType(Capacity(h), Count(h), Data(h))
    BY <1>1, ListHasType
<1>3. ListType(Capacity(h), 0, Data(h))
    BY <1>2 DEF ListType
<1>4. QED BY <1>1, <1>3, SetListKeeps DEF Clear

LEMMA SortKeeps ==
    ASSUME IInv, NEW h \in Handle, Sort(h)
    PROVE  IInv'
<1>1. list[h] # Nullptr
    BY DEF Sort
<1>2. PICK p \in Bijection(0..(Count(h) - 1), 0..(Count(h) - 1)) :
          SetList(h, "sort", Capacity(h), Count(h), SortedData(Count(h), Data(h), p))
    BY DEF Sort, SortedData
<1>3. p \in [0..(Count(h) - 1) -> 0..(Count(h) - 1)]
    BY <1>2 DEF Bijection, Injection
<1>4. ListType(Capacity(h), Count(h), Data(h))
    BY <1>1, ListHasType
<1>5. ListType(Capacity(h), Count(h), SortedData(Count(h), Data(h), p))
    BY <1>3, <1>4, SortedType
<1>6. QED BY <1>1, <1>2, <1>5, SetListKeeps

LEMMA IInvInit == Init => IInv
<1> SUFFICES ASSUME Init PROVE IInv
    OBVIOUS
<1>1. Unused.capacity = 0 /\ Unused.count = 0 /\ Unused.data \in [0..-1 -> Cell]
    BY DEF Unused, Cell
<1>2. TypeOK
    BY <1>1 DEF Init, TypeOK
<1>3. PointersRight
    BY DEF Init, PointersRight
<1>4. QED BY <1>2, <1>3 DEF IInv

LEMMA IInvStep == IInv /\ [Next]_vars => IInv'
<1> SUFFICES ASSUME IInv, [Next]_vars PROVE IInv'
    OBVIOUS
<1>1. CASE UNCHANGED vars
    BY <1>1, NothingKeeps DEF vars
<1>2. ASSUME NEW h \in Handle, ListStep(h) PROVE IInv'
    <2>0. 0..MaxCount \subseteq Nat
        BY MaxCountAssumption
    <2>1. ASSUME NEW cap \in InitialCapacities, New(h, cap) PROVE IInv'
        BY <2>1, NewKeeps
    <2>2. ASSUME NEW g \in Handle, Clone(h, g) PROVE IInv'
        BY <2>2, CloneKeeps
    <2>3. ASSUME NEW wanted \in 0..MaxCount, EnsureCapacity(h, wanted) PROVE IInv'
        BY <2>0, <2>3, EnsureCapacityKeeps
    <2>4. ASSUME NEW e \in Elem, Add(h, e) PROVE IInv'
        <3>1. list[h] # Nullptr /\ PutAt(h, "add", Count(h), e)
            BY <2>4 DEF Add
        <3>2. Count(h) \in Nat /\ Count(h) <= Count(h)
            BY <3>1, ListHasType DEF ListType
        <3> QED BY <3>1, <3>2, PutAtKeeps
    <2>5. ASSUME NEW e \in Elem, NEW i \in 0..MaxCount, InsertAt(h, i, e) PROVE IInv'
        <3>1. list[h] # Nullptr /\ i <= Count(h) /\ PutAt(h, "insert_at", i, e)
            BY <2>5 DEF InsertAt
        <3> QED BY <2>0, <3>1, PutAtKeeps
    <2>6. ASSUME NEW i \in 0..MaxCount, RemoveAt(h, i) PROVE IInv'
        BY <2>0, <2>6, RemoveAtKeeps
    <2>7. CASE TrimExcess(h)
        BY <2>7, TrimExcessKeeps
    <2>8. CASE Clear(h)
        BY <2>8, ClearKeeps
    <2>9. CASE Sort(h)
        BY <2>9, SortKeeps
    <2>10. CASE Free(h)
        BY <2>10, FreeKeeps
    <2> QED
        BY <1>2, <2>1, <2>2, <2>3, <2>4, <2>5, <2>6, <2>7, <2>8, <2>9, <2>10 DEF ListStep
<1>3. QED BY <1>1, <1>2 DEF Next

\* IInv holds in every state.
THEOREM InvariantHolds == Spec => []IInv
BY IInvInit, IInvStep, PTL DEF Spec

\* Every list's capacity is the length of its array, its count does not exceed it, and every
\* element in use has been written (list.c), for every number of lists and every capacity.
THEOREM TypeCorrect == Spec => []TypeOK
<1>1. IInv => TypeOK
    BY DEF IInv
<1>2. QED BY <1>1, InvariantHolds, PTL

\* list.h: *list is assigned the block scu_realloc returns.  No pointer of the client dangles,
\* no two lists share a block and no block is lost, whatever the calls and failures.
THEOREM PointersCorrect == Spec => []PointersRight
<1>1. IInv => PointersRight
    BY DEF IInv
<1>2. QED BY <1>1, InvariantHolds, PTL

--------------------------------------------------------------------------------
(* Refinement *)

\* The sequence of the first n slots of an array.
SeqOf(n, d) == [i \in 1..n |-> d[i - 1]]

LEMMA SeqOfSeq ==
    ASSUME NEW n \in Nat, NEW d, \A i \in 0..(n - 1) : d[i] \in Elem
    PROVE  /\ SeqOf(n, d) \in Seq(Elem)
           /\ Len(SeqOf(n, d)) = n
           /\ \A i \in 1..n : SeqOf(n, d)[i] = d[i - 1]
<1>1. SeqOf(n, d) \in [1..n -> Elem]
    BY DEF SeqOf
<1>2. QED BY <1>1 DEF SeqOf

\* What the client finds behind a pointer is a sequence, and never looks like no list.
LEMMA ItemsSeq ==
    ASSUME IInv, NEW h \in Handle, list[h] # Nullptr
    PROVE  /\ Items[h] = SeqOf(Count(h), Data(h))
           /\ Items[h] \in Seq(Elem)
           /\ Items[h] # Nullptr
           /\ Len(Items[h]) = Count(h)
           /\ \A i \in 1..Count(h) : Items[h][i] = Data(h)[i - 1]
<1>1. ListType(Capacity(h), Count(h), Data(h))
    BY ListHasType
<1>2. Count(h) \in Nat /\ \A i \in 0..(Count(h) - 1) : Data(h)[i] \in Elem
    BY <1>1 DEF ListType
<1>3. Items[h] = SeqOf(Count(h), Data(h))
    BY DEF Items, SeqOf
<1>4. QED BY <1>2, <1>3, SeqOfSeq, NullptrAssumption

LEMMA NoItems ==
    ASSUME NEW h \in Handle, list[h] = Nullptr
    PROVE  Items[h] = Nullptr
BY DEF Items

LEMMA ItemsUnchanged ==
    ASSUME UNCHANGED <<list, live, memory>>
    PROVE  Items' = Items
BY DEF Items, Count, Data

\* What one list's block holds changes that list only, because no other pointer is there.
LEMMA ItemsSetList ==
    ASSUME IInv, NEW h \in Handle, list[h] # Nullptr, NEW op, NEW cap, NEW n, NEW d,
           SetList(h, op, cap, n, d)
    PROVE  Items' = [Items EXCEPT ![h] = SeqOf(n, d)]
<1>1. /\ list' = list
      /\ memory' = [memory EXCEPT ![list[h]] = [capacity |-> cap, count |-> n, data |-> d]]
    BY DEF SetList
<1>2. list[h] \in DOMAIN memory
    BY ListHasType DEF IInv, TypeOK
<1>3. ASSUME NEW g \in Handle
      PROVE  Items'[g] = IF g = h THEN SeqOf(n, d) ELSE Items[g]
    <2>1. CASE g = h
        BY <1>1, <1>2, <2>1 DEF Items, SeqOf, Count, Data
    <2>2. CASE g # h /\ list[g] # Nullptr
        <3>1. list[g] # list[h]
            BY <2>2 DEF IInv, PointersRight
        <3>2. memory'[list'[g]] = memory[list[g]]
            BY <1>1, <2>2, <3>1, ListHasType DEF IInv, TypeOK
        <3> QED BY <1>1, <2>2, <3>2 DEF Items, Count, Data
    <2>3. CASE g # h /\ list[g] = Nullptr
        BY <1>1, <2>3 DEF Items
    <2> QED BY <2>1, <2>2, <2>3
<1>4. QED BY <1>3 DEF Items

LEMMA ItemsReallocate ==
    ASSUME IInv, NEW h \in Handle, list[h] # Nullptr, NEW op, NEW cap, NEW n, NEW d,
           Reallocate(h, op, cap, n, d)
    PROVE  Items' = [Items EXCEPT ![h] = SeqOf(n, d)]
<1>1. PICK b \in (Block \ live) \cup {list[h]} :
          /\ list' = [list EXCEPT ![h] = b]
          /\ memory' = [memory EXCEPT ![list[h]] = Unused,
                                      ![b] = [capacity |-> cap, count |-> n, data |-> d]]
    BY DEF Reallocate, Assign
<1>2. list[h] \in Block /\ b \in Block /\ b # Nullptr
    BY <1>1, ListHasType, NullptrAssumption
<1>3. ASSUME NEW g \in Handle
      PROVE  Items'[g] = IF g = h THEN SeqOf(n, d) ELSE Items[g]
    <2>0. list'[h] = b /\ (g # h => list'[g] = list[g])
        BY <1>1 DEF IInv, TypeOK
    <2>1. CASE g = h
        <3>1. memory'[b] = [capacity |-> cap, count |-> n, data |-> d]
            BY <1>1, <1>2 DEF IInv, TypeOK
        <3>2. Count(h)' = n /\ Data(h)' = d
            BY <2>0, <3>1 DEF Count, Data
        <3>3. Items'[h] = [i \in 1..Count(h)' |-> Data(h)'[i - 1]]
            BY <1>2, <2>0 DEF Items
        <3> QED BY <2>1, <3>2, <3>3 DEF SeqOf
    <2>2. CASE g # h /\ list[g] # Nullptr
        <3>1. list[g] # list[h] /\ list[g] \in live
            BY <2>2, ListHasType DEF IInv, PointersRight
        <3>2. memory'[list'[g]] = memory[list[g]]
            BY <1>1, <2>0, <2>2, <3>1, ListHasType DEF IInv, TypeOK
        <3> QED BY <2>0, <2>2, <3>2 DEF Items, Count, Data
    <2>3. CASE g # h /\ list[g] = Nullptr
        BY <2>0, <2>3 DEF Items
    <2> QED BY <2>1, <2>2, <2>3
<1>4. QED BY <1>3 DEF Items

\* A block that is handed out is no other list's.
LEMMA ItemsAllocate ==
    ASSUME IInv, NEW h \in Handle, NEW op, NEW cap, NEW n, NEW d,
           Allocate(h, op, cap, n, d), ~NothingChanges(op, "OUT_OF_MEMORY")
    PROVE  Items' = [Items EXCEPT ![h] = SeqOf(n, d)] /\ Answer(op, "NONE")
<1>1. PICK b \in Block \ live :
          /\ list' = [list EXCEPT ![h] = b]
          /\ memory' = [memory EXCEPT ![b] = [capacity |-> cap, count |-> n, data |-> d]]
          /\ Answer(op, "NONE")
    BY DEF Allocate
<1>2. ASSUME NEW g \in Handle
      PROVE  Items'[g] = IF g = h THEN SeqOf(n, d) ELSE Items[g]
    <2>0. list'[h] = b /\ (g # h => list'[g] = list[g])
        BY <1>1 DEF IInv, TypeOK
    <2>1. CASE g = h
        <3>1. memory'[b] = [capacity |-> cap, count |-> n, data |-> d] /\ b # Nullptr
            BY <1>1, NullptrAssumption DEF IInv, TypeOK
        <3>2. Count(h)' = n /\ Data(h)' = d
            BY <2>0, <3>1 DEF Count, Data
        <3>3. Items'[h] = [i \in 1..Count(h)' |-> Data(h)'[i - 1]]
            BY <2>0, <3>1 DEF Items
        <3> QED BY <2>1, <3>2, <3>3 DEF SeqOf
    <2>2. CASE g # h /\ list[g] # Nullptr
        <3>1. memory'[list'[g]] = memory[list[g]]
            BY <1>1, <2>0, <2>2, ListHasType DEF IInv, TypeOK
        <3> QED BY <2>0, <2>2, <3>1 DEF Items, Count, Data
    <2>3. CASE g # h /\ list[g] = Nullptr
        BY <2>0, <2>3 DEF Items
    <2> QED BY <2>1, <2>2, <2>3
<1>3. QED BY <1>1, <1>2 DEF Items

LEMMA ItemsFree ==
    ASSUME IInv, NEW h \in Handle, Free(h)
    PROVE  Items' = [Items EXCEPT ![h] = Nullptr]
<1>1. ASSUME NEW g \in Handle
      PROVE  Items'[g] = IF g = h THEN Nullptr ELSE Items[g]
    <2>0. list'[h] = Nullptr /\ (g # h => list'[g] = list[g])
        BY DEF IInv, TypeOK, Free
    <2>1. CASE g = h
        BY <2>0, <2>1 DEF Items
    <2>2. CASE g # h /\ list[g] # Nullptr
        <3>1. list[g] # list[h]
            BY <2>2 DEF IInv, PointersRight
        <3>2. memory'[list'[g]] = memory[list[g]]
            BY <2>0, <2>2, <3>1, ListHasType DEF Free
        <3> QED BY <2>0, <2>2, <3>2 DEF Items, Count, Data
    <2>3. CASE g # h /\ list[g] = Nullptr
        BY <2>0, <2>3 DEF Items
    <2> QED BY <2>1, <2>2, <2>3
<1>2. QED BY <1>1 DEF Items

\* One more slot behind the elements is an append.
LEMMA SeqAppended ==
    ASSUME NEW s \in Seq(Elem), NEW e \in Elem, NEW d,
           \A j \in 0..(Len(s) - 1) : d[j] = s[j + 1], d[Len(s)] = e
    PROVE  SeqOf(Len(s) + 1, d) = Append(s, e)
<1> DEFINE n == Len(s)
<1>1. n \in Nat /\ \A j \in 1..n : s[j] \in Elem
    BY LenProperties, ElementOfSeq
<1>2. \A i \in 1..(n + 1) : d[i - 1] = IF i <= n THEN s[i] ELSE e
    BY <1>1
<1>3. \A j \in 0..n : d[j] \in Elem
    BY <1>1
<1>4. /\ Append(s, e) \in Seq(Elem) /\ Len(Append(s, e)) = n + 1
      /\ \A i \in 1..(n + 1) : Append(s, e)[i] = IF i <= n THEN s[i] ELSE e
    BY <1>1, AppendProperties
<1> HIDE DEF n
<1>5. /\ SeqOf(n + 1, d) \in Seq(Elem) /\ Len(SeqOf(n + 1, d)) = n + 1
      /\ \A i \in 1..(n + 1) : SeqOf(n + 1, d)[i] = d[i - 1]
    <2>1. n + 1 \in Nat /\ \A j \in 0..((n + 1) - 1) : d[j] \in Elem
        BY <1>1, <1>3
    <2> QED BY <2>1, SeqOfSeq
<1>6. SeqOf(n + 1, d) = Append(s, e)
    BY <1>2, <1>4, <1>5, SeqEqual
<1>7. QED BY <1>6 DEF n

LEMMA Concatenated ==
    ASSUME NEW s1 \in Seq(Elem), NEW s2 \in Seq(Elem), NEW m \in Nat, NEW n \in Nat,
           Len(s1) = m, Len(s1) + Len(s2) = n
    PROVE  /\ s1 \o s2 \in Seq(Elem) /\ Len(s1 \o s2) = n
           /\ \A k \in 1..n : (s1 \o s2)[k] = IF k <= m THEN s1[k] ELSE s2[k - m]
BY ConcatProperties

\* A slot between the elements is an insertion.
LEMMA SeqInserted ==
    ASSUME NEW s \in Seq(Elem), NEW e \in Elem, NEW i \in 0..Len(s), NEW d,
           \A j \in 0..Len(s) : d[j] = IF j < i THEN s[j + 1] ELSE IF j = i THEN e ELSE s[j]
    PROVE  SeqOf(Len(s) + 1, d) = SubSeq(s, 1, i) \o <<e>> \o SubSeq(s, i + 1, Len(s))
<1> DEFINE n == Len(s)
           front == SubSeq(s, 1, i)
           back == SubSeq(s, i + 1, n)
<1>1. n \in Nat /\ i \in 0..n /\ \A j \in 1..n : s[j] \in Elem
    BY LenProperties, ElementOfSeq
<1>2. /\ front \in Seq(Elem) /\ Len(front) = i
      /\ \A k \in 1..i : front[k] = s[k]
    <2>1. \A k \in 1..i : s[k] \in Elem
        BY <1>1
    <2>2. /\ SubSeq(s, 1, i) \in Seq(Elem)
          /\ Len(SubSeq(s, 1, i)) = IF 1 <= i THEN i - 1 + 1 ELSE 0
          /\ \A k \in 1..(i - 1 + 1) : SubSeq(s, 1, i)[k] = s[1 + k - 1]
        BY <1>1, <2>1, SubSeqProperties
    <2> QED BY <1>1, <2>2
<1>3. /\ back \in Seq(Elem) /\ Len(back) = n - i
      /\ \A k \in 1..(n - i) : back[k] = s[i + k]
    <2>1. \A k \in (i + 1)..n : s[k] \in Elem
        BY <1>1
    <2>2. /\ SubSeq(s, i + 1, n) \in Seq(Elem)
          /\ Len(SubSeq(s, i + 1, n)) = IF i + 1 <= n THEN n - (i + 1) + 1 ELSE 0
          /\ \A k \in 1..(n - (i + 1) + 1) : SubSeq(s, i + 1, n)[k] = s[(i + 1) + k - 1]
        <3>1. i + 1 \in Int /\ n \in Int
            BY <1>1
        <3> HIDE DEF n
        <3> QED BY <2>1, <3>1, SubSeqProperties
    <2> QED BY <1>1, <2>2
<1>4. <<e>> \in Seq(Elem) /\ Len(<<e>>) = 1 /\ <<e>>[1] = e
    OBVIOUS
<1> HIDE DEF n, front, back
<1>5. /\ front \o <<e>> \in Seq(Elem) /\ Len(front \o <<e>>) = i + 1
      /\ \A k \in 1..(i + 1) : (front \o <<e>>)[k] = IF k <= i THEN s[k] ELSE e
    <2>1. /\ front \o <<e>> \in Seq(Elem) /\ Len(front \o <<e>>) = i + 1
          /\ \A k \in 1..(i + 1) : (front \o <<e>>)[k] = IF k <= i THEN front[k] ELSE <<e>>[k - i]
        BY <1>2, <1>4, ConcatProperties
    <2> QED BY <1>1, <1>2, <1>4, <2>1
<1>6. /\ (front \o <<e>>) \o back \in Seq(Elem) /\ Len((front \o <<e>>) \o back) = n + 1
      /\ \A k \in 1..(n + 1) : ((front \o <<e>>) \o back)[k] =
                                  IF k <= i THEN s[k] ELSE IF k = i + 1 THEN e ELSE s[k - 1]
    <2>1. i + 1 \in Nat /\ n + 1 \in Nat /\ (i + 1) + (n - i) = n + 1
        BY <1>1
    <2> DEFINE inserted == front \o <<e>>
    <2>2. inserted \in Seq(Elem) /\ Len(inserted) = i + 1 /\ Len(inserted) + Len(back) = n + 1
        BY <1>3, <1>5, <2>1
    <2> HIDE DEF inserted
    <2>3. /\ inserted \o back \in Seq(Elem) /\ Len(inserted \o back) = n + 1
          /\ \A k \in 1..(n + 1) :
                (inserted \o back)[k] = IF k <= i + 1 THEN inserted[k] ELSE back[k - (i + 1)]
        BY <1>3, <2>1, <2>2, Concatenated
    <2>4. \A k \in 1..(i + 1) : inserted[k] = IF k <= i THEN s[k] ELSE e
        BY <1>5 DEF inserted
    <2>5. \A k \in 1..(n + 1) :
             (inserted \o back)[k] = IF k <= i THEN s[k] ELSE IF k = i + 1 THEN e ELSE s[k - 1]
        BY <1>1, <1>3, <2>3, <2>4
    <2> QED BY <2>3, <2>5 DEF inserted
<1>7. \A k \in 1..(n + 1) : d[k - 1] =
                             IF k <= i THEN s[k] ELSE IF k = i + 1 THEN e ELSE s[k - 1]
    BY <1>1 DEF n
<1>8. /\ SeqOf(n + 1, d) \in Seq(Elem) /\ Len(SeqOf(n + 1, d)) = n + 1
      /\ \A k \in 1..(n + 1) : SeqOf(n + 1, d)[k] = d[k - 1]
    <2>1. n + 1 \in Nat /\ \A j \in 0..((n + 1) - 1) : d[j] \in Elem
        BY <1>1 DEF n
    <2> QED BY <2>1, SeqOfSeq
<1>9. SeqOf(n + 1, d) = (front \o <<e>>) \o back
    BY <1>6, <1>7, <1>8, SeqEqual
<1>10. QED BY <1>9 DEF n, front, back

\* A slot less between the elements is a removal.
LEMMA SeqRemoved ==
    ASSUME NEW s \in Seq(Elem), NEW i \in 0..(Len(s) - 1), NEW d,
           \A j \in 0..(Len(s) - 2) : d[j] = IF j < i THEN s[j + 1] ELSE s[j + 2]
    PROVE  SeqOf(Len(s) - 1, d) = SubSeq(s, 1, i) \o SubSeq(s, i + 2, Len(s))
<1> DEFINE n == Len(s)
           front == SubSeq(s, 1, i)
           back == SubSeq(s, i + 2, n)
<1>1. n \in Nat /\ i \in 0..(n - 1) /\ \A j \in 1..n : s[j] \in Elem
    BY LenProperties, ElementOfSeq
<1>2. /\ front \in Seq(Elem) /\ Len(front) = i
      /\ \A k \in 1..i : front[k] = s[k]
    <2>1. \A k \in 1..i : s[k] \in Elem
        BY <1>1
    <2>2. /\ SubSeq(s, 1, i) \in Seq(Elem)
          /\ Len(SubSeq(s, 1, i)) = IF 1 <= i THEN i - 1 + 1 ELSE 0
          /\ \A k \in 1..(i - 1 + 1) : SubSeq(s, 1, i)[k] = s[1 + k - 1]
        BY <1>1, <2>1, SubSeqProperties
    <2> QED BY <1>1, <2>2
<1>3. /\ back \in Seq(Elem) /\ Len(back) = n - i - 1
      /\ \A k \in 1..(n - i - 1) : back[k] = s[i + 1 + k]
    <2>1. \A k \in (i + 2)..n : s[k] \in Elem
        BY <1>1
    <2>2. /\ SubSeq(s, i + 2, n) \in Seq(Elem)
          /\ Len(SubSeq(s, i + 2, n)) = IF i + 2 <= n THEN n - (i + 2) + 1 ELSE 0
          /\ \A k \in 1..(n - (i + 2) + 1) : SubSeq(s, i + 2, n)[k] = s[(i + 2) + k - 1]
        <3>1. i + 2 \in Int /\ n \in Int
            BY <1>1
        <3> HIDE DEF n
        <3> QED BY <2>1, <3>1, SubSeqProperties
    <2> QED BY <1>1, <2>2
<1> HIDE DEF n, front, back
<1>4. /\ front \o back \in Seq(Elem) /\ Len(front \o back) = n - 1
      /\ \A k \in 1..(n - 1) : (front \o back)[k] = IF k <= i THEN s[k] ELSE s[k + 1]
    <2> DEFINE m == n - 1
    <2>1. /\ i \in Nat /\ m \in Nat /\ Len(front) = i /\ Len(front) + Len(back) = m
          /\ front \in Seq(Elem) /\ back \in Seq(Elem)
        BY <1>1, <1>2, <1>3
    <2> HIDE DEF m
    <2>2. /\ front \o back \in Seq(Elem) /\ Len(front \o back) = m
          /\ \A k \in 1..m : (front \o back)[k] = IF k <= i THEN front[k] ELSE back[k - i]
        <3>1. /\ front \o back \in Seq(Elem) /\ Len(front \o back) = Len(front) + Len(back)
              /\ \A k \in 1..(Len(front) + Len(back)) :
                    (front \o back)[k] =
                        IF k <= Len(front) THEN front[k] ELSE back[k - Len(front)]
            BY <2>1, ConcatProperties, Zenon
        <3> QED BY <2>1, <3>1, Zenon
    <2> USE DEF m
    <2>3. \A k \in 1..(n - 1) : (front \o back)[k] = IF k <= i THEN s[k] ELSE s[k + 1]
        BY <1>1, <1>2, <1>3, <2>2
    <2> QED BY <2>2, <2>3
<1>5. \A k \in 1..(n - 1) : d[k - 1] = IF k <= i THEN s[k] ELSE s[k + 1]
    BY <1>1 DEF n
<1>6. /\ SeqOf(n - 1, d) \in Seq(Elem) /\ Len(SeqOf(n - 1, d)) = n - 1
      /\ \A k \in 1..(n - 1) : SeqOf(n - 1, d)[k] = d[k - 1]
    <2>1. n - 1 \in Nat /\ \A j \in 0..((n - 1) - 1) : d[j] \in Elem
        BY <1>1 DEF n
    <2> QED BY <2>1, SeqOfSeq
<1>7. SeqOf(n - 1, d) = front \o back
    BY <1>4, <1>5, <1>6, SeqEqual
<1>8. QED BY <1>7 DEF n, front, back

\* An answer and the new elements of one list, and the calls they are.
LEMMA ChangeStep ==
    ASSUME NEW h \in Handle, NEW op, NEW new, Items' = [Items EXCEPT ![h] = new], Answer(op, "NONE")
    PROVE  Lists!Change(h, op, new)
BY DEF Answer, Lists!Change, Lists!Answer

LEMMA KeptStep ==
    ASSUME NEW op \in {"ensure_capacity", "trim_excess"}, Items' = Items, Answer(op, "NONE")
    PROVE  Lists!Next
<1>1. Lists!Reorganise(op, "NONE")
    BY DEF Answer, Lists!Reorganise, Lists!Answer
<1>2. QED BY <1>1 DEF Lists!Next

LEMMA OutOfMemoryStep ==
    ASSUME NEW op \in {"new", "clone", "add", "insert_at", "ensure_capacity", "trim_excess"},
           NothingChanges(op, "OUT_OF_MEMORY")
    PROVE  Lists!Next
<1>1. Items' = Items /\ Answer(op, "OUT_OF_MEMORY")
    BY ItemsUnchanged DEF NothingChanges
<1>2. Lists!Reorganise(op, "OUT_OF_MEMORY")
    BY <1>1 DEF Answer, Lists!Reorganise, Lists!Answer
<1>3. QED BY <1>2 DEF Lists!Next

LEMMA NewStep ==
    ASSUME IInv, NEW h \in Handle, NEW cap \in InitialCapacities, New(h, cap)
    PROVE  Lists!Next
<1>1. CASE NothingChanges("new", "OUT_OF_MEMORY")
    BY <1>1, OutOfMemoryStep
<1>2. CASE ~NothingChanges("new", "OUT_OF_MEMORY")
    <2> DEFINE d == [j \in 0..(cap - 1) |-> Junk]
    <2>1. Allocate(h, "new", cap, 0, d)
        BY DEF New
    <2> HIDE DEF d
    <2>2. Items' = [Items EXCEPT ![h] = SeqOf(0, d)] /\ Answer("new", "NONE")
        BY <1>2, <2>1, ItemsAllocate
    <2>3. SeqOf(0, d) = << >>
        BY DEF SeqOf
    <2>4. Items[h] = Nullptr
        BY <2>1, NoItems DEF Allocate
    <2>5. Lists!New(h)
        BY <2>2, <2>3, <2>4, ChangeStep DEF Lists!New
    <2> QED BY <2>5 DEF Lists!Next
<1>3. QED BY <1>1, <1>2

LEMMA CloneStep ==
    ASSUME IInv, NEW h \in Handle, NEW g \in Handle, Clone(h, g)
    PROVE  Lists!Next
<1>1. CASE NothingChanges("clone", "OUT_OF_MEMORY")
    BY <1>1, OutOfMemoryStep
<1>2. CASE ~NothingChanges("clone", "OUT_OF_MEMORY")
    <2> DEFINE d == [j \in 0..(Capacity(h) - 1) |-> IF j < Count(h) THEN Data(h)[j] ELSE Junk]
    <2>1. list[h] # Nullptr /\ Allocate(g, "clone", Capacity(h), Count(h), d)
        BY DEF Clone
    <2>2. Capacity(h) \in Nat /\ Count(h) \in 0..Capacity(h)
        BY <2>1, ListHasType DEF ListType
    <2>3. \A j \in 0..(Count(h) - 1) : d[j] = Data(h)[j]
        BY <2>2
    <2> HIDE DEF d
    <2>4. Items' = [Items EXCEPT ![g] = SeqOf(Count(h), d)] /\ Answer("clone", "NONE")
        BY <1>2, <2>1, ItemsAllocate
    <2>5. SeqOf(Count(h), d) = Items[h]
        <3>1. \A i \in 1..Count(h) : d[i - 1] = Data(h)[i - 1]
            BY <2>2, <2>3
        <3> QED BY <2>1, <3>1, ItemsSeq DEF SeqOf
    <2>6. Items[g] = Nullptr
        BY <2>1, NoItems DEF Allocate
    <2>7. Items[h] # Nullptr
        BY <2>1, ItemsSeq
    <2>8. Lists!Clone(h, g)
        BY <2>4, <2>5, <2>6, <2>7, ChangeStep DEF Lists!Clone
    <2> QED BY <2>8 DEF Lists!Next
<1>3. QED BY <1>1, <1>2

LEMMA FreeStep ==
    ASSUME IInv, NEW h \in Handle, Free(h)
    PROVE  Lists!Next
<1>1. Items' = [Items EXCEPT ![h] = Nullptr] /\ Answer("free", "NONE")
    BY ItemsFree DEF Free
<1>2. Lists!Free(h)
    BY <1>1, ChangeStep DEF Lists!Free
<1>3. QED BY <1>2 DEF Lists!Next

\* A block with other storage but the same elements.
LEMMA ReallocateStep ==
    ASSUME IInv, NEW h \in Handle, list[h] # Nullptr,
           NEW op \in {"ensure_capacity", "trim_excess"}, NEW n \in Nat, n >= Count(h),
           Reallocate(h, op, n, Count(h), Resized(h, n))
    PROVE  Lists!Next
<1>1. Items' = [Items EXCEPT ![h] = SeqOf(Count(h), Resized(h, n))]
    BY ItemsReallocate
<1>2. SeqOf(Count(h), Resized(h, n)) = Items[h]
    <2>1. Count(h) \in Nat
        BY ListHasType DEF ListType
    <2>2. \A i \in 1..Count(h) : Resized(h, n)[i - 1] = Data(h)[i - 1]
        BY <2>1, ResizedKeeps
    <2> QED BY <2>2, ItemsSeq DEF SeqOf
<1>3. Items' = Items
    BY <1>1, <1>2 DEF Items
<1>4. QED BY <1>3, KeptStep DEF Reallocate

LEMMA EnsureCapacityStep ==
    ASSUME IInv, NEW h \in Handle, NEW wanted \in Nat, EnsureCapacity(h, wanted)
    PROVE  Lists!Next
<1>1. list[h] # Nullptr
    BY DEF EnsureCapacity
<1>2. Capacity(h) \in Nat /\ Count(h) \in 0..Capacity(h)
    BY <1>1, ListHasType DEF ListType
<1>3. ASSUME Capacity(h) < wanted, NEW n \in GrownCapacities(Capacity(h), wanted),
             Reallocate(h, "ensure_capacity", n, Count(h), Resized(h, n))
      PROVE  Lists!Next
    <2>1. n \in Nat /\ n >= wanted
        BY <1>2, GrownEnough
    <2>2. n >= Count(h)
        BY <1>2, <1>3, <2>1
    <2> QED BY <1>1, <1>3, <2>1, <2>2, ReallocateStep
<1>4. CASE NothingChanges("ensure_capacity", "NONE")
    BY <1>4, ItemsUnchanged, KeptStep DEF NothingChanges
<1>5. QED BY <1>3, <1>4, OutOfMemoryStep DEF EnsureCapacity

LEMMA TrimExcessStep ==
    ASSUME IInv, NEW h \in Handle, TrimExcess(h)
    PROVE  Lists!Next
<1>1. list[h] # Nullptr
    BY DEF TrimExcess
<1>2. Count(h) \in Nat
    BY <1>1, ListHasType DEF ListType
<1>3. ASSUME Reallocate(h, "trim_excess", Count(h), Count(h), Resized(h, Count(h)))
      PROVE  Lists!Next
    BY <1>1, <1>2, <1>3, ReallocateStep
<1>4. CASE NothingChanges("trim_excess", "NONE")
    BY <1>4, ItemsUnchanged, KeptStep DEF NothingChanges
<1>5. QED BY <1>3, <1>4, OutOfMemoryStep DEF TrimExcess

\* An array in which e has been put at the place i.
LEMMA PutSeq ==
    ASSUME IInv, NEW h \in Handle, list[h] # Nullptr, NEW i \in Nat, i <= Count(h),
           NEW e \in Elem, NEW cap, NEW d, ListType(cap, Count(h), d), cap >= Count(h) + 1,
           \A j \in 0..(Count(h) - 1) : d[j] = Data(h)[j]
    PROVE  /\ SeqOf(Count(h) + 1, Inserted(h, i, e, d)) =
                  SubSeq(Items[h], 1, i) \o <<e>> \o SubSeq(Items[h], i + 1, Len(Items[h]))
           /\ i = Count(h) => SeqOf(Count(h) + 1, Inserted(h, i, e, d)) = Append(Items[h], e)
<1> DEFINE s == Items[h]
           n == Count(h)
           new == Inserted(h, i, e, d)
<1>1. /\ s \in Seq(Elem) /\ Len(s) = n
      /\ \A j \in 1..n : s[j] = Data(h)[j - 1]
    BY ItemsSeq
<1>2. n \in Nat
    BY ListHasType DEF ListType
<1>3. \A j \in 0..n : new[j] = IF j < i THEN d[j] ELSE IF j = i THEN e ELSE d[j - 1]
    BY InsertedType
<1>4. \A j \in 0..(n - 1) : d[j] = s[j + 1]
    BY <1>1, <1>2
<1> HIDE DEF s, n, new
<1>5. i \in 0..n
    BY <1>2 DEF n
<1>6. \A j \in 0..n : new[j] = IF j < i THEN s[j + 1] ELSE IF j = i THEN e ELSE s[j]
    BY <1>2, <1>3, <1>4, <1>5
<1>7. SeqOf(n + 1, new) = SubSeq(s, 1, i) \o <<e>> \o SubSeq(s, i + 1, Len(s))
    <2>1. SeqOf(Len(s) + 1, new) = SubSeq(s, 1, i) \o <<e>> \o SubSeq(s, i + 1, Len(s))
        BY <1>1, <1>5, <1>6, SeqInserted
    <2> QED BY <1>1, <2>1
<1>8. ASSUME i = n PROVE SeqOf(n + 1, new) = Append(s, e)
    <2>1. (\A j \in 0..(Len(s) - 1) : new[j] = s[j + 1]) /\ new[Len(s)] = e
        BY <1>1, <1>2, <1>6, <1>8
    <2>2. SeqOf(Len(s) + 1, new) = Append(s, e)
        BY <1>1, <2>1, SeqAppended
    <2> QED BY <1>1, <2>2
<1>9. QED BY <1>7, <1>8 DEF s, n, new

\* What scu_list_add and scu_list_insert_at do, with and without a reallocation.
LEMMA PutAtStep ==
    ASSUME IInv, NEW h \in Handle, list[h] # Nullptr, NEW op, NEW e \in Elem,
           NEW i \in Nat, i <= Count(h), PutAt(h, op, i, e),
           ~NothingChanges(op, "OUT_OF_MEMORY")
    PROVE  /\ Answer(op, "NONE")
           /\ Items' = [Items EXCEPT ![h] = SubSeq(Items[h], 1, i) \o <<e>>
                                                \o SubSeq(Items[h], i + 1, Len(Items[h]))]
           /\ i = Count(h) => Items' = [Items EXCEPT ![h] = Append(Items[h], e)]
<1>1. ListType(Capacity(h), Count(h), Data(h))
    BY ListHasType
<1>2. Capacity(h) \in Nat /\ Count(h) \in Nat
    BY <1>1 DEF ListType
<1> DEFINE between == SubSeq(Items[h], 1, i) \o <<e>> \o SubSeq(Items[h], i + 1, Len(Items[h]))
           behind == Append(Items[h], e)
<1> HIDE DEF between, behind
<1>3. CASE Capacity(h) >= Count(h) + 1 /\ SetList(h, op, Capacity(h), Count(h) + 1,
                                                 Inserted(h, i, e, Data(h)))
    <2> DEFINE new == SeqOf(Count(h) + 1, Inserted(h, i, e, Data(h)))
    <2>1. Items' = [Items EXCEPT ![h] = new]
        BY <1>3, ItemsSetList
    <2>2. Answer(op, "NONE")
        BY <1>3 DEF SetList
    <2>3. new = between /\ (i = Count(h) => new = behind)
        BY <1>1, <1>3, PutSeq DEF between, behind
    <2> HIDE DEF new
    <2> QED BY <2>1, <2>2, <2>3 DEF between, behind
<1>4. ASSUME NEW n \in GrownCapacities(Capacity(h), Count(h) + 1),
             Reallocate(h, op, n, Count(h) + 1, Inserted(h, i, e, Resized(h, n)))
      PROVE  /\ Answer(op, "NONE")
             /\ Items' = [Items EXCEPT ![h] = between]
             /\ i = Count(h) => Items' = [Items EXCEPT ![h] = behind]
    <2> DEFINE new == SeqOf(Count(h) + 1, Inserted(h, i, e, Resized(h, n)))
    <2>1. n \in Nat /\ n >= Count(h) + 1 /\ n >= Count(h)
        BY <1>2, GrownEnough
    <2>2. Answer(op, "NONE")
        BY <1>4 DEF Reallocate
    <2>3. Items' = [Items EXCEPT ![h] = new]
        BY <1>4, ItemsReallocate
    <2>4. /\ ListType(n, Count(h), Resized(h, n))
          /\ \A j \in 0..(Count(h) - 1) : Resized(h, n)[j] = Data(h)[j]
        BY <2>1, ResizedKeeps
    <2>5. new = between /\ (i = Count(h) => new = behind)
        BY <2>1, <2>4, PutSeq DEF between, behind
    <2> HIDE DEF new
    <2> QED BY <2>2, <2>3, <2>5
<1>5. QED BY <1>3, <1>4 DEF PutAt, between, behind

LEMMA AddStep ==
    ASSUME IInv, NEW h \in Handle, NEW e \in Elem, Add(h, e)
    PROVE  Lists!Next
<1>1. list[h] # Nullptr /\ PutAt(h, "add", Count(h), e)
    BY DEF Add
<1>2. Items[h] # Nullptr /\ Count(h) \in Nat /\ Count(h) <= Count(h)
    BY <1>1, ItemsSeq, ListHasType DEF ListType
<1>3. CASE NothingChanges("add", "OUT_OF_MEMORY")
    BY <1>3, OutOfMemoryStep
<1>4. CASE ~NothingChanges("add", "OUT_OF_MEMORY")
    <2>1. Items' = [Items EXCEPT ![h] = Append(Items[h], e)] /\ Answer("add", "NONE")
        BY <1>1, <1>2, <1>4, PutAtStep
    <2>2. Lists!Change(h, "add", Append(Items[h], e))
        BY <2>1, ChangeStep
    <2> QED BY <1>2, <2>2 DEF Lists!ListStep, Lists!Next
<1>5. QED BY <1>3, <1>4

LEMMA InsertAtStep ==
    ASSUME IInv, NEW h \in Handle, NEW e \in Elem, NEW i \in Nat, InsertAt(h, i, e)
    PROVE  Lists!Next
<1>1. list[h] # Nullptr /\ i <= Count(h) /\ PutAt(h, "insert_at", i, e)
    BY DEF InsertAt
<1>2. Items[h] # Nullptr /\ Len(Items[h]) = Count(h) /\ Count(h) \in Nat
    BY <1>1, ItemsSeq, ListHasType DEF ListType
<1>3. CASE NothingChanges("insert_at", "OUT_OF_MEMORY")
    BY <1>3, OutOfMemoryStep
<1>4. CASE ~NothingChanges("insert_at", "OUT_OF_MEMORY")
    <2> DEFINE s == SubSeq(Items[h], 1, i) \o <<e>> \o SubSeq(Items[h], i + 1, Len(Items[h]))
    <2>1. Items' = [Items EXCEPT ![h] = s] /\ Answer("insert_at", "NONE")
        BY <1>1, <1>4, PutAtStep
    <2>2. s = Lists!InsertAt(Items[h], i + 1, e)
        <3>1. (i + 1) - 1 = i
            OBVIOUS
        <3> QED BY <3>1 DEF Lists!InsertAt
    <2>3. i + 1 \in 1..(Len(Items[h]) + 1)
        BY <1>1, <1>2
    <2> HIDE DEF s
    <2>4. Lists!Change(h, "insert_at", Lists!InsertAt(Items[h], i + 1, e))
        BY <2>1, <2>2, ChangeStep
    <2> QED BY <1>2, <2>3, <2>4 DEF Lists!ListStep, Lists!Next
<1>5. QED BY <1>3, <1>4

LEMMA RemoveAtStep ==
    ASSUME IInv, NEW h \in Handle, NEW i \in Nat, RemoveAt(h, i)
    PROVE  Lists!Next
<1> DEFINE s == Items[h]
           n == Count(h)
           d == MovedDown(Data(h), i + 1, n)
<1>1. list[h] # Nullptr /\ i < n /\ SetList(h, "remove_at", Capacity(h), n - 1, d)
    BY DEF RemoveAt
<1>2. /\ s # Nullptr /\ s \in Seq(Elem) /\ Len(s) = n
      /\ \A j \in 1..n : s[j] = Data(h)[j - 1]
    BY <1>1, ItemsSeq
<1>3. ListType(Capacity(h), n, Data(h)) /\ n \in Nat
    BY <1>1, ListHasType DEF ListType
<1>4. \A j \in 0..(n - 2) : d[j] = IF j < i THEN Data(h)[j] ELSE Data(h)[j + 1]
    BY <1>1, <1>3, MovedDownType
<1>5. Items' = [Items EXCEPT ![h] = SeqOf(n - 1, d)] /\ Answer("remove_at", "NONE")
    <2> HIDE DEF n, d
    <2>1. Items' = [Items EXCEPT ![h] = SeqOf(n - 1, d)]
        BY <1>1, ItemsSetList
    <2>2. Answer("remove_at", "NONE")
        BY <1>1 DEF SetList
    <2> QED BY <2>1, <2>2
<1> HIDE DEF s, n, d
<1>6. \A j \in 0..(n - 2) : d[j] = IF j < i THEN s[j + 1] ELSE s[j + 2]
    <2>1. \A j \in 0..(n - 1) : Data(h)[j] = s[j + 1]
        BY <1>2, <1>3
    <2> QED BY <1>1, <1>3, <1>4, <2>1
<1>7. SeqOf(n - 1, d) = SubSeq(s, 1, i) \o SubSeq(s, i + 2, Len(s))
    <2>1. i \in 0..(Len(s) - 1)
        BY <1>1, <1>2, <1>3
    <2>2. SeqOf(Len(s) - 1, d) = SubSeq(s, 1, i) \o SubSeq(s, i + 2, Len(s))
        BY <1>2, <1>6, <2>1, SeqRemoved
    <2> QED BY <1>2, <2>2
<1>8. SeqOf(n - 1, d) = Lists!RemoveAt(s, i + 1)
    <2>1. (i + 1) - 1 = i /\ (i + 1) + 1 = i + 2
        OBVIOUS
    <2> QED BY <1>7, <2>1 DEF Lists!RemoveAt
<1>9. Lists!Change(h, "remove_at", Lists!RemoveAt(Items[h], i + 1))
    BY <1>5, <1>8, ChangeStep DEF s
<1>10. i + 1 \in 1..Len(Items[h])
    BY <1>1, <1>2, <1>3 DEF s
<1>11. QED BY <1>2, <1>9, <1>10 DEF Lists!ListStep, Lists!Next, s

LEMMA ClearStep ==
    ASSUME IInv, NEW h \in Handle, Clear(h)
    PROVE  Lists!Next
<1>1. list[h] # Nullptr /\ SetList(h, "clear", Capacity(h), 0, Data(h))
    BY DEF Clear
<1>2. Items' = [Items EXCEPT ![h] = SeqOf(0, Data(h))] /\ Answer("clear", "NONE")
    <2>1. Items' = [Items EXCEPT ![h] = SeqOf(0, Data(h))]
        BY <1>1, ItemsSetList
    <2>2. Answer("clear", "NONE")
        BY <1>1 DEF SetList
    <2> QED BY <2>1, <2>2
<1>3. SeqOf(0, Data(h)) = << >> /\ Items[h] # Nullptr
    <2>1. SeqOf(0, Data(h)) = << >>
        BY DEF SeqOf
    <2>2. Items[h] # Nullptr
        BY <1>1, ItemsSeq
    <2> QED BY <2>1, <2>2
<1>4. Lists!Change(h, "clear", << >>)
    BY <1>2, <1>3, ChangeStep
<1>5. QED BY <1>3, <1>4 DEF Lists!ListStep, Lists!Next

\* A bijection on the slots 0 .. n - 1 is one on the positions 1 .. n of the sequence.
LEMMA ShiftedBijection ==
    ASSUME NEW n \in Nat, NEW p \in Bijection(0..(n - 1), 0..(n - 1))
    PROVE  [i \in 1..n |-> p[i - 1] + 1] \in Lists!Bijection(1..n, 1..n)
<1> DEFINE q == [i \in 1..n |-> p[i - 1] + 1]
<1>1. /\ p \in [0..(n - 1) -> 0..(n - 1)]
      /\ \A a, b \in 0..(n - 1) : p[a] = p[b] => a = b
      /\ \A t \in 0..(n - 1) : \E a \in 0..(n - 1) : p[a] = t
    BY DEF Bijection, Injection, Surjection, IsInjective
<1>2. \A i \in 1..n : i - 1 \in 0..(n - 1)
    OBVIOUS
<1>3. q \in [1..n -> 1..n]
    <2>1. \A i \in 1..n : p[i - 1] \in 0..(n - 1)
        BY <1>1, <1>2
    <2>2. \A i \in 1..n : p[i - 1] + 1 \in 1..n
        BY <2>1
    <2> QED BY <2>2
<1>4. ASSUME NEW a \in 1..n, NEW b \in 1..n, q[a] = q[b]
      PROVE  a = b
    <2>1. p[a - 1] \in Int /\ p[b - 1] \in Int
        BY <1>1, <1>2
    <2>2. p[a - 1] = p[b - 1]
        BY <1>4, <2>1
    <2>3. a - 1 = b - 1
        BY <1>1, <1>2, <2>2
    <2> QED BY <2>3
<1>5. ASSUME NEW t \in 1..n
      PROVE  \E i \in 1..n : q[i] = t
    <2>1. PICK a \in 0..(n - 1) : p[a] = t - 1
        BY <1>1, <1>2
    <2>2. a + 1 \in 1..n /\ (a + 1) - 1 = a
        OBVIOUS
    <2>3. q[a + 1] = t
        BY <2>1, <2>2
    <2> QED BY <2>2, <2>3
<1> HIDE DEF q
<1>6. DOMAIN q = 1..n
    BY <1>3
<1>7. q \in Lists!Bijection(1..n, 1..n)
    BY <1>3, <1>4, <1>5, <1>6
    DEF Lists!Bijection, Lists!Injection, Lists!Surjection, Lists!IsInjective
<1>8. QED BY <1>7 DEF q

LEMMA SortStep ==
    ASSUME IInv, NEW h \in Handle, Sort(h)
    PROVE  Lists!Next
<1> DEFINE s == Items[h]
           n == Count(h)
           d == Data(h)
<1>1. list[h] # Nullptr
    BY DEF Sort
<1>2. PICK p \in Bijection(0..(n - 1), 0..(n - 1)) :
          /\ \A i, j \in 0..(n - 1) : i <= j => Rank[d[p[i]]] <= Rank[d[p[j]]]
          /\ SetList(h, "sort", Capacity(h), n, SortedData(n, d, p))
    BY DEF Sort, SortedData
<1> DEFINE q == [i \in 1..n |-> p[i - 1] + 1]
           sorted == [i \in 1..n |-> s[q[i]]]
<1>3. p \in [0..(n - 1) -> 0..(n - 1)]
    BY <1>2 DEF Bijection, Injection
<1>4. ListType(Capacity(h), n, d) /\ n \in Nat
    BY <1>1, ListHasType DEF ListType
<1>5. /\ s \in Seq(Elem) /\ s # Nullptr /\ Len(s) = n /\ DOMAIN s = 1..n
      /\ \A j \in 1..n : s[j] = d[j - 1]
    <2>1. /\ s \in Seq(Elem) /\ s # Nullptr /\ Len(s) = n
          /\ \A j \in 1..n : s[j] = d[j - 1]
        BY <1>1, ItemsSeq
    <2>2. DOMAIN s = 1..n
        BY <2>1, LenProperties
    <2> QED BY <2>1, <2>2
<1>6. \A j \in 0..(n - 1) : SortedData(n, d, p)[j] = d[p[j]]
    BY <1>3, <1>4, SortedType
<1>7. Items' = [Items EXCEPT ![h] = SeqOf(n, SortedData(n, d, p))]
    BY <1>1, <1>2, ItemsSetList
<1>8. Answer("sort", "NONE")
    BY <1>2 DEF SetList
<1>9. q \in Lists!Bijection(DOMAIN s, DOMAIN s)
    BY <1>2, <1>4, <1>5, ShiftedBijection
<1> HIDE DEF s, n, d
<1>10. \A i \in 1..n : sorted[i] = d[p[i - 1]]
    <2>1. \A i \in 1..n : i - 1 \in 0..(n - 1) /\ p[i - 1] \in 0..(n - 1)
        BY <1>3, <1>4
    <2>2. \A k \in 0..(n - 1) : s[k + 1] = d[k]
        BY <1>4, <1>5
    <2> QED BY <2>1, <2>2
<1>11. SeqOf(n, SortedData(n, d, p)) = sorted
    <2>1. \A i \in 1..n : SortedData(n, d, p)[i - 1] = sorted[i]
        BY <1>4, <1>6, <1>10
    <2> HIDE DEF sorted
    <2>2. SeqOf(n, SortedData(n, d, p)) = [i \in 1..n |-> sorted[i]]
        BY <2>1 DEF SeqOf
    <2> QED BY <2>2 DEF sorted
<1>12. Lists!Ordered(sorted)
    <2>1. DOMAIN sorted = 1..n
        OBVIOUS
    <2>2. ASSUME NEW i \in 1..n, NEW j \in 1..n, i <= j
          PROVE  Rank[sorted[i]] <= Rank[sorted[j]]
        <3>1. i - 1 \in 0..(n - 1) /\ j - 1 \in 0..(n - 1) /\ i - 1 <= j - 1
            BY <1>4, <2>2
        <3>2. Rank[d[p[i - 1]]] <= Rank[d[p[j - 1]]]
            BY <1>2, <3>1
        <3> HIDE DEF sorted
        <3> QED BY <1>10, <3>2
    <2> HIDE DEF sorted
    <2> QED BY <2>1, <2>2 DEF Lists!Ordered
<1> HIDE DEF q
<1>13. sorted = [i \in DOMAIN s |-> s[q[i]]]
    BY <1>5
<1>14. Lists!Sort(h)
    <2> HIDE DEF sorted
    <2>1. Items' = [Items EXCEPT ![h] = [i \in DOMAIN s |-> s[q[i]]]]
        BY <1>7, <1>11, <1>13
    <2>2. Lists!Ordered([i \in DOMAIN s |-> s[q[i]]])
        BY <1>12, <1>13
    <2> QED BY <1>8, <1>9, <2>1, <2>2 DEF Lists!Sort, Lists!Answer, Answer, s
<1>15. QED BY <1>5, <1>14 DEF Lists!ListStep, Lists!Next, s

\* Every call is one of the lists of list.h.
LEMMA ListsStep == IInv /\ [Next]_vars => [Lists!Next]_(Lists!vars)
<1> SUFFICES ASSUME IInv, [Next]_vars PROVE [Lists!Next]_(Lists!vars)
    OBVIOUS
<1>1. CASE UNCHANGED vars
    <2>1. Items' = Items /\ last' = last
        BY <1>1, ItemsUnchanged DEF vars
    <2> QED BY <2>1 DEF Lists!vars
<1>2. ASSUME NEW h \in Handle, ListStep(h) PROVE Lists!Next
    <2>0. 0..MaxCount \subseteq Nat
        BY MaxCountAssumption
    <2>1. ASSUME NEW cap \in InitialCapacities, New(h, cap) PROVE Lists!Next
        BY <2>1, NewStep
    <2>2. ASSUME NEW g \in Handle, Clone(h, g) PROVE Lists!Next
        BY <2>2, CloneStep
    <2>3. ASSUME NEW wanted \in 0..MaxCount, EnsureCapacity(h, wanted) PROVE Lists!Next
        BY <2>0, <2>3, EnsureCapacityStep
    <2>4. ASSUME NEW e \in Elem, Add(h, e) PROVE Lists!Next
        BY <2>4, AddStep
    <2>5. ASSUME NEW e \in Elem, NEW i \in 0..MaxCount, InsertAt(h, i, e) PROVE Lists!Next
        BY <2>0, <2>5, InsertAtStep
    <2>6. ASSUME NEW i \in 0..MaxCount, RemoveAt(h, i) PROVE Lists!Next
        BY <2>0, <2>6, RemoveAtStep
    <2>7. CASE TrimExcess(h)
        BY <2>7, TrimExcessStep
    <2>8. CASE Clear(h)
        BY <2>8, ClearStep
    <2>9. CASE Sort(h)
        BY <2>9, SortStep
    <2>10. CASE Free(h)
        BY <2>10, FreeStep
    <2> QED
        BY <1>2, <2>1, <2>2, <2>3, <2>4, <2>5, <2>6, <2>7, <2>8, <2>9, <2>10 DEF ListStep
<1>3. QED BY <1>1, <1>2 DEF Next

\* list.h: whatever the calls, moves and failures, every list of a client is a sequence of its
\* own, for every number of lists and blocks, every set of elements and every capacity.
THEOREM ListCorrect == Spec => ListSpec
<1>1. Init => Lists!Init
    BY DEF Init, Items, Lists!Init
<1>2. QED BY <1>1, ListsStep, InvariantHolds, PTL DEF Spec, ListSpec, Lists!Spec
================================================================================
