-------------------------------- MODULE ScuList --------------------------------
(***************************************************************************)
(* The lists of src/list.c.  A list is one block of memory: a header and   *)
(* the elements behind it; the client holds a pointer to the elements,     *)
(* which a call that reallocates the block assigns anew.  One action is    *)
(* one call, on any of the client's lists.                                 *)
(*                                                                         *)
(* Every allocation may fail, and scu_realloc may move a block or leave it *)
(* where it is.  A slot nobody has written holds Junk; a removed element   *)
(* stays in its slot.  The bytes of a freed block are not modelled.        *)
(***************************************************************************)
EXTENDS Integers, Sequences, Functions

CONSTANTS
    Handle,             \* the client's pointers to lists
    Block,              \* where a block of memory can lie
    Nullptr,
    Elem,
    Rank,               \* the order of the client's comparison function
    Junk,
    InitialCapacities,  \* the capacities scu_list_new_with_capacity is called with
    MaxCount            \* bound: no more elements than this are stored or asked room for

ASSUME NullptrAssumption == Nullptr \notin Block /\ Nullptr \notin Seq(Elem)
ASSUME JunkAssumption == Junk \notin Elem
ASSUME RankAssumption == Rank \in [Elem -> Int]
ASSUME CapacitiesAssumption == InitialCapacities \subseteq Nat
ASSUME MaxCountAssumption == MaxCount \in Nat

VARIABLES
    list,               \* what the client's pointers point to
    live,               \* the blocks that are allocated
    memory,             \* the header and the elements in a block
    last                \* the last call and its outcome

vars == <<list, live, memory, last>>

Cell == Elem \cup {Junk}

Unused == [capacity |-> 0, count |-> 0, data |-> [j \in 0..-1 |-> Junk]]

\* The fields of the header in front of the list h, and its elements.
Capacity(h) == memory[list[h]].capacity
Count(h) == memory[list[h]].count
Data(h) == memory[list[h]].data

Answer(op, outcome) ==
    last' = [op |-> op, outcome |-> outcome]

NothingChanges(op, outcome) ==
    /\ Answer(op, outcome)
    /\ UNCHANGED <<list, live, memory>>

\* Only the block of h changes.
SetList(h, op, cap, n, d) ==
    /\ memory' = [memory EXCEPT ![list[h]] = [capacity |-> cap, count |-> n, data |-> d]]
    /\ Answer(op, "NONE")
    /\ UNCHANGED <<list, live>>

--------------------------------------------------------------------------------
(* Storage *)

\* A new block, for a pointer that has none.
Allocate(h, op, cap, n, d) ==
    /\ list[h] = Nullptr
    /\ \/ \E b \in Block \ live :
             /\ list' = [list EXCEPT ![h] = b]
             /\ live' = live \cup {b}
             /\ memory' = [memory EXCEPT ![b] = [capacity |-> cap, count |-> n, data |-> d]]
             /\ Answer(op, "NONE")
       \/ NothingChanges(op, "OUT_OF_MEMORY")

New(h, cap) == Allocate(h, "new", cap, 0, [j \in 0..(cap - 1) |-> Junk])

\* A copy of the list h for the pointer g.
Clone(h, g) ==
    /\ list[h] # Nullptr
    /\ Allocate(g, "clone", Capacity(h), Count(h),
                [j \in 0..(Capacity(h) - 1) |-> IF j < Count(h) THEN Data(h)[j] ELSE Junk])

\* The client forgets its pointer.  A nullptr may be freed, too.
Free(h) ==
    /\ live' = live \ {list[h]}
    /\ memory' = [b \in Block |-> IF b = list[h] THEN Unused ELSE memory[b]]
    /\ list' = [list EXCEPT ![h] = Nullptr]
    /\ Answer("free", "NONE")

\* Mutant: the client's pointer is left where it was.
AssignNot(h, b) == list
Assign(h, b) == [list EXCEPT ![h] = b]

\* What scu_realloc to n slots keeps of the elements.
Resized(h, n) == [j \in 0..(n - 1) |-> IF j < Capacity(h) THEN Data(h)[j] ELSE Junk]

\* The block of h is reallocated, to where it was or somewhere else.
Reallocate(h, op, cap, n, d) ==
    /\ \E b \in (Block \ live) \cup {list[h]} :
          /\ list' = Assign(h, b)
          /\ live' = (live \ {list[h]}) \cup {b}
          /\ memory' = [memory EXCEPT ![list[h]] = Unused,
                                      ![b] = [capacity |-> cap, count |-> n, data |-> d]]
    /\ Answer(op, "NONE")

\* The smallest capacity the doubling loop reaches from cap that holds wanted > cap elements.
GrownCapacities(cap, wanted) ==
    LET base == IF cap > 0 THEN cap ELSE 1
    IN  {n \in wanted..(2 * wanted - 1) : \E k \in 0..wanted : n = base * 2^k}

EnsureCapacity(h, wanted) ==
    /\ list[h] # Nullptr
    /\ \/ /\ Capacity(h) >= wanted
          /\ NothingChanges("ensure_capacity", "NONE")
       \/ /\ Capacity(h) < wanted
          /\ \E n \in GrownCapacities(Capacity(h), wanted) :
                Reallocate(h, "ensure_capacity", n, Count(h), Resized(h, n))
       \/ /\ Capacity(h) < wanted
          /\ NothingChanges("ensure_capacity", "OUT_OF_MEMORY")

\* Mutant: the header keeps its capacity.
TrimExcessKeepsCapacity(h) ==
    /\ list[h] # Nullptr
    /\ Capacity(h) > Count(h)
    /\ Reallocate(h, "trim_excess", Capacity(h), Count(h), Resized(h, Count(h)))

TrimExcess(h) ==
    /\ list[h] # Nullptr
    /\ \/ /\ Capacity(h) <= Count(h)
          /\ NothingChanges("trim_excess", "NONE")
       \/ /\ Capacity(h) > Count(h)
          /\ Reallocate(h, "trim_excess", Count(h), Count(h), Resized(h, Count(h)))
       \/ /\ Capacity(h) > Count(h)
          /\ NothingChanges("trim_excess", "OUT_OF_MEMORY")

--------------------------------------------------------------------------------
(* Elements *)

\* Mutant: memcpy from left to right, which reads what it has written.
MovedUpByCopy(d, i, n) == [j \in DOMAIN d |-> IF i < j /\ j <= n THEN d[i] ELSE d[j]]

\* memmove of the slots i .. n - 1 of d one to the right, and one to the left.
MovedUp(d, i, n) == [j \in DOMAIN d |-> IF i < j /\ j <= n THEN d[j - 1] ELSE d[j]]
MovedDown(d, i, n) == [j \in DOMAIN d |-> IF i - 1 <= j /\ j < n - 1 THEN d[j + 1] ELSE d[j]]

\* e at the place i of d, before the elements that were there.
Inserted(h, i, e, d) == [MovedUp(d, i, Count(h)) EXCEPT ![i] = e]

\* scu_list_add and scu_list_insert_at: the room is made, then the element is put there.
PutAt(h, op, i, e) ==
    /\ Count(h) < MaxCount
    /\ \/ /\ Capacity(h) >= Count(h) + 1
          /\ SetList(h, op, Capacity(h), Count(h) + 1, Inserted(h, i, e, Data(h)))
       \/ /\ Capacity(h) < Count(h) + 1
          /\ \E n \in GrownCapacities(Capacity(h), Count(h) + 1) :
                Reallocate(h, op, n, Count(h) + 1, Inserted(h, i, e, Resized(h, n)))
       \/ /\ Capacity(h) < Count(h) + 1
          /\ NothingChanges(op, "OUT_OF_MEMORY")

Add(h, e) ==
    /\ list[h] # Nullptr
    /\ PutAt(h, "add", Count(h), e)

InsertAt(h, i, e) ==
    /\ list[h] # Nullptr
    /\ i <= Count(h)
    /\ PutAt(h, "insert_at", i, e)

RemoveAt(h, i) ==
    /\ list[h] # Nullptr
    /\ i < Count(h)
    /\ SetList(h, "remove_at", Capacity(h), Count(h) - 1, MovedDown(Data(h), i + 1, Count(h)))

Clear(h) ==
    /\ list[h] # Nullptr
    /\ SetList(h, "clear", Capacity(h), 0, Data(h))

\* scu_array_sort, which is qsort: some order of the elements in which none is before a
\* smaller one.
Sort(h) ==
    LET Used == 0..(Count(h) - 1)
        d == Data(h)
    IN  /\ list[h] # Nullptr
        /\ \E p \in Bijection(Used, Used) :
              /\ \A i, j \in Used : i <= j => Rank[d[p[i]]] <= Rank[d[p[j]]]
              /\ SetList(h, "sort", Capacity(h), Count(h),
                         [j \in DOMAIN d |-> IF j \in Used THEN d[p[j]] ELSE d[j]])

--------------------------------------------------------------------------------
(* The specification *)

Init ==
    /\ list = [h \in Handle |-> Nullptr]
    /\ live = {}
    /\ memory = [b \in Block |-> Unused]
    /\ last = [op |-> "none", outcome |-> "NONE"]

ListStep(h) ==
    \/ \E cap \in InitialCapacities : New(h, cap)
    \/ \E g \in Handle : Clone(h, g)
    \/ \E wanted \in 0..MaxCount : EnsureCapacity(h, wanted)
    \/ \E e \in Elem : Add(h, e)
    \/ \E e \in Elem, i \in 0..MaxCount : InsertAt(h, i, e)
    \/ \E i \in 0..MaxCount : RemoveAt(h, i)
    \/ TrimExcess(h) \/ Clear(h) \/ Sort(h) \/ Free(h)

Next == \E h \in Handle : ListStep(h)

Spec == Init /\ [][Next]_vars

--------------------------------------------------------------------------------
(* Properties *)

\* The types of the fields of struct ScuListHeader and of the client's pointers; the array
\* behind a header has the capacity it names, and the elements in use have been written.
TypeOK ==
    /\ list \in [Handle -> Block \cup {Nullptr}]
    /\ live \in SUBSET Block
    /\ DOMAIN memory = Block
    /\ \A b \in Block :
          /\ memory[b].capacity \in Nat
          /\ memory[b].count \in 0..memory[b].capacity
          /\ memory[b].data \in [0..(memory[b].capacity - 1) -> Cell]
          /\ \A i \in 0..(memory[b].count - 1) : memory[b].data[i] \in Elem

\* list.h: the pointer to the new block is assigned to *list.  A pointer of the client never
\* dangles, no two share a block, and no block is without one.
PointersRight ==
    /\ live = {list[h] : h \in Handle} \ {Nullptr}
    /\ \A h, g \in Handle : list[h] = list[g] /\ list[h] # Nullptr => h = g

\* What the client finds behind its pointers.
Items == [h \in Handle |->
             IF list[h] = Nullptr THEN Nullptr ELSE [i \in 1..Count(h) |-> Data(h)[i - 1]]]

Lists == INSTANCE ElementList WITH items <- Items, NoList <- Nullptr

\* list.h: every list is a sequence of its own under all calls; growth, trims, clones and
\* failures neither lose, duplicate nor reorder an element, in this list or in another.
ListSpec == Lists!Spec
================================================================================
