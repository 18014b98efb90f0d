----------------------------- MODULE ScuPrioQueue ------------------------------
(***************************************************************************)
(* The implicit heap of src/prio-queue.c.  The client makes one call at a  *)
(* time.  Each swap of an enqueue or a dequeue is a step; a call without   *)
(* swaps is one step.  Every allocation may fail.                          *)
(*                                                                         *)
(* Elements are model values, a priority is its rank in the order of       *)
(* prioCmpFunc.  A slot nobody has written holds Junk (the array comes     *)
(* from scu_malloc or scu_realloc); a slot behind the last node keeps what *)
(* was written there last.                                                 *)
(***************************************************************************)
EXTENDS Integers, FiniteSets

CONSTANTS
    Elem,
    Prio,
    Junk,               \* the content of a slot nobody has written; no entry
    InitialCapacities,  \* the capacities scu_prio_queue_new_with_capacity is called with
    MaxCount            \* bound: no more elements than this are stored or asked room for

ASSUME PrioAssumption == Prio \subseteq Int
ASSUME CapacitiesAssumption == InitialCapacities \subseteq Nat
ASSUME MaxCountAssumption == MaxCount \in Nat

Entry == [elem : Elem, prio : Prio]
ASSUME JunkAssumption == Junk \notin Entry
ASSUME JunkIsNoBag == Junk \notin [Entry -> Nat]

VARIABLES
    allocated,          \* whether the client holds a priority queue (not nullptr)
    capacity,
    count,
    nodes,              \* nodes[0 .. capacity - 1]
    iterIndex,          \* ScuPrioQueueIter.index; NoIter when no iterator is valid
    pc,                 \* the loop the current call is in; "idle" between calls
    index,              \* the local of that loop
    taken,              \* what the current call took or will hand out: elem and prio
    last                \* the answer to the last call, until the next one begins

heap == <<allocated, capacity, count, nodes>>
vars == <<heap, iterIndex, pc, index, taken, last>>

NoIter == -2
SCU_HEAP_ARITY == 4

Slots(n) == [0..(n - 1) -> Entry \cup {Junk}]
Unwritten(n) == [j \in 0..(n - 1) |-> Junk]

--------------------------------------------------------------------------------
(* The heap *)

Parent(i) == (i - 1) \div SCU_HEAP_ARITY
FirstChild(i) == i * SCU_HEAP_ARITY + 1

\* Mutant: the scan leaves out the last child.
AllChildrenButOne(i) ==
    {j \in FirstChild(i)..(FirstChild(i) + SCU_HEAP_ARITY - 2) : j < count}
Children(i) == {j \in FirstChild(i)..(FirstChild(i) + SCU_HEAP_ARITY - 1) : j < count}

\* The child the scan ends with: the first of those with the lowest priority.
MinChildren(i) ==
    {j \in Children(i) :
        \A k \in Children(i) : /\ nodes[j].prio <= nodes[k].prio
                               /\ k < j => nodes[j].prio < nodes[k].prio}

Swapped(i, j) == [nodes EXCEPT ![i] = nodes[j], ![j] = nodes[i]]

\* The smallest capacity the doubling loop reaches that holds wanted > capacity elements.
GrownCapacities(wanted) ==
    LET base == IF capacity > 0 THEN capacity ELSE 1
    IN  {n \in wanted..(2 * wanted - 1) : \E k \in 0..wanted : n = base * 2^k}

\* scu_realloc to n slots: those both arrays have keep their content.
Resized(n) == [j \in 0..(n - 1) |-> IF j < capacity THEN nodes[j] ELSE Junk]

--------------------------------------------------------------------------------
(* Calls and returns *)

Answer(op, x, outcome) ==
    /\ pc' = "idle"
    /\ index' = 0
    /\ taken' = Junk
    /\ last' = [op |-> op, entry |-> x, outcome |-> outcome]

\* The current call goes on in the loop label.
Continue(label, i, x) ==
    /\ pc' = label
    /\ index' = i
    /\ taken' = x
    /\ last' = [op |-> "none", entry |-> Junk, outcome |-> "NONE"]

DropIter == iterIndex' = NoIter

SetHeap(cap, n, ns) ==
    /\ capacity' = cap
    /\ count' = n
    /\ nodes' = ns
    /\ UNCHANGED allocated

OutOfMemory(op, x) ==
    /\ UNCHANGED heap
    /\ Answer(op, x, "OUT_OF_MEMORY")

--------------------------------------------------------------------------------
(* Enqueue *)

\* The new node at the end of ns, an array of cap slots.
PutLast(x, cap, ns) ==
    /\ SetHeap(cap, count + 1, [ns EXCEPT ![count] = x])
    /\ Continue("up", count, x)

Enqueue(x) ==
    /\ pc = "idle"
    /\ allocated
    /\ count < MaxCount
    /\ \/ /\ capacity >= count + 1
          /\ PutLast(x, capacity, nodes)
       \/ /\ capacity < count + 1
          /\ \E n \in GrownCapacities(count + 1) : PutLast(x, n, Resized(n))
       \/ /\ capacity < count + 1
          /\ OutOfMemory("enqueue", x)
    /\ DropIter

Rises == index > 0 /\ nodes[index].prio < nodes[Parent(index)].prio

SiftUp ==
    /\ pc = "up"
    /\ Rises
    /\ SetHeap(capacity, count, Swapped(index, Parent(index)))
    /\ Continue("up", Parent(index), taken)
    /\ DropIter

SiftUpEnd ==
    /\ pc = "up"
    /\ ~Rises
    /\ UNCHANGED heap
    /\ Answer("enqueue", taken, "NONE")
    /\ DropIter

--------------------------------------------------------------------------------
(* Dequeue *)

\* scu_prio_queue_dequeue is this call on a queue that is not empty; it aborts on an empty one.
TryDequeue ==
    /\ pc = "idle"
    /\ allocated
    /\ \/ /\ count = 0
          /\ UNCHANGED heap
          /\ Answer("try_dequeue", Junk, "EMPTY")
       \/ /\ count = 1
          /\ SetHeap(capacity, 0, nodes)
          /\ Answer("try_dequeue", nodes[0], "NONE")
       \/ /\ count > 1
          /\ SetHeap(capacity, count - 1, [nodes EXCEPT ![0] = nodes[count - 1]])
          /\ Continue("down", 0, nodes[0])
    /\ DropIter

Sinks(c) == nodes[index].prio > nodes[c].prio

\* Mutant: the node is copied down, not swapped.
SiftDownCopies ==
    /\ pc = "down"
    /\ \E c \in MinChildren(index) :
          /\ Sinks(c)
          /\ SetHeap(capacity, count, [nodes EXCEPT ![index] = nodes[c]])
          /\ Continue("down", c, taken)
    /\ DropIter

SiftDown ==
    /\ pc = "down"
    /\ \E c \in MinChildren(index) :
          /\ Sinks(c)
          /\ SetHeap(capacity, count, Swapped(index, c))
          /\ Continue("down", c, taken)
    /\ DropIter

SiftDownEnd ==
    /\ pc = "down"
    /\ \A c \in MinChildren(index) : ~Sinks(c)
    /\ UNCHANGED heap
    /\ Answer("try_dequeue", taken, "NONE")
    /\ DropIter

--------------------------------------------------------------------------------
(* The other calls *)

New(cap) ==
    /\ pc = "idle"
    /\ ~allocated
    /\ \/ /\ allocated' = TRUE
          /\ capacity' = cap /\ count' = 0 /\ nodes' = Unwritten(cap)
          /\ Answer("new", Junk, "NONE")
       \/ OutOfMemory("new", Junk)
    /\ DropIter

Free ==
    /\ pc = "idle"
    /\ allocated
    /\ allocated' = FALSE
    /\ capacity' = 0 /\ count' = 0 /\ nodes' = Unwritten(0)
    /\ Answer("free", Junk, "NONE")
    /\ DropIter

\* The client goes on with the clone, into which the nodes in use are copied.
Clone ==
    /\ pc = "idle"
    /\ allocated
    /\ \/ /\ SetHeap(capacity, count,
                     [j \in 0..(capacity - 1) |-> IF j < count THEN nodes[j] ELSE Junk])
          /\ Answer("clone", Junk, "NONE")
       \/ OutOfMemory("clone", Junk)
    /\ DropIter

EnsureCapacity(wanted) ==
    /\ pc = "idle"
    /\ allocated
    /\ \/ /\ capacity >= wanted
          /\ UNCHANGED heap
          /\ Answer("ensure_capacity", Junk, "NONE")
       \/ /\ capacity < wanted
          /\ \E n \in GrownCapacities(wanted) : SetHeap(n, count, Resized(n))
          /\ Answer("ensure_capacity", Junk, "NONE")
       \/ /\ capacity < wanted
          /\ OutOfMemory("ensure_capacity", Junk)
    /\ DropIter

TryPeek ==
    /\ pc = "idle"
    /\ allocated
    /\ \/ /\ count = 0
          /\ Answer("try_peek", Junk, "EMPTY")
       \/ /\ count > 0
          /\ Answer("try_peek", nodes[0], "NONE")
    /\ UNCHANGED <<heap, iterIndex>>

Clear ==
    /\ pc = "idle"
    /\ allocated
    /\ SetHeap(capacity, 0, nodes)
    /\ Answer("clear", Junk, "NONE")
    /\ DropIter

\* Mutant: one node too many is cut off.
TrimExcessByOneMore ==
    /\ pc = "idle"
    /\ allocated
    /\ capacity > count
    /\ count > 1
    /\ SetHeap(count - 1, count, Resized(count - 1))
    /\ Answer("trim_excess", Junk, "NONE")
    /\ DropIter

TrimExcess ==
    /\ pc = "idle"
    /\ allocated
    /\ \/ /\ capacity <= count
          /\ UNCHANGED heap
          /\ Answer("trim_excess", Junk, "NONE")
       \/ /\ capacity > count
          /\ SetHeap(count, count, Resized(count))
          /\ Answer("trim_excess", Junk, "NONE")
       \/ /\ capacity > count
          /\ count > 0
          /\ OutOfMemory("trim_excess", Junk)
    /\ DropIter

\* scu_prio_queue_iter and scu_prio_queue_iter_reset.
IterStart ==
    /\ pc = "idle"
    /\ allocated
    /\ iterIndex' = -1
    /\ Answer("iter", Junk, "NONE")
    /\ UNCHANGED heap

\* One turn of a foreach loop: move_next, and current when it returned true.
IterMoveNext ==
    /\ pc = "idle"
    /\ iterIndex # NoIter
    /\ \/ /\ iterIndex + 1 < count
          /\ iterIndex' = iterIndex + 1
          /\ Answer("iter_move_next", nodes[iterIndex + 1], "NONE")
       \/ /\ iterIndex + 1 >= count
          /\ UNCHANGED iterIndex
          /\ Answer("iter_move_next", Junk, "EMPTY")
    /\ UNCHANGED heap

--------------------------------------------------------------------------------
(* The specification *)

Init ==
    /\ allocated = FALSE
    /\ capacity = 0 /\ count = 0 /\ nodes = Unwritten(0)
    /\ iterIndex = NoIter
    /\ pc = "idle" /\ index = 0 /\ taken = Junk
    /\ last = [op |-> "none", entry |-> Junk, outcome |-> "NONE"]

\* The client makes a call.
ClientCall ==
    \/ \E cap \in InitialCapacities : New(cap)
    \/ \E x \in Entry : Enqueue(x)
    \/ \E wanted \in 0..MaxCount : EnsureCapacity(wanted)
    \/ TryDequeue \/ TryPeek
    \/ Free \/ Clone \/ Clear \/ TrimExcess
    \/ IterStart \/ IterMoveNext

\* The library goes on with the current call.
Work == SiftUp \/ SiftUpEnd \/ SiftDown \/ SiftDownEnd

Next == ClientCall \/ Work

Spec == Init /\ [][Next]_vars

--------------------------------------------------------------------------------
(* Properties *)

Ops == {"none", "new", "free", "clone", "ensure_capacity", "enqueue", "try_dequeue", "try_peek",
        "clear", "trim_excess", "iter", "iter_move_next"}

\* The types of the fields of struct ScuPrioQueue and of the locals of its functions; the
\* nodes in use have been written.
TypeOK ==
    /\ allocated \in BOOLEAN
    /\ capacity \in Nat
    /\ count \in 0..capacity
    /\ nodes \in Slots(capacity)
    /\ \A i \in 0..(count - 1) : nodes[i] \in Entry
    /\ iterIndex \in {NoIter} \cup (-1..(count - 1))
    /\ pc \in {"idle", "up", "down"}
    /\ index \in 0..capacity
    /\ pc # "idle" => index < count /\ taken \in Entry
    /\ taken \in Entry \cup {Junk}
    /\ last \in [op : Ops, entry : Entry \cup {Junk},
                 outcome : {"NONE", "OUT_OF_MEMORY", "EMPTY"}]

InOrder(i, j) == nodes[i].prio <= nodes[j].prio

\* The heap order, within the calls too: only the node on its way up may be lower than its
\* parent, only the node on its way down higher than its children; the nodes around it
\* are in order with one another.
HeapOrder ==
    /\ \A j \in 1..(count - 1) :
          \/ InOrder(Parent(j), j)
          \/ pc = "up" /\ j = index
          \/ pc = "down" /\ Parent(j) = index
    /\ pc # "idle" /\ index > 0 =>
          \A j \in 1..(count - 1) : Parent(j) = index => InOrder(Parent(index), j)

\* How often entry x is in the nodes of is.
Occurrences(x, is) == Cardinality({i \in is : nodes[i] = x})

\* The entries as the client sees them: one that is being enqueued is there once the call
\* has returned, and until then one that is being dequeued.
Bag ==
    [x \in Entry |->
        CASE pc = "idle" -> Occurrences(x, 0..(count - 1))
          [] pc = "up"   -> Occurrences(x, (0..(count - 1)) \ {index})
          [] pc = "down" -> Occurrences(x, 0..(count - 1)) + (IF taken = x THEN 1 ELSE 0)]

Seen ==
    IF iterIndex = NoIter THEN Junk ELSE [x \in Entry |-> Occurrences(x, 0..iterIndex)]

Abstract == INSTANCE PriorityBag WITH bag <- Bag, seen <- Seen

\* prio-queue.h: the element that is dequeued or looked at has the lowest priority of all;
\* no swap, growth, trim or failure loses or duplicates an entry.
PriorityBagSpec == Abstract!Spec
================================================================================
