-------------------------- MODULE ScuPrioQueueProofs ---------------------------
(***************************************************************************)
(* Theorems about ScuPrioQueue for every set of elements and priorities,   *)
(* every set of initial capacities and every bound.                        *)
(***************************************************************************)
EXTENDS ScuPrioQueue, FiniteSetTheorems, WellFoundedInduction, TLAPS

--------------------------------------------------------------------------------
(* A fact about the order of the natural numbers, in place of induction *)

\* A set of natural numbers that is not empty has a least member.
LEMMA LeastMember ==
    ASSUME NEW S \in SUBSET Nat, S # {}
    PROVE  \E x \in S : \A y \in S : x <= y
<1>1. \E x \in S : \A y \in S : ~(<<y, x>> \in OpToRel(<, Nat))
    <2>1. S \subseteq Nat
        OBVIOUS
    <2> HIDE DEF OpToRel
    <2> QED BY <2>1, NatLessThanWellFounded, WFMin, Zenon
<1>2. \A x, y \in Nat : y < x => <<y, x>> \in OpToRel(<, Nat)
    BY DEF OpToRel
<1>3. PICK x \in S : \A y \in S : ~(<<y, x>> \in OpToRel(<, Nat))
    BY <1>1, Zenon
<1>4. \A y \in S : ~(y < x)
    BY <1>2, <1>3, Zenon
<1>5. QED BY <1>4

--------------------------------------------------------------------------------
(* The shape of the heap *)

\* The parent of a node has a smaller index.
LEMMA ParentRange ==
    ASSUME NEW j \in Nat \ {0}
    PROVE  Parent(j) \in 0..(j - 1)
BY DEF Parent, SCU_HEAP_ARITY

\* The children the scan visits are the nodes in use whose parent the node is.
LEMMA ChildrenAreThoseOfParent ==
    ASSUME NEW i \in Nat, count \in Nat
    PROVE  \A j \in 1..(count - 1) : j \in Children(i) <=> Parent(j) = i
BY DEF Children, FirstChild, Parent, SCU_HEAP_ARITY

LEMMA ChildrenRange ==
    ASSUME NEW i \in Nat, count \in Nat
    PROVE  Children(i) \subseteq (i + 1)..(count - 1)
BY DEF Children, FirstChild, SCU_HEAP_ARITY

\* GrownCapacities only holds capacities with the room asked for.
LEMMA GrownEnough ==
    ASSUME NEW wanted \in Nat, NEW n \in GrownCapacities(wanted)
    PROVE  n \in Nat /\ n >= wanted
BY DEF GrownCapacities

\* A reallocated array keeps the nodes in use that fit into it.
LEMMA ResizedKeeps ==
    ASSUME TypeOK, NEW n \in Nat
    PROVE  /\ Resized(n) \in Slots(n)
           /\ \A i \in 0..(count - 1) : i < n => Resized(n)[i] = nodes[i]
BY DEF TypeOK, Resized, Slots

--------------------------------------------------------------------------------
(* Type correctness *)

LEMMA TypeInit == Init => TypeOK
<1> SUFFICES ASSUME Init PROVE TypeOK
    OBVIOUS
<1> USE DEF Init
<1>1. nodes \in Slots(capacity)
    BY DEF Unwritten, Slots
<1>2. last \in [op : Ops, entry : Entry \cup {Junk}, outcome : {"NONE", "OUT_OF_MEMORY", "EMPTY"}]
    BY DEF Ops
<1>3. \A i \in 0..(count - 1) : nodes[i] \in Entry
    OBVIOUS
<1>4. /\ capacity \in Nat /\ count \in 0..capacity /\ index \in 0..capacity
    OBVIOUS
<1>6. allocated \in BOOLEAN /\ iterIndex = NoIter /\ pc = "idle" /\ taken = Junk
    OBVIOUS
<1>5. QED BY <1>1, <1>2, <1>3, <1>4, <1>6 DEF TypeOK

\* What TypeOK says of the fields of struct ScuPrioQueue.
HeapTyped ==
    /\ allocated \in BOOLEAN
    /\ capacity \in Nat
    /\ count \in 0..capacity
    /\ nodes \in Slots(capacity)
    /\ \A i \in 0..(count - 1) : nodes[i] \in Entry

\* A call that answers leaves well-typed locals behind.
LEMMA AnswerTyped ==
    ASSUME HeapTyped', iterIndex' \in {NoIter} \cup (-1..(count' - 1)),
           NEW op \in Ops, NEW x \in Entry \cup {Junk},
           NEW outcome \in {"NONE", "OUT_OF_MEMORY", "EMPTY"},
           Answer(op, x, outcome)
    PROVE  TypeOK'
<1>1. /\ pc' = "idle" /\ index' = 0 /\ taken' = Junk
      /\ last' = [op |-> op, entry |-> x, outcome |-> outcome]
    BY DEF Answer
<1>2. last' \in [op : Ops, entry : Entry \cup {Junk}, outcome : {"NONE", "OUT_OF_MEMORY", "EMPTY"}]
    BY <1>1
<1>3. index' \in 0..capacity'
    BY <1>1 DEF HeapTyped
<1>4. QED BY <1>1, <1>2, <1>3 DEF TypeOK, HeapTyped

\* So does one that goes on in a loop, at a node in use.
LEMMA ContinueTyped ==
    ASSUME HeapTyped', iterIndex' = NoIter,
           NEW label \in {"up", "down"}, NEW i \in Nat, i < count', NEW x \in Entry,
           Continue(label, i, x)
    PROVE  TypeOK'
<1>1. /\ pc' = label /\ index' = i /\ taken' = x
      /\ last' = [op |-> "none", entry |-> Junk, outcome |-> "NONE"]
    BY DEF Continue
<1>2. last' \in [op : Ops, entry : Entry \cup {Junk}, outcome : {"NONE", "OUT_OF_MEMORY", "EMPTY"}]
    BY <1>1 DEF Ops
<1>3. index' \in 0..capacity' /\ index' < count'
    <2>1. capacity' \in Nat /\ count' \in 0..capacity'
        BY DEF HeapTyped
    <2>2. index' = i
        BY <1>1
    <2> QED BY <2>1, <2>2
<1>4. QED BY <1>1, <1>2, <1>3 DEF TypeOK, HeapTyped

LEMMA OutOfMemoryTyped ==
    ASSUME TypeOK, DropIter, NEW op \in Ops, NEW x \in Entry \cup {Junk}, OutOfMemory(op, x)
    PROVE  TypeOK'
<1>1. HeapTyped'
    BY DEF TypeOK, HeapTyped, OutOfMemory, heap
<1>2. QED BY <1>1, AnswerTyped DEF OutOfMemory, DropIter

\* Putting a node behind the others, in an array that has room for it.
LEMMA PutLastTyped ==
    ASSUME TypeOK, DropIter, NEW x \in Entry, NEW cap \in Nat, count < cap,
           NEW ns \in Slots(cap), \A i \in 0..(count - 1) : ns[i] = nodes[i],
           PutLast(x, cap, ns)
    PROVE  TypeOK'
<1>1. /\ allocated' = allocated /\ capacity' = cap /\ count' = count + 1
      /\ nodes' = [ns EXCEPT ![count] = x]
    BY DEF PutLast, SetHeap
<1>2. count \in 0..(cap - 1)
    BY DEF TypeOK
<1>3. nodes' \in Slots(cap) /\ nodes'[count] = x
    BY <1>1, <1>2 DEF Slots
<1>4. \A i \in 0..(count - 1) : nodes'[i] = nodes[i]
    BY <1>1, <1>2 DEF Slots
<1>5. \A i \in 0..(count' - 1) : nodes'[i] \in Entry
    BY <1>1, <1>2, <1>3, <1>4 DEF TypeOK
<1>6. allocated' \in BOOLEAN
    BY <1>1 DEF TypeOK
<1>7. HeapTyped'
    BY <1>1, <1>2, <1>3, <1>5, <1>6 DEF HeapTyped
<1>8. count \in Nat /\ count < count'
    BY <1>1, <1>2
<1>9. QED BY <1>7, <1>8, ContinueTyped DEF PutLast, DropIter

\* Swapping two nodes in use.
LEMMA SwapTyped ==
    ASSUME TypeOK, NEW i \in Nat, NEW j \in Nat, i < count, j < count,
           SetHeap(capacity, count, Swapped(i, j))
    PROVE  HeapTyped'
<1>1. /\ allocated' = allocated /\ capacity' = capacity /\ count' = count
      /\ nodes' = [nodes EXCEPT ![i] = nodes[j], ![j] = nodes[i]]
    BY DEF SetHeap, Swapped
<1>2. nodes[i] \in Entry /\ nodes[j] \in Entry
    BY DEF TypeOK
<1>3. nodes' \in Slots(capacity)
    BY <1>1, <1>2 DEF TypeOK, Slots
<1>4. \A k \in 0..(count - 1) : nodes'[k] \in Entry
    BY <1>1, <1>2 DEF TypeOK, Slots
<1>5. QED BY <1>1, <1>3, <1>4 DEF TypeOK, HeapTyped

\* Every call keeps the types: one step for each action.
LEMMA TypeStep == TypeOK /\ [Next]_vars => TypeOK'
<1> SUFFICES ASSUME TypeOK, [Next]_vars PROVE TypeOK'
    OBVIOUS
<1>0. ASSUME UNCHANGED heap PROVE HeapTyped'
    BY <1>0 DEF TypeOK, HeapTyped, heap
<1>1. ASSUME NEW cap \in InitialCapacities, New(cap) PROVE TypeOK'
    <2>1. CASE OutOfMemory("new", Junk)
        BY <1>1, <2>1, OutOfMemoryTyped DEF New, Ops
    <2>2. CASE ~OutOfMemory("new", Junk)
        <3>1. /\ allocated' = TRUE /\ capacity' = cap /\ count' = 0 /\ nodes' = Unwritten(cap)
              /\ iterIndex' = NoIter /\ Answer("new", Junk, "NONE")
            BY <1>1, <2>2 DEF New, DropIter
        <3>2. cap \in Nat
            BY CapacitiesAssumption
        <3>3. HeapTyped'
            BY <3>1, <3>2 DEF HeapTyped, Unwritten, Slots
        <3> QED BY <3>1, <3>3, AnswerTyped DEF Ops
    <2> QED BY <2>1, <2>2
<1>2. ASSUME NEW x \in Entry, Enqueue(x) PROVE TypeOK'
    <2>1. CASE OutOfMemory("enqueue", x)
        BY <1>2, <2>1, OutOfMemoryTyped DEF Enqueue, Ops
    <2>2. CASE capacity >= count + 1 /\ PutLast(x, capacity, nodes)
        BY <1>2, <2>2, PutLastTyped DEF Enqueue, TypeOK
    <2>3. ASSUME NEW n \in GrownCapacities(count + 1), PutLast(x, n, Resized(n)) PROVE TypeOK'
        <3>1. n \in Nat /\ n >= count + 1 /\ count \in Nat
            BY GrownEnough DEF TypeOK
        <3>2. Resized(n) \in Slots(n) /\ \A i \in 0..(count - 1) : Resized(n)[i] = nodes[i]
            BY <3>1, ResizedKeeps
        <3> QED BY <1>2, <2>3, <3>1, <3>2, PutLastTyped DEF Enqueue
    <2> QED BY <1>2, <2>1, <2>2, <2>3 DEF Enqueue
<1>3. ASSUME NEW wanted \in 0..MaxCount, EnsureCapacity(wanted) PROVE TypeOK'
    <2>1. CASE OutOfMemory("ensure_capacity", Junk)
        BY <1>3, <2>1, OutOfMemoryTyped DEF EnsureCapacity, Ops
    <2>2. CASE UNCHANGED heap /\ Answer("ensure_capacity", Junk, "NONE")
        BY <1>0, <1>3, <2>2, AnswerTyped DEF EnsureCapacity, DropIter, Ops
    <2>3. ASSUME NEW n \in GrownCapacities(wanted), capacity < wanted,
                 SetHeap(n, count, Resized(n)), Answer("ensure_capacity", Junk, "NONE")
          PROVE  TypeOK'
        <3>1. n \in Nat /\ n >= wanted /\ count < n
            BY <2>3, GrownEnough, MaxCountAssumption DEF TypeOK
        <3>2. HeapTyped'
            BY <2>3, <3>1, ResizedKeeps DEF SetHeap, HeapTyped, TypeOK
        <3> QED BY <1>3, <2>3, <3>2, AnswerTyped DEF EnsureCapacity, DropIter, Ops
    <2> QED BY <1>3, <2>1, <2>2, <2>3 DEF EnsureCapacity
<1>4. ASSUME TryDequeue PROVE TypeOK'
    <2>1. CASE count = 0
        BY <1>0, <1>4, <2>1, AnswerTyped DEF TryDequeue, DropIter, Ops, TypeOK
    <2>2. CASE count = 1
        <3>1. HeapTyped' /\ nodes[0] \in Entry
            BY <1>4, <2>2 DEF TryDequeue, SetHeap, HeapTyped, TypeOK
        <3> QED BY <1>4, <2>2, <3>1, AnswerTyped DEF TryDequeue, DropIter, Ops
    <2>3. CASE count > 1
        <3>1. /\ SetHeap(capacity, count - 1, [nodes EXCEPT ![0] = nodes[count - 1]])
              /\ Continue("down", 0, nodes[0])
            BY <1>4, <2>3 DEF TryDequeue, TypeOK
        <3>2. nodes[0] \in Entry /\ nodes[count - 1] \in Entry
            BY <2>3 DEF TypeOK
        <3>3. HeapTyped'
            BY <2>3, <3>1, <3>2 DEF SetHeap, HeapTyped, TypeOK, Slots
        <3>4. 0 < count'
            BY <2>3, <3>1 DEF SetHeap, TypeOK
        <3> QED BY <1>4, <3>1, <3>2, <3>3, <3>4, ContinueTyped DEF TryDequeue, DropIter
    <2> QED BY <2>1, <2>2, <2>3 DEF TypeOK
<1>5. ASSUME TryPeek PROVE TypeOK'
    <2>1. HeapTyped' /\ iterIndex' \in {NoIter} \cup (-1..(count' - 1))
        BY <1>0, <1>5 DEF TryPeek, TypeOK, heap
    <2>2. CASE count = 0
        BY <1>5, <2>1, <2>2, AnswerTyped DEF TryPeek, Ops, TypeOK
    <2>3. CASE count > 0
        <3>1. nodes[0] \in Entry
            BY <2>3 DEF TypeOK
        <3> QED BY <1>5, <2>1, <2>3, <3>1, AnswerTyped DEF TryPeek, Ops, TypeOK
    <2> QED BY <2>2, <2>3 DEF TypeOK
<1>6. ASSUME Free PROVE TypeOK'
    <2>1. capacity' = 0 /\ count' = 0 /\ nodes' = Unwritten(0)
        BY <1>6 DEF Free
    <2>2. allocated' \in BOOLEAN /\ iterIndex' = NoIter
        BY <1>6 DEF Free, DropIter
    <2>3. /\ capacity' \in Nat /\ count' \in 0..capacity'
          /\ \A i \in 0..(count' - 1) : nodes'[i] \in Entry
        BY <2>1
    <2>4. nodes' \in Slots(capacity')
        BY <2>1 DEF Unwritten, Slots
    <2>5. HeapTyped'
        BY <2>2, <2>3, <2>4 DEF HeapTyped
    <2> QED BY <1>6, <2>2, <2>5, AnswerTyped DEF Free, Ops
<1>7. ASSUME Clone PROVE TypeOK'
    <2>1. CASE OutOfMemory("clone", Junk)
        BY <1>7, <2>1, OutOfMemoryTyped DEF Clone, Ops
    <2>2. CASE ~OutOfMemory("clone", Junk)
        <3> DEFINE copy == [j \in 0..(capacity - 1) |-> IF j < count THEN nodes[j] ELSE Junk]
        <3>1. SetHeap(capacity, count, copy) /\ Answer("clone", Junk, "NONE")
            BY <1>7, <2>2 DEF Clone
        <3>2. copy \in Slots(capacity) /\ \A i \in 0..(count - 1) : copy[i] = nodes[i]
            BY DEF TypeOK, Slots
        <3> HIDE DEF copy
        <3>3. HeapTyped'
            BY <3>1, <3>2 DEF SetHeap, HeapTyped, TypeOK
        <3> QED BY <1>7, <3>1, <3>3, AnswerTyped DEF Clone, Ops, DropIter
    <2> QED BY <2>1, <2>2
<1>8. ASSUME Clear PROVE TypeOK'
    <2>1. HeapTyped'
        BY <1>8 DEF Clear, SetHeap, HeapTyped, TypeOK
    <2> QED BY <1>8, <2>1, AnswerTyped DEF Clear, Ops, DropIter
<1>9. ASSUME TrimExcess PROVE TypeOK'
    <2>1. CASE OutOfMemory("trim_excess", Junk)
        BY <1>9, <2>1, OutOfMemoryTyped DEF TrimExcess, Ops
    <2>2. CASE UNCHANGED heap /\ Answer("trim_excess", Junk, "NONE")
        BY <1>0, <1>9, <2>2, AnswerTyped DEF TrimExcess, DropIter, Ops
    <2>3. CASE SetHeap(count, count, Resized(count)) /\ Answer("trim_excess", Junk, "NONE")
        <3>1. count \in Nat
            BY DEF TypeOK
        <3>2. HeapTyped'
            BY <2>3, <3>1, ResizedKeeps DEF SetHeap, HeapTyped, TypeOK
        <3> QED BY <1>9, <2>3, <3>2, AnswerTyped DEF TrimExcess, DropIter, Ops
    <2> QED BY <1>9, <2>1, <2>2, <2>3 DEF TrimExcess
<1>10. ASSUME IterStart PROVE TypeOK'
    <2>1. HeapTyped' /\ iterIndex' \in {NoIter} \cup (-1..(count' - 1))
        BY <1>0, <1>10 DEF IterStart, TypeOK, heap
    <2> QED BY <1>10, <2>1, AnswerTyped DEF IterStart, Ops
<1>11. ASSUME IterMoveNext PROVE TypeOK'
    <2>1. HeapTyped' /\ iterIndex' \in {NoIter} \cup (-1..(count' - 1))
        BY <1>0, <1>11 DEF IterMoveNext, TypeOK, heap, NoIter
    <2>2. CASE iterIndex + 1 < count
        <3>1. nodes[iterIndex + 1] \in Entry
            BY <1>11, <2>2 DEF IterMoveNext, TypeOK, NoIter
        <3> QED BY <1>11, <2>1, <2>2, <3>1, AnswerTyped DEF IterMoveNext, Ops, TypeOK, NoIter
    <2>3. CASE ~(iterIndex + 1 < count)
        BY <1>11, <2>1, <2>3, AnswerTyped DEF IterMoveNext, Ops
    <2> QED BY <2>2, <2>3
<1>12. ASSUME SiftUp PROVE TypeOK'
    <2>1. index \in Nat \ {0} /\ index < count /\ taken \in Entry
        BY <1>12 DEF SiftUp, Rises, TypeOK
    <2>2. Parent(index) \in Nat /\ Parent(index) < count
        BY <2>1, ParentRange DEF TypeOK
    <2>3. HeapTyped' /\ count' = count
        BY <1>12, <2>1, <2>2, SwapTyped DEF SiftUp, SetHeap
    <2> QED BY <1>12, <2>1, <2>2, <2>3, ContinueTyped DEF SiftUp, DropIter
<1>13. ASSUME SiftDown PROVE TypeOK'
    <2>1. index \in Nat /\ index < count /\ count \in Nat /\ taken \in Entry
        BY <1>13 DEF SiftDown, TypeOK
    <2>2. PICK c \in MinChildren(index) : /\ SetHeap(capacity, count, Swapped(index, c))
                                          /\ Continue("down", c, taken)
        BY <1>13 DEF SiftDown
    <2>3. c \in Nat /\ c < count
        BY <2>1, ChildrenRange DEF MinChildren
    <2>4. HeapTyped' /\ count' = count
        BY <2>1, <2>2, <2>3, SwapTyped DEF SetHeap
    <2> QED BY <1>13, <2>1, <2>2, <2>3, <2>4, ContinueTyped DEF SiftDown, DropIter
<1>14. ASSUME SiftUpEnd PROVE TypeOK'
    BY <1>0, <1>14, AnswerTyped DEF SiftUpEnd, DropIter, Ops, TypeOK
<1>15. ASSUME SiftDownEnd PROVE TypeOK'
    BY <1>0, <1>15, AnswerTyped DEF SiftDownEnd, DropIter, Ops, TypeOK
<1>16. CASE UNCHANGED vars
    BY <1>16 DEF vars, heap, TypeOK
<1>17. QED
    BY <1>1, <1>2, <1>3, <1>4, <1>5, <1>6, <1>7, <1>8, <1>9, <1>10, <1>11, <1>12, <1>13,
       <1>14, <1>15, <1>16 DEF Next, ClientCall, Work

--------------------------------------------------------------------------------
(* The heap order *)

\* What a client's call without swaps may do to the nodes: drop some at the end.
LEMMA OrderKept ==
    ASSUME TypeOK, HeapOrder, pc = "idle", pc' = "idle",
           NEW n \in Nat, n <= count, count' = n, \A i \in 0..(n - 1) : nodes'[i] = nodes[i]
    PROVE  HeapOrder'
<1>1. count \in Nat
    BY DEF TypeOK
<1>2. \A j \in 1..(n - 1) : Parent(j) \in 0..(j - 1) /\ j \in 1..(count - 1)
    BY <1>1, ParentRange
<1>3. ASSUME NEW j \in 1..(n - 1) PROVE InOrder(Parent(j), j)'
    <2>1. InOrder(Parent(j), j)
        BY <1>2 DEF HeapOrder
    <2>2. nodes'[j] = nodes[j] /\ nodes'[Parent(j)] = nodes[Parent(j)]
        BY <1>2
    <2> QED BY <2>1, <2>2 DEF InOrder
<1>4. QED BY <1>3 DEF HeapOrder

\* A node behind the others is the only one that may be lower than its parent.
LEMMA OrderPutLast ==
    ASSUME TypeOK, TypeOK', HeapOrder, pc = "idle", NEW x \in Entry, NEW cap \in Nat,
           count < cap, NEW ns \in Slots(cap), \A i \in 0..(count - 1) : ns[i] = nodes[i],
           PutLast(x, cap, ns)
    PROVE  HeapOrder'
<1>1. /\ count' = count + 1 /\ count \in Nat /\ pc' = "up" /\ index' = count
      /\ \A i \in 0..(count - 1) : nodes'[i] = nodes[i]
    BY DEF PutLast, SetHeap, Continue, TypeOK, Slots
<1>2. \A j \in 1..count : Parent(j) \in 0..(j - 1)
    BY <1>1, ParentRange
<1>3. ASSUME NEW j \in 1..(count' - 1) PROVE InOrder(Parent(j), j)' \/ j = index'
    <2>1. CASE j < count
        BY <1>1, <1>2, <2>1 DEF HeapOrder, InOrder
    <2> QED BY <1>1, <2>1
<1>4. \A j \in 1..(count' - 1) : Parent(j) # index'
    BY <1>1, <1>2
<1>5. QED BY <1>1, <1>3, <1>4 DEF HeapOrder

\* Moving a node up keeps the order around it.
LEMMA OrderSiftUp ==
    ASSUME TypeOK, HeapOrder, SiftUp
    PROVE  HeapOrder'
<1> DEFINE p == Parent(index)
<1>1. /\ pc = "up" /\ pc' = "up" /\ count' = count /\ index' = p
      /\ index \in 1..(count - 1) /\ nodes[index].prio < nodes[p].prio
    BY DEF SiftUp, Rises, SetHeap, Continue, TypeOK
<1>2. p \in 0..(index - 1) /\ count \in Nat
    BY <1>1, ParentRange DEF TypeOK
<1>3. \A j \in 1..(count - 1) : Parent(j) \in 0..(j - 1)
    BY ParentRange
<1>4. /\ nodes'[p] = nodes[index] /\ nodes'[index] = nodes[p]
      /\ \A i \in 0..(count - 1) : i # p /\ i # index => nodes'[i] = nodes[i]
    BY <1>1, <1>2 DEF SiftUp, SetHeap, Swapped, TypeOK, Slots
<1>5. \A i \in 0..(count - 1) : nodes[i].prio \in Int
    BY PrioAssumption DEF TypeOK, Entry
<1>6. \A j \in 1..(count - 1) : j # index => InOrder(Parent(j), j)
    BY <1>1 DEF HeapOrder
<1>7. \A j \in 1..(count - 1) : Parent(j) = index => InOrder(p, j)
    BY <1>1 DEF HeapOrder
<1> HIDE DEF p
<1>8. ASSUME NEW j \in 1..(count - 1), j # p PROVE InOrder(Parent(j), j)'
    <2>1. CASE j = index
        BY <1>1, <1>2, <1>4, <1>5, <2>1 DEF InOrder, p
    <2>2. CASE j # index /\ Parent(j) = index
        BY <1>1, <1>2, <1>4, <1>5, <1>7, <1>8, <2>2 DEF InOrder
    <2>3. CASE j # index /\ Parent(j) = p
        BY <1>1, <1>2, <1>4, <1>5, <1>6, <1>8, <2>3 DEF InOrder
    <2>4. CASE j # index /\ Parent(j) # index /\ Parent(j) # p
        BY <1>1, <1>2, <1>3, <1>4, <1>6, <1>8, <2>4 DEF InOrder
    <2> QED BY <2>1, <2>2, <2>3, <2>4
<1>9. ASSUME p > 0, NEW j \in 1..(count - 1), Parent(j) = p
      PROVE  nodes'[Parent(p)].prio <= nodes'[j].prio
    <2>1. p \in 1..(count - 1) /\ p # index /\ Parent(p) \in 0..(p - 1)
        BY <1>1, <1>2, <1>3, <1>9
    <2>2. InOrder(Parent(p), p) /\ nodes'[Parent(p)] = nodes[Parent(p)]
        BY <1>1, <1>2, <1>4, <1>6, <2>1
    <2>3. CASE j = index
        BY <1>4, <2>2, <2>3 DEF InOrder
    <2>4. CASE j # index
        <3>1. InOrder(p, j) /\ nodes'[j] = nodes[j]
            BY <1>3, <1>4, <1>6, <1>9, <2>4
        <3> QED BY <1>1, <1>2, <1>5, <2>1, <2>2, <3>1 DEF InOrder
    <2> QED BY <2>3, <2>4
<1>10. QED BY <1>1, <1>8, <1>9 DEF HeapOrder, InOrder

\* Moving a node down, below its lowest child, keeps the order around it.
LEMMA OrderSiftDown ==
    ASSUME TypeOK, HeapOrder, SiftDown
    PROVE  HeapOrder'
<1>1. PICK c \in MinChildren(index) :
          Sinks(c) /\ SetHeap(capacity, count, Swapped(index, c)) /\ Continue("down", c, taken)
    BY DEF SiftDown
<1>2. /\ pc = "down" /\ pc' = "down" /\ count' = count /\ index' = c
      /\ index \in 0..(count - 1) /\ count \in Nat
    BY <1>1 DEF SiftDown, SetHeap, Continue, TypeOK
<1>3. c \in Children(index) /\ c \in 1..(count - 1) /\ index < c
    BY <1>2, ChildrenRange DEF MinChildren
<1>4. \A j \in 1..(count - 1) : j \in Children(index) <=> Parent(j) = index
    BY <1>2, ChildrenAreThoseOfParent
<1>5. Parent(c) = index
    BY <1>3, <1>4
<1>6. \A i \in 0..(count - 1) : nodes[i].prio \in Int
    BY PrioAssumption DEF TypeOK, Entry
<1>7. \A j \in 1..(count - 1) : Parent(j) = index => InOrder(c, j)
    BY <1>4, <1>1 DEF MinChildren, InOrder
<1>8. nodes[index].prio > nodes[c].prio
    BY <1>1 DEF Sinks
<1>9. /\ nodes'[c] = nodes[index] /\ nodes'[index] = nodes[c]
      /\ \A i \in 0..(count - 1) : i # c /\ i # index => nodes'[i] = nodes[i]
    BY <1>1, <1>2, <1>3 DEF SetHeap, Swapped, TypeOK, Slots
<1>10. \A j \in 1..(count - 1) : Parent(j) \in 0..(j - 1)
    BY ParentRange
<1>11. \A j \in 1..(count - 1) : Parent(j) # index => InOrder(Parent(j), j)
    BY <1>2 DEF HeapOrder
<1>12. index > 0 => \A j \in 1..(count - 1) : Parent(j) = index => InOrder(Parent(index), j)
    BY <1>2 DEF HeapOrder
<1>13. ASSUME NEW j \in 1..(count - 1), Parent(j) # c PROVE InOrder(Parent(j), j)'
    <2>1. CASE j = c
        BY <1>2, <1>3, <1>5, <1>6, <1>8, <1>9, <2>1 DEF InOrder
    <2>2. CASE j # c /\ Parent(j) = index
        BY <1>2, <1>7, <1>9, <1>10, <2>2 DEF InOrder
    <2>3. CASE j = index
        <3>1. index > 0 /\ Parent(index) \in 0..(index - 1)
            BY <1>10, <2>3
        <3>2. InOrder(Parent(index), c)
            BY <1>3, <1>5, <1>12, <3>1
        <3> QED BY <1>2, <1>3, <1>9, <2>3, <3>1, <3>2 DEF InOrder
    <2>4. CASE j # c /\ j # index /\ Parent(j) # index
        BY <1>2, <1>9, <1>10, <1>11, <1>13, <2>4 DEF InOrder
    <2> QED BY <2>1, <2>2, <2>3, <2>4
<1>14. ASSUME NEW j \in 1..(count - 1), Parent(j) = c PROVE InOrder(Parent(c), j)'
    <2>1. InOrder(c, j) /\ j # c /\ j # index
        BY <1>2, <1>3, <1>10, <1>11, <1>14
    <2> QED BY <1>5, <1>9, <2>1 DEF InOrder
<1>15. QED BY <1>2, <1>13, <1>14 DEF HeapOrder

\* The scan finds a child, and one of the lowest: the first of them.
LEMMA LowestChild ==
    ASSUME NEW i \in Nat, NEW j \in Children(i), Children(i) \subseteq Nat,
           \A k \in Children(i) : nodes[k].prio \in Int
    PROVE  \E c \in MinChildren(i) : InOrder(c, j)
<1>1. Children(i) \in SUBSET Nat /\ Children(i) # {}
    OBVIOUS
<1>2. \A k \in Children(i) : k \in FirstChild(i)..(FirstChild(i) + 3) /\ FirstChild(i) \in Nat
    BY DEF Children, FirstChild, SCU_HEAP_ARITY
<1> DEFINE Lowest == {k \in Children(i) : \A m \in Children(i) : nodes[k].prio <= nodes[m].prio}
<1>3. Lowest # {} /\ Lowest \in SUBSET Nat
    BY <1>2
<1>4. PICK c \in Lowest : \A k \in Lowest : c <= k
    <2> HIDE DEF Lowest
    <2> QED BY <1>3, LeastMember, Zenon
<1>5. c \in MinChildren(i)
    BY <1>4 DEF MinChildren
<1>6. QED BY <1>4, <1>5 DEF InOrder

\* A node that is not higher than its lowest child is not higher than any.
LEMMA OrderSiftDownEnd ==
    ASSUME TypeOK, HeapOrder, SiftDownEnd
    PROVE  HeapOrder'
<1>1. /\ pc = "down" /\ pc' = "idle" /\ count' = count /\ nodes' = nodes
      /\ index \in 0..(count - 1) /\ count \in Nat
    BY DEF SiftDownEnd, heap, Answer, TypeOK
<1>2. \A i \in 0..(count - 1) : nodes[i].prio \in Int
    BY PrioAssumption DEF TypeOK, Entry
<1>3. \A j \in 1..(count - 1) : j \in Children(index) <=> Parent(j) = index
    BY <1>1, ChildrenAreThoseOfParent
<1>4. Children(index) \subseteq 1..(count - 1)
    BY <1>1, ChildrenRange
<1>5. ASSUME NEW j \in Children(index) PROVE InOrder(index, j)
    <2>1. PICK c \in MinChildren(index) : InOrder(c, j)
        BY <1>1, <1>2, <1>4, <1>5, LowestChild DEF InOrder
    <2>2. InOrder(index, c)
        BY <1>1, <1>2, <1>4, <2>1 DEF SiftDownEnd, Sinks, InOrder, MinChildren
    <2> QED BY <1>1, <1>2, <1>4, <2>1, <2>2 DEF InOrder, MinChildren
<1>6. \A j \in 1..(count - 1) : InOrder(Parent(j), j)
    BY <1>1, <1>3, <1>5 DEF HeapOrder
<1>7. \A j \in 1..(count' - 1) : InOrder(Parent(j), j)'
    BY <1>1, <1>6 DEF InOrder
<1>8. QED BY <1>1, <1>7 DEF HeapOrder

\* Every call keeps the heap order: one step for each action.
LEMMA OrderStep == TypeOK /\ HeapOrder /\ [Next]_vars => HeapOrder'
<1> SUFFICES ASSUME TypeOK, HeapOrder, [Next]_vars PROVE HeapOrder'
    OBVIOUS
<1>a. TypeOK' /\ count \in Nat
    BY TypeStep DEF TypeOK
<1>0. ASSUME UNCHANGED heap, pc = "idle", pc' = "idle" PROVE HeapOrder'
    BY <1>0, <1>a, OrderKept DEF heap
<1>b. ASSUME pc' = "idle", count' = 0 PROVE HeapOrder'
    BY <1>b DEF HeapOrder
<1>1. ASSUME NEW cap \in InitialCapacities, New(cap) PROVE HeapOrder'
    <2>1. CASE OutOfMemory("new", Junk)
        BY <1>0, <1>1, <2>1 DEF New, OutOfMemory, Answer
    <2>2. CASE ~OutOfMemory("new", Junk)
        <3>1. pc' = "idle" /\ count' = 0
            BY <1>1, <2>2 DEF New, Answer
        <3> QED BY <1>b, <3>1
    <2> QED BY <2>1, <2>2
<1>2. ASSUME NEW x \in Entry, Enqueue(x) PROVE HeapOrder'
    <2>1. CASE OutOfMemory("enqueue", x)
        BY <1>0, <1>2, <2>1 DEF Enqueue, OutOfMemory, Answer
    <2>2. CASE capacity >= count + 1 /\ PutLast(x, capacity, nodes)
        <3>1. /\ pc = "idle" /\ capacity \in Nat /\ count < capacity
              /\ nodes \in Slots(capacity)
            BY <1>2, <2>2 DEF Enqueue, TypeOK
        <3>2. PutLast(x, capacity, nodes) /\ TypeOK'
            BY <1>a, <2>2
        <3> QED BY <1>2, <3>1, <3>2, OrderPutLast
    <2>3. ASSUME NEW n \in GrownCapacities(count + 1), PutLast(x, n, Resized(n)) PROVE HeapOrder'
        <3>1. n \in Nat /\ n >= count + 1
            BY <1>a, GrownEnough
        <3>2. Resized(n) \in Slots(n) /\ \A i \in 0..(count - 1) : Resized(n)[i] = nodes[i]
            BY <1>a, <3>1, ResizedKeeps
        <3> QED BY <1>a, <1>2, <2>3, <3>1, <3>2, OrderPutLast DEF Enqueue
    <2> QED BY <1>2, <2>1, <2>2, <2>3 DEF Enqueue
<1>3. ASSUME NEW wanted \in 0..MaxCount, EnsureCapacity(wanted) PROVE HeapOrder'
    <2>1. CASE UNCHANGED heap
        BY <1>0, <1>3, <2>1 DEF EnsureCapacity, OutOfMemory, Answer
    <2>2. ASSUME NEW n \in GrownCapacities(wanted), capacity < wanted,
                 SetHeap(n, count, Resized(n)), Answer("ensure_capacity", Junk, "NONE")
          PROVE  HeapOrder'
        <3>1. n \in Nat /\ n >= wanted /\ count < n
            BY <2>2, GrownEnough, MaxCountAssumption DEF TypeOK
        <3>2. \A i \in 0..(count - 1) : nodes'[i] = nodes[i]
            BY <1>a, <2>2, <3>1, ResizedKeeps DEF SetHeap
        <3> QED BY <1>a, <1>3, <2>2, <3>2, OrderKept DEF EnsureCapacity, SetHeap, Answer
    <2> QED BY <1>3, <2>1, <2>2 DEF EnsureCapacity, OutOfMemory
<1>4. ASSUME TryDequeue PROVE HeapOrder'
    <2>1. CASE count = 0
        BY <1>0, <1>4, <2>1 DEF TryDequeue, Answer
    <2>2. CASE count = 1
        BY <1>b, <1>4, <2>2 DEF TryDequeue, SetHeap, Answer
    <2>3. CASE count > 1
        <3>0. /\ pc = "idle"
              /\ SetHeap(capacity, count - 1, [nodes EXCEPT ![0] = nodes[count - 1]])
              /\ Continue("down", 0, nodes[0])
            BY <1>4, <2>3 DEF TryDequeue, TypeOK
        <3>1. /\ pc = "idle" /\ pc' = "down" /\ index' = 0 /\ count' = count - 1
              /\ nodes' = [nodes EXCEPT ![0] = nodes[count - 1]]
            BY <3>0 DEF SetHeap, Continue
        <3>2. ASSUME NEW j \in 1..(count - 2) PROVE InOrder(Parent(j), j)' \/ Parent(j) = 0
            <4>1. Parent(j) \in 0..(j - 1) /\ j \in 1..(count - 1)
                BY <1>a, ParentRange
            <4>2. CASE Parent(j) # 0
                <5>1. nodes'[j] = nodes[j] /\ nodes'[Parent(j)] = nodes[Parent(j)]
                    BY <1>a, <3>1, <4>1, <4>2 DEF TypeOK, Slots
                <5> QED BY <3>1, <4>1, <5>1 DEF HeapOrder, InOrder
            <4> QED BY <4>2
        <3> QED BY <1>a, <3>1, <3>2 DEF HeapOrder
    <2> QED BY <1>a, <2>1, <2>2, <2>3
<1>5. ASSUME TryPeek PROVE HeapOrder'
    BY <1>0, <1>5 DEF TryPeek, Answer, heap
<1>6. ASSUME Free PROVE HeapOrder'
    BY <1>b, <1>6 DEF Free, Answer
<1>7. ASSUME Clone PROVE HeapOrder'
    <2>1. CASE OutOfMemory("clone", Junk)
        BY <1>0, <1>7, <2>1 DEF Clone, OutOfMemory, Answer
    <2>2. CASE ~OutOfMemory("clone", Junk)
        <3>1. /\ pc = "idle" /\ pc' = "idle" /\ count' = count
              /\ nodes' = [j \in 0..(capacity - 1) |-> IF j < count THEN nodes[j] ELSE Junk]
            BY <1>7, <2>2 DEF Clone, SetHeap, Answer
        <3>2. \A i \in 0..(count - 1) : nodes'[i] = nodes[i]
            BY <3>1 DEF TypeOK
        <3> QED BY <1>a, <3>1, <3>2, OrderKept
    <2> QED BY <2>1, <2>2
<1>8. ASSUME Clear PROVE HeapOrder'
    BY <1>b, <1>8 DEF Clear, SetHeap, Answer
<1>9. ASSUME TrimExcess PROVE HeapOrder'
    <2>1. CASE UNCHANGED heap
        BY <1>0, <1>9, <2>1 DEF TrimExcess, OutOfMemory, Answer
    <2>2. CASE SetHeap(count, count, Resized(count)) /\ Answer("trim_excess", Junk, "NONE")
        <3>1. \A i \in 0..(count - 1) : nodes'[i] = nodes[i]
            BY <1>a, <2>2, ResizedKeeps DEF SetHeap
        <3> QED BY <1>a, <1>9, <2>2, <3>1, OrderKept DEF TrimExcess, SetHeap, Answer
    <2> QED BY <1>9, <2>1, <2>2 DEF TrimExcess, OutOfMemory
<1>10. ASSUME IterStart PROVE HeapOrder'
    BY <1>0, <1>10 DEF IterStart, Answer
<1>11. ASSUME IterMoveNext PROVE HeapOrder'
    BY <1>0, <1>11 DEF IterMoveNext, Answer
<1>12. ASSUME SiftUp PROVE HeapOrder'
    BY <1>12, OrderSiftUp
<1>13. ASSUME SiftDown PROVE HeapOrder'
    BY <1>13, OrderSiftDown
<1>14. ASSUME SiftUpEnd PROVE HeapOrder'
    <2>1. pc = "up" /\ pc' = "idle" /\ count' = count /\ nodes' = nodes
        BY <1>14 DEF SiftUpEnd, heap, Answer
    <2>2. index > 0 => InOrder(Parent(index), index)
        <3>1. ASSUME index > 0 PROVE Parent(index) \in 0..(count - 1) /\ index \in 0..(count - 1)
            BY <1>a, <2>1, <3>1, ParentRange DEF TypeOK
        <3>2. ASSUME index > 0
              PROVE  nodes[index].prio \in Int /\ nodes[Parent(index)].prio \in Int
            BY <3>1, <3>2, PrioAssumption DEF TypeOK, Entry
        <3> QED BY <1>14, <3>2 DEF SiftUpEnd, Rises, InOrder
    <2>3. \A j \in 1..(count - 1) : InOrder(Parent(j), j)
        BY <2>1, <2>2 DEF HeapOrder
    <2>4. \A j \in 1..(count' - 1) : InOrder(Parent(j), j)'
        BY <2>1, <2>3 DEF InOrder
    <2> QED BY <2>1, <2>4 DEF HeapOrder
<1>15. ASSUME SiftDownEnd PROVE HeapOrder'
    BY <1>15, OrderSiftDownEnd
<1>16. CASE UNCHANGED vars
    BY <1>16 DEF vars, heap, HeapOrder, InOrder
<1>17. QED
    BY <1>1, <1>2, <1>3, <1>4, <1>5, <1>6, <1>7, <1>8, <1>9, <1>10, <1>11, <1>12, <1>13,
       <1>14, <1>15, <1>16 DEF Next, ClientCall, Work

--------------------------------------------------------------------------------
(* The root *)

\* No node in use is lower than the root, between calls.
RootIsLowest == pc = "idle" => \A j \in 0..(count - 1) : InOrder(0, j)

\* The nodes in use that are lower than the root.
LowerThanRoot == {j \in 0..(count - 1) : ~InOrder(0, j)}

\* In a heap the root is lowest: the parent of the first node that is lower than the root
\* would be a smaller one.
LEMMA HeapHasLowestRoot ==
    ASSUME TypeOK, HeapOrder
    PROVE  RootIsLowest
<1> SUFFICES ASSUME pc = "idle", NEW k \in LowerThanRoot PROVE FALSE
    BY DEF RootIsLowest, LowerThanRoot
<1>1. \A i \in 0..(count - 1) : nodes[i].prio \in Int
    BY PrioAssumption DEF TypeOK, Entry
<1>2. LowerThanRoot \subseteq Nat /\ count \in Nat
    BY DEF LowerThanRoot, TypeOK
<1>3. PICK j \in LowerThanRoot : \A i \in LowerThanRoot : j <= i
    <2> HIDE DEF LowerThanRoot
    <2> QED BY <1>2, LeastMember, Zenon
<1>4. j \in 0..(count - 1) /\ ~InOrder(0, j)
    BY DEF LowerThanRoot
<1>5. j \in 1..(count - 1)
    BY <1>1, <1>2, <1>4 DEF InOrder
<1>6. Parent(j) \in 0..(j - 1)
    BY <1>2, <1>5, ParentRange
<1>7. InOrder(Parent(j), j)
    BY <1>5 DEF HeapOrder
<1>8. Parent(j) \in LowerThanRoot
    BY <1>1, <1>2, <1>4, <1>6, <1>7 DEF LowerThanRoot, InOrder
<1> QED BY <1>2, <1>3, <1>5, <1>6, <1>8

--------------------------------------------------------------------------------
(* The theorems *)

LEMMA OrderInit == Init => HeapOrder
BY DEF Init, HeapOrder

\* The fields of struct ScuPrioQueue always have their types, and the nodes in use have been
\* written.
THEOREM TypeCorrect == Spec => []TypeOK
BY TypeInit, TypeStep, PTL DEF Spec

\* At every step of every call only the node on its way is out of order.
THEOREM OrderCorrect == Spec => []HeapOrder
<1>1. Init => TypeOK /\ HeapOrder
    BY TypeInit, OrderInit
<1>2. TypeOK /\ HeapOrder /\ [Next]_vars => (TypeOK /\ HeapOrder)'
    BY TypeStep, OrderStep
<1> QED BY <1>1, <1>2, PTL DEF Spec

\* Between calls no element has a lower priority than the one scu_prio_queue_dequeue and
\* scu_prio_queue_peek answer with.
THEOREM RootCorrect == Spec => []RootIsLowest
BY TypeCorrect, OrderCorrect, HeapHasLowestRoot, PTL

--------------------------------------------------------------------------------
(* How often an entry is in a set of slots *)

Tally(f, S, x) == Cardinality({i \in S : f[i] = x})

LEMMA UpToFinite ==
    ASSUME NEW n \in Int
    PROVE  IsFiniteSet(0..n)
BY FS_Interval, 0 \in Int, Zenon

LEMMA TallyFinite ==
    ASSUME NEW f, NEW S, IsFiniteSet(S), NEW x
    PROVE  /\ IsFiniteSet({i \in S : f[i] = x})
           /\ Tally(f, S, x) \in Nat
           /\ Tally(f, S, x) = 0 <=> \A i \in S : f[i] # x
<1> DEFINE T == {i \in S : f[i] = x}
<1>1. T \in SUBSET S
    OBVIOUS
<1>2. IsFiniteSet(T)
    BY <1>1, FS_Subset, Zenon
<1>3. Cardinality(T) \in Nat
    BY <1>2, FS_CardinalityType, Zenon
<1>4. Cardinality(T) = 0 <=> T = {}
    BY <1>2, FS_EmptySet, Zenon
<1> QED BY <1>2, <1>3, <1>4 DEF Tally

\* One slot apart.
LEMMA TallyOne ==
    ASSUME NEW f, NEW S, IsFiniteSet(S), NEW i \in S, NEW x
    PROVE  Tally(f, S, x) = Tally(f, S \ {i}, x) + (IF f[i] = x THEN 1 ELSE 0)
<1> DEFINE T == {j \in S : f[j] = x}
           U == {j \in S \ {i} : f[j] = x}
<1>1. IsFiniteSet(S \ {i})
    BY FS_RemoveElement, Zenon
<1>2. IsFiniteSet(U) /\ Cardinality(U) \in Nat
    BY <1>1, TallyFinite DEF Tally
<1>3. CASE f[i] = x
    <2>1. T = U \cup {i} /\ i \notin U
        BY <1>3
    <2>2. Cardinality(U \cup {i}) = Cardinality(U) + 1
        BY <1>2, <2>1, FS_AddElement, Zenon
    <2> HIDE DEF T, U
    <2>3. Cardinality(T) = Cardinality(U) + 1
        BY <2>1, <2>2
    <2> QED BY <1>3, <2>3 DEF Tally, T, U
<1>4. CASE f[i] # x
    <2>1. T = U
        BY <1>4
    <2>2. Tally(f, S, x) = Tally(f, S \ {i}, x) /\ Tally(f, S \ {i}, x) \in Nat
        BY <1>2, <2>1 DEF Tally
    <2> QED BY <1>4, <2>2
<1> QED BY <1>3, <1>4

LEMMA TallySame ==
    ASSUME NEW f, NEW g, NEW S, \A i \in S : g[i] = f[i], NEW x
    PROVE  Tally(g, S, x) = Tally(f, S, x)
<1>1. {i \in S : g[i] = x} = {i \in S : f[i] = x}
    OBVIOUS
<1> QED BY <1>1 DEF Tally

\* A swap changes no tally; and what was tallied without i is tallied without j.
LEMMA TallySwap ==
    ASSUME NEW f, NEW g, NEW S, IsFiniteSet(S), NEW i \in S, NEW j \in S, i # j, NEW x,
           g[i] = f[j], g[j] = f[i], \A k \in S : k # i /\ k # j => g[k] = f[k]
    PROVE  /\ Tally(g, S, x) = Tally(f, S, x)
           /\ Tally(g, S \ {j}, x) = Tally(f, S \ {i}, x)
<1> DEFINE R == (S \ {i}) \ {j}
<1>1. IsFiniteSet(S \ {i}) /\ IsFiniteSet(S \ {j})
    BY FS_RemoveElement, Zenon
<1>2. IsFiniteSet(R)
    BY <1>1, FS_RemoveElement, Zenon
<1>3. Tally(g, R, x) = Tally(f, R, x)
    BY TallySame
<1>4. Tally(f, R, x) \in Nat
    BY <1>2, TallyFinite
<1>5. R = (S \ {j}) \ {i}
    OBVIOUS
<1> HIDE DEF R
<1>6. Tally(f, S \ {i}, x) = Tally(f, R, x) + (IF f[j] = x THEN 1 ELSE 0)
    <2>1. j \in S \ {i}
        OBVIOUS
    <2> QED BY <1>1, <2>1, TallyOne DEF R
<1>7. Tally(g, S \ {j}, x) = Tally(g, R, x) + (IF g[i] = x THEN 1 ELSE 0)
    <2>1. i \in S \ {j}
        OBVIOUS
    <2> QED BY <1>1, <1>5, <2>1, TallyOne
<1>8. Tally(f, S, x) = Tally(f, S \ {i}, x) + (IF f[i] = x THEN 1 ELSE 0)
    BY TallyOne
<1>9. Tally(g, S, x) = Tally(g, S \ {j}, x) + (IF g[j] = x THEN 1 ELSE 0)
    BY TallyOne
<1>10. Tally(g, S \ {j}, x) = Tally(f, S \ {i}, x)
    BY <1>3, <1>6, <1>7
<1> QED BY <1>8, <1>9, <1>10

LEMMA TallyLess ==
    ASSUME NEW f, NEW S, IsFiniteSet(S), NEW T \in SUBSET S, NEW x
    PROVE  Tally(f, T, x) <= Tally(f, S, x)
<1> DEFINE A == {i \in S : f[i] = x}
           B == {i \in T : f[i] = x}
<1>1. IsFiniteSet(A) /\ B \in SUBSET A
    BY TallyFinite
<1> HIDE DEF A, B
<1>2. Cardinality(B) <= Cardinality(A)
    BY <1>1, FS_Subset, Zenon
<1> QED BY <1>2 DEF Tally, A, B

\* One slot more at the end.
LEMMA TallyNext ==
    ASSUME NEW f, NEW k \in Int, k >= -1, NEW x
    PROVE  Tally(f, 0..(k + 1), x) = Tally(f, 0..k, x) + (IF f[k + 1] = x THEN 1 ELSE 0)
<1> DEFINE n == k + 1
           R == 0..n
<1>1. IsFiniteSet(R) /\ n \in R
    BY UpToFinite
<1>2. R \ {n} = 0..k
    OBVIOUS
<1> HIDE DEF R, n
<1>3. Tally(f, R, x) = Tally(f, R \ {n}, x) + (IF f[n] = x THEN 1 ELSE 0)
    BY <1>1, TallyOne
<1> QED BY <1>2, <1>3 DEF R, n

--------------------------------------------------------------------------------
(* The bag the heap stands for *)

\* What Bag and Seen are, entry by entry.
Amount ==
    /\ Bag \in [Entry -> Nat]
    /\ pc = "idle" => \A x \in Entry : Bag[x] = Tally(nodes, 0..(count - 1), x)
    /\ pc = "up" => \A x \in Entry : Bag[x] = Tally(nodes, (0..(count - 1)) \ {index}, x)
    /\ pc = "down" => \A x \in Entry :
          Bag[x] = Tally(nodes, 0..(count - 1), x) + (IF taken = x THEN 1 ELSE 0)
    /\ iterIndex = NoIter => Seen = Junk
    /\ iterIndex # NoIter =>
          /\ Seen \in [Entry -> Nat]
          /\ \A x \in Entry : Seen[x] = Tally(nodes, 0..iterIndex, x)

LEMMA AmountHolds == TypeOK => Amount
<1> SUFFICES ASSUME TypeOK PROVE Amount
    OBVIOUS
<1>1. count - 1 \in Int /\ pc \in {"idle", "up", "down"} /\ iterIndex \in Int
    BY DEF TypeOK, NoIter
<1>2. IsFiniteSet(0..(count - 1)) /\ IsFiniteSet(0..iterIndex)
    BY <1>1, UpToFinite
<1>3. IsFiniteSet((0..(count - 1)) \ {index})
    BY <1>2, FS_RemoveElement, Zenon
<1>4. ASSUME NEW x
      PROVE  /\ Tally(nodes, 0..(count - 1), x) \in Nat
             /\ Tally(nodes, 0..iterIndex, x) \in Nat
             /\ Tally(nodes, (0..(count - 1)) \ {index}, x) \in Nat
    BY <1>2, <1>3, TallyFinite, Zenon
<1>5. /\ Seen = IF iterIndex = NoIter THEN Junk
                ELSE [x \in Entry |-> Tally(nodes, 0..iterIndex, x)]
      /\ Bag = [x \in Entry |->
                   CASE pc = "idle" -> Tally(nodes, 0..(count - 1), x)
                     [] pc = "up"   -> Tally(nodes, (0..(count - 1)) \ {index}, x)
                     [] pc = "down" -> Tally(nodes, 0..(count - 1), x)
                                       + (IF taken = x THEN 1 ELSE 0)]
    BY DEF Seen, Bag, Occurrences, Tally
<1>6. CASE pc = "idle"
    <2>1. Bag = [x \in Entry |-> Tally(nodes, 0..(count - 1), x)]
        BY <1>5, <1>6
    <2> QED BY <1>4, <1>5, <1>6, <2>1 DEF Amount
<1>7. CASE pc = "up"
    <2>1. Bag = [x \in Entry |-> Tally(nodes, (0..(count - 1)) \ {index}, x)]
        BY <1>5, <1>7
    <2> QED BY <1>4, <1>5, <1>7, <2>1 DEF Amount
<1>8. CASE pc = "down"
    <2>1. Bag = [x \in Entry |->
                    Tally(nodes, 0..(count - 1), x) + (IF taken = x THEN 1 ELSE 0)]
        BY <1>5, <1>8
    <2>2. \A x \in Entry : Tally(nodes, 0..(count - 1), x) + (IF taken = x THEN 1 ELSE 0) \in Nat
        BY <1>4
    <2> QED BY <1>4, <1>5, <1>8, <2>1, <2>2 DEF Amount
<1> QED BY <1>1, <1>6, <1>7, <1>8

LEMMA AmountNext == TypeOK' => Amount'
BY AmountHolds, PTL

\* Two bags are the same when every entry is in both as often.
LEMMA SameBag ==
    ASSUME Amount, Amount', \A x \in Entry : Bag'[x] = Bag[x]
    PROVE  Bag' = Bag
BY DEF Amount

\* Between calls the bag depends on the nodes in use only.
LEMMA KeptBag ==
    ASSUME TypeOK, Amount, Amount', pc = "idle", pc' = "idle", count' = count,
           \A i \in 0..(count - 1) : nodes'[i] = nodes[i]
    PROVE  Bag' = Bag
<1>1. ASSUME NEW x \in Entry
      PROVE  Tally(nodes', 0..(count - 1), x) = Tally(nodes, 0..(count - 1), x)
    <2> DEFINE S == 0..(count - 1)
    <2>1. \A i \in S : nodes'[i] = nodes[i]
        OBVIOUS
    <2> HIDE DEF S
    <2>2. Tally(nodes', S, x) = Tally(nodes, S, x)
        BY <2>1, TallySame
    <2> QED BY <2>2 DEF S
<1>2. \A x \in Entry : Bag'[x] = Bag[x]
    BY <1>1 DEF Amount
<1> QED BY <1>2, SameBag

\* The bag of a heap without nodes is empty.
HoldsNothing == pc = "idle" /\ count = 0 => Bag = Abstract!EmptyBag

LEMMA NothingHeld == Amount => HoldsNothing
<1> SUFFICES ASSUME Amount, pc = "idle", count = 0 PROVE Bag = Abstract!EmptyBag
    BY DEF HoldsNothing
<1>1. 0..(count - 1) = {}
    OBVIOUS
<1>2. ASSUME NEW x PROVE Tally(nodes, {}, x) = 0
    BY FS_EmptySet, TallyFinite
<1>3. \A x \in Entry : Bag[x] = 0
    BY <1>1, <1>2 DEF Amount
<1>4. Bag = [x \in Entry |-> 0]
    BY <1>3 DEF Amount
<1> QED BY <1>4 DEF Abstract!EmptyBag, Abstract!Entry, Entry

LEMMA NothingHeldNext == Amount' => HoldsNothing'
BY NothingHeld, PTL

\* An entry is in the bag between calls when it is in a node.
LEMMA InBagInNode ==
    ASSUME TypeOK, Amount, pc = "idle", NEW x \in Entry
    PROVE  Bag[x] > 0 <=> \E i \in 0..(count - 1) : nodes[i] = x
<1>1. count - 1 \in Int
    BY DEF TypeOK
<1>2. IsFiniteSet(0..(count - 1))
    BY <1>1, UpToFinite
<1>3. Tally(nodes, 0..(count - 1), x) \in Nat
      /\ (Tally(nodes, 0..(count - 1), x) = 0 <=> \A i \in 0..(count - 1) : nodes[i] # x)
    BY <1>2, TallyFinite, Zenon
<1>4. Bag[x] = Tally(nodes, 0..(count - 1), x)
    BY DEF Amount
<1> QED BY <1>3, <1>4

--------------------------------------------------------------------------------
(* The entry of the current call *)

\* The node on its way up is the one that is enqueued; what is dequeued is not higher than any
\* node.
TakenRight ==
    /\ pc = "up" => nodes[index] = taken
    /\ pc = "down" => \A i \in 0..(count - 1) : taken.prio <= nodes[i].prio

LEMMA TakenStep == TypeOK /\ HeapOrder /\ TakenRight /\ [Next]_vars => TakenRight'
<1> SUFFICES ASSUME TypeOK, HeapOrder, TakenRight, [Next]_vars PROVE TakenRight'
    OBVIOUS
<1>a. count \in Nat
    BY DEF TypeOK
<1>b. ASSUME pc' = "idle" PROVE TakenRight'
    BY <1>b DEF TakenRight
<1>c. ASSUME NEW x, NEW cap \in Nat, count < cap, NEW ns \in Slots(cap), PutLast(x, cap, ns)
      PROVE  TakenRight'
    <2>1. nodes' = [ns EXCEPT ![count] = x] /\ pc' = "up" /\ index' = count /\ taken' = x
        BY <1>c DEF PutLast, SetHeap, Continue
    <2>2. nodes'[count] = x
        BY <1>a, <1>c, <2>1 DEF Slots
    <2> QED BY <2>1, <2>2 DEF TakenRight
<1>1. ASSUME NEW cap \in InitialCapacities, New(cap) PROVE TakenRight'
    BY <1>b, <1>1 DEF New, OutOfMemory, Answer
<1>2. ASSUME NEW x \in Entry, Enqueue(x) PROVE TakenRight'
    <2>1. CASE OutOfMemory("enqueue", x)
        BY <1>b, <2>1 DEF OutOfMemory, Answer
    <2>2. CASE capacity >= count + 1 /\ PutLast(x, capacity, nodes)
        <3>1. capacity \in Nat /\ count < capacity /\ nodes \in Slots(capacity)
            BY <1>a, <2>2 DEF TypeOK
        <3> QED BY <1>c, <2>2, <3>1
    <2>3. ASSUME NEW n \in GrownCapacities(count + 1), PutLast(x, n, Resized(n)) PROVE TakenRight'
        <3>1. n \in Nat /\ n >= count + 1
            BY <1>a, GrownEnough
        <3>2. Resized(n) \in Slots(n) /\ count < n
            BY <1>a, <3>1, ResizedKeeps
        <3> QED BY <1>c, <2>3, <3>1, <3>2
    <2> QED BY <1>2, <2>1, <2>2, <2>3 DEF Enqueue
<1>3. ASSUME NEW wanted \in 0..MaxCount, EnsureCapacity(wanted) PROVE TakenRight'
    BY <1>b, <1>3 DEF EnsureCapacity, OutOfMemory, Answer
<1>4. ASSUME TryDequeue PROVE TakenRight'
    <2>1. CASE count = 0 \/ count = 1
        BY <1>b, <1>4, <2>1 DEF TryDequeue, Answer
    <2>2. CASE count > 1
        <3>1. /\ pc = "idle"
              /\ SetHeap(capacity, count - 1, [nodes EXCEPT ![0] = nodes[count - 1]])
              /\ Continue("down", 0, nodes[0])
            BY <1>4, <2>2 DEF TryDequeue, TypeOK
        <3>2. /\ pc' = "down" /\ count' = count - 1 /\ taken' = nodes[0]
              /\ nodes' = [nodes EXCEPT ![0] = nodes[count - 1]]
            BY <3>1 DEF SetHeap, Continue
        <3>3. \A j \in 0..(count - 1) : nodes[0].prio <= nodes[j].prio
            BY <3>1, HeapHasLowestRoot DEF RootIsLowest, InOrder
        <3>4. \A i \in 0..(count' - 1) : \E j \in 0..(count - 1) : nodes'[i] = nodes[j]
            BY <1>a, <2>2, <3>2 DEF TypeOK, Slots
        <3> QED BY <3>2, <3>3, <3>4 DEF TakenRight
    <2> QED BY <1>a, <2>1, <2>2
<1>5. ASSUME TryPeek PROVE TakenRight'
    BY <1>b, <1>5 DEF TryPeek, Answer
<1>6. ASSUME Free PROVE TakenRight'
    BY <1>b, <1>6 DEF Free, Answer
<1>7. ASSUME Clone PROVE TakenRight'
    BY <1>b, <1>7 DEF Clone, OutOfMemory, Answer
<1>8. ASSUME Clear PROVE TakenRight'
    BY <1>b, <1>8 DEF Clear, Answer
<1>9. ASSUME TrimExcess PROVE TakenRight'
    BY <1>b, <1>9 DEF TrimExcess, OutOfMemory, Answer
<1>10. ASSUME IterStart PROVE TakenRight'
    BY <1>b, <1>10 DEF IterStart, Answer
<1>11. ASSUME IterMoveNext PROVE TakenRight'
    BY <1>b, <1>11 DEF IterMoveNext, Answer
<1>12. ASSUME SiftUp PROVE TakenRight'
    <2>1. /\ index \in 1..(count - 1) /\ pc = "up" /\ pc' = "up"
          /\ index' = Parent(index) /\ taken' = taken
          /\ nodes' = Swapped(index, Parent(index))
        BY <1>12 DEF SiftUp, Rises, SetHeap, Continue, TypeOK
    <2>2. Parent(index) \in 0..(count - 1)
        BY <1>a, <2>1, ParentRange
    <2>3. nodes'[Parent(index)] = nodes[index]
        BY <2>1, <2>2 DEF Swapped, TypeOK, Slots
    <2> QED BY <2>1, <2>3 DEF TakenRight
<1>13. ASSUME SiftDown PROVE TakenRight'
    <2>1. PICK c \in MinChildren(index) :
             SetHeap(capacity, count, Swapped(index, c)) /\ Continue("down", c, taken)
        BY <1>13 DEF SiftDown
    <2>2. /\ pc = "down" /\ pc' = "down" /\ index \in 0..(count - 1)
          /\ count' = count /\ taken' = taken /\ nodes' = Swapped(index, c)
        BY <1>13, <2>1 DEF SiftDown, SetHeap, Continue, TypeOK
    <2>3. c \in 0..(count - 1)
        BY <1>a, <2>2, ChildrenRange DEF MinChildren
    <2>4. \A i \in 0..(count - 1) : \E j \in 0..(count - 1) : nodes'[i] = nodes[j]
        BY <1>a, <2>2, <2>3 DEF Swapped, TypeOK, Slots
    <2> QED BY <2>2, <2>4 DEF TakenRight
<1>14. ASSUME SiftUpEnd PROVE TakenRight'
    BY <1>b, <1>14 DEF SiftUpEnd, Answer
<1>15. ASSUME SiftDownEnd PROVE TakenRight'
    BY <1>b, <1>15 DEF SiftDownEnd, Answer
<1>16. CASE UNCHANGED vars
    BY <1>16 DEF vars, heap, TakenRight
<1>17. QED
    BY <1>1, <1>2, <1>3, <1>4, <1>5, <1>6, <1>7, <1>8, <1>9, <1>10, <1>11, <1>12, <1>13,
       <1>14, <1>15, <1>16 DEF Next, ClientCall, Work

--------------------------------------------------------------------------------
(* What every step does to the bag *)

\* What the lemmas below know of the state before a step and after it.
Before == TypeOK /\ HeapOrder /\ TakenRight /\ Amount
After == TypeOK' /\ Amount'

\* A call that begins with a loop, or a swap of it, leaves the entries as they are.
LEMMA BeginStep ==
    ASSUME Before, After, DropIter, NEW label, NEW i, NEW x, Continue(label, i, x),
           \A y \in Entry : Bag'[y] = Bag[y]
    PROVE  Abstract!Begin
<1>1. Bag' = Bag
    BY SameBag DEF Before, After
<1>2. Seen' = Junk
    BY DEF After, Amount, DropIter
<1> QED BY <1>1, <1>2 DEF Continue, Abstract!Begin, Abstract!Answer, Abstract!Change

\* The new node is not in the bag before it is in its place.
LEMMA PutLastBegins ==
    ASSUME Before, After, DropIter, pc = "idle", NEW x \in Entry, NEW cap \in Nat, count < cap,
           NEW ns \in Slots(cap), \A i \in 0..(count - 1) : ns[i] = nodes[i],
           PutLast(x, cap, ns)
    PROVE  Abstract!Begin
<1> DEFINE S == 0..(count - 1)
<1>1. count \in Nat
    BY DEF Before, TypeOK
<1>2. /\ nodes' = [ns EXCEPT ![count] = x] /\ count' = count + 1 /\ pc' = "up" /\ index' = count
      /\ Continue("up", count, x)
    BY DEF PutLast, SetHeap, Continue
<1>3. (0..(count' - 1)) \ {index'} = S
    BY <1>1, <1>2
<1>4. \A i \in S : nodes'[i] = nodes[i]
    BY <1>1, <1>2 DEF Slots
<1> HIDE DEF S
<1>5. ASSUME NEW y \in Entry PROVE Bag'[y] = Bag[y]
    <2>1. Tally(nodes', S, y) = Tally(nodes, S, y)
        BY <1>4, TallySame
    <2>2. Bag'[y] = Tally(nodes', S, y)
        BY <1>2, <1>3 DEF After, Amount
    <2>3. Bag[y] = Tally(nodes, S, y)
        BY DEF Before, Amount, S
    <2> QED BY <2>1, <2>2, <2>3
<1> QED BY <1>2, <1>5, BeginStep

LEMMA SiftUpBegins ==
    ASSUME Before, After, SiftUp
    PROVE  Abstract!Begin
<1> DEFINE S == 0..(count - 1)
           p == Parent(index)
<1>1. /\ count \in Nat /\ index \in 1..(count - 1) /\ pc = "up" /\ pc' = "up"
      /\ count' = count /\ index' = p /\ nodes' = Swapped(index, p)
      /\ Continue("up", p, taken) /\ DropIter
    BY DEF SiftUp, Rises, SetHeap, Continue, Before, TypeOK
<1>2. p \in S /\ index \in S /\ p # index
    BY <1>1, ParentRange
<1> HIDE DEF p
<1>3. /\ nodes'[index] = nodes[p] /\ nodes'[p] = nodes[index]
      /\ \A k \in S : k # index /\ k # p => nodes'[k] = nodes[k]
    BY <1>1, <1>2 DEF Swapped, Before, TypeOK, Slots
<1>4. IsFiniteSet(S)
    BY <1>1, UpToFinite
<1>5. ASSUME NEW y \in Entry PROVE Bag'[y] = Bag[y]
    <2>1. Bag'[y] = Tally(nodes', S \ {p}, y)
        BY <1>1 DEF After, Amount
    <2>2. Bag[y] = Tally(nodes, S \ {index}, y)
        BY <1>1 DEF Before, Amount
    <2> HIDE DEF S
    <2>3. Tally(nodes', S \ {p}, y) = Tally(nodes, S \ {index}, y)
        BY <1>2, <1>3, <1>4, TallySwap
    <2> QED BY <2>1, <2>2, <2>3
<1> QED BY <1>1, <1>5, BeginStep

\* The element is in the bag once its node has come to rest.
LEMMA SiftUpEndEnqueues ==
    ASSUME Before, After, SiftUpEnd
    PROVE  taken \in Entry /\ Abstract!Enqueue(taken)
<1> DEFINE S == 0..(count - 1)
<1>1. /\ count \in Nat /\ index \in 0..(count - 1) /\ pc = "up" /\ pc' = "idle" /\ taken \in Entry
      /\ count' = count /\ nodes' = nodes /\ iterIndex' = NoIter
      /\ Answer("enqueue", taken, "NONE")
    BY DEF SiftUpEnd, heap, Answer, DropIter, Before, TypeOK
<1>2. nodes[index] = taken
    BY <1>1 DEF Before, TakenRight
<1>3. IsFiniteSet(S) /\ index \in S
    BY <1>1, UpToFinite
<1>4. ASSUME NEW y \in Entry PROVE Bag'[y] = Bag[y] + (IF taken = y THEN 1 ELSE 0)
    <2>1. Bag'[y] = Tally(nodes, S, y) /\ Bag[y] = Tally(nodes, S \ {index}, y)
        BY <1>1 DEF Before, After, Amount
    <2> HIDE DEF S
    <2> QED BY <1>2, <1>3, <2>1, TallyOne
<1>5. Bag \in [Entry -> Nat] /\ Bag' \in [Entry -> Nat]
    BY DEF Before, After, Amount
<1>6. Bag' = [Bag EXCEPT ![taken] = @ + 1]
    BY <1>1, <1>4, <1>5
<1>7. Seen' = Junk
    BY <1>1 DEF After, Amount
<1> QED BY <1>1, <1>6, <1>7 DEF Answer, Abstract!Enqueue, Abstract!Answer, Abstract!Change

\* The root is one of the lowest entries.
LEMMA RootIsLowestEntry ==
    ASSUME Before, pc = "idle", count > 0
    PROVE  nodes[0] \in Entry /\ Abstract!Lowest(nodes[0])
<1>1. count \in Nat /\ 0 \in 0..(count - 1) /\ nodes[0] \in Entry
    BY DEF Before, TypeOK
<1>2. \A i \in 0..(count - 1) : nodes[0].prio <= nodes[i].prio
    BY HeapHasLowestRoot DEF Before, RootIsLowest, InOrder
<1>3. \A x \in Entry : Bag[x] > 0 <=> \E i \in 0..(count - 1) : nodes[i] = x
    BY InBagInNode DEF Before
<1>4. Bag[nodes[0]] > 0
    BY <1>1, <1>3
<1>5. \A y \in Entry : Bag[y] > 0 => nodes[0].prio <= y.prio
    BY <1>2, <1>3
<1> QED BY <1>1, <1>4, <1>5 DEF Abstract!Lowest, Abstract!Entry, Entry

\* The slot of the root apart.
LEMMA TallyRoot ==
    ASSUME NEW f, NEW S, IsFiniteSet(S), 0 \in S, NEW x
    PROVE  Tally(f, S, x) = Tally(f, S \ {0}, x) + (IF f[0] = x THEN 1 ELSE 0)
<1>1. \A i \in S : Tally(f, S, x) = Tally(f, S \ {i}, x) + (IF f[i] = x THEN 1 ELSE 0)
    BY TallyOne
<1> QED BY <1>1, Zenon

\* With the last node gone, the bag is empty.
LEMMA DequeueLast ==
    ASSUME Before, After, TryDequeue, count = 1
    PROVE  Abstract!Dequeue(nodes[0])
<1>1. /\ pc = "idle" /\ pc' = "idle" /\ count' = 0 /\ iterIndex' = NoIter
      /\ Answer("try_dequeue", nodes[0], "NONE")
    BY DEF TryDequeue, SetHeap, Answer, DropIter
<1>2. nodes[0] \in Entry /\ Abstract!Lowest(nodes[0])
    BY <1>1, RootIsLowestEntry
<1>3. IsFiniteSet(0..0) /\ 0 \in 0..0 /\ (0..0) \ {0} = {} /\ 0..(count - 1) = 0..0
    BY UpToFinite
<1>4. ASSUME NEW y \in Entry PROVE Bag[y] = (IF nodes[0] = y THEN 1 ELSE 0) /\ Bag'[y] = 0
    <2>1. Bag[y] = Tally(nodes, 0..0, y)
        BY <1>1, <1>3 DEF Before, Amount
    <2>2. Bag'[y] = Tally(nodes', {}, y)
        <3>1. 0..(count' - 1) = {}
            BY <1>1
        <3>2. Bag'[y] = Tally(nodes', 0..(count' - 1), y)
            BY <1>1 DEF After, Amount
        <3> QED BY <3>1, <3>2
    <2>3. Tally(nodes', {}, y) = 0 /\ Tally(nodes, {}, y) = 0
        BY FS_EmptySet, TallyFinite
    <2>4. Tally(nodes, 0..0, y) = Tally(nodes, (0..0) \ {0}, y) + (IF nodes[0] = y THEN 1 ELSE 0)
        BY <1>3, TallyRoot
    <2> QED BY <1>3, <2>1, <2>2, <2>3, <2>4
<1>5. Bag \in [Entry -> Nat] /\ Bag' \in [Entry -> Nat]
    BY DEF Before, After, Amount
<1>6. Bag' = [Bag EXCEPT ![nodes[0]] = @ - 1]
    BY <1>2, <1>4, <1>5
<1>7. Seen' = Junk
    BY <1>1 DEF After, Amount
<1> QED BY <1>1, <1>2, <1>6, <1>7 DEF Answer, Abstract!Dequeue, Abstract!Answer, Abstract!Change

\* The root that is handed out stays in the bag until the call returns; the last node takes
\* its place.
LEMMA DequeueBegins ==
    ASSUME Before, After, TryDequeue, count > 1
    PROVE  Abstract!Begin
<1> DEFINE S == 0..(count - 1)
           T == 0..(count - 2)
           l == count - 1
<1>1. count \in Nat /\ pc = "idle"
    BY DEF Before, TypeOK, TryDequeue
<1>2. /\ SetHeap(capacity, count - 1, [nodes EXCEPT ![0] = nodes[l]])
      /\ Continue("down", 0, nodes[0]) /\ DropIter
    BY <1>1 DEF TryDequeue
<1>3. /\ pc' = "down" /\ count' = l /\ taken' = nodes[0]
      /\ nodes' = [nodes EXCEPT ![0] = nodes[l]]
    BY <1>2 DEF SetHeap, Continue
<1>4. nodes'[0] = nodes[l] /\ \A k \in S : k # 0 => nodes'[k] = nodes[k]
    BY <1>1, <1>3 DEF Before, TypeOK, Slots
<1>5. IsFiniteSet(S) /\ IsFiniteSet(T)
    BY <1>1, UpToFinite
<1>6. /\ 0 \in S /\ 0 \in T /\ l \in S \ {0} /\ (S \ {0}) \ {l} = T \ {0} /\ T \in SUBSET S
      /\ 0..(count' - 1) = T
    BY <1>1, <1>3
<1>7. IsFiniteSet(S \ {0}) /\ IsFiniteSet(T \ {0})
    BY <1>5, FS_RemoveElement, Zenon
<1>8. \A k \in T \ {0} : nodes'[k] = nodes[k]
    BY <1>4, <1>6
<1>9. ASSUME NEW y \in Entry PROVE Bag'[y] = Bag[y]
    <2>1. Bag[y] = Tally(nodes, S, y)
        BY <1>1 DEF Before, Amount
    <2>2. Bag'[y] = Tally(nodes', T, y) + (IF nodes[0] = y THEN 1 ELSE 0)
        BY <1>3, <1>6 DEF After, Amount
    <2> HIDE DEF S, T, l
    <2>3. Tally(nodes, S, y) = Tally(nodes, S \ {0}, y) + (IF nodes[0] = y THEN 1 ELSE 0)
        BY <1>5, <1>6, TallyRoot
    <2>4. Tally(nodes, S \ {0}, y) = Tally(nodes, T \ {0}, y) + (IF nodes[l] = y THEN 1 ELSE 0)
        BY <1>6, <1>7, TallyOne
    <2>5. Tally(nodes', T, y) = Tally(nodes', T \ {0}, y) + (IF nodes'[0] = y THEN 1 ELSE 0)
        BY <1>5, <1>6, TallyRoot
    <2>6. Tally(nodes', T \ {0}, y) = Tally(nodes, T \ {0}, y)
        BY <1>8, TallySame
    <2> QED BY <1>4, <2>1, <2>2, <2>3, <2>4, <2>5, <2>6
<1> QED BY <1>2, <1>9, BeginStep

LEMMA SiftDownBegins ==
    ASSUME Before, After, SiftDown
    PROVE  Abstract!Begin
<1> DEFINE S == 0..(count - 1)
<1>1. PICK c \in MinChildren(index) :
         SetHeap(capacity, count, Swapped(index, c)) /\ Continue("down", c, taken)
    BY DEF SiftDown
<1>2. /\ pc = "down" /\ pc' = "down" /\ index \in S /\ count \in Nat /\ DropIter
      /\ count' = count /\ taken' = taken /\ nodes' = Swapped(index, c)
    BY <1>1 DEF SiftDown, SetHeap, Continue, Before, TypeOK
<1>3. c \in S /\ index \in S /\ c # index
    BY <1>2, ChildrenRange DEF MinChildren
<1>4. /\ nodes'[index] = nodes[c] /\ nodes'[c] = nodes[index]
      /\ \A k \in S : k # index /\ k # c => nodes'[k] = nodes[k]
    BY <1>2, <1>3 DEF Swapped, Before, TypeOK, Slots
<1>5. IsFiniteSet(S)
    BY <1>2, UpToFinite
<1>6. ASSUME NEW y \in Entry PROVE Bag'[y] = Bag[y]
    <2>1. /\ Bag'[y] = Tally(nodes', S, y) + (IF taken = y THEN 1 ELSE 0)
          /\ Bag[y] = Tally(nodes, S, y) + (IF taken = y THEN 1 ELSE 0)
        BY <1>2 DEF Before, After, Amount
    <2> HIDE DEF S
    <2>2. /\ Tally(nodes', S, y) = Tally(nodes, S, y)
          /\ Tally(nodes', S \ {c}, y) = Tally(nodes, S \ {index}, y)
        BY <1>3, <1>4, <1>5, TallySwap
    <2> QED BY <2>1, <2>2
<1> QED BY <1>1, <1>2, <1>6, BeginStep

\* What is handed out is one of the lowest of the entries that were there.
LEMMA SiftDownEndDequeues ==
    ASSUME Before, After, SiftDownEnd
    PROVE  taken \in Entry /\ Abstract!Dequeue(taken)
<1> DEFINE S == 0..(count - 1)
<1>1. /\ count \in Nat /\ pc = "down" /\ pc' = "idle" /\ taken \in Entry
      /\ count' = count /\ nodes' = nodes /\ iterIndex' = NoIter
      /\ Answer("try_dequeue", taken, "NONE")
    BY DEF SiftDownEnd, heap, Answer, DropIter, Before, TypeOK
<1>2. IsFiniteSet(S)
    BY <1>1, UpToFinite
<1>3. ASSUME NEW y \in Entry
      PROVE  /\ Tally(nodes, S, y) \in Nat
             /\ Tally(nodes, S, y) = 0 <=> \A i \in S : nodes[i] # y
    BY <1>2, TallyFinite, Zenon
<1>4. ASSUME NEW y \in Entry
      PROVE  /\ Bag'[y] = Tally(nodes, S, y)
             /\ Bag[y] = Tally(nodes, S, y) + (IF taken = y THEN 1 ELSE 0)
    BY <1>1 DEF Before, After, Amount
<1>5. \A i \in S : taken.prio <= nodes[i].prio
    BY <1>1 DEF Before, TakenRight
<1>6. taken.prio \in Int
    BY <1>1, PrioAssumption DEF Entry
<1> HIDE DEF S
<1>7. Bag[taken] > 0
    BY <1>1, <1>3, <1>4
<1>8. ASSUME NEW y \in Entry, Bag[y] > 0 PROVE taken.prio <= y.prio
    <2>1. CASE y = taken
        BY <1>6, <2>1
    <2>2. CASE y # taken
        <3>1. Tally(nodes, S, y) # 0
            BY <1>4, <1>8, <2>2
        <3>2. PICK i \in S : nodes[i] = y
            BY <1>3, <3>1
        <3> QED BY <1>5, <3>2
    <2> QED BY <2>1, <2>2
<1>9. Abstract!Lowest(taken)
    BY <1>1, <1>7, <1>8 DEF Abstract!Lowest, Abstract!Entry, Entry
<1>10. Bag \in [Entry -> Nat] /\ Bag' \in [Entry -> Nat]
    BY DEF Before, After, Amount
<1>11. Bag' = [Bag EXCEPT ![taken] = @ - 1]
    <2>1. \A y \in Entry : Bag'[y] = Bag[y] - (IF taken = y THEN 1 ELSE 0)
        BY <1>3, <1>4
    <2> QED BY <1>1, <1>10, <2>1
<1>12. Seen' = Junk
    BY <1>1 DEF After, Amount
<1> QED BY <1>1, <1>9, <1>11, <1>12
        DEF Answer, Abstract!Dequeue, Abstract!Answer, Abstract!Change

\* A call that leaves the entries alone, whatever becomes of the storage.
LEMMA KeptStep ==
    ASSUME Before, After, pc = "idle", pc' = "idle", DropIter, count' = count,
           \A i \in 0..(count - 1) : nodes'[i] = nodes[i]
    PROVE  Bag' = Bag /\ Seen' = Junk
<1>1. Bag' = Bag
    BY KeptBag DEF Before, After
<1>2. Seen' = Junk
    BY DEF After, Amount, DropIter
<1> QED BY <1>1, <1>2

LEMMA OutOfMemoryStep ==
    ASSUME Before, After, pc = "idle", DropIter, NEW op, NEW x, OutOfMemory(op, x)
    PROVE  Abstract!OutOfMemory(op, x)
<1>1. pc' = "idle" /\ count' = count /\ nodes' = nodes /\ Answer(op, x, "OUT_OF_MEMORY")
    BY DEF OutOfMemory, heap, Answer
<1>2. Bag' = Bag /\ Seen' = Junk
    BY <1>1, KeptStep
<1> QED BY <1>1, <1>2 DEF Answer, Abstract!OutOfMemory, Abstract!Answer, Abstract!Change

LEMMA ReorganiseStep ==
    ASSUME Before, After, pc = "idle", DropIter, NEW op, Answer(op, Junk, "NONE"), count' = count,
           \A i \in 0..(count - 1) : nodes'[i] = nodes[i]
    PROVE  Abstract!Reorganise(op)
<1>1. Bag' = Bag /\ Seen' = Junk
    BY KeptStep DEF Answer
<1> QED BY <1>1 DEF Answer, Abstract!Reorganise, Abstract!Answer, Abstract!Change

LEMMA EmptyStep ==
    ASSUME Before, After, DropIter, NEW op, Answer(op, Junk, "NONE"), count' = 0
    PROVE  Abstract!Empty(op)
<1>1. pc' = "idle"
    BY DEF Answer
<1>2. Bag' = Abstract!EmptyBag
    BY <1>1, NothingHeldNext DEF After, HoldsNothing
<1>3. Seen' = Junk
    BY DEF After, Amount, DropIter
<1> QED BY <1>2, <1>3 DEF Answer, Abstract!Empty, Abstract!Answer, Abstract!Change

LEMMA PeekStep ==
    ASSUME Before, After, TryPeek
    PROVE  \/ Abstract!FoundEmpty("try_peek")
           \/ \E x \in Entry : Abstract!Peek(x)
<1>1. /\ pc = "idle" /\ pc' = "idle" /\ count' = count /\ nodes' = nodes
      /\ iterIndex' = iterIndex /\ count \in Nat
    BY DEF TryPeek, heap, Answer, Before, TypeOK
<1>2. Bag' = Bag
    BY <1>1, KeptBag DEF Before, After
<1>3. Seen' = Seen
    BY <1>1 DEF Seen, Occurrences
<1>4. CASE count = 0
    <2>1. Answer("try_peek", Junk, "EMPTY")
        BY <1>4 DEF TryPeek
    <2>2. Bag = Abstract!EmptyBag
        BY <1>1, <1>4, NothingHeld DEF Before, HoldsNothing
    <2> QED BY <1>2, <1>3, <2>1, <2>2 DEF Answer, Abstract!FoundEmpty, Abstract!Answer
<1>5. CASE count > 0
    <2>1. Answer("try_peek", nodes[0], "NONE")
        BY <1>5 DEF TryPeek
    <2>2. nodes[0] \in Entry /\ Abstract!Lowest(nodes[0])
        BY <1>1, <1>5, RootIsLowestEntry
    <2> QED BY <1>2, <1>3, <2>1, <2>2 DEF Answer, Abstract!Peek, Abstract!Answer
<1> QED BY <1>1, <1>4, <1>5

LEMMA IterStartStep ==
    ASSUME Before, After, IterStart
    PROVE  Abstract!IterStart
<1>1. /\ pc = "idle" /\ pc' = "idle" /\ count' = count /\ nodes' = nodes
      /\ iterIndex' = -1 /\ Answer("iter", Junk, "NONE")
    BY DEF IterStart, heap, Answer
<1>2. Bag' = Bag
    BY <1>1, KeptBag DEF Before, After
<1>3. 0..iterIndex' = {}
    BY <1>1
<1>4. ASSUME NEW y PROVE Tally(nodes', {}, y) = 0
    BY FS_EmptySet, TallyFinite
<1>5. Seen' = [y \in Entry |-> 0]
    <2>1. Seen' \in [Entry -> Nat] /\ \A y \in Entry : Seen'[y] = Tally(nodes', 0..iterIndex', y)
        BY <1>1 DEF After, Amount, NoIter
    <2>2. \A y \in Entry : Seen'[y] = 0
        BY <1>3, <1>4, <2>1
    <2> QED BY <2>1, <2>2
<1> QED BY <1>1, <1>2, <1>5
        DEF Answer, Abstract!IterStart, Abstract!Answer, Abstract!EmptyBag, Abstract!Entry, Entry

\* The iterator hands out the next node; it ends when it has handed out all of them.
LEMMA IterMoveNextStep ==
    ASSUME Before, After, IterMoveNext
    PROVE  \/ Abstract!IterEnd
           \/ \E x \in Entry : Abstract!IterNext(x)
<1> DEFINE S == 0..(count - 1)
           k == iterIndex
<1>1. /\ pc = "idle" /\ pc' = "idle" /\ count' = count /\ nodes' = nodes
      /\ count \in Nat /\ k # NoIter /\ k \in -1..(count - 1)
    BY DEF IterMoveNext, heap, Answer, Before, TypeOK
<1>2. Bag' = Bag
    BY <1>1, KeptBag DEF Before, After
<1>3. /\ Seen \in [Entry -> Nat] /\ \A y \in Entry : Seen[y] = Tally(nodes, 0..k, y)
      /\ Bag \in [Entry -> Nat] /\ \A y \in Entry : Bag[y] = Tally(nodes, S, y)
    BY <1>1 DEF Before, Amount
<1>4. CASE k + 1 >= count
    <2>1. iterIndex' = iterIndex /\ Answer("iter_move_next", Junk, "EMPTY")
        BY <1>1, <1>4 DEF IterMoveNext
    <2>2. 0..k = S
        BY <1>1, <1>4
    <2>3. Seen = Bag
        BY <1>3, <2>2
    <2>4. Seen' = Seen
        BY <1>1, <2>1 DEF Seen, Occurrences
    <2> QED BY <1>2, <2>1, <2>3, <2>4 DEF Answer, Abstract!IterEnd, Abstract!Answer
<1>5. CASE k + 1 < count
    <2> DEFINE n == k + 1
               x == nodes[n]
               R == 0..n
    <2>1. iterIndex' = n /\ Answer("iter_move_next", x, "NONE")
        BY <1>1, <1>5 DEF IterMoveNext
    <2>2. n \in S /\ x \in Entry
        BY <1>1, <1>5 DEF Before, TypeOK
    <2>3. 0..k \in SUBSET (S \ {n})
        BY <1>1, <1>5
    <2>4. IsFiniteSet(S) /\ IsFiniteSet(0..k)
        BY <1>1, UpToFinite
    <2>5. IsFiniteSet(S \ {n})
        BY <2>4, FS_RemoveElement, Zenon
    <2>6. /\ Seen' \in [Entry -> Nat]
          /\ \A y \in Entry : Seen'[y] = Tally(nodes, R, y)
        <3>1. iterIndex' # NoIter
            BY <1>1, <2>1 DEF NoIter
        <3> QED BY <1>1, <2>1, <3>1 DEF After, Amount
    <2>7. Seen # Junk
        BY <1>3, JunkIsNoBag
    <2> HIDE DEF S, n, R
    <2>8. ASSUME NEW y \in Entry PROVE Seen'[y] = Seen[y] + (IF x = y THEN 1 ELSE 0)
        <3>1. Tally(nodes, R, y) = Tally(nodes, 0..k, y) + (IF nodes[n] = y THEN 1 ELSE 0)
            BY <1>1, TallyNext DEF n, R
        <3> QED BY <1>3, <2>6, <3>1
    <2>9. Seen[x] < Bag[x]
        <3>1. Tally(nodes, S, x) = Tally(nodes, S \ {n}, x) + (IF nodes[n] = x THEN 1 ELSE 0)
            BY <2>2, <2>4, TallyOne
        <3>2. Tally(nodes, 0..k, x) <= Tally(nodes, S \ {n}, x)
            BY <2>3, <2>5, TallyLess
        <3>3. Tally(nodes, 0..k, x) \in Nat /\ Tally(nodes, S \ {n}, x) \in Nat
            BY <2>4, <2>5, TallyFinite
        <3> QED BY <1>3, <2>2, <3>1, <3>2, <3>3
    <2>10. Seen' = [Seen EXCEPT ![x] = @ + 1]
        BY <1>3, <2>2, <2>6, <2>8
    <2>11. Abstract!IterNext(x)
        BY <1>2, <2>1, <2>7, <2>9, <2>10 DEF Answer, Abstract!IterNext, Abstract!Answer
    <2> QED BY <2>2, <2>11
<1> QED BY <1>1, <1>4, <1>5

\* Every step of the heap is a step of the bag, or none.
LEMMA BagStep ==
    ASSUME Before, After, [Next]_vars
    PROVE  [Abstract!Next]_Abstract!vars
<1> DEFINE Step == [Abstract!Next]_Abstract!vars
<1>a. count \in Nat /\ nodes \in Slots(capacity) /\ capacity \in Nat
    BY DEF Before, TypeOK
<1>b. ASSUME Abstract!Begin PROVE Step
    BY <1>b DEF Abstract!Next
<1>c. ASSUME NEW op \in {"ensure_capacity", "trim_excess", "clone"}, Abstract!Reorganise(op)
      PROVE  Step
    BY <1>c DEF Abstract!Next
<1>d. ASSUME NEW op \in {"new", "ensure_capacity", "trim_excess", "clone"},
             Abstract!OutOfMemory(op, Junk)
      PROVE  Step
    BY <1>d DEF Abstract!Next
<1>e. ASSUME NEW op \in {"new", "clear", "free"}, Abstract!Empty(op) PROVE Step
    BY <1>e DEF Abstract!Next
<1>f. ASSUME NEW x \in Entry,
             \/ Abstract!Enqueue(x) \/ Abstract!Dequeue(x) \/ Abstract!Peek(x)
             \/ Abstract!IterNext(x) \/ Abstract!OutOfMemory("enqueue", x)
      PROVE  Step
    BY <1>f DEF Abstract!Next, Abstract!Entry, Entry
<1>g. ASSUME NEW op \in {"try_dequeue", "try_peek"}, Abstract!FoundEmpty(op) PROVE Step
    BY <1>g DEF Abstract!Next
<1>h. ASSUME Abstract!IterStart \/ Abstract!IterEnd PROVE Step
    BY <1>h DEF Abstract!Next
<1> HIDE DEF Step
<1>1. ASSUME NEW cap \in InitialCapacities, New(cap) PROVE Step
    <2>1. CASE OutOfMemory("new", Junk)
        BY <1>d, <1>1, <2>1, OutOfMemoryStep DEF New
    <2>2. CASE ~OutOfMemory("new", Junk)
        <3>1. count' = 0 /\ Answer("new", Junk, "NONE") /\ DropIter
            BY <1>1, <2>2 DEF New
        <3> QED BY <1>e, <3>1, EmptyStep
    <2> QED BY <2>1, <2>2
<1>2. ASSUME NEW x \in Entry, Enqueue(x) PROVE Step
    <2>0. pc = "idle" /\ DropIter
        BY <1>2 DEF Enqueue
    <2>1. CASE OutOfMemory("enqueue", x)
        BY <1>f, <2>0, <2>1, OutOfMemoryStep
    <2>2. CASE capacity >= count + 1 /\ PutLast(x, capacity, nodes)
        <3>1. count < capacity /\ PutLast(x, capacity, nodes)
            BY <1>a, <2>2
        <3>2. Abstract!Begin
            BY <1>a, <2>0, <3>1, PutLastBegins
        <3> QED BY <1>b, <3>2
    <2>3. ASSUME NEW n \in GrownCapacities(count + 1), PutLast(x, n, Resized(n)) PROVE Step
        <3>1. n \in Nat /\ n >= count + 1
            BY <1>a, GrownEnough
        <3>2. /\ Resized(n) \in Slots(n) /\ count < n
              /\ \A i \in 0..(count - 1) : Resized(n)[i] = nodes[i]
            BY <1>a, <3>1, ResizedKeeps DEF Before
        <3>3. Abstract!Begin
            BY <2>0, <2>3, <3>1, <3>2, PutLastBegins
        <3> QED BY <1>b, <3>3
    <2> QED BY <1>2, <2>1, <2>2, <2>3 DEF Enqueue
<1>3. ASSUME NEW wanted \in 0..MaxCount, EnsureCapacity(wanted) PROVE Step
    <2>0. pc = "idle" /\ DropIter
        BY <1>3 DEF EnsureCapacity
    <2>1. CASE OutOfMemory("ensure_capacity", Junk)
        BY <1>d, <2>0, <2>1, OutOfMemoryStep
    <2>2. CASE UNCHANGED heap /\ Answer("ensure_capacity", Junk, "NONE")
        <3>1. count' = count /\ nodes' = nodes
            BY <2>2 DEF heap
        <3> QED BY <1>c, <2>0, <2>2, <3>1, ReorganiseStep
    <2>3. ASSUME NEW n \in GrownCapacities(wanted), capacity < wanted,
                 SetHeap(n, count, Resized(n)), Answer("ensure_capacity", Junk, "NONE")
          PROVE  Step
        <3>1. n \in Nat /\ n >= wanted /\ count < n
            BY <2>3, GrownEnough, MaxCountAssumption DEF Before, TypeOK
        <3>2. count' = count /\ \A i \in 0..(count - 1) : nodes'[i] = nodes[i]
            BY <1>a, <2>3, <3>1, ResizedKeeps DEF SetHeap, Before
        <3> QED BY <1>c, <2>0, <2>3, <3>2, ReorganiseStep
    <2> QED BY <1>3, <2>1, <2>2, <2>3 DEF EnsureCapacity
<1>4. ASSUME TryDequeue PROVE Step
    <2>1. CASE count = 0
        <3>1. /\ pc = "idle" /\ pc' = "idle" /\ count' = count /\ nodes' = nodes /\ DropIter
              /\ Answer("try_dequeue", Junk, "EMPTY")
            BY <1>4, <2>1 DEF TryDequeue, heap, Answer
        <3>2. Bag' = Bag /\ Seen' = Junk
            BY <3>1, KeptStep
        <3>3. Bag = Abstract!EmptyBag
            BY <2>1, <3>1, NothingHeld DEF Before, HoldsNothing
        <3>4. Abstract!FoundEmpty("try_dequeue")
            BY <3>1, <3>2, <3>3 DEF Answer, Abstract!FoundEmpty, Abstract!Answer
        <3> QED BY <1>g, <3>4
    <2>2. CASE count = 1
        <3>1. pc = "idle" /\ Abstract!Dequeue(nodes[0])
            BY <1>4, <2>2, DequeueLast DEF TryDequeue
        <3>2. nodes[0] \in Entry
            BY <2>2, <3>1, RootIsLowestEntry
        <3> QED BY <1>f, <3>1, <3>2
    <2>3. CASE count > 1
        BY <1>b, <1>4, <2>3, DequeueBegins
    <2> QED BY <1>a, <2>1, <2>2, <2>3
<1>5. ASSUME TryPeek PROVE Step
    BY <1>f, <1>g, <1>5, PeekStep
<1>6. ASSUME Free PROVE Step
    <2>1. count' = 0 /\ Answer("free", Junk, "NONE") /\ DropIter
        BY <1>6 DEF Free
    <2> QED BY <1>e, <2>1, EmptyStep
<1>7. ASSUME Clone PROVE Step
    <2>0. pc = "idle" /\ DropIter
        BY <1>7 DEF Clone
    <2>1. CASE OutOfMemory("clone", Junk)
        BY <1>d, <2>0, <2>1, OutOfMemoryStep
    <2>2. CASE ~OutOfMemory("clone", Junk)
        <3>1. /\ Answer("clone", Junk, "NONE") /\ count' = count
              /\ nodes' = [j \in 0..(capacity - 1) |-> IF j < count THEN nodes[j] ELSE Junk]
            BY <1>7, <2>2 DEF Clone, SetHeap
        <3>2. \A i \in 0..(count - 1) : nodes'[i] = nodes[i]
            BY <3>1 DEF Before, TypeOK
        <3> QED BY <1>c, <2>0, <3>1, <3>2, ReorganiseStep
    <2> QED BY <2>1, <2>2
<1>8. ASSUME Clear PROVE Step
    <2>1. count' = 0 /\ Answer("clear", Junk, "NONE") /\ DropIter
        BY <1>8 DEF Clear, SetHeap
    <2> QED BY <1>e, <2>1, EmptyStep
<1>9. ASSUME TrimExcess PROVE Step
    <2>0. pc = "idle" /\ DropIter
        BY <1>9 DEF TrimExcess
    <2>1. CASE OutOfMemory("trim_excess", Junk)
        BY <1>d, <2>0, <2>1, OutOfMemoryStep
    <2>2. CASE UNCHANGED heap /\ Answer("trim_excess", Junk, "NONE")
        <3>1. count' = count /\ nodes' = nodes
            BY <2>2 DEF heap
        <3> QED BY <1>c, <2>0, <2>2, <3>1, ReorganiseStep
    <2>3. CASE SetHeap(count, count, Resized(count)) /\ Answer("trim_excess", Junk, "NONE")
        <3>1. count' = count /\ \A i \in 0..(count - 1) : nodes'[i] = nodes[i]
            BY <1>a, <2>3, ResizedKeeps DEF SetHeap, Before
        <3> QED BY <1>c, <2>0, <2>3, <3>1, ReorganiseStep
    <2> QED BY <1>9, <2>1, <2>2, <2>3 DEF TrimExcess
<1>10. ASSUME IterStart PROVE Step
    BY <1>h, <1>10, IterStartStep
<1>11. ASSUME IterMoveNext PROVE Step
    BY <1>f, <1>h, <1>11, IterMoveNextStep
<1>12. ASSUME SiftUp PROVE Step
    BY <1>b, <1>12, SiftUpBegins
<1>13. ASSUME SiftDown PROVE Step
    BY <1>b, <1>13, SiftDownBegins
<1>14. ASSUME SiftUpEnd PROVE Step
    BY <1>f, <1>14, SiftUpEndEnqueues
<1>15. ASSUME SiftDownEnd PROVE Step
    BY <1>f, <1>15, SiftDownEndDequeues
<1>16. ASSUME UNCHANGED vars PROVE Step
    <2>1. Bag' = Bag /\ Seen' = Seen /\ last' = last
        BY <1>16 DEF vars, heap, Bag, Seen, Occurrences
    <2> QED BY <2>1 DEF Step, Abstract!vars
<1>17. ASSUME ClientCall PROVE Step
    BY <1>17, <1>1, <1>2, <1>3, <1>4, <1>5, <1>6, <1>7, <1>8, <1>9, <1>10, <1>11, Zenon
       DEF ClientCall
<1>18. ASSUME Work PROVE Step
    BY <1>18, <1>12, <1>13, <1>14, <1>15, Zenon DEF Work
<1>19. ClientCall \/ Work \/ UNCHANGED vars
    BY DEF Next
<1>20. Step
    BY <1>16, <1>17, <1>18, <1>19
<1> QED BY <1>20 DEF Step

LEMMA BagInit == Init => Abstract!Init
<1> SUFFICES ASSUME Init PROVE Abstract!Init
    OBVIOUS
<1>1. Amount /\ pc = "idle" /\ count = 0 /\ iterIndex = NoIter
    BY TypeInit, AmountHolds DEF Init
<1>2. Bag = Abstract!EmptyBag /\ Seen = Junk
    BY <1>1, NothingHeld DEF HoldsNothing, Amount
<1> QED BY <1>2 DEF Init, Abstract!Init

LEMMA TakenInit == Init => TakenRight
BY DEF Init, TakenRight

\* The heap implements the collection with priorities of prio-queue.h: what is dequeued or
\* looked at has the lowest priority of all that is in it, and no swap, growth, trim or
\* failure loses or duplicates an entry.
THEOREM BagCorrect == Spec => PriorityBagSpec
<1> DEFINE IInv == TypeOK /\ HeapOrder /\ TakenRight
<1>1. Init => IInv
    BY TypeInit, OrderInit, TakenInit
<1>2. IInv /\ [Next]_vars => IInv'
    BY TypeStep, OrderStep, TakenStep
<1>3. IInv /\ IInv' /\ [Next]_vars => [Abstract!Next]_Abstract!vars
    BY AmountHolds, AmountNext, BagStep DEF Before, After
<1> HIDE DEF IInv
<1> QED BY <1>1, <1>2, <1>3, BagInit, PTL DEF Spec, PriorityBagSpec, Abstract!Spec
================================================================================
