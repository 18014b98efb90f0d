------------------------------- MODULE ScuQueue --------------------------------
(***************************************************************************)
(* The ring buffer of src/queue.c.  One action is one call of the library; *)
(* the library is single-threaded and a queue operation calls nothing that *)
(* could call back.  Every allocation may fail.                            *)
(*                                                                         *)
(* Elements are model values.  A slot nobody has written holds Junk (the   *)
(* array comes from scu_malloc).  An enqueue that writes behind the array  *)
(* changes no slot of it and raises the history variable overrun.          *)
(***************************************************************************)
EXTENDS Integers, Sequences

CONSTANTS
    Elem,               \* the elements a client stores
    Junk,               \* the content of a slot nobody has written
    InitialCapacities,  \* the capacities scu_queue_new_with_capacity is called with
    MaxCount            \* bound: no more elements than this are stored or asked room for

ASSUME JunkAssumption == Junk \notin Elem
ASSUME CapacitiesAssumption == InitialCapacities \subseteq Nat
ASSUME MaxCountAssumption == MaxCount \in Nat

VARIABLES
    allocated,          \* whether the client holds a queue (not nullptr)
    capacity,
    count,
    head,
    tail,
    elems,              \* elems[0 .. capacity - 1]
    overrun,            \* history: an element was written outside elems
    iterIndex,          \* ScuQueueIter.index; NoIter when no iterator is valid
    call,               \* the last call
    error,              \* its outcome
    elem                \* the element it took or handed out, through its elem parameter

queue == <<allocated, capacity, count, head, tail, elems, overrun>>
vars == <<queue, iterIndex, call, error, elem>>

NoIter == -2

\* What a slot of the array can hold.
Cell == Elem \cup {Junk}

Calls ==
    {"none", "new", "free", "clone", "ensure_capacity", "enqueue", "try_dequeue", "try_peek",
     "clear", "trim_excess", "iter", "iter_move_next"}

Report(operation, outcome, e) ==
    /\ call' = operation
    /\ error' = outcome
    /\ elem' = e

InvalidateIter == iterIndex' = NoIter

--------------------------------------------------------------------------------
(* The ring *)

\* The slot of the i-th element, counted from 0.
Slot(i) == (head + i) % capacity

\* Mutant: the index does not wrap.
NextIndexUnwrapped(index, cap) == index + 1

NextIndex(index, cap) == (index + 1) % cap

\* The elements a client would dequeue, oldest first.
Contents == [i \in 1..count |-> elems[Slot(i - 1)]]

\* How many elements lie between head and the end of the array.
FirstChunk == IF capacity - head < count THEN capacity - head ELSE count

\* Mutants: the second memcpy is forgotten; the array is copied as if it never wrapped.
PackedFirstChunkOnly(n) ==
    [j \in 0..(n - 1) |-> IF j < FirstChunk THEN elems[head + j] ELSE Junk]
PackedUnwrapped(n) == [j \in 0..(n - 1) |-> IF j < count THEN elems[j] ELSE Junk]

\* The two memcpy calls: a new array of n slots with the elements from slot 0 on.
Packed(n) ==
    [j \in 0..(n - 1) |->
        CASE j < FirstChunk              -> elems[head + j]
          [] FirstChunk <= j /\ j < count -> elems[j - FirstChunk]
          [] OTHER                       -> Junk]

\* The smallest capacity the doubling loop reaches that holds wanted > capacity elements.
GrownCapacities(wanted) ==
    LET base == IF capacity > 0 THEN capacity ELSE 1
    IN  {n \in wanted..(2 * wanted - 1) : \E k \in 0..wanted : n = base * 2^k}

SetFields(cap, n, h, t, es) ==
    /\ capacity' = cap
    /\ count' = n
    /\ head' = h
    /\ tail' = t
    /\ elems' = es

OutOfMemory(operation) ==
    /\ UNCHANGED queue
    /\ InvalidateIter
    /\ Report(operation, "OUT_OF_MEMORY", Junk)

--------------------------------------------------------------------------------
(* The calls *)

Init ==
    /\ allocated = FALSE
    /\ capacity = 0 /\ count = 0 /\ head = 0 /\ tail = 0
    /\ elems = [j \in 0..-1 |-> Junk]
    /\ overrun = FALSE
    /\ iterIndex = NoIter
    /\ call = "none"
    /\ error = "NONE"
    /\ elem = Junk

New(cap) ==
    /\ ~allocated
    /\ \/ /\ allocated' = TRUE
          /\ SetFields(cap, 0, 0, 0, [j \in 0..(cap - 1) |-> Junk])
          /\ UNCHANGED overrun
          /\ InvalidateIter
          /\ Report("new", "NONE", Junk)
       \/ OutOfMemory("new")

Free ==
    /\ allocated
    /\ allocated' = FALSE
    /\ SetFields(0, 0, 0, 0, [j \in 0..-1 |-> Junk])
    /\ UNCHANGED overrun
    /\ InvalidateIter
    /\ Report("free", "NONE", Junk)

\* The client goes on with the clone: the original is only read.
Clone ==
    /\ allocated
    /\ \/ /\ SetFields(capacity, count, 0, IF capacity > 0 THEN count ELSE 0, Packed(capacity))
          /\ UNCHANGED <<allocated, overrun>>
          /\ InvalidateIter
          /\ Report("clone", "NONE", Junk)
       \/ OutOfMemory("clone")

EnsureCapacity(wanted) ==
    /\ allocated
    /\ \/ /\ capacity >= wanted
          /\ UNCHANGED queue
          /\ InvalidateIter
          /\ Report("ensure_capacity", "NONE", Junk)
       \/ /\ capacity < wanted
          /\ \E n \in GrownCapacities(wanted) : SetFields(n, count, 0, count, Packed(n))
          /\ UNCHANGED <<allocated, overrun>>
          /\ InvalidateIter
          /\ Report("ensure_capacity", "NONE", Junk)
       \/ /\ capacity < wanted
          /\ OutOfMemory("ensure_capacity")

\* The write at index t of an array es of cap slots, and the two counters.
Put(e, cap, h, t, es) ==
    /\ SetFields(cap, count + 1, h, NextIndex(t, cap),
                 IF t < cap THEN [es EXCEPT ![t] = e] ELSE es)
    /\ overrun' = (overrun \/ t >= cap)
    /\ UNCHANGED allocated
    /\ InvalidateIter
    /\ Report("enqueue", "NONE", e)

Enqueue(e) ==
    /\ allocated
    /\ count < MaxCount
    /\ \/ /\ capacity >= count + 1
          /\ Put(e, capacity, head, tail, elems)
       \/ /\ capacity < count + 1
          /\ \E n \in GrownCapacities(count + 1) : Put(e, n, 0, count, Packed(n))
       \/ /\ capacity < count + 1
          /\ OutOfMemory("enqueue")

\* scu_queue_dequeue is this call on a queue that is not empty; it aborts on an empty one.
TryDequeue ==
    /\ allocated
    /\ \/ /\ count = 0
          /\ UNCHANGED queue
          /\ Report("try_dequeue", "EMPTY", Junk)
       \/ /\ count > 0
          /\ SetFields(capacity, count - 1, NextIndex(head, capacity), tail, elems)
          /\ UNCHANGED <<allocated, overrun>>
          /\ Report("try_dequeue", "NONE", elems[head])
    /\ InvalidateIter

TryPeek ==
    /\ allocated
    /\ \/ /\ count = 0
          /\ Report("try_peek", "EMPTY", Junk)
       \/ /\ count > 0
          /\ Report("try_peek", "NONE", elems[head])
    /\ UNCHANGED <<queue, iterIndex>>

\* Mutant: clearing forgets tail.
ClearKeepsTail ==
    /\ allocated
    /\ SetFields(capacity, 0, 0, tail, elems)
    /\ UNCHANGED <<allocated, overrun>>
    /\ InvalidateIter
    /\ Report("clear", "NONE", Junk)

Clear ==
    /\ allocated
    /\ SetFields(capacity, 0, 0, 0, elems)
    /\ UNCHANGED <<allocated, overrun>>
    /\ InvalidateIter
    /\ Report("clear", "NONE", Junk)

TrimExcess ==
    /\ allocated
    /\ \/ /\ capacity <= count
          /\ UNCHANGED queue
          /\ InvalidateIter
          /\ Report("trim_excess", "NONE", Junk)
       \/ /\ capacity > count
          /\ \/ /\ count = 0
                /\ SetFields(0, 0, 0, 0, [j \in 0..-1 |-> Junk])
             \/ /\ count > 0
                /\ SetFields(count, count, 0, count, Packed(count))
          /\ UNCHANGED <<allocated, overrun>>
          /\ InvalidateIter
          /\ Report("trim_excess", "NONE", Junk)
       \/ /\ capacity > count
          /\ count > 0
          /\ OutOfMemory("trim_excess")

\* scu_queue_iter and scu_queue_iter_reset.
IterStart ==
    /\ allocated
    /\ iterIndex' = -1
    /\ Report("iter", "NONE", Junk)
    /\ UNCHANGED queue

\* One turn of a foreach loop: move_next, and current when it returned true.
IterMoveNext ==
    /\ iterIndex # NoIter
    /\ \/ /\ iterIndex + 1 < count
          /\ iterIndex' = iterIndex + 1
          /\ Report("iter_move_next", "NONE", elems[Slot(iterIndex + 1)])
       \/ /\ iterIndex + 1 >= count
          /\ UNCHANGED iterIndex
          /\ Report("iter_move_next", "EMPTY", Junk)
    /\ UNCHANGED queue

\* Every call but the two that move the elements to the front of an array of the same
\* or a smaller capacity.
OtherCall ==
    \/ \E cap \in InitialCapacities : New(cap)
    \/ Free
    \/ \E wanted \in 0..MaxCount : EnsureCapacity(wanted)
    \/ \E e \in Elem : Enqueue(e)
    \/ TryDequeue
    \/ TryPeek
    \/ Clear
    \/ IterStart
    \/ IterMoveNext

Next == OtherCall \/ Clone \/ TrimExcess

Spec == Init /\ [][Next]_vars

\* A client that never makes an array exactly as large as the elements moved into it: it
\* clones no full queue, and trims a queue only when there is nothing to move.
UnpackedNext ==
    \/ OtherCall
    \/ Clone /\ (count < capacity \/ capacity = 0)
    \/ TrimExcess /\ (count = 0 \/ count = capacity)

UnpackedSpec == Init /\ [][UnpackedNext]_vars

--------------------------------------------------------------------------------
(* Properties *)

\* The types of the fields of struct ScuQueue.
TypeOK ==
    /\ allocated \in BOOLEAN
    /\ capacity \in Nat
    /\ count \in 0..capacity
    /\ head \in 0..capacity
    /\ tail \in 0..capacity
    /\ elems \in [0..(capacity - 1) -> Cell]
    /\ overrun \in BOOLEAN
    /\ iterIndex \in {NoIter} \cup (-1..(count - 1))
    /\ call \in Calls
    /\ error \in {"NONE", "OUT_OF_MEMORY", "EMPTY"}
    /\ elem \in Cell

\* head, tail and count agree: tail is the slot behind the newest element, as its comment
\* in struct ScuQueue says, or it is one past the array, and then the elements reach
\* to the array's end, or there are none and head has just wrapped.
TailTracksCount ==
    capacity > 0 =>
        \/ tail = Slot(count)
        \/ tail = capacity /\ (head + count = capacity \/ head + count = 0)

\* As long as no element was written outside the array, what is between head and tail was
\* written by an enqueue: dequeue, peek, clone, trim and the iterator read no
\* uninitialised slot.
WindowInitialised ==
    ~overrun => \A i \in 1..count : Contents[i] \in Elem

Fifo == INSTANCE FifoQueue WITH fifo <- Contents, pos <- iterIndex + 1

\* queue.h calls the collection first-in-first-out; this is the refinement it asks for.
FifoSpec == Fifo!Spec

\* Every call that writes inside the array does what the FIFO specification allows:
\* growth, wrap-around, packing, failures and the iterator neither lose, duplicate nor
\* reorder an element.
FifoUnlessOverrun == [][~overrun' => [Fifo!Next]_(Fifo!vars)]_vars

\* A client that packs no queue until it is full never writes outside the array.
TailInBounds == tail < capacity \/ capacity = 0
================================================================================
