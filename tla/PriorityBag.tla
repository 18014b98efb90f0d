------------------------------ MODULE PriorityBag ------------------------------
(***************************************************************************)
(* What include/scu/prio-queue.h promises: a collection of elements with   *)
(* priorities, from which the element with the lowest priority is taken    *)
(* first; which one of several is not said, nor in which order an iterator *)
(* hands them out.  Nothing is said of nodes, indices or capacities.  A    *)
(* call takes effect in one step or not at all; one that allocates may     *)
(* fail, and then the collection is what it was.                           *)
(***************************************************************************)
EXTENDS Integers

CONSTANTS
    Elem,
    Prio,       \* the priorities; a priority is its rank in the client's order
    Junk        \* no entry, no iterator

VARIABLES
    bag,        \* how often every entry is in the collection
    seen,       \* how often the iterator has handed it out; Junk without an iterator
    last        \* the answer to the last call, until the next one begins: the call, the entry
                \* it took or handed out, its outcome

vars == <<bag, seen, last>>

Entry == [elem : Elem, prio : Prio]
EmptyBag == [x \in Entry |-> 0]

Answer(op, x, outcome) == last' = [op |-> op, entry |-> x, outcome |-> outcome]

Init ==
    /\ bag = EmptyBag
    /\ seen = Junk
    /\ last = [op |-> "none", entry |-> Junk, outcome |-> "NONE"]

Change(newBag) ==
    /\ bag' = newBag
    /\ seen' = Junk

Lowest(x) ==
    /\ bag[x] > 0
    /\ \A y \in Entry : bag[y] > 0 => x.prio <= y.prio

Enqueue(x) ==
    /\ Answer("enqueue", x, "NONE")
    /\ Change([bag EXCEPT ![x] = @ + 1])

Dequeue(x) ==
    /\ Answer("try_dequeue", x, "NONE")
    /\ Lowest(x)
    /\ Change([bag EXCEPT ![x] = @ - 1])

Peek(x) ==
    /\ Answer("try_peek", x, "NONE")
    /\ Lowest(x)
    /\ UNCHANGED <<bag, seen>>

FoundEmpty(op) ==
    /\ Answer(op, Junk, "EMPTY")
    /\ bag = EmptyBag
    /\ UNCHANGED bag
    /\ seen' \in {seen, Junk}

\* A new, a cleared and a freed priority queue hold nothing.
Empty(op) ==
    /\ Answer(op, Junk, "NONE")
    /\ Change(EmptyBag)

\* The storage changes, the entries do not.
Reorganise(op) ==
    /\ Answer(op, Junk, "NONE")
    /\ Change(bag)

OutOfMemory(op, x) ==
    /\ Answer(op, x, "OUT_OF_MEMORY")
    /\ Change(bag)

\* A call that may change the collection has begun: the last answer and iterators are history.
Begin ==
    /\ Answer("none", Junk, "NONE")
    /\ Change(bag)

IterStart ==
    /\ Answer("iter", Junk, "NONE")
    /\ seen' = EmptyBag
    /\ UNCHANGED bag

\* The iterator hands out every entry as often as it is there.
IterNext(x) ==
    /\ Answer("iter_move_next", x, "NONE")
    /\ seen # Junk
    /\ seen[x] < bag[x]
    /\ seen' = [seen EXCEPT ![x] = @ + 1]
    /\ UNCHANGED bag

IterEnd ==
    /\ Answer("iter_move_next", Junk, "EMPTY")
    /\ seen = bag
    /\ UNCHANGED <<bag, seen>>

Next ==
    \/ \E x \in Entry : Enqueue(x) \/ Dequeue(x) \/ Peek(x) \/ IterNext(x)
    \/ \E op \in {"try_dequeue", "try_peek"} : FoundEmpty(op)
    \/ \E op \in {"new", "clear", "free"} : Empty(op)
    \/ \E op \in {"ensure_capacity", "trim_excess", "clone"} : Reorganise(op)
    \/ \E op \in {"new", "ensure_capacity", "trim_excess", "clone"} : OutOfMemory(op, Junk)
    \/ \E x \in Entry : OutOfMemory("enqueue", x)
    \/ Begin
    \/ IterStart
    \/ IterEnd

Spec == Init /\ [][Next]_vars
================================================================================
