------------------------------- MODULE FifoQueue -------------------------------
(***************************************************************************)
(* What include/scu/queue.h promises: a first-in-first-out collection.     *)
(* Nothing is said of slots, capacities or indices; a call that allocates  *)
(* may fail, and then the collection is what it was.                       *)
(***************************************************************************)
EXTENDS Integers, Sequences

CONSTANTS
    Elem,       \* the elements a client stores
    Junk        \* the elem of a call that neither took nor handed out an element

VARIABLES
    fifo,       \* the elements, oldest first
    pos,        \* how many elements the iterator has handed out; NoIterator without one
    call,       \* the last call
    error,      \* its outcome
    elem        \* the element it took or handed out, through its elem parameter

vars == <<fifo, pos, call, error, elem>>

NoIterator == -1

Init ==
    /\ fifo = << >>
    /\ pos = NoIterator
    /\ call = "none"
    /\ error = "NONE"
    /\ elem = Junk

Report(operation, outcome, e) ==
    /\ call' = operation
    /\ error' = outcome
    /\ elem' = e

Enqueue(e) ==
    /\ fifo' = Append(fifo, e)
    /\ pos' = NoIterator
    /\ Report("enqueue", "NONE", e)

Dequeue ==
    /\ fifo # << >>
    /\ fifo' = Tail(fifo)
    /\ pos' = NoIterator
    /\ Report("try_dequeue", "NONE", Head(fifo))

Peek ==
    /\ fifo # << >>
    /\ Report("try_peek", "NONE", Head(fifo))
    /\ UNCHANGED <<fifo, pos>>

FoundEmpty(operation) ==
    /\ fifo = << >>
    /\ Report(operation, "EMPTY", Junk)
    /\ UNCHANGED fifo
    /\ pos' \in {pos, NoIterator}

\* A new, a cleared and a freed queue hold nothing.
Empty(operation) ==
    /\ fifo' = << >>
    /\ pos' = NoIterator
    /\ Report(operation, "NONE", Junk)

\* The storage changes, the elements do not.
Reorganise(operation) ==
    /\ Report(operation, "NONE", Junk)
    /\ UNCHANGED fifo
    /\ pos' = NoIterator

OutOfMemory(operation) ==
    /\ Report(operation, "OUT_OF_MEMORY", Junk)
    /\ UNCHANGED fifo
    /\ pos' = NoIterator

IterStart ==
    /\ pos' = 0
    /\ Report("iter", "NONE", Junk)
    /\ UNCHANGED fifo

IterNext ==
    /\ pos \in 0..(Len(fifo) - 1)
    /\ pos' = pos + 1
    /\ Report("iter_move_next", "NONE", fifo[pos + 1])
    /\ UNCHANGED fifo

IterEnd ==
    /\ pos = Len(fifo)
    /\ Report("iter_move_next", "EMPTY", Junk)
    /\ UNCHANGED <<fifo, pos>>

Next ==
    \/ \E e \in Elem : Enqueue(e)
    \/ Dequeue
    \/ Peek
    \/ \E operation \in {"try_dequeue", "try_peek"} : FoundEmpty(operation)
    \/ \E operation \in {"new", "clear", "free"} : Empty(operation)
    \/ \E operation \in {"ensure_capacity", "trim_excess", "clone"} : Reorganise(operation)
    \/ \E operation \in {"new", "enqueue", "ensure_capacity", "trim_excess", "clone"} :
          OutOfMemory(operation)
    \/ IterStart
    \/ IterNext
    \/ IterEnd

Spec == Init /\ [][Next]_vars
================================================================================
