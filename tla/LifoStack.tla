------------------------------- MODULE LifoStack -------------------------------
(***************************************************************************)
(* What include/scu/stack.h promises: a last-in-first-out collection,      *)
(* whose iterator goes from the newest element to the oldest.  A call that *)
(* allocates may fail, and then the collection is what it was.             *)
(***************************************************************************)
EXTENDS Integers, Sequences

CONSTANTS
    Elem,
    Junk        \* no element

VARIABLES
    lifo,       \* the elements, oldest first
    left,       \* how many elements the iterator has not handed out yet; NoIterator
                \* without one
    last        \* the last call, its outcome, the element it took or handed out

vars == <<lifo, left, last>>

NoIterator == -1
Newest == lifo[Len(lifo)]

Answer(op, outcome, e) == last' = [op |-> op, outcome |-> outcome, elem |-> e]

Init ==
    /\ lifo = << >>
    /\ left = NoIterator
    /\ last = [op |-> "none", outcome |-> "NONE", elem |-> Junk]

Change(newLifo) ==
    /\ lifo' = newLifo
    /\ left' = NoIterator

Push(e) ==
    /\ Change(Append(lifo, e))
    /\ Answer("push", "NONE", e)

Pop ==
    /\ lifo # << >>
    /\ Change(SubSeq(lifo, 1, Len(lifo) - 1))
    /\ Answer("try_pop", "NONE", Newest)

Peek ==
    /\ lifo # << >>
    /\ Answer("try_peek", "NONE", Newest)
    /\ UNCHANGED <<lifo, left>>

FoundEmpty(op) ==
    /\ lifo = << >>
    /\ Answer(op, "EMPTY", Junk)
    /\ UNCHANGED lifo
    /\ left' \in {left, NoIterator}

\* A new, a cleared and a freed stack hold nothing.
Empty(op) ==
    /\ Change(<< >>)
    /\ Answer(op, "NONE", Junk)

\* The storage changes, the elements do not; or there is no memory for it.
Reorganise(op, outcome) ==
    /\ Change(lifo)
    /\ Answer(op, outcome, Junk)

IterStart ==
    /\ left' = Len(lifo)
    /\ Answer("iter", "NONE", Junk)
    /\ UNCHANGED lifo

IterNext ==
    /\ left > 0
    /\ left' = left - 1
    /\ Answer("iter_move_next", "NONE", lifo[left])
    /\ UNCHANGED lifo

IterEnd ==
    /\ left = 0
    /\ Answer("iter_move_next", "EMPTY", Junk)
    /\ UNCHANGED <<lifo, left>>

Next ==
    \/ \E e \in Elem : Push(e)
    \/ Pop \/ Peek
    \/ \E op \in {"try_pop", "try_peek"} : FoundEmpty(op)
    \/ \E op \in {"new", "clear", "free"} : Empty(op)
    \/ \E op \in {"ensure_capacity", "trim_excess", "clone"} : Reorganise(op, "NONE")
    \/ \E op \in {"new", "push", "ensure_capacity", "trim_excess", "clone"} :
          Reorganise(op, "OUT_OF_MEMORY")
    \/ IterStart \/ IterNext \/ IterEnd

Spec == Init /\ [][Next]_vars
================================================================================
