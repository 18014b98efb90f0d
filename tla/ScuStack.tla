------------------------------- MODULE ScuStack --------------------------------
(***************************************************************************)
(* The stack of src/stack.c.  One action is one call.  Every allocation    *)
(* may fail.  A slot nobody has written holds Junk (the array comes from   *)
(* scu_malloc or scu_realloc); a popped element stays in its slot.         *)
(***************************************************************************)
EXTENDS Integers, Sequences

CONSTANTS
    Elem,
    Junk,
    InitialCapacities,  \* the capacities scu_stack_new_with_capacity is called with
    MaxCount            \* bound: no more elements than this are stored or asked room for

ASSUME JunkAssumption == Junk \notin Elem
ASSUME CapacitiesAssumption == InitialCapacities \subseteq Nat
ASSUME MaxCountAssumption == MaxCount \in Nat

VARIABLES
    allocated,          \* whether the client holds a stack (not nullptr)
    capacity,
    count,
    data,               \* data[0 .. capacity - 1]
    iterIndex,          \* ScuStackIter.index; NoIter when no iterator is valid
    last                \* the last call, its outcome, the element it took or handed out

stack == <<allocated, capacity, count, data>>
vars == <<stack, iterIndex, last>>

NoIter == -1
Cell == Elem \cup {Junk}
Unwritten(n) == [j \in 0..(n - 1) |-> Junk]

Answer(op, outcome, e) == last' = [op |-> op, outcome |-> outcome, elem |-> e]

DropIter == iterIndex' = NoIter

SetStack(cap, n, d) ==
    /\ capacity' = cap
    /\ count' = n
    /\ data' = d
    /\ UNCHANGED allocated

OutOfMemory(op) ==
    /\ UNCHANGED stack
    /\ Answer(op, "OUT_OF_MEMORY", Junk)

--------------------------------------------------------------------------------
(* Storage *)

\* The smallest capacity the doubling loop reaches that holds wanted > capacity elements.
GrownCapacities(wanted) ==
    LET base == IF capacity > 0 THEN capacity ELSE 1
    IN  {n \in wanted..(2 * wanted - 1) : \E k \in 0..wanted : n = base * 2^k}

\* scu_realloc to n slots.
Resized(n) == [j \in 0..(n - 1) |-> IF j < capacity THEN data[j] ELSE Junk]

New(cap) ==
    /\ ~allocated
    /\ \/ /\ allocated' = TRUE
          /\ capacity' = cap /\ count' = 0 /\ data' = Unwritten(cap)
          /\ Answer("new", "NONE", Junk)
       \/ OutOfMemory("new")
    /\ DropIter

Free ==
    /\ allocated
    /\ allocated' = FALSE
    /\ capacity' = 0 /\ count' = 0 /\ data' = Unwritten(0)
    /\ Answer("free", "NONE", Junk)
    /\ DropIter

\* The client goes on with the clone, into which the elements are copied.
Clone ==
    /\ allocated
    /\ \/ /\ SetStack(capacity, count,
                      [j \in 0..(capacity - 1) |-> IF j < count THEN data[j] ELSE Junk])
          /\ Answer("clone", "NONE", Junk)
       \/ OutOfMemory("clone")
    /\ DropIter

EnsureCapacity(wanted) ==
    /\ allocated
    /\ \/ /\ capacity >= wanted
          /\ UNCHANGED stack
          /\ Answer("ensure_capacity", "NONE", Junk)
       \/ /\ capacity < wanted
          /\ \E n \in GrownCapacities(wanted) : SetStack(n, count, Resized(n))
          /\ Answer("ensure_capacity", "NONE", Junk)
       \/ /\ capacity < wanted
          /\ OutOfMemory("ensure_capacity")
    /\ DropIter

\* Mutant: the capacity stays what it was.
TrimExcessKeepsCapacity ==
    /\ allocated
    /\ capacity > count
    /\ SetStack(capacity, count, Resized(count))
    /\ Answer("trim_excess", "NONE", Junk)
    /\ DropIter

TrimExcess ==
    /\ allocated
    /\ \/ /\ capacity <= count
          /\ UNCHANGED stack
          /\ Answer("trim_excess", "NONE", Junk)
       \/ /\ capacity > count
          /\ SetStack(count, count, Resized(count))
          /\ Answer("trim_excess", "NONE", Junk)
       \/ /\ capacity > count
          /\ count > 0
          /\ OutOfMemory("trim_excess")
    /\ DropIter

Clear ==
    /\ allocated
    /\ SetStack(capacity, 0, data)
    /\ Answer("clear", "NONE", Junk)
    /\ DropIter

--------------------------------------------------------------------------------
(* Elements *)

\* The new element behind the others in d, an array of cap slots.
Put(e, cap, d) ==
    /\ SetStack(cap, count + 1, [d EXCEPT ![count] = e])
    /\ Answer("push", "NONE", e)

Push(e) ==
    /\ allocated
    /\ count < MaxCount
    /\ \/ /\ capacity >= count + 1
          /\ Put(e, capacity, data)
       \/ /\ capacity < count + 1
          /\ \E n \in GrownCapacities(count + 1) : Put(e, n, Resized(n))
       \/ /\ capacity < count + 1
          /\ OutOfMemory("push")
    /\ DropIter

\* scu_stack_pop and scu_stack_peek are these calls on a stack that is not empty.
TryPop ==
    /\ allocated
    /\ \/ /\ count = 0
          /\ UNCHANGED stack
          /\ Answer("try_pop", "EMPTY", Junk)
       \/ /\ count > 0
          /\ SetStack(capacity, count - 1, data)
          /\ Answer("try_pop", "NONE", data[count - 1])
    /\ DropIter

TryPeek ==
    /\ allocated
    /\ \/ /\ count = 0
          /\ Answer("try_peek", "EMPTY", Junk)
       \/ /\ count > 0
          /\ Answer("try_peek", "NONE", data[count - 1])
    /\ UNCHANGED <<stack, iterIndex>>

\* scu_stack_iter and scu_stack_iter_reset.
IterStart ==
    /\ allocated
    /\ iterIndex' = count
    /\ Answer("iter", "NONE", Junk)
    /\ UNCHANGED stack

\* Mutant: the bottom element is taken for the end.
IterMoveNextStopsEarly ==
    /\ iterIndex # NoIter
    /\ \/ /\ iterIndex > 1
          /\ iterIndex' = iterIndex - 1
                /\ Answer("iter_move_next", "NONE", data[iterIndex - 1])
       \/ /\ iterIndex <= 1
          /\ iterIndex' = 0
          /\ Answer("iter_move_next", "EMPTY", Junk)
    /\ UNCHANGED stack

\* One turn of a foreach loop: move_next, and current when it returned true.  At the end the
\* index stays that of the bottom element.
IterMoveNext ==
    /\ iterIndex # NoIter
    /\ \/ /\ count > 0
          /\ iterIndex > 0
          /\ iterIndex' = iterIndex - 1
                /\ Answer("iter_move_next", "NONE", data[iterIndex - 1])
       \/ /\ count = 0 \/ iterIndex = 0
          /\ iterIndex' = 0
          /\ Answer("iter_move_next", "EMPTY", Junk)
    /\ UNCHANGED stack

--------------------------------------------------------------------------------
(* The specification *)

Init ==
    /\ allocated = FALSE
    /\ capacity = 0 /\ count = 0 /\ data = Unwritten(0)
    /\ iterIndex = NoIter
    /\ last = [op |-> "none", outcome |-> "NONE", elem |-> Junk]

Next ==
    \/ \E cap \in InitialCapacities : New(cap)
    \/ \E wanted \in 0..MaxCount : EnsureCapacity(wanted)
    \/ \E e \in Elem : Push(e)
    \/ Free \/ Clone \/ TrimExcess \/ Clear
    \/ TryPop \/ TryPeek
    \/ IterStart \/ IterMoveNext

Spec == Init /\ [][Next]_vars

--------------------------------------------------------------------------------
(* Properties *)

\* The types of the fields of struct ScuStack; the elements in use have been written.
TypeOK ==
    /\ allocated \in BOOLEAN
    /\ capacity \in Nat
    /\ count \in 0..capacity
    /\ data \in [0..(capacity - 1) -> Cell]
    /\ \A i \in 0..(count - 1) : data[i] \in Elem
    /\ iterIndex \in {NoIter} \cup 0..count
    /\ last.elem \in Cell

\* The elements a client would pop, newest last.
Contents == [i \in 1..count |-> data[i - 1]]

Lifo == INSTANCE LifoStack WITH lifo <- Contents, left <- iterIndex

\* stack.h: the calls are those of a last-in-first-out collection; growth, trims, clones and
\* failures neither lose, duplicate nor reorder an element, and the iterator hands out every
\* element once.
LifoSpec == Lifo!Spec
================================================================================
