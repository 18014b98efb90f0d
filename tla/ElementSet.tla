------------------------------ MODULE ElementSet -------------------------------
(***************************************************************************)
(* What include/scu/hash-set.h promises: an unordered collection without   *)
(* two equal elements.  Which elements are equal is up to the function the *)
(* set was created with; of equal elements the one that came first stays.  *)
(***************************************************************************)
EXTENDS Naturals

CONSTANTS
    Element,
    Kinds,      \* what sets are created with: [elems : ..., equalFunc : a set of pairs, ...]
    None        \* no element, no iterator

VARIABLES
    kind,       \* what the set was created with
    members,
    seen,       \* the elements the iterator has handed out; None without an iterator
    last        \* the last call, its element (given or handed out) and its outcome

vars == <<kind, members, seen, last>>

\* The members that are equal to e.
Like(e) == {m \in members : <<m, e>> \in kind.equalFunc}

Answer(op, e, outcome) == last' = [op |-> op, elem |-> e, outcome |-> outcome]

Init ==
    /\ kind \in Kinds
    /\ members = {}
    /\ seen = None
    /\ last = [op |-> "free", elem |-> None, outcome |-> "NONE"]

Change(newMembers) ==
    /\ members' = newMembers
    /\ seen' = None
    /\ UNCHANGED kind

New ==
    /\ Answer("new", None, "NONE")
    /\ kind' \in Kinds
    /\ members' = {} /\ seen' = None

TryAdd(e) ==
    \/ /\ Answer("try_add", e, "NONE")
       /\ Like(e) = {}
       /\ Change(members \cup {e})
    \/ /\ Answer("try_add", e, "ALREADY_PRESENT")
       /\ Like(e) # {}
       /\ Change(members)

Contains(e) ==
    /\ Answer("contains", e, IF Like(e) # {} THEN "TRUE" ELSE "FALSE")
    /\ UNCHANGED <<kind, members, seen>>

Remove(e) ==
    /\ Answer("remove", e, IF Like(e) # {} THEN "TRUE" ELSE "FALSE")
    /\ Change(members \ Like(e))

Empty(op) ==
    /\ Answer(op, None, "NONE")
    /\ Change({})

\* The storage changes, the members do not.
Reorganise(op) ==
    /\ Answer(op, None, "NONE")
    /\ Change(members)

OutOfMemory(op, e) ==
    /\ Answer(op, e, "OUT_OF_MEMORY")
    /\ Change(members)

IterStart ==
    /\ Answer("iter", None, "NONE")
    /\ seen' = {}
    /\ UNCHANGED <<kind, members>>

\* The iterator hands out every member once, in any order.
IterMoveNext ==
    /\ seen # None
    /\ \/ /\ seen = members
          /\ Answer("iter_move_next", None, "FALSE")
          /\ UNCHANGED seen
       \/ \E e \in members \ seen :
             /\ Answer("iter_move_next", e, "TRUE")
             /\ seen' = seen \cup {e}
    /\ UNCHANGED <<kind, members>>

Next ==
    \/ New
    \/ \E e \in kind.elems : TryAdd(e) \/ Contains(e) \/ Remove(e) \/ OutOfMemory("try_add", e)
    \/ \E op \in {"clear", "free"} : Empty(op)
    \/ \E op \in {"ensure_capacity", "trim_excess", "clone"} : Reorganise(op)
    \/ \E op \in {"new", "ensure_capacity", "trim_excess", "clone"} : OutOfMemory(op, None)
    \/ IterStart
    \/ IterMoveNext

Spec == Init /\ [][Next]_vars
================================================================================
