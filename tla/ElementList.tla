------------------------------ MODULE ElementList -------------------------------
(***************************************************************************)
(* What include/scu/list.h promises of the lists a client holds: each is a *)
(* sequence of its own.  A call that allocates may fail, and then the list *)
(* is what it was.                                                         *)
(***************************************************************************)
EXTENDS Integers, Sequences, SequencesExt

CONSTANTS
    Handle,     \* the client's pointers to lists
    Elem,
    Rank,       \* the order of the client's comparison function
    NoList      \* a pointer without a list

VARIABLES
    items,      \* the elements of every list, or NoList
    last        \* the last call and its outcome

vars == <<items, last>>

Answer(op, outcome) == last' = [op |-> op, outcome |-> outcome]

Init ==
    /\ items = [h \in Handle |-> NoList]
    /\ last = [op |-> "none", outcome |-> "NONE"]

Change(h, op, newItems) ==
    /\ Answer(op, "NONE")
    /\ items' = [items EXCEPT ![h] = newItems]

New(h) ==
    /\ items[h] = NoList
    /\ Change(h, "new", << >>)

Free(h) == Change(h, "free", NoList)

\* From then on the two lists have nothing to do with one another.
Clone(h, g) ==
    /\ items[h] # NoList
    /\ items[g] = NoList
    /\ Change(g, "clone", items[h])

\* The storage changes, the elements do not; or there is no memory for it.
Reorganise(op, outcome) ==
    /\ Answer(op, outcome)
    /\ UNCHANGED items

Ordered(s) == \A i, j \in DOMAIN s : i <= j => Rank[s[i]] <= Rank[s[j]]

\* The order of equivalent elements is left open.
Sort(h) ==
    /\ Answer("sort", "NONE")
    /\ \E p \in Bijection(DOMAIN items[h], DOMAIN items[h]) :
          LET sorted == [i \in DOMAIN items[h] |-> items[h][p[i]]]
          IN  /\ Ordered(sorted)
              /\ items' = [items EXCEPT ![h] = sorted]

ListStep(h) ==
    /\ items[h] # NoList
    /\ \/ \E e \in Elem : Change(h, "add", Append(items[h], e))
       \/ \E e \in Elem, i \in 1..(Len(items[h]) + 1) :
             Change(h, "insert_at", InsertAt(items[h], i, e))
       \/ \E i \in 1..Len(items[h]) : Change(h, "remove_at", RemoveAt(items[h], i))
       \/ Change(h, "clear", << >>)
       \/ Sort(h)

Next ==
    \/ \E h \in Handle : New(h) \/ Free(h) \/ ListStep(h)
    \/ \E h, g \in Handle : Clone(h, g)
    \/ \E op \in {"ensure_capacity", "trim_excess"} : Reorganise(op, "NONE")
    \/ \E op \in {"new", "clone", "add", "insert_at", "ensure_capacity", "trim_excess"} :
          Reorganise(op, "OUT_OF_MEMORY")

Spec == Init /\ [][Next]_vars
================================================================================
