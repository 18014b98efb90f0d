------------------------------ MODULE Dictionary -------------------------------
(***************************************************************************)
(* What include/scu/hash-map.h promises: an unordered collection of        *)
(* key-value pairs with one value per key.  Nothing is said of hashes,     *)
(* buckets or capacities.  A call takes effect in one step or not at all;  *)
(* one that allocates may fail, and then no pair has changed.              *)
(***************************************************************************)
EXTENDS Naturals

CONSTANTS
    Key,
    Value,
    None        \* no value, no key, no iterator

VARIABLES
    dict,       \* the value of every key, None for a key that is not present
    seen,       \* the keys the iterator has handed out; None without an iterator
    last        \* the answer to the last call, until the next one begins: the call, its key
                \* and value (given or handed out), its outcome

vars == <<dict, seen, last>>

Present == {k \in Key : dict[k] # None}

NoAnswer == [op |-> "none", key |-> None, value |-> None, outcome |-> "NONE"]

Answer(op, k, v, outcome) ==
    last' = [op |-> op, key |-> k, value |-> v, outcome |-> outcome]

Init ==
    /\ dict = [k \in Key |-> None]
    /\ seen = None
    /\ last = NoAnswer

Change(newDict) ==
    /\ dict' = newDict
    /\ seen' = None

Add(k, v) ==
    /\ Answer("try_add", k, v, "NONE")
    /\ k \notin Present
    /\ Change([dict EXCEPT ![k] = v])

AddPresent(k, v) ==
    /\ Answer("try_add", k, v, "ALREADY_PRESENT")
    /\ k \in Present
    /\ Change(dict)

Set(k, v) ==
    /\ Answer("set", k, v, "NONE")
    /\ Change([dict EXCEPT ![k] = v])

Remove(k) ==
    /\ Answer("remove", k, None, "TRUE")
    /\ k \in Present
    /\ Change([dict EXCEPT ![k] = None])

RemoveAbsent(k) ==
    /\ Answer("remove", k, None, "FALSE")
    /\ k \notin Present
    /\ Change(dict)

Get(k) ==
    /\ k \in Present
    /\ Answer("try_get", k, dict[k], "TRUE")
    /\ UNCHANGED <<dict, seen>>

GetAbsent(k) ==
    /\ Answer("try_get", k, None, "FALSE")
    /\ k \notin Present
    /\ UNCHANGED <<dict, seen>>

ContainsKey(k) ==
    /\ Answer("contains_key", k, None, IF k \in Present THEN "TRUE" ELSE "FALSE")
    /\ UNCHANGED <<dict, seen>>

ContainsValue(v) ==
    /\ Answer("contains_value", None, v,
              IF \E k \in Key : dict[k] = v THEN "TRUE" ELSE "FALSE")
    /\ UNCHANGED <<dict, seen>>

\* A new, a cleared and a freed map hold nothing.
Empty(op) ==
    /\ Answer(op, None, None, "NONE")
    /\ Change([k \in Key |-> None])

\* The storage changes, the pairs do not.
Reorganise(op) ==
    /\ Answer(op, None, None, "NONE")
    /\ Change(dict)

OutOfMemory(op, k, v) ==
    /\ Answer(op, k, v, "OUT_OF_MEMORY")
    /\ Change(dict)

\* A call has begun: the last answer is history, and so are iterators if it may change
\* the map.
Begin ==
    /\ last' = NoAnswer
    /\ seen' \in {seen, None}
    /\ UNCHANGED dict

IterStart ==
    /\ Answer("iter", None, None, "NONE")
    /\ seen' = {}
    /\ UNCHANGED dict

\* The iterator hands out every pair once, in any order.
IterNext ==
    /\ seen # None
    /\ \E k \in Present \ seen :
          /\ seen' = seen \cup {k}
          /\ Answer("iter_move_next", k, dict[k], "TRUE")
    /\ UNCHANGED dict

IterEnd ==
    /\ Answer("iter_move_next", None, None, "FALSE")
    /\ seen = Present
    /\ UNCHANGED <<dict, seen>>

Next ==
    \/ \E k \in Key, v \in Value : Add(k, v) \/ AddPresent(k, v) \/ Set(k, v)
    \/ \E k \in Key : Remove(k) \/ RemoveAbsent(k) \/ Get(k) \/ GetAbsent(k) \/ ContainsKey(k)
    \/ \E v \in Value : ContainsValue(v)
    \/ \E op \in {"new", "clear", "free"} : Empty(op)
    \/ \E op \in {"ensure_capacity", "trim_excess", "clone"} : Reorganise(op)
    \/ \E op \in {"try_add", "set"}, k \in Key, v \in Value : OutOfMemory(op, k, v)
    \/ \E op \in {"new", "ensure_capacity", "trim_excess", "clone"} : OutOfMemory(op, None, None)
    \/ Begin
    \/ IterStart
    \/ IterNext
    \/ IterEnd

Spec == Init /\ [][Next]_vars
================================================================================
