------------------------------ MODULE MCScuQueue -------------------------------
(* A small instance of ScuQueue: two elements, at most four in the queue. *)
EXTENDS ScuQueue, FiniteSets

CONSTANTS e1, e2

MCElem == {e1, e2}
MCInitialCapacities == {0, 1, 3}
MCMaxCount == 4

\* The doubling loop of scu_queue_ensure_capacity, run.
RECURSIVE Doubled(_, _)
Doubled(n, wanted) == IF n < wanted THEN Doubled(2 * n, wanted) ELSE n

\* GrownCapacities has one member, the capacity at which the loop stops.
ASSUME GrowthIsTheLoop ==
    \A base \in 1..6, wanted \in 1..24 :
        base < wanted =>
            {n \in wanted..(2 * wanted - 1) : \E k \in 0..wanted : n = base * 2^k}
                = {Doubled(base, wanted)}
================================================================================
