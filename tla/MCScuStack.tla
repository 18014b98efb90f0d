------------------------------- MODULE MCScuStack ------------------------------
(* A small instance of ScuStack: two elements, at most four of them stored.     *)
EXTENDS ScuStack

CONSTANTS a, b

MCElem == {a, b}
MCInitialCapacities == {0, 1, 3}
MCMaxCount == 4
================================================================================
