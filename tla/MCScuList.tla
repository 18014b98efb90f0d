------------------------------- MODULE MCScuList -------------------------------
(* A small instance of ScuList: two lists of at most three elements, and a block *)
(* more than there are lists, so that a list can move.                           *)
EXTENDS ScuList, TLC

CONSTANTS a, b

MCElem == {a, b}
MCRank == (a :> 2) @@ (b :> 1)
MCInitialCapacities == {0, 3}
MCMaxCount == 3
Symmetry == Permutations(Block)
================================================================================
