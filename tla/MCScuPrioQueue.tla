----------------------------- MODULE MCScuPrioQueue ----------------------------
(* A small instance of ScuPrioQueue: two priorities, at most seven nodes, so    *)
(* that a node can sink below a child of the root.                              *)
EXTENDS ScuPrioQueue

CONSTANT e1

MCElem == {e1}
MCPrio == 1..2
MCInitialCapacities == {0, 3}
MCMaxCount == 7
================================================================================
