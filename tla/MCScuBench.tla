------------------------------- MODULE MCScuBench ------------------------------
(* A small instance of ScuBench: up to one warmup and two measured iterations,  *)
(* on clocks that do not go beyond 2.                                           *)
EXTENDS ScuBench

MCMaxTime == 2
MCWarmups == {0, 1}
MCIterations == 0..2
================================================================================
