----------------------------- MODULE MCScuStopwatch ----------------------------
(* A small instance of ScuStopwatch: no clock goes beyond 4.                    *)
EXTENDS ScuStopwatch

MCMaxTime == 4
================================================================================
