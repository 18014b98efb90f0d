------------------------------- MODULE MCScuAlloc ------------------------------
(* A small instance of ScuAlloc: three threads, the default and two custom      *)
(* allocators, three blocks.                                                    *)
EXTENDS ScuAlloc, TLC

CONSTANTS t1, t2, t3, default, arena, pool, b1, b2, b3

MCThread == {t1, t2, t3}
MCAllocator == {default, arena, pool}
MCBlock == {b1, b2, b3}

\* Threads, blocks and the two custom allocators are interchangeable.
MCSymmetry ==
    Permutations(MCThread) \cup Permutations(MCBlock) \cup Permutations({arena, pool})
================================================================================
