----------------------------- MODULE MCScuHashMap ------------------------------
(* A small instance of ScuHashMap. *)
EXTENDS ScuHashMap, Bitwise

CONSTANTS k1, k2, k3, v1, v2

MCKeys == {k1, k2, k3}
MCValues == {v1, v2}

\* All keys collide; a chain that runs into another pair behind the end of the table; hashes
\* that collide in small tables only.
Hashes == {<<3, 3, 3>>, <<7, 7, 0>>, <<3, 11, 18>>}
MCHashFuncs == {[k \in MCKeys |-> h[CASE k = k1 -> 1 [] k = k2 -> 2 [] k = k3 -> 3]] : h \in Hashes}

MCInitialCapacities == {0, 1, 3}
MCWantedCapacities == {0, 4}

\* The bit smearing of scu_next_power_of_two, run.
Smeared(n, s) == n | shiftR(n, s)
BitSmearing(n) ==
    IF n <= 1 THEN 1 ELSE Smeared(Smeared(Smeared(Smeared(n - 1, 1), 2), 4), 8) + 1

ASSUME NextPowerIsTheSmearing == \A n \in 0..30 : NextPowersOfTwo(n) = {BitSmearing(n)}
================================================================================
