--------------------------- MODULE MCWorkerBridge ---------------------------
(* WorkerBridge with two isolates, two configurations and one request at a *)
(* time that reads KV.  Of an isolate that is torn nothing is said but by  *)
(* NeverHalfConfigured, isolate by isolate: one of them at a time will do. *)
EXTENDS WorkerBridge, TLC, Integers

CONSTANTS i1, i2, c1, c2, r1, none

MCIsolate == {i1, i2}
MCConfig == {c1, c2}
Symmetry == Permutations(MCIsolate) \cup Permutations(MCConfig)
FewTorn == Cardinality(torn) <= 1
=============================================================================
