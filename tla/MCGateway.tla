------------------------------ MODULE MCGateway ------------------------------
(* Gateway for TLC: two connections of a device, two requests.  Both are  *)
(* alike, so the run takes states up to permutation.                       *)
EXTENDS Gateway, TLC

MCScopeSets == {{"connect", "run"}, {"connect"}}

Alike == Permutations(Sessions) \cup Permutations(Requests)
=============================================================================
