----------------------- MODULE MCServiceClientActor -----------------------
(* ServiceClientActor for TLC: calls are interchangeable, which runs      *)
(* without liveness use.                                                  *)
EXTENDS ServiceClientActor, TLC

Symmetry == Permutations(Calls)
===========================================================================
