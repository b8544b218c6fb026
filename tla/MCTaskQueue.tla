---------------------------- MODULE MCTaskQueue ----------------------------
(* TaskQueue on small instances; symmetry only where no liveness is checked. *)
EXTENDS TaskQueue, TLC

Symmetry == Permutations(Runs) \cup Permutations(Workers)
=============================================================================
