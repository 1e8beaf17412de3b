--------------------------- MODULE MCOfflineQueue ---------------------------
(***************************************************************************)
(* Values for model checking OfflineQueue.                                 *)
(***************************************************************************)
EXTENDS OfflineQueue, TLC

Symmetry == Permutations(Actions) \cup Permutations(Flushes)

=============================================================================
