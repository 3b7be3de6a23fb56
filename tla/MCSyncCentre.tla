---------------------------- MODULE MCSyncCentre ----------------------------
(* Instances of SyncCentre for TLC. *)
EXTENDS SyncCentre, TLC

Symmetry == Permutations(Tab) \cup Permutations(Request) \cup Permutations(Run)
=============================================================================
