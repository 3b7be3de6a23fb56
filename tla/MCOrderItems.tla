---------------------------- MODULE MCOrderItems ----------------------------
(* Instances of OrderItems for TLC. *)
EXTENDS OrderItems, TLC

Symmetry == Permutations(Op) \cup Permutations(Request) \cup Permutations(Browser)
=============================================================================
