--------------------------- MODULE MCProductSync ---------------------------
(* Instances of ProductSync for TLC. *)
EXTENDS ProductSync, TLC

Symmetry == Permutations(Op) \cup Permutations(Request) \cup Permutations(Browser)
=============================================================================
