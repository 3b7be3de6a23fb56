------------------------- MODULE MCOAuthConnection -------------------------
(* Instances of OAuthConnection for TLC. *)
EXTENDS OAuthConnection, TLC

Symmetry == Permutations(Request) \cup Permutations(State)
=============================================================================
