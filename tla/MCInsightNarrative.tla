------------------------- MODULE MCInsightNarrative -------------------------
(* Instances of InsightNarrative for TLC. *)
EXTENDS InsightNarrative, TLC

Symmetry == Permutations(Text) \cup Permutations(Leader) \cup Permutations(Caller)

\* Bound: narratives are explored beside calls that do not overlap, and before
\* the last call begins.
ReadsAlone == reader.at # "idle" => ~overlapped /\ calls < MaxCalls
=============================================================================
