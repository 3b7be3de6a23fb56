SPECIFICATION NarrativeSpec
CONSTANTS
  Module = {"sales"}
  Text = {t1, t2}
  Leader = {}
  Caller = {c1, c2}
  NoInsight = NoInsight
  NoText = NoText
  MaxCalls = 3
  MaxFound = 1
CONSTRAINT ReadsAlone
SYMMETRY Symmetry
INVARIANTS ArchiveHolds CountsTold NarrativeFaithful ContextCovered
CHECK_DEADLOCK FALSE
