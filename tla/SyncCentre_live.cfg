SPECIFICATION FairSpec
CONSTANTS
  Tab = {a}
  Period = {p30, p7}
  Default = p30
  Request = {r1, r2}
  Run = {u1, u2}
  None = None
  MaxDb = 1
  MaxClick = 4
INVARIANTS OneRun
PROPERTIES SectionSettles RunEnds
CHECK_DEADLOCK FALSE
