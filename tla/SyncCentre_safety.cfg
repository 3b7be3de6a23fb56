SPECIFICATION Spec
CONSTANTS
  Tab = {a, b}
  Period = {p30, p7}
  Default = p30
  Request = {r1, r2}
  Run = {u1, u2}
  None = None
  MaxDb = 4
  MaxClick = 3
SYMMETRY Symmetry
INVARIANTS CachedFresh ShownFresh CompletedFresh
CHECK_DEADLOCK FALSE
