SPECIFICATION FairSpec
CONSTANTS
  Browser = {b1}
  Op = {o1}
  Request = {r1, r2}
  MaxOrder = 3
  Limit = 2
  ResponseFirst = TRUE
  MaxTrouble = 1
  NoOp = NoOp
  Anon = Anon
  Nobody = Nobody
INVARIANTS EnrichedExact
PROPERTIES CursorForward OperationEnds
CHECK_DEADLOCK FALSE
