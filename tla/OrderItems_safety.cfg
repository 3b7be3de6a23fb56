SPECIFICATION Spec
CONSTANTS
  Browser = {b1, b2}
  Op = {o1, o2}
  Request = {r1, r2}
  MaxOrder = 3
  Limit = 1
  ResponseFirst = FALSE
  MaxTrouble = 1
  NoOp = NoOp
  Anon = Anon
  Nobody = Nobody
SYMMETRY Symmetry
INVARIANTS CursorSkipsNothing ToldIsSwept
CHECK_DEADLOCK FALSE
