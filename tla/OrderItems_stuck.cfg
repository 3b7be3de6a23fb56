SPECIFICATION Spec
CONSTANTS
  Browser = {b1, b2}
  Op = {o1, o2, o3}
  Request = {r1}
  MaxOrder = 3
  Limit = 1
  ResponseFirst = FALSE
  MaxTrouble = 0
  NoOp = NoOp
  Anon = Anon
  Nobody = Nobody
SYMMETRY Symmetry
INVARIANT StuckIsTrue
CHECK_DEADLOCK FALSE
