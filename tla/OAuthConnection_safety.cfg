SPECIFICATION Spec
CONSTANTS
  Request = {r1, r2, r3}
  State = {s1, s2}
  NoRow = NoRow
  Nobody = Nobody
  MaxToken = 3
SYMMETRY Symmetry
INVARIANTS StoredIsCurrent ConsentOnce
PROPERTIES RefusedOnlyIfLost DisconnectHolds
CHECK_DEADLOCK FALSE
