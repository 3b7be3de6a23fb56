SPECIFICATION Spec
CONSTANTS
  Login = {l1, l2, l3}
  None = None
  MaxAttempts = 3
  Block = 1
  Reset = 3
  Life = 2
  MaxNow = 6
SYMMETRY Symmetry
INVARIANTS LogoutHolds BlockIff
CHECK_DEADLOCK FALSE
