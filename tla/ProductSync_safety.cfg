SPECIFICATION Spec
CONSTANTS
  Browser = {b1, b2}
  Op = {o1, o2}
  Request = {r1, r2}
  MaxPage = 4
  PagesPerBatch = 2
  ResponseFirst = FALSE
  MaxTrouble = 2
  NoOp = NoOp
  Anon = Anon
  Nobody = Nobody
  Dead = Dead
SYMMETRY Symmetry
INVARIANTS TypeOK ClaimStaysFresh StoredPrefix TotalsExact ToldIsFinished
PROPERTIES LockLeftToOwner BatchAdvances ImplementsSweep
CHECK_DEADLOCK FALSE
