SPECIFICATION FairSpec
CONSTANTS
  Browser = {b1}
  Op = {o1}
  Request = {r1, r2}
  MaxPage = 2
  PagesPerBatch = 1
  ResponseFirst = TRUE
  MaxTrouble = 2
  NoOp = NoOp
  Anon = Anon
  Nobody = Nobody
  Dead = Dead
PROPERTIES GuardFreed OperationEnds
CHECK_DEADLOCK FALSE
