SPECIFICATION Spec
CONSTANTS
  Products <- Catalogue
  Performance <- Performances
  Market <- Markets
  Start <- Starts
  FirstMarket <- Growing
  CriticalMinimum = 1
  ManyCritical = 2
  MaxSteps = 2
INVARIANTS AbcIsPareto BriefingTells TimelineFlips EnginesAgree
CHECK_DEADLOCK FALSE
