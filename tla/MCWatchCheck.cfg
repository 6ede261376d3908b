SPECIFICATION Spec
CONSTANTS
  Length <- MCLength
  Prices = {1, 2, 3}
  Scenarios <- MCScenarios
  SameWithin = 3
  MaxTime = 4
  MaxFaults = 1
  MaxCrashes = 1
CHECK_DEADLOCK FALSE
INVARIANTS
  ReadOnceInOrder
  DecisionEarned
  SkipsExplained
