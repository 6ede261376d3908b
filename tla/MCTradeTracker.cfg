SPECIFICATION FairSpec
CONSTANTS
  Prices = {1, 3, 4}
  Spread = 1
  Low = 2
  Middle = 3
  High = 4
  Kinds <- MCKinds
  Bar = 2
  Lifetimes = {0, 2, 5}
  MaxTime = 5
CHECK_DEADLOCK FALSE
INVARIANTS
  FillIsReal
  OutcomeIsReal
  
PROPERTIES
  PendingEnds
