SPECIFICATION FairSpec
CONSTANTS
  w1 = w1
  c1 = c1
  c2 = c2
  Watches <- MCWatches
  SymbolOf <- MCSymbolOf
  Recipients <- MCRecipients
  Parts = 2
  Limit = 2
  Deaf <- SecondChat
  MaxChecks = 1
  MaxFaults = 1
  MaxCrashes = 1
CHECK_DEADLOCK FALSE
INVARIANTS
  StoryInOrder
  Accounted
  DuplicatesExplained
PROPERTIES
  ImplementsCourier
  Settled
