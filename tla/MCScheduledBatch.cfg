SPECIFICATION Spec
CONSTANTS
  Order <- MCOrder
  Slots = 3
  Verdicts = {"TRADE", "WATCH"}
  Threshold = 2
  MaxProbes = 1
  MaxCrashes = 1
CHECK_DEADLOCK FALSE
INVARIANTS
  AllOrNothing
  NeverTwice
  AnnouncedTruth
  NoOrphanRun
PROPERTIES
  BreakerHolds
