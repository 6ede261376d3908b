SPECIFICATION Spec
CONSTANTS
  SameWithin = 10
  GradeCap <- MCGradeCap
  FridayCap = 50
  HardCap = 100
  OpenCap = 150
  DigitsOf <- MCDigitsOf
  Length <- MCLength
  MaxAge = 1
  Prices = {1, 3}
  Answers <- MCAnswers
  Account <- MCAccount
  MaxTime = 3
  MaxChats = 1
  MaxFaults = 0
  MaxCrashes = 0
CHECK_DEADLOCK FALSE
INVARIANTS
  DeferredIsFree
