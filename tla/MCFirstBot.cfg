SPECIFICATION Spec
CONSTANTS
  SameWithin = 10
  GradeCap <- MCGradeCap
  FridayCap = 50
  HardCap = 100
  OpenCap = 150
  DigitsOf <- MCDigitsOf
  Length <- MCLength
  Prices = {1, 3}
  Tolerance = 0
  Answers <- MCAnswers
  Account <- MCAccount
  Legacy <- MCLegacy
  MaxTime = 3
  MaxChats = 1
  MaxAnalyses = 2
  MaxTroubles = 1
CHECK_DEADLOCK FALSE
INVARIANTS
  StuckExplained
  TradesAccounted
PROPERTIES
  UpgradeRepairs
