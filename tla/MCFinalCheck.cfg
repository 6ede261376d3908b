SPECIFICATION Spec
CONSTANTS
  SameWithin = 10
  GradeCap <- MCGradeCap
  FridayCap = 50
  HardCap = 100
  OpenCap = 500
  Length <- MCLength
  Grace = 1
  Prices = {1, 2, 3}
  Histories <- MCHistories
  Pasts <- MCPasts
  Answers <- MCAnswers
  Account <- MCAccount
  OpenRisks = {0, 140}
  Charts = 1
  MaxAttempts = 2
  StartAt = 12
  MaxTime = 19
CHECK_DEADLOCK FALSE
INVARIANTS
  TradeStillStands
  BornStanding
  NotARepeat
