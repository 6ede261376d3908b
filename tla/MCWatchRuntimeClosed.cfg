SPECIFICATION Spec
CONSTANTS
  s1 = s1
  w1 = w1
  w2 = w2
  r1 = r1
  Symbols <- MCSymbols
  Watches <- OneWatch
  Requests <- MCRequests
  SymbolOf <- OneSymbolOf
  Nothing = Nothing
  MaxTime = 3
  MaxSlots = 1
  MaxCrashes = 1
INVARIANTS
  ClosedClaimTrue
