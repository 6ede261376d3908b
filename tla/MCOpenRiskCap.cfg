SPECIFICATION RiskSpec
CONSTANTS
  g1 = g1
  g2 = g2
  g3 = g3
  g4 = g4
  Signals <- MCSignals
  SymbolOf <- MCSymbolOf
  RiskOf <- MCRiskOf
  MaxRisk = 2
  Cap = 3
  AccountRisks = {0, 2}
  Nothing = Nothing
  MaxCrashes = 1
INVARIANTS
  CapHeld
