----------------------------- MODULE MCOpenRisk -----------------------------
(* Small instance of OpenRisk for TLC: four signals on two symbols, with the *)
(* risk of an ordinary day (two parts) and of a Friday (one).  The cap is    *)
(* scaled down from ten parts, so that few signals reach it.                 *)
EXTENDS OpenRisk, TLC

CONSTANTS g1, g2, g3, g4

MCSignals == {g1, g2, g3, g4}
MCSymbolOf == (g1 :> "EURUSD") @@ (g2 :> "EURUSD") @@ (g3 :> "XAUUSD") @@ (g4 :> "XAUUSD")
MCRiskOf == (g1 :> 2) @@ (g2 :> 1) @@ (g3 :> 2) @@ (g4 :> 2)
=============================================================================
