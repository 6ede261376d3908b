--------------------------- MODULE MCTradeTracker ---------------------------
(* Small instance of TradeTracker for TLC: all four kinds of order. *)
EXTENDS TradeTracker, TLC

MCKinds == [direction : {"BUY", "SELL"}, type : {"LIMIT", "STOP"}]
=============================================================================
