------------------------------ MODULE MCOutbox ------------------------------
(* Small instance of Outbox for TLC: two recipients, one watch; no message   *)
(* ever gets through to the second.                                          *)
EXTENDS Outbox, TLC

CONSTANTS w1, c1, c2

MCWatches == {w1}
MCSymbolOf == [w \in {w1} |-> "EURUSD"]
MCRecipients == <<c1, c2>>
SecondChat == {c2}
=============================================================================
