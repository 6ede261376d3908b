-------------------------- MODULE MCScheduledBatch --------------------------
(* Small instance of ScheduledBatch for TLC: two of the four symbols. *)
EXTENDS ScheduledBatch, TLC

MCOrder == <<"XAUUSD", "EURUSD">>
=============================================================================
