---------------------------- MODULE MCWatchCheck ----------------------------
(* Small instance of WatchCheck for TLC: the longer timeframe holds two      *)
(* candles of the shorter; triggers and invalidations on the same timeframe  *)
(* and on different ones, a level and a zone, and a row that does not parse. *)
EXTENDS WatchCheck, TLC

MCLength == ("M5" :> 1) @@ ("M15" :> 2) @@ ("H1" :> 4)

Text(frames, numbers) == [frames |-> frames, numbers |-> numbers, words |-> {}, timed |-> FALSE]

Watch(direction, zone, invalidation, expires) ==
  [direction |-> direction, kind |-> Text({}, <<>>), zone |-> zone,
   invalidation |-> invalidation, expires |-> expires]

MCScenarios ==
  { Watch("BUY", Text({"M15"}, <<2>>), Text({"M5"}, <<1>>), 5),
    Watch("SELL", Text({"M5"}, <<2>>), Text({"M15"}, <<3>>), 4),
    Watch("BUY", Text({}, <<3, 2>>), Text({}, <<1>>), 4),
    Watch("BUY", Text({"H4"}, <<2>>), Text({"M5"}, <<1>>), 4) }
=============================================================================
