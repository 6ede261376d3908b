---------------------------- MODULE MCClaimedBot ----------------------------
(* Small instance of ClaimedBot for TLC: a candle of M15 is two of M5, so    *)
(* that a watch can be younger than its last close; two prices to cross and  *)
(* one between; a zone, a single level, a level of M15 and a time.           *)
EXTENDS ClaimedBot, TLC

MCLength == ("M5" :> 1) @@ ("M15" :> 2) @@ ("H1" :> 4)
MCDigitsOf == ("M5" :> 5) @@ ("M15" :> 15) @@ ("H1" :> 1)
MCGradeCap == [g \in Grades |-> IF g \in TradeGrades THEN 100 ELSE 0]
MCAccount == [balance |-> 10000, point |-> 10, least |-> 1, most |-> 20]

Text(frames, numbers, words) ==
  [frames |-> frames, numbers |-> numbers, words |-> words, timed |-> FALSE]
Watch(kind, zone, expires) ==
  [direction |-> "BUY", kind |-> kind, zone |-> zone,
   invalidation |-> Text({}, <<1>>, {"below"}), expires |-> expires]
ZoneWatch == Watch(Text({}, <<>>, {"zone"}), Text({}, <<2, 3>>, {}), 3)
SlowWatch == Watch(Text({"M15"}, <<>>, {"close"}), Text({}, <<2>>, {}), 4)
TimeWatch == Watch([Text({}, <<>>, {}) EXCEPT !.timed = TRUE], Text({}, <<2>>, {}), 3)

Trade(risk) ==
  [status |-> "TRADE", direction |-> "BUY", grade |-> "A", order |-> "BUY_LIMIT",
   entry |-> 2, stop |-> 1, target |-> 4, risk |-> risk, ratio |-> 200, expires |-> 4,
   complete |-> TRUE, scenario |-> ZoneWatch]
WatchAnswer(s) == [Trade(100) EXCEPT !.status = "WATCH", !.grade = "A-", !.scenario = s]

MCAnswers ==
  {Trade(100), WatchAnswer(ZoneWatch), WatchAnswer(SlowWatch), WatchAnswer(TimeWatch)}
=============================================================================
