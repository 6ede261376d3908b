----------------------------- MODULE MCFirstBot -----------------------------
(* Small instance of FirstBot for TLC: a candle of two prices that may move  *)
(* between the look at it and its end, and the beginning of the next; a      *)
(* zone, a level of M15 and a level that is only touched; a volume that is   *)
(* rounded up; a database that is new, one with two open watches, and one a  *)
(* crash left.                                                               *)
EXTENDS FirstBot, TLC

MCLength == ("M5" :> 2) @@ ("M15" :> 4) @@ ("H1" :> 8)
MCDigitsOf == ("M5" :> 5) @@ ("M15" :> 15) @@ ("H1" :> 1)
MCGradeCap == [g \in Grades |-> IF g \in TradeGrades THEN 100 ELSE 0]
MCAccount == [balance |-> 10000, point |-> 30, least |-> 2, most |-> 20]

Text(frames, numbers, words) ==
  [frames |-> frames, numbers |-> numbers, words |-> words, timed |-> FALSE]
Watch(kind, zone, expires) ==
  [direction |-> "BUY", kind |-> kind, zone |-> zone,
   invalidation |-> Text({}, <<1>>, {"below"}), expires |-> expires]
ZoneWatch == Watch(Text({}, <<>>, {"zone"}), Text({}, <<2, 3>>, {}), 2)
SlowWatch == Watch(Text({"M15"}, <<>>, {"close"}), Text({}, <<2>>, {}), 3)
TouchWatch == Watch(Text({}, <<>>, {}), Text({}, <<3>>, {}), 3)

\* A step loses 30: a risk of 50 (hundredths of a percent, 50 of money) is
\* rounded up to two steps.  The order holds when the price is 3.
Trade(risk) ==
  [status |-> "TRADE", direction |-> "BUY", grade |-> "A", order |-> "BUY_LIMIT",
   entry |-> 2, stop |-> 1, target |-> 4, risk |-> risk, ratio |-> 200, expires |-> 4,
   complete |-> TRUE, scenario |-> ZoneWatch]
WatchAnswer(s) == [Trade(100) EXCEPT !.status = "WATCH", !.grade = "A-", !.scenario = s]

MCAnswers == {Trade(50), WatchAnswer(ZoneWatch)}

Row(s) == [scenario |-> s, made |-> 1, checked |-> 0, locked |-> FALSE, triggered |-> FALSE,
           closed |-> FALSE, status |-> "none"]

\* What a run that died may have left: a watch its recheck had locked, one a
\* failed recheck had closed, and one that goes on.
MCLegacy ==
  {<<>>, <<Row(TouchWatch), Row(SlowWatch)>>,
   <<[Row(TouchWatch) EXCEPT !.locked = TRUE, !.triggered = TRUE],
     [Row(ZoneWatch) EXCEPT !.closed = TRUE], Row(SlowWatch)>>}
=============================================================================
