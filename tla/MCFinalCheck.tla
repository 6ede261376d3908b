---------------------------- MODULE MCFinalCheck ----------------------------
(* Small instance of FinalCheck for TLC: a unit of time is a third of the    *)
(* shortest candle and the grace is one unit, so that a quote can be older   *)
(* than a close the check has to know.  The answers hold one of each kind    *)
(* _finalize tells apart; the market moves over three prices.                *)
EXTENDS FinalCheck, TLC

MCLength == ("M5" :> 3) @@ ("M15" :> 6) @@ ("H1" :> 12)
MCHistories == {<<2, 2, 2, 2>>, <<2, 1, 2, 3>>}
MCGradeCap == [g \in Grades |-> IF g \in TradeGrades THEN 100 ELSE 0]
MCAccount == [balance |-> 3100, point |-> 2, least |-> 1, most |-> 20]

Text(frames, numbers) == [frames |-> frames, numbers |-> numbers, words |-> {}, timed |-> FALSE]
Watch(direction, zone, invalidation, expires) ==
  [direction |-> direction, kind |-> Text({}, <<>>), zone |-> zone,
   invalidation |-> invalidation, expires |-> expires]

BuyWatch == Watch("BUY", Text({"M5"}, <<3>>), Text({"M5"}, <<1>>), 20)
SlowBuyWatch == Watch("BUY", Text({"M15"}, <<2>>), Text({"M15"}, <<1>>), 20)
SellWatch == Watch("SELL", Text({"M5"}, <<1>>), Text({"M5"}, <<3>>), 19)
BadWatch == Watch("BUY", Text({"M5"}, <<1>>), Text({"M5"}, <<2>>), 20)

Past(kind, s, parentAt, closedAt) ==
  [kind |-> kind, scenario |-> s, parentAt |-> parentAt, closedAt |-> closedAt]
MCPasts ==
  { Past("none", BuyWatch, 0, 0), Past("parent", [BuyWatch EXCEPT !.expires = 17], 9, 12),
    Past("parent", SellWatch, 12, 12), Past("previous", BuyWatch, 12, 12),
    Past("previous", BuyWatch, 6, 9) }

Trade(direction, order, entry, stop, target, risk, grade) ==
  [status |-> "TRADE", direction |-> direction, grade |-> grade, order |-> order,
   entry |-> entry, stop |-> stop, target |-> target, risk |-> risk, ratio |-> 200,
   expires |-> 19, complete |-> TRUE, frames |-> Frames, denies |-> FALSE,
   relabels |-> {}, scenario |-> BuyWatch]
GoodBuy == Trade("BUY", "BUY_LIMIT", 2, 1, 4, 100, "A")
WatchAnswer(s) == [GoodBuy EXCEPT !.status = "WATCH", !.grade = "A-", !.scenario = s]

MCAnswers ==
  { GoodBuy, Trade("SELL", "SELL_LIMIT", 3, 4, 1, 50, "A+"),
    [GoodBuy EXCEPT !.relabels = {"M15"}], [GoodBuy EXCEPT !.denies = TRUE],
    [GoodBuy EXCEPT !.risk = 200], [GoodBuy EXCEPT !.grade = "A-"],
    WatchAnswer(BuyWatch), WatchAnswer(SlowBuyWatch), WatchAnswer(SellWatch),
    WatchAnswer(BadWatch) }
=============================================================================
