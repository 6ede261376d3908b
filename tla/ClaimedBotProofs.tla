-------------------------- MODULE ClaimedBotProofs --------------------------
(***************************************************************************)
(* What holds of the bot of gpt/v3 for every market, every set of answers, *)
(* every schedule of the two desks and every moment it dies in.            *)
(***************************************************************************)
EXTENDS ClaimedBot, TLAPS

Verdicts == {"TRADE", "WATCH", "NO_TRADE"}
Results == {"ERROR", "DEFERRED"} \cup Verdicts
Statuses == {"none"} \cup Results

Rows == [scenario : {a.scenario : a \in Answers}, made : Nat, checked : Nat,
         status : {"ACTIVE"} \cup Endings, by : {"none", "chat", "monitor"}, closedAt : Nat,
         started : Nat, result : Statuses, note : {"none", "ending", "suppressed", "result"}]

\* How far a desk is: with the trigger of a watch, before and after it is
\* claimed, with the analysis, and with its result.
Weighing == {"claimed", "told"}
Ending == {"announcing", "starting"}
Answered == {"parsed", "judging", "capping", "tracking", "creating"}
Analysing == {"account", "snapshot", "asking"} \cup Answered
Ended == {"answered", "reporting"}

Threads == [pc : {"idle", "saving"} \cup Weighing \cup Ending \cup Analysing \cup Ended,
            w : Nat, at : Nat, answer : {"none"} \cup Answers, status : Statuses \cup Endings]

monitor == desk["monitor"]
chat == desk["chat"]

Typed ==
  /\ clock \in Nat /\ clock # 0 /\ price \in Seq(Prices) /\ Len(price) = clock
  /\ watch \in Seq(Rows)
  /\ desk \in [Desks -> Threads]
  /\ chats \in Nat
  /\ \A d \in Desks : At(d, "idle") => desk[d] = Idle
  /\ ~At("monitor", "idle") => monitor.w \in DOMAIN watch
  /\ monitor.pc # "creating"
  /\ chat.pc \in {"idle", "saving"} \cup Analysing /\ chat.w = 0
  /\ ~At("chat", "idle") => chats # 0
  /\ \A d \in Desks :
       /\ desk[d].pc \in Answered => desk[d].answer \in Answers
       /\ desk[d].pc \in {"saving"} \cup Answered => desk[d].status \in Verdicts
  /\ At("monitor", "told") => monitor.status \in Endings
  /\ monitor.pc \in Ended => monitor.status \in Results
LEMMA RowSet ==
  ASSUME watch \in Seq(Rows), NEW w \in DOMAIN watch, NEW r \in Rows,
         watch' = [watch EXCEPT ![w] = r]
  PROVE  /\ watch' \in Seq(Rows) /\ DOMAIN watch' = DOMAIN watch /\ Len(watch') = Len(watch)
         /\ watch'[w] = r /\ \A v \in DOMAIN watch \ {w} : watch'[v] = watch[v]
  OBVIOUS

LEMMA RowAdded ==
  ASSUME watch \in Seq(Rows), NEW r \in Rows, watch' = Append(watch, r)
  PROVE  /\ watch' \in Seq(Rows) /\ Len(watch') = Len(watch) + 1 /\ Len(watch) \in Nat
         /\ DOMAIN watch = 1..Len(watch) /\ DOMAIN watch' = 1..(Len(watch) + 1)
         /\ watch'[Len(watch) + 1] = r /\ \A v \in DOMAIN watch : watch'[v] = watch[v]
  OBVIOUS

\* What may follow the row of a watch: it ends once, and only the monitor
\* writes what became of it.
Succeeds(w, r) ==
  LET o == watch[w]
  IN /\ r.scenario = o.scenario /\ r.made = o.made
     /\ o.status # "ACTIVE" => r.status = o.status /\ r.by = o.by /\ r.closedAt = o.closedAt
     /\ ~Doing(w) => r.started = o.started /\ r.result = o.result /\ r.note = o.note

\* A step keeps what a watch is, and what the market has been.
Lasting ==
  /\ clock <= clock' /\ \A t \in 1..clock : price'[t] = price[t]
  /\ \A w \in DOMAIN watch :
       w \in DOMAIN watch' /\ Succeeds(w, watch'[w])

LEMMA RowStep ==
  ASSUME Typed, NEW w \in DOMAIN watch, NEW r \in Rows, watch' = [watch EXCEPT ![w] = r],
         Succeeds(w, r), UNCHANGED market
  PROVE  watch' \in Seq(Rows) /\ DOMAIN watch' = DOMAIN watch /\ Lasting
<1>. USE DEF Typed, market, Succeeds
<1>1. watch' \in Seq(Rows) /\ DOMAIN watch' = DOMAIN watch /\ Len(watch') = Len(watch)
      /\ watch'[w] = r /\ \A v \in DOMAIN watch \ {w} : watch'[v] = watch[v]
  BY RowSet
<1>. QED
  BY <1>1 DEF Lasting

LEMMA TypedStep ==
  ASSUME Typed, [Next]_vars
  PROVE  Typed' /\ Lasting
<1>. USE DEF Typed, Desks, At, monitor, chat, Succeeds, Active, Doing
<1>. DEFINE Fine == Typed' /\ Lasting
<1>0. /\ \A d \in Desks : desk[d] \in Threads
      /\ \A w \in DOMAIN watch : watch[w] \in Rows /\ w \in Nat
  OBVIOUS
<1>t. \A a \in Answers : a.status \in Verdicts /\ ParsedStatus(a) \in Verdicts
  BY ClaimedBotAssumption DEF ParsedStatus, Verdicts
<1>. HIDE DEF At
<1>1. CASE Tick
  BY <1>1 DEF Tick, Lasting, tables, history, bounds, At
<1>2. ASSUME NEW w \in DOMAIN watch, FindExpired(w) PROVE Fine
  BY <1>2 DEF FindExpired, Tell, Lasting, market, tables, bounds, Threads, Idle, At, Endings, Weighing
<1>3. ASSUME NEW w \in DOMAIN watch, FindTime(w) PROVE Fine
  BY <1>3 DEF FindTime, Tell, Lasting, market, tables, bounds, Threads, Idle, At, Endings, Weighing
<1>4. ASSUME NEW w \in DOMAIN watch, ClaimCandle(w) PROVE Fine
  <2>. DEFINE r == [watch[w] EXCEPT !.checked = clock]
  <2>1. r \in Rows /\ Succeeds(w, r) /\ watch' = [watch EXCEPT ![w] = r]
    BY <1>0, <1>4 DEF ClaimCandle, Rows
  <2>2. watch' \in Seq(Rows) /\ DOMAIN watch' = DOMAIN watch /\ Lasting
    BY <1>4, <2>1, RowStep DEF ClaimCandle
  <2>. QED
    BY <1>4, <2>2 DEF ClaimCandle, market, bounds, Threads, Idle, At, Weighing
<1>u. UNCHANGED <<market, tables>> => Lasting /\ watch' \in Seq(Rows) /\ UNCHANGED <<market, watch>>
  BY DEF Lasting, market, tables
<1>i. Idle \in Threads /\ Idle.pc = "idle" /\ Idle.w = 0
  BY DEF Idle, Threads, Statuses
<1>v. ASSUME Leave("monitor"), UNCHANGED <<market, chats>>, watch' \in Seq(Rows), DOMAIN watch' = DOMAIN watch,
             Lasting
      PROVE  Fine
  BY <1>v, <1>i DEF Leave, market, At, Answered, Ended
<1>l. ASSUME UNCHANGED <<market, watch, chats>>, Leave("monitor") PROVE Fine
  BY <1>l, <1>v DEF Lasting, market
\* What the monitor writes of its watch.
<1>e. ASSUME NEW status \in Endings, monitor.w \in DOMAIN watch, Active(monitor.w),
             EndWatch(monitor.w, status), UNCHANGED market
      PROVE  watch' \in Seq(Rows) /\ DOMAIN watch' = DOMAIN watch /\ Lasting
  <2>. PICK o : o = watch[monitor.w]
    OBVIOUS
  <2>. DEFINE r == [o EXCEPT !.status = status, !.by = "monitor", !.closedAt = clock]
  <2>0. o \in Rows /\ o.status = "ACTIVE" /\ Doing(monitor.w)
    BY <1>0, <1>e
  <2>1. r \in Rows /\ Succeeds(monitor.w, r)
    <3>1. r \in Rows
      BY <2>0 DEF Rows
    <3>2. r.scenario = o.scenario /\ r.made = o.made
      BY <2>0 DEF Rows
    <3>. QED
      BY <2>0, <3>1, <3>2
  <2>2. watch' = [watch EXCEPT ![monitor.w] = r]
    BY <1>e DEF EndWatch
  <2>. QED
    BY <1>e, <2>1, <2>2, RowStep
<1>w. ASSUME monitor.w \in DOMAIN watch, UNCHANGED market,
             \/ watch' \in {watch, Announced, Started, Reported}
             \/ watch' = Completed /\ monitor.pc \in Ended
      PROVE  watch' \in Seq(Rows) /\ DOMAIN watch' = DOMAIN watch /\ Lasting
  <2>1. ASSUME NEW r \in Rows, Succeeds(monitor.w, r), watch' = [watch EXCEPT ![monitor.w] = r]
        PROVE  watch' \in Seq(Rows) /\ DOMAIN watch' = DOMAIN watch /\ Lasting
    BY <1>w, <2>1, RowStep
  <2>. PICK o : o = watch[monitor.w]
    OBVIOUS
  <2>0. o \in Rows /\ Doing(monitor.w)
    BY <1>0, <1>w
  <2>2. CASE watch' = watch
    BY <1>w, <2>2 DEF Lasting, market
  <2>3. CASE watch' = Announced
    <3>. DEFINE r == [o EXCEPT !.note = "ending"]
    <3>1. r \in Rows /\ Succeeds(monitor.w, r)
      BY <2>0 DEF Rows
    <3>. QED
      BY <2>1, <2>3, <3>1 DEF Announced
  <2>4. CASE watch' = Started
    <3>. DEFINE r == [o EXCEPT !.started = @ + 1]
    <3>1. r \in Rows /\ Succeeds(monitor.w, r)
      <4>1. PICK n \in Nat : n = o.started
        BY <2>0 DEF Rows
      <4>2. n + 1 \in Nat
        OBVIOUS
      <4>. QED
        BY <2>0, <4>1, <4>2 DEF Rows
    <3>. QED
      BY <2>1, <2>4, <3>1 DEF Started
  <2>5. CASE watch' = Reported
    <3>. DEFINE note == IF monitor.status = "DEFERRED" THEN "suppressed" ELSE "result"
                r == [o EXCEPT !.note = note]
    <3>1. r \in Rows /\ Succeeds(monitor.w, r)
      BY <2>0 DEF Rows
    <3>. QED
      BY <2>1, <2>5, <3>1 DEF Reported
  <2>6. CASE watch' = Completed /\ monitor.pc \in Ended
    <3>. DEFINE status == IF monitor.status = "DEFERRED" THEN "WATCH" ELSE monitor.status
                r == [o EXCEPT !.result = status]
    <3>0. status \in Statuses
      BY <2>6 DEF Statuses, Results, Verdicts
    <3>. HIDE DEF status
    <3>1. r \in Rows /\ Succeeds(monitor.w, r)
      BY <2>0, <3>0 DEF Rows
    <3>. QED
      BY <2>1, <2>6, <3>1 DEF Completed, status
  <2>. QED
    BY <1>w, <2>2, <2>3, <2>4, <2>5, <2>6
<1>5. CASE Evaluate
  <2>1. ASSUME NEW v \in {"TRIGGERED", "INVALIDATED"}, Tell(monitor.w, v), At("monitor", "claimed") PROVE Fine
    <3>. DEFINE x == [monitor EXCEPT !.pc = "told", !.w = monitor.w, !.status = v]
    <3>1. x \in Threads /\ x.pc = "told" /\ x.w = monitor.w /\ x.status = v /\ desk' = [desk EXCEPT !["monitor"] = x]
      BY <1>0, <2>1 DEF Tell, Threads, Endings, Weighing
    <3>. HIDE DEF x
    <3>. QED
      BY <1>5, <1>u, <2>1, <3>1 DEF Evaluate, market, bounds, At, Endings, Analysing, Answered, Ended
  <2>2. Verdict(monitor.w, monitor.at) \in {"none", "TRIGGERED", "INVALIDATED"}
    BY DEF Verdict
  <2>. QED
    BY <1>5, <2>1, <2>2, <1>l DEF Evaluate, tables, bounds
<1>6. CASE EvaluateFails
  BY <1>6, <1>l DEF EvaluateFails, tables
\* An analysis ends, or has only to be stored.
<1>r. ASSUME NEW d \in Desks, NEW status \in Results, Result(d, status), UNCHANGED chats,
             watch' \in Seq(Rows), DOMAIN watch \subseteq DOMAIN watch', Lasting, UNCHANGED market,
             ~At(d, "idle")
      PROVE  Fine
  <2>1. CASE d = "chat"
    BY <1>r, <2>1, <1>i DEF Result, market, At, Answered, Ended
  <2>2. CASE d = "monitor"
    <3>. DEFINE x == [Idle EXCEPT !.pc = "answered", !.w = desk[d].w, !.status = status]
    <3>1. x \in Threads /\ x.pc = "answered" /\ x.w = desk[d].w /\ desk' = [desk EXCEPT !["monitor"] = x]
      BY <1>0, <1>r, <2>2 DEF Result, Idle, Threads, Ended, Statuses
    <3>2. x.status \in Results
      BY <1>r DEF Idle
    <3>. HIDE DEF x
    <3>. QED
      BY <1>r, <2>2, <3>1, <3>2 DEF market, At, Answered, Ended
  <2>. QED
    BY <2>1, <2>2
<1>s. ASSUME NEW d \in Desks, NEW status \in Verdicts, Store(d, status), UNCHANGED chats,
             watch' \in Seq(Rows), DOMAIN watch \subseteq DOMAIN watch', Lasting, UNCHANGED market,
             ~At(d, "idle")
      PROVE  Fine
  <2>. DEFINE x == [Idle EXCEPT !.pc = "saving", !.w = desk[d].w, !.status = status]
  <2>1. x \in Threads /\ x.pc = "saving" /\ x.w = desk[d].w /\ desk' = [desk EXCEPT ![d] = x]
    BY <1>0, <1>s DEF Store, Idle, Threads, Statuses, Results
  <2>2. x.status \in Verdicts
    BY <1>s DEF Idle
  <2>. HIDE DEF x
  <2>. QED
    BY <1>s, <2>1, <2>2 DEF market, At, Answered, Ended
\* A desk goes on with what it has in hand.
<1>g. ASSUME NEW d \in Desks, NEW pc \in Analysing \cup Ended \cup Ending, Go(d, pc), UNCHANGED chats,
             ~At(d, "idle"), d = "monitor" => pc # "creating", d = "chat" => pc \in Analysing,
             desk[d].pc \in Answered \/ pc \notin Answered,
             pc \in Ended => desk[d].pc \in Ended,
             watch' \in Seq(Rows), DOMAIN watch \subseteq DOMAIN watch', Lasting, UNCHANGED market
      PROVE  Fine
  <2>. DEFINE x == [desk[d] EXCEPT !.pc = pc]
  <2>1. x \in Threads /\ x.pc = pc /\ x.w = desk[d].w /\ x.answer = desk[d].answer /\ x.status = desk[d].status
        /\ desk' = [desk EXCEPT ![d] = x] /\ pc # "idle"
    BY <1>0, <1>g DEF Go, Threads, Analysing, Ended, Ending, Answered
  <2>. HIDE DEF x
  <2>2. desk' \in [Desks -> Threads] /\ desk'[d] = x /\ \A e \in Desks \ {d} : desk'[e] = desk[e]
    BY <2>1
  <2>3. CASE d = "chat"
    BY <1>g, <2>1, <2>2, <2>3 DEF market, At, Analysing, Answered, Ended
  <2>4. CASE d = "monitor"
    BY <1>g, <2>1, <2>2, <2>4 DEF market, At, Analysing, Answered, Ended, Ending
  <2>. QED
    BY <2>3, <2>4
<1>7. CASE CloseWatch \/ CloseFails
  <2>1. /\ monitor.w \in DOMAIN watch /\ monitor.status \in Endings /\ UNCHANGED <<market, chats>>
        /\ ~At("monitor", "idle") /\ monitor.pc \notin Ended
    BY <1>7 DEF CloseWatch, CloseFails, bounds, At, Ended
  <2>2. \/ UNCHANGED watch /\ Leave("monitor")
        \/ /\ Active(monitor.w) /\ EndWatch(monitor.w, monitor.status)
           /\ Leave("monitor") \/ Go("monitor", "announcing")
    BY <1>7 DEF CloseWatch, CloseFails
  <2>. QED
    BY <1>e, <1>g, <1>l, <1>v, <2>1, <2>2 DEF Ending, Analysing, Ended, Answered
<1>8. CASE ClaimTrigger \/ ClaimTriggerFails
  <2>1. /\ monitor.w \in DOMAIN watch /\ "TRIGGERED" \in Endings /\ UNCHANGED <<market, chats>>
        /\ ~At("monitor", "idle") /\ monitor.pc \notin Ended
    BY <1>8 DEF ClaimTrigger, ClaimTriggerFails, bounds, At, Ended, Endings
  <2>2. \/ UNCHANGED watch /\ Leave("monitor")
        \/ /\ Active(monitor.w) /\ EndWatch(monitor.w, "TRIGGERED")
           /\ Leave("monitor") \/ Go("monitor", "announcing")
    BY <1>8 DEF ClaimTrigger, ClaimTriggerFails
  <2>. QED
    BY <1>e, <1>g, <1>l, <1>v, <2>1, <2>2 DEF Ending, Analysing, Ended, Answered
<1>9. CASE Announce \/ AnnounceFails \/ StartFails
  <2>1. /\ monitor.w \in DOMAIN watch /\ UNCHANGED <<market, chats>> /\ watch' \in {watch, Announced, Started}
        /\ ~At("monitor", "idle")
    BY <1>9 DEF Announce, AnnounceFails, StartFails, NeverRechecked, bounds, At
  <2>2. watch' \in Seq(Rows) /\ DOMAIN watch' = DOMAIN watch /\ Lasting
    BY <1>w, <2>1
  <2>3. Go("monitor", "starting") \/ Leave("monitor")
    BY <1>9 DEF Announce, AnnounceFails, StartFails, NeverRechecked
  <2>. QED
    BY <1>g, <1>v, <2>1, <2>2, <2>3 DEF Ending, Analysing, Ended, Answered
<1>10. CASE Start
  <2>. DEFINE x == [monitor EXCEPT !.pc = "account", !.at = 0]
  <2>1. monitor.w \in DOMAIN watch /\ UNCHANGED <<market, chats>> /\ watch' = Started
    BY <1>10 DEF Start, bounds, At
  <2>2. watch' \in Seq(Rows) /\ DOMAIN watch' = DOMAIN watch /\ Lasting
    BY <1>w, <2>1
  <2>3. x \in Threads /\ x.pc = "account" /\ x.w = monitor.w /\ desk' = [desk EXCEPT !["monitor"] = x]
    BY <1>0, <1>10 DEF Start, Threads, Analysing
  <2>. HIDE DEF x
  <2>4. desk' \in [Desks -> Threads] /\ desk'["monitor"] = x /\ desk'["chat"] = desk["chat"]
    BY <2>3
  <2>. QED
    BY <2>1, <2>2, <2>3, <2>4 DEF market, At, Ended, Answered
<1>11. CASE Command
  <2>. DEFINE x == [chat EXCEPT !.pc = "account"]
  <2>1. x \in Threads /\ x.pc = "account" /\ x.w = 0 /\ desk' = [desk EXCEPT !["chat"] = x]
    BY <1>0, <1>11 DEF Command, Go, Threads, Analysing
  <2>. HIDE DEF x
  <2>. QED
    BY <1>11, <2>1 DEF Command, market, tables, bounds, At, Analysing, Ended, Answered, Lasting
<1>12. ASSUME NEW d \in Desks, Fails(d) PROVE Fine
  BY <1>12, <1>r DEF Fails, tables, market, At, Lasting, Results
<1>13. ASSUME NEW d \in Desks, FirstAccount(d) PROVE Fine
  <2>1. CASE UNCHANGED watch
    <3>1. Go(d, "snapshot") \/ Result(d, "NO_TRADE")
      BY <1>13 DEF FirstAccount
    <3>2. Lasting /\ watch' \in Seq(Rows)
      <4>1. UNCHANGED market
        BY <1>13 DEF FirstAccount
      <4>. QED
        BY <2>1, <4>1 DEF Lasting, market
    <3>. QED
      BY <1>13, <1>g, <1>r, <2>1, <3>1, <3>2
         DEF FirstAccount, bounds, At, Results, Verdicts, Analysing, Ended, Answered
  <2>2. CASE watch' # watch
    <3>1. PICK w \in DOMAIN watch :
            /\ Active(w)
            /\ watch' = [watch EXCEPT ![w].status = "INVALIDATED", ![w].by = "chat", ![w].closedAt = clock]
      BY <1>13, <2>2 DEF FirstAccount
    <3>. DEFINE r == [watch[w] EXCEPT !.status = "INVALIDATED", !.by = "chat", !.closedAt = clock]
    <3>2. r \in Rows /\ Succeeds(w, r) /\ watch' = [watch EXCEPT ![w] = r]
      BY <1>0, <3>1 DEF Rows, Endings
    <3>3. watch' \in Seq(Rows) /\ DOMAIN watch' = DOMAIN watch /\ Lasting
      BY <1>13, <3>2, RowStep DEF FirstAccount
    <3>4. Result(d, "NO_TRADE")
      BY <1>13, <2>2 DEF FirstAccount
    <3>. QED
      BY <1>13, <1>r, <3>3, <3>4 DEF FirstAccount, bounds, At, Results, Verdicts
  <2>. QED
    BY <2>1, <2>2
<1>14. ASSUME NEW d \in Desks, TakeSnapshot(d) PROVE Fine
  <2>. DEFINE x == [desk[d] EXCEPT !.pc = "asking", !.at = clock]
  <2>1. x \in Threads /\ x.pc = "asking" /\ x.w = desk[d].w
    BY <1>0, <1>14 DEF TakeSnapshot, Threads, Analysing
  <2>. HIDE DEF x
  <2>2. CASE desk' = [desk EXCEPT ![d] = x]
    BY <1>14, <1>u, <2>1, <2>2 DEF TakeSnapshot, market, bounds, At, Analysing, Ended, Answered
  <2>3. CASE Result(d, "WATCH")
    BY <1>14, <1>u, <1>r, <2>3 DEF TakeSnapshot, bounds, At, Results, Verdicts
  <2>. QED
    BY <1>14, <2>2, <2>3 DEF TakeSnapshot, x
<1>15. ASSUME NEW d \in Desks, MarketClosed(d) PROVE Fine
  <2>1. Lasting /\ watch' \in Seq(Rows) /\ (Result(d, "NO_TRADE") \/ Result(d, "DEFERRED"))
    BY <1>15 DEF MarketClosed, Lasting, market
  <2>. QED
    BY <1>15, <1>r, <2>1 DEF MarketClosed, bounds, At, Results, Verdicts
<1>16. ASSUME NEW d \in Desks, Answer(d) PROVE Fine
  <2>1. PICK a \in Answers :
          desk' = [desk EXCEPT ![d].pc = "parsed", ![d].answer = a, ![d].status = ParsedStatus(a)]
    BY <1>16 DEF Answer
  <2>. DEFINE x == [desk[d] EXCEPT !.pc = "parsed", !.answer = a, !.status = ParsedStatus(a)]
  <2>2. x \in Threads /\ x.pc = "parsed" /\ x.w = desk[d].w /\ x.answer = a /\ x.status \in Verdicts
        /\ desk' = [desk EXCEPT ![d] = x]
    BY <1>0, <1>t, <2>1 DEF Threads, Analysing, Answered, Statuses, Results
  <2>. HIDE DEF x
  <2>. QED
    BY <1>16, <1>u, <2>2 DEF Answer, market, bounds, At, Analysing, Ended, Answered
<1>17. ASSUME NEW d \in Desks, SecondAccount(d) PROVE Fine
  BY <1>17, <1>u, <1>g, <1>s DEF SecondAccount, bounds, At, Analysing, Ended, Answered
<1>18. ASSUME NEW d \in Desks, Judge(d) PROVE Fine
  <2>1. Store(d, desk[d].status) \/ Store(d, "NO_TRADE") \/ Go(d, "capping")
        \/ (Go(d, "creating") /\ d # "monitor")
    BY <1>18 DEF Judge, Reject
  <2>. QED
    BY <1>18, <1>u, <1>g, <1>s, <2>1 DEF Judge, bounds, At, Analysing, Ended, Answered, Verdicts
<1>19. ASSUME NEW d \in Desks, CheckCap(d) PROVE Fine
  BY <1>19, <1>u, <1>g, <1>s DEF CheckCap, Reject, bounds, At, Analysing, Ended, Answered, Verdicts
<1>20. ASSUME NEW d \in Desks, Track(d) PROVE Fine
  <2>1. Lasting /\ watch' \in Seq(Rows)
    BY <1>20 DEF Track, Lasting, market
  <2>. QED
    BY <1>20, <1>s, <2>1 DEF Track, bounds, At, Answered
<1>21. ASSUME NEW d \in Desks, Create(d) PROVE Fine
  <2>1. CASE watch' = watch
    <3>1. Lasting /\ watch' \in Seq(Rows) /\ Len(watch') # Len(watch) + 1
      BY <1>21, <2>1 DEF Create, Lasting, market
    <3>2. Result(d, "ERROR")
      BY <1>21, <3>1 DEF Create
    <3>. QED
      BY <1>21, <1>r, <2>1, <3>1, <3>2 DEF Create, bounds, At, Results
  <2>2. CASE watch' # watch
    <3>. DEFINE r == [scenario |-> desk[d].answer.scenario, made |-> clock,
                      checked |-> desk[d].at, status |-> "ACTIVE", by |-> "none",
                      closedAt |-> 0, started |-> 0, result |-> "none", note |-> "none"]
    <3>1. r \in Rows /\ watch' = Append(watch, r) /\ Store(d, desk[d].status)
      BY <1>0, <1>21, <2>2 DEF Create, At, Rows, Threads, Statuses, Answered
    <3>2. watch' \in Seq(Rows) /\ DOMAIN watch \subseteq DOMAIN watch' /\ \A v \in DOMAIN watch : watch'[v] = watch[v]
      BY <3>1, RowAdded
    <3>3. Lasting
      BY <1>21, <3>2 DEF Create, Lasting, market
    <3>. QED
      BY <1>21, <1>s, <3>1, <3>2, <3>3 DEF Create, bounds, At, Answered
  <2>. QED
    BY <2>1, <2>2
<1>22. ASSUME NEW d \in Desks, Save(d) \/ SaveFails(d) PROVE Fine
  <2>1. Lasting /\ watch' \in Seq(Rows) /\ UNCHANGED <<market, chats>> /\ ~At(d, "idle")
    BY <1>22 DEF Save, SaveFails, Lasting, market, bounds, At
  <2>2. \/ Result(d, desk[d].status) /\ desk[d].status \in Results
        \/ Result(d, "ERROR") /\ "ERROR" \in Results
    BY <1>22 DEF Save, SaveFails, At, Results
  <2>. QED
    BY <1>22, <1>r, <2>1, <2>2 DEF Save, SaveFails
<1>23. CASE Complete \/ CompleteFails
  <2>1. /\ monitor.w \in DOMAIN watch /\ UNCHANGED <<market, chats>> /\ watch' \in {watch, Completed}
        /\ ~At("monitor", "idle") /\ monitor.pc \in Ended
    BY <1>23 DEF Complete, CompleteFails, Excepted, bounds, At, Ended
  <2>2. watch' \in Seq(Rows) /\ DOMAIN watch' = DOMAIN watch /\ Lasting
    BY <1>w, <2>1
  <2>3. \/ Go("monitor", "reporting") \/ Leave("monitor")
        \/ Result("monitor", "ERROR") /\ "ERROR" \in Results
    BY <1>23 DEF Complete, CompleteFails, Excepted, Results
  <2>. QED
    BY <1>g, <1>r, <1>v, <2>1, <2>2, <2>3 DEF Ending, Analysing, Ended, Answered
<1>24. CASE Report \/ ReportFails
  <2>1. /\ monitor.w \in DOMAIN watch /\ UNCHANGED <<market, chats>> /\ watch' \in {watch, Reported}
        /\ ~At("monitor", "idle")
    BY <1>24 DEF Report, ReportFails, Excepted, bounds, At
  <2>2. watch' \in Seq(Rows) /\ DOMAIN watch' = DOMAIN watch /\ Lasting
    BY <1>w, <2>1
  <2>3. Leave("monitor") \/ (Result("monitor", "ERROR") /\ "ERROR" \in Results)
    BY <1>24 DEF Report, ReportFails, Excepted, Results
  <2>. QED
    BY <1>r, <1>v, <2>1, <2>2, <2>3
<1>25. CASE Crash
  BY <1>25, <1>i, <1>u DEF Crash, market, tables, At, Answered, Ended
<1>26. CASE UNCHANGED vars
  BY <1>26, <1>u DEF vars, market, tables, bounds, At
<1>. QED
  BY <1>1, <1>2, <1>3, <1>4, <1>5, <1>6, <1>7, <1>8, <1>9, <1>10, <1>11, <1>12, <1>13, <1>14, <1>15,
     <1>16, <1>17, <1>18, <1>19, <1>20, <1>21, <1>22, <1>23, <1>24, <1>25, <1>26 DEF Next
-----------------------------------------------------------------------------
(* One scenario.  The chat's answer is asked for when no watch is open, and *)
(* only the chat opens one.                                                 *)

NoneOpen == \A w \in DOMAIN watch : ~Active(w)

Alone ==
  /\ chat.pc \in Analysing \ {"account", "snapshot"} => NoneOpen
  /\ At("chat", "creating") /\ watch # <<>> =>
       ~ClaimedSame(watch[Len(watch)].scenario, chat.answer.scenario)

LEMMA SameLength ==
  ASSUME NEW m \in Nat, NEW n \in Nat, 1..m = 1..n
  PROVE  m = n
<1>1. (m # 0 => m \in 1..n) /\ (n # 0 => n \in 1..m)
  OBVIOUS
<1>. QED
  BY <1>1

LEMMA ScenarioStep ==
  ASSUME Typed, OneScenario, Alone, [Next]_vars
  PROVE  OneScenario' /\ Alone'
<1>. DEFINE Fine == OneScenario' /\ Alone'
            Later == Analysing \ {"account", "snapshot"}
<1>0. Typed' /\ Lasting
  BY TypedStep
<1>a. /\ \A w \in DOMAIN watch : w \in DOMAIN watch' /\ (~Active(w) => ~Active(w)')
      /\ \A w \in DOMAIN watch : watch'[w].scenario = watch[w].scenario
      /\ DOMAIN watch = 1..Len(watch) /\ DOMAIN watch' = 1..Len(watch')
      /\ Len(watch) \in Nat /\ Len(watch') \in Nat
  BY <1>0 DEF Lasting, Succeeds, Active, Typed
<1>q. ASSUME DOMAIN watch' = DOMAIN watch,
             chat'.pc \in Later => chat.pc \in Later \/ NoneOpen,
             chat'.pc = "creating" =>
               /\ watch # <<>> => ~ClaimedSame(watch[Len(watch)].scenario, chat'.answer.scenario)
      PROVE  Fine
  <2>1. Len(watch') = Len(watch)
    BY <1>a, <1>q, SameLength
  <2>2. OneScenario'
    BY <1>a, <1>q, <2>1 DEF OneScenario
  <2>3. chat'.pc \in Later => NoneOpen'
    BY <1>a, <1>q DEF Alone, NoneOpen
  <2>4. watch' # <<>> => watch # <<>> /\ Len(watch) \in DOMAIN watch
    BY <1>a, <1>q, <2>1
  <2>. QED
    BY <1>a, <1>q, <2>1, <2>2, <2>3, <2>4 DEF Alone, At, chat
<1>m. ASSUME DOMAIN watch' = DOMAIN watch, chat' = chat PROVE Fine
  BY <1>m, <1>q DEF Alone, At, chat, Analysing
<1>n. ASSUME DOMAIN watch' = DOMAIN watch, chat'.pc \in {"idle", "saving", "account", "snapshot"} PROVE Fine
  BY <1>n, <1>q DEF Analysing, Answered
<1>. USE DEF Desks
<1>t. desk \in [Desks -> Threads] /\ Idle.pc = "idle" /\ monitor.pc # "creating"
  BY DEF Typed, Idle
\* Of an analysis, what the steps of the chat do to the chat.
<1>e. ASSUME NEW d \in Desks, NEW status, Result(d, status) \/ Store(d, status), DOMAIN watch' = DOMAIN watch
      PROVE  Fine
  <2>1. CASE d = "chat"
    BY <1>e, <1>n, <1>t, <2>1 DEF Result, Store, chat, Idle
  <2>2. CASE d = "monitor"
    BY <1>e, <1>m, <1>t, <2>2 DEF Result, Store, chat
  <2>. QED
    BY <2>1, <2>2
<1>g. ASSUME NEW d \in Desks, NEW pc, Go(d, pc), DOMAIN watch' = DOMAIN watch, pc # "creating",
             pc \in Later => desk[d].pc \in Later
      PROVE  Fine
  <2>1. CASE d = "chat"
    BY <1>g, <1>q, <1>t, <2>1 DEF Go, chat
  <2>2. CASE d = "monitor"
    BY <1>g, <1>m, <1>t, <2>2 DEF Go, chat
  <2>. QED
    BY <2>1, <2>2
<1>1. CASE Tick
  BY <1>1, <1>m DEF Tick, tables, chat
<1>2. ASSUME NEW w \in DOMAIN watch, FindExpired(w) \/ FindTime(w) \/ ClaimCandle(w) PROVE Fine
  BY <1>2, <1>m, <1>t DEF FindExpired, FindTime, ClaimCandle, Tell, tables, chat
<1>3. CASE Evaluate \/ EvaluateFails
  BY <1>3, <1>m, <1>t DEF Evaluate, EvaluateFails, Tell, Leave, tables, chat
<1>4. CASE CloseWatch \/ CloseFails \/ ClaimTrigger \/ ClaimTriggerFails \/ Announce \/ AnnounceFails \/ Start
           \/ StartFails \/ Complete \/ CompleteFails \/ Report \/ ReportFails
  <2>1. DOMAIN watch' = DOMAIN watch
    BY <1>4 DEF CloseWatch, CloseFails, ClaimTrigger, ClaimTriggerFails, EndWatch, Announce, AnnounceFails, Start,
         StartFails, NeverRechecked, Complete, CompleteFails, Report, ReportFails, Excepted,
         Announced, Started, Completed, Reported
  <2>2. chat' = chat
    BY <1>4, <1>t DEF CloseWatch, CloseFails, ClaimTrigger, ClaimTriggerFails, Announce, AnnounceFails, Start,
         StartFails, NeverRechecked, Complete, CompleteFails, Report, ReportFails, Excepted, Result, Go, Leave, chat
  <2>. QED
    BY <1>m, <2>1, <2>2
<1>5. CASE Command
  BY <1>5, <1>n, <1>t DEF Command, Go, tables, chat
<1>6. ASSUME NEW d \in Desks, Fails(d) \/ MarketClosed(d) \/ Save(d) \/ SaveFails(d) \/ Track(d) PROVE Fine
  <2>1. DOMAIN watch' = DOMAIN watch
    BY <1>6 DEF Fails, MarketClosed, Save, SaveFails, Track, tables
  <2>. QED
    BY <1>6, <1>e, <2>1 DEF Fails, MarketClosed, Save, SaveFails, Track
<1>7. ASSUME NEW d \in Desks, FirstAccount(d) PROVE Fine
  <2>1. DOMAIN watch' = DOMAIN watch
    BY <1>7 DEF FirstAccount
  <2>. QED
    BY <1>7, <1>e, <1>g, <2>1 DEF FirstAccount, Analysing, Answered
<1>8. ASSUME NEW d \in Desks, TakeSnapshot(d) PROVE Fine
  <2>1. DOMAIN watch' = DOMAIN watch
    BY <1>8 DEF TakeSnapshot, tables
  <2>2. CASE d = "chat" /\ ~NoneOpen
    BY <1>8, <1>e, <2>1, <2>2 DEF TakeSnapshot, NoneOpen
  <2>3. CASE d = "chat" /\ NoneOpen
    <3>1. desk' = [desk EXCEPT !["chat"].pc = "asking", !["chat"].at = clock]
      BY <1>8, <2>3 DEF TakeSnapshot, NoneOpen
    <3>2. chat'.pc = "asking"
      BY <1>t, <3>1 DEF chat, Threads
    <3>. QED
      BY <1>q, <2>1, <2>3, <3>2
  <2>4. CASE d = "monitor"
    BY <1>8, <1>m, <1>t, <2>1, <2>4 DEF TakeSnapshot, chat
  <2>. QED
    BY <2>2, <2>3, <2>4
<1>9. ASSUME NEW d \in Desks, Answer(d) PROVE Fine
  <2>1. DOMAIN watch' = DOMAIN watch
    BY <1>9 DEF Answer, tables
  <2>2. CASE d = "chat"
    BY <1>9, <1>q, <1>t, <2>1, <2>2 DEF Answer, At, chat, Analysing, Answered
  <2>3. CASE d = "monitor"
    BY <1>9, <1>m, <1>t, <2>1, <2>3 DEF Answer, chat
  <2>. QED
    BY <2>2, <2>3
<1>10. ASSUME NEW d \in Desks, SecondAccount(d) \/ CheckCap(d) PROVE Fine
  <2>1. DOMAIN watch' = DOMAIN watch
    BY <1>10 DEF SecondAccount, CheckCap, tables
  <2>. QED
    BY <1>10, <1>e, <1>g, <2>1 DEF SecondAccount, CheckCap, Reject, At, Analysing, Answered
<1>11. ASSUME NEW d \in Desks, Judge(d) PROVE Fine
  <2>1. DOMAIN watch' = DOMAIN watch /\ desk[d].pc = "judging"
    BY <1>11 DEF Judge, tables, At
  <2>2. \/ \E status : Store(d, status)
        \/ Go(d, "capping")
        \/ d = "chat" /\ Go(d, "creating") /\ ~Repeats(chat.answer.scenario)
    BY <1>11 DEF Judge, Reject, chat
  <2>3. CASE d = "chat" /\ Go(d, "creating") /\ ~Repeats(chat.answer.scenario)
    <3>1. NoneOpen
      BY <2>1, <2>3 DEF Alone, chat, Analysing, Answered
    <3>2. watch # <<>> => ~ClaimedSame(watch[Len(watch)].scenario, chat.answer.scenario)
      BY <1>a, <2>3, <3>1 DEF Repeats, NoneOpen
    <3>3. chat'.answer = chat.answer
      BY <1>t, <2>3 DEF Go, chat
    <3>. QED
      BY <1>q, <2>1, <3>1, <3>2, <3>3
  <2>. QED
    BY <1>e, <1>g, <2>1, <2>2, <2>3 DEF Analysing, Answered
<1>12. ASSUME NEW d \in Desks, Create(d) PROVE Fine
  <2>0. d = "chat" /\ At("chat", "creating") /\ NoneOpen
    BY <1>12, <1>t DEF Create, At, monitor, Alone, Analysing, Answered, chat
  <2>1. PICK r : /\ r.scenario = chat.answer.scenario /\ watch' = Append(watch, r)
                 /\ Store(d, desk[d].status)
    <3>. DEFINE r == [scenario |-> desk[d].answer.scenario, made |-> clock,
                      checked |-> desk[d].at, status |-> "ACTIVE", by |-> "none",
                      closedAt |-> 0, started |-> 0, result |-> "none", note |-> "none"]
    <3>1. r.scenario = chat.answer.scenario /\ watch' = Append(watch, r) /\ Store(d, desk[d].status)
      BY <1>12, <2>0 DEF Create, NoneOpen, chat
    <3>. QED
      BY <3>1
  <2>2. /\ Len(watch') = Len(watch) + 1 /\ watch'[Len(watch) + 1].scenario = chat.answer.scenario
        /\ DOMAIN watch = 1..Len(watch)
    BY <2>1 DEF Typed
  <2>3. OneScenario'
    <3>. SUFFICES ASSUME NEW w \in DOMAIN watch', w < Len(watch')
                  PROVE  /\ ~Active(w)'
                         /\ ~ClaimedSame(watch'[w].scenario, watch'[w + 1].scenario)
      BY DEF OneScenario
    <3>1. w \in DOMAIN watch /\ w \in Nat /\ ~Active(w)'
      BY <1>a, <2>0, <2>2 DEF NoneOpen
    <3>2. CASE w = Len(watch)
      BY <1>a, <2>0, <2>2, <3>1, <3>2 DEF Alone
    <3>3. CASE w # Len(watch)
      BY <1>a, <2>2, <3>1, <3>3 DEF OneScenario
    <3>. QED
      BY <3>1, <3>2, <3>3
  <2>4. chat'.pc = "saving"
    BY <1>t, <2>0, <2>1 DEF Store, chat
  <2>. QED
    BY <2>3, <2>4 DEF Alone, At, chat, Analysing, Answered
<1>13. CASE Crash
  BY <1>13, <1>n, <1>t DEF Crash, tables, chat
<1>14. CASE UNCHANGED vars
  BY <1>14, <1>m DEF vars, tables, chat
<1>. QED
  BY <1>1, <1>2, <1>3, <1>4, <1>5, <1>6, <1>7, <1>8, <1>9, <1>10, <1>11, <1>12, <1>13, <1>14 DEF Next
-----------------------------------------------------------------------------
(* The recheck.  A watch is claimed once, so that it is analysed once.      *)

Recheck(w) == <<"recheck", w>>
Kept(id, status) == <<id, status>> \in saved
Stored(id) == \E x \in saved : x[1] = id
Followed(id) == \E x \in tracked : x.id = id
\* What is stored of an analysis is its status, unless it was cut short.
Agrees(id, status) == \A x \in saved : x[1] = id => status = x[2] \/ id \in cut

\* What is stored or tracked belongs to an analysis that was begun.
Begun(id) ==
  \/ \E w \in DOMAIN watch : id = Recheck(w) /\ watch[w].started = 1
  \/ \E n \in 1..chats : id = <<"initial", n>>

Known == (\A x \in saved : Begun(x[1])) /\ (\A x \in tracked : Begun(x.id))

\* An analysis that goes on has stored nothing, and tracks its TRADE last.
Going(d) ==
  /\ desk[d].pc \in Analysing => ~Followed(Id(d)) /\ ~Stored(Id(d))
  /\ desk[d].pc \in {"capping", "tracking"} => desk[d].status = "TRADE"
  /\ desk[d].pc = "saving" => ~Stored(Id(d)) /\ (Followed(Id(d)) => desk[d].status = "TRADE")

TrackedKept ==
  \A x \in tracked :
    \/ Kept(x.id, "TRADE") \/ x.id \in cut
    \/ \E d \in Desks : At(d, "saving") /\ Id(d) = x.id

\* What became of the analysis of w, by the status it came back with.
Explains(w, status) ==
  /\ status \in {"TRADE", "WATCH"} => Kept(Recheck(w), status)
  /\ status = "DEFERRED" => ~Stored(Recheck(w))
  /\ status = "ERROR" => Recheck(w) \in cut
  /\ Agrees(Recheck(w), status)
  /\ Followed(Recheck(w)) => status \in {"TRADE", "ERROR"}

\* The row the monitor is at.
InHand ==
  LET w == monitor.w
      r == watch[w]
  IN /\ monitor.pc \in Weighing => r.status \in {"ACTIVE", "INVALIDATED"}
     /\ monitor.pc \in Ending => r.status \in Endings /\ r.started = 0
     /\ monitor.pc = "starting" => r.status = "TRIGGERED" /\ r.note = "ending"
     /\ monitor.pc \in {"saving"} \cup Analysing \cup Ended => r.status = "TRIGGERED" /\ r.started = 1
     /\ monitor.pc \in {"saving"} \cup Analysing => r.note = "ending" /\ r.result = "none"
     /\ monitor.pc \in Ended => Explains(w, monitor.status)
     /\ monitor.pc \in Ended /\ monitor.status # "ERROR" => r.note = "ending"
     /\ monitor.pc = "reporting" =>
          r.result = IF monitor.status = "DEFERRED" THEN "WATCH" ELSE monitor.status

\* The row of w, in hand or not.
Behind(w) ==
  LET r == watch[w]
      id == Recheck(w)
  IN /\ r.status # "TRIGGERED" => r.started = 0
     /\ r.started \in {0, 1}
     /\ r.started = 0 => r.result = "none" /\ r.note \in {"none", "ending"}
     /\ r.started = 1 => r.note # "none"
     /\ r.status = "TRIGGERED" /\ r.result = "none" => Doing(w) \/ id \in cut
     /\ r.result = "WATCH" => Kept(id, "WATCH") \/ r.note = "suppressed" \/ Doing(w) \/ id \in cut
     /\ r.result = "TRADE" => Kept(id, "TRADE")
     /\ r.note = "suppressed" => (r.result = "WATCH" \/ id \in cut) /\ ~Stored(id)
     /\ r.result # "none" => Agrees(id, r.result)
     /\ r.result = "ERROR" => id \in cut
     /\ r.result # "none" /\ Followed(id) => r.result = "TRADE" \/ (r.result = "ERROR" /\ id \in cut)

RecheckInv ==
  /\ Known
  /\ \A d \in Desks : Going(d)
  /\ TrackedKept
  /\ ~At("monitor", "idle") => InHand
  /\ \A w \in DOMAIN watch : Behind(w)

\* A write of the monitor on the row it has in hand that raises.
FailingWrite ==
  \/ CloseFails \/ ClaimTriggerFails \/ AnnounceFails \/ StartFails
  \/ CompleteFails \/ ReportFails

\* A step of one desk.
MonitorStep ==
  \/ \E w \in DOMAIN watch : FindExpired(w) \/ FindTime(w) \/ ClaimCandle(w)
  \/ Evaluate \/ EvaluateFails \/ CloseWatch \/ ClaimTrigger \/ Announce \/ Start
  \/ Complete \/ Report
  \/ FailingWrite

AnalysisStep(d) ==
  \/ Fails(d) \/ FirstAccount(d) \/ TakeSnapshot(d) \/ MarketClosed(d) \/ Answer(d)
  \/ SecondAccount(d) \/ Judge(d) \/ CheckCap(d) \/ Track(d) \/ Create(d) \/ Save(d)
  \/ SaveFails(d)

DeskStep(d) ==
  \/ d = "monitor" /\ MonitorStep
  \/ d = "chat" /\ Command
  \/ AnalysisStep(d)

\* It leaves the other desk alone, and adds to the tables only for itself.
Touches(d) ==
  /\ \A e \in Desks \ {d} : desk'[e] = desk[e] /\ Id(e)' = Id(e)
  /\ saved \subseteq saved' /\ tracked \subseteq tracked' /\ cut \subseteq cut'
  /\ \A x \in saved' \ saved : x[1] = Id(d) /\ desk[d].pc \in {"snapshot", "saving"}
  /\ \A x \in tracked' \ tracked : x.id = Id(d) /\ desk[d].pc = "tracking"
  /\ chats <= chats'

\* The row is written or not, nothing is stored, and the desk is left, or goes
\* on with ERROR when the result was in hand.
LEMMA FailingWriteIs ==
  ASSUME FailingWrite
  PROVE  /\ UNCHANGED <<market, tracked, saved, claimed, chats>>
         /\ cut \subseteq cut' /\ excused \subseteq excused'
         /\ Leave("monitor") \/ Result("monitor", "ERROR")
         /\ watch' = watch \/ \E row : watch' = [watch EXCEPT ![monitor.w] = row]
         /\ monitor.pc \in {"told"} \cup Ending \cup Ended
<1>. USE DEF monitor, Ending, Ended, At
<1>1. CASE CloseFails \/ ClaimTriggerFails
  BY <1>1 DEF CloseFails, ClaimTriggerFails, EndWatch
<1>2. CASE AnnounceFails \/ StartFails
  BY <1>2 DEF AnnounceFails, StartFails, NeverRechecked, Announced, Started
<1>3. CASE CompleteFails \/ ReportFails
  BY <1>3 DEF CompleteFails, ReportFails, Excepted, Completed, Reported
<1>. QED
  BY <1>1, <1>2, <1>3 DEF FailingWrite

LEMMA TouchesStep ==
  ASSUME Typed, NEW d \in Desks, DeskStep(d)
  PROVE  Touches(d)
<1>. USE DEF Desks, Id, Touches
<1>t. desk \in [Desks -> Threads] /\ chats \in Nat /\ chats <= chats
  BY DEF Typed
<1>1. CASE d = "monitor" /\ MonitorStep
  <2>1. ASSUME NEW w \in DOMAIN watch, FindExpired(w) \/ FindTime(w) \/ ClaimCandle(w) PROVE Touches(d)
    BY <1>1, <1>t, <2>1 DEF FindExpired, FindTime, ClaimCandle, Tell, tables, history, bounds
  <2>2. CASE Evaluate \/ EvaluateFails
    BY <1>1, <1>t, <2>2 DEF Evaluate, EvaluateFails, Tell, Leave, tables, history, bounds
  <2>3. CASE CloseWatch \/ ClaimTrigger \/ Announce \/ Start \/ Complete \/ Report
    <3>1. \A e \in Desks \ {d} : desk'[e] = desk[e]
      BY <1>1, <1>t, <2>3 DEF CloseWatch, ClaimTrigger, Announce, Start, Complete, Report, Go, Leave
    <3>2. UNCHANGED <<saved, tracked, chats, cut>>
      BY <2>3 DEF CloseWatch, ClaimTrigger, Announce, Start, Complete, Report, history, bounds
    <3>. QED
      BY <1>t, <3>1, <3>2
  <2>4. CASE FailingWrite
    BY <1>1, <1>t, <2>4, FailingWriteIs DEF Leave, Result
  <2>. QED
    BY <1>1, <2>1, <2>2, <2>3, <2>4 DEF MonitorStep
<1>2. CASE d = "chat" /\ Command
  BY <1>t, <1>2 DEF Command, Go, tables, history
<1>3. CASE Fails(d) \/ FirstAccount(d) \/ TakeSnapshot(d) \/ Answer(d) \/ SecondAccount(d)
           \/ Judge(d) \/ CheckCap(d) \/ Create(d)
  <2>1. UNCHANGED <<saved, tracked, chats>> /\ cut \subseteq cut'
    BY <1>3 DEF Fails, FirstAccount, TakeSnapshot, Answer, SecondAccount, Judge, CheckCap, Create,
         tables, history, bounds
  <2>2. \A e \in Desks \ {d} : desk'[e] = desk[e]
    BY <1>3, <1>t DEF Fails, FirstAccount, TakeSnapshot, Answer, SecondAccount, Judge, CheckCap, Create,
         Result, Store, Go, Reject
  <2>. QED
    BY <1>t, <2>1, <2>2
<1>4. CASE MarketClosed(d) \/ Track(d) \/ Save(d) \/ SaveFails(d)
  BY <1>4, <1>t DEF MarketClosed, Track, Save, SaveFails, Result, Store, At, history, bounds
<1>. QED
  BY <1>1, <1>2, <1>3, <1>4 DEF DeskStep, AnalysisStep

\* The chat ends open watches and makes new ones; the rest of a row is the
\* monitor's.
LEMMA ChatRows ==
  ASSUME Typed, DeskStep("chat")
  PROVE  /\ \A w \in DOMAIN watch :
              /\ w \in DOMAIN watch'
              /\ watch'[w].started = watch[w].started /\ watch'[w].result = watch[w].result
              /\ watch'[w].note = watch[w].note
              /\ \/ watch'[w].status = watch[w].status
                 \/ watch[w].status = "ACTIVE" /\ watch'[w].status = "INVALIDATED"
         /\ \A w \in DOMAIN watch' \ DOMAIN watch :
              /\ watch'[w].status = "ACTIVE" /\ watch'[w].started = 0
              /\ watch'[w].result = "none" /\ watch'[w].note = "none"
<1>. DEFINE Goal ==
       /\ \A w \in DOMAIN watch :
            /\ w \in DOMAIN watch'
            /\ watch'[w].started = watch[w].started /\ watch'[w].result = watch[w].result
            /\ watch'[w].note = watch[w].note
            /\ \/ watch'[w].status = watch[w].status
               \/ watch[w].status = "ACTIVE" /\ watch'[w].status = "INVALIDATED"
       /\ \A w \in DOMAIN watch' \ DOMAIN watch :
            /\ watch'[w].status = "ACTIVE" /\ watch'[w].started = 0
            /\ watch'[w].result = "none" /\ watch'[w].note = "none"
<1>0. \A w \in DOMAIN watch : watch[w] \in Rows
  BY DEF Typed
<1>1. CASE UNCHANGED watch
  BY <1>1
<1>2. ASSUME NEW w \in DOMAIN watch, Active(w),
             watch' = [watch EXCEPT ![w].status = "INVALIDATED", ![w].by = "chat", ![w].closedAt = clock]
      PROVE  Goal
  BY <1>0, <1>2 DEF Active, Rows
<1>3. CASE FirstAccount("chat")
  BY <1>1, <1>2, <1>3 DEF FirstAccount
<1>4. CASE Create("chat")
  <2>. DEFINE r == [scenario |-> chat.answer.scenario, made |-> clock,
                    checked |-> chat.at, status |-> "ACTIVE", by |-> "none",
                    closedAt |-> 0, started |-> 0, result |-> "none", note |-> "none"]
  <2>1. watch' = watch \/ watch' = Append(watch, r)
    BY <1>4 DEF Create, chat
  <2>2. CASE watch' = Append(watch, r)
    <3>1. /\ DOMAIN watch' \ DOMAIN watch \subseteq {Len(watch) + 1} /\ watch'[Len(watch) + 1] = r
          /\ \A v \in DOMAIN watch : v \in DOMAIN watch' /\ watch'[v] = watch[v]
      BY <2>2 DEF Typed
    <3>. QED
      BY <3>1
  <2>. QED
    BY <1>1, <2>1, <2>2
<1>. QED
  BY <1>1, <1>3, <1>4
     DEF DeskStep, AnalysisStep, Command, Fails, TakeSnapshot, MarketClosed, Answer, SecondAccount,
         Judge, CheckCap, Track, Save, SaveFails, tables

\* The monitor works on one watch at a time, which was open when it began.
LEMMA MonitorRows ==
  ASSUME Typed, DeskStep("monitor")
  PROVE  /\ DOMAIN watch' = DOMAIN watch
         /\ \A v \in DOMAIN watch : ~Doing(v) =>
              /\ watch'[v].status = watch[v].status /\ watch'[v].started = watch[v].started
              /\ watch'[v].result = watch[v].result /\ watch'[v].note = watch[v].note
         /\ \A v \in DOMAIN watch : Doing(v)' /\ ~Doing(v) =>
              /\ At("monitor", "idle") /\ watch[v].status = "ACTIVE"
              /\ watch'[v].status = "ACTIVE" /\ monitor'.pc \in Weighing
<1>. DEFINE Goal ==
         /\ DOMAIN watch' = DOMAIN watch
         /\ \A v \in DOMAIN watch : ~Doing(v) =>
              /\ watch'[v].status = watch[v].status /\ watch'[v].started = watch[v].started
              /\ watch'[v].result = watch[v].result /\ watch'[v].note = watch[v].note
         /\ \A v \in DOMAIN watch : Doing(v)' /\ ~Doing(v) =>
              /\ At("monitor", "idle") /\ watch[v].status = "ACTIVE"
              /\ watch'[v].status = "ACTIVE" /\ monitor'.pc \in Weighing
<1>0. /\ desk \in [Desks -> Threads] /\ "monitor" \in Desks /\ Idle.w = 0 /\ monitor.pc # "creating"
      /\ \A w \in DOMAIN watch : watch[w] \in Rows /\ w # 0
  BY DEF Typed, Desks, Idle
<1>. USE DEF Doing
<1>1. ASSUME UNCHANGED watch, desk'["monitor"].w \in {0, monitor.w} PROVE Goal
  BY <1>0, <1>1 DEF monitor
<1>2. ASSUME NEW w \in DOMAIN watch, FindExpired(w) \/ FindTime(w) PROVE Goal
  <2>. DEFINE x(v) == [monitor EXCEPT !.pc = "told", !.w = w, !.status = v]
  <2>1. PICK v \in {"EXPIRED", "TRIGGERED"} : desk' = [desk EXCEPT !["monitor"] = x(v)]
    BY <1>2 DEF FindExpired, FindTime, Tell, monitor
  <2>2. monitor'.w = w /\ monitor'.pc = "told"
    BY <1>0, <2>1 DEF monitor, Threads
  <2>. QED
    BY <1>2, <2>2 DEF FindExpired, FindTime, tables, Active, Weighing, monitor
<1>3. ASSUME NEW w \in DOMAIN watch, ClaimCandle(w) PROVE Goal
  BY <1>0, <1>3 DEF ClaimCandle, Active, Weighing, monitor, Rows
<1>4. CASE Evaluate \/ EvaluateFails
  BY <1>0, <1>1, <1>4 DEF Evaluate, EvaluateFails, Tell, Leave, tables, monitor, Threads
<1>5. CASE CloseWatch \/ ClaimTrigger \/ Announce \/ Start \/ Complete \/ Report
  <2>1. desk'["monitor"].w \in {0, monitor.w}
    BY <1>0, <1>5 DEF CloseWatch, ClaimTrigger, Announce, Start, Complete, Report, Go, Leave, monitor, Threads
  <2>2. DOMAIN watch' = DOMAIN watch /\ \A v \in DOMAIN watch \ {monitor.w} : watch'[v] = watch[v]
    BY <1>5 DEF CloseWatch, ClaimTrigger, Announce, Start, Complete, Report, EndWatch, Announced,
         Started, Completed, Reported, monitor
  <2>. QED
    BY <1>0, <2>1, <2>2 DEF monitor
<1>7. CASE FailingWrite
  <2>1. desk'["monitor"].w \in {0, monitor.w}
    BY <1>0, <1>7, FailingWriteIs DEF Leave, Result, Idle, monitor
  <2>2. DOMAIN watch' = DOMAIN watch /\ \A v \in DOMAIN watch \ {monitor.w} : watch'[v] = watch[v]
    BY <1>7, FailingWriteIs
  <2>. QED
    BY <1>0, <2>1, <2>2 DEF monitor
<1>6. CASE AnalysisStep("monitor")
  <2>1. UNCHANGED watch
    BY <1>6, <1>0 DEF AnalysisStep, Fails, FirstAccount, TakeSnapshot, MarketClosed, Answer, SecondAccount,
         Judge, CheckCap, Track, Create, Save, SaveFails, tables, At, monitor
  <2>2. desk'["monitor"].w = monitor.w
    <3>1. ASSUME \E status : Result("monitor", status) \/ Store("monitor", status)
          PROVE  desk'["monitor"].w = monitor.w
      BY <1>0, <3>1 DEF Result, Store, monitor, Idle
    <3>2. ASSUME \E pc : Go("monitor", pc) PROVE desk'["monitor"].w = monitor.w
      BY <1>0, <3>2 DEF Go, monitor, Threads
    <3>3. CASE TakeSnapshot("monitor") \/ Answer("monitor")
      <4>1. \E x : /\ desk' = [desk EXCEPT !["monitor"] = x]
                   /\ \/ x = [monitor EXCEPT !.pc = "asking", !.at = clock]
                      \/ \E a \in Answers :
                           x = [monitor EXCEPT !.pc = "parsed", !.answer = a, !.status = ParsedStatus(a)]
        BY <3>3 DEF TakeSnapshot, Answer, monitor
      <4>. QED
        BY <1>0, <4>1 DEF monitor, Threads
    <3>4. CASE Judge("monitor")
      BY <3>1, <3>2, <3>4 DEF Judge, Reject
    <3>5. CASE FirstAccount("monitor") \/ SecondAccount("monitor") \/ CheckCap("monitor")
      BY <3>1, <3>2, <3>5 DEF FirstAccount, SecondAccount, CheckCap, Reject
    <3>6. CASE Fails("monitor") \/ MarketClosed("monitor") \/ Track("monitor") \/ Create("monitor")
               \/ Save("monitor") \/ SaveFails("monitor")
      BY <3>1, <3>6 DEF Fails, MarketClosed, Track, Create, Save, SaveFails
    <3>. QED
      BY <1>6, <3>3, <3>4, <3>5, <3>6 DEF AnalysisStep
  <2>. QED
    BY <1>1, <2>1, <2>2
<1>. QED
  BY <1>2, <1>3, <1>4, <1>5, <1>6, <1>7 DEF DeskStep, MonitorStep

\* Every step is of a desk, or of time, or the last.
LEMMA Steps ==
  ASSUME [Next]_vars
  PROVE  (\E d \in Desks : DeskStep(d)) \/ Tick \/ Crash \/ UNCHANGED vars
  BY DEF Next, DeskStep, AnalysisStep, MonitorStep, FailingWrite, Desks

LEMMA DeskNext ==
  ASSUME NEW d \in Desks, DeskStep(d)
  PROVE  [Next]_vars
  BY DEF Next, DeskStep, AnalysisStep, MonitorStep, FailingWrite, Desks

\* What was begun stays begun.
LEMMA BegunStep ==
  ASSUME Typed, RecheckInv, NEW d \in Desks, DeskStep(d), NEW id, Begun(id)
  PROVE  Begun(id)'
<1>1. CASE \E n \in 1..chats : id = <<"initial", n>>
  <2>1. chats \in Nat /\ chats' \in Nat /\ chats <= chats'
    BY TouchesStep, TypedStep, DeskNext DEF Touches, Typed
  <2>. QED
    BY <1>1, <2>1 DEF Begun
<1>2. ASSUME NEW w \in DOMAIN watch, id = Recheck(w), watch[w].started = 1
      PROVE  Begun(id)'
  <2>1. w \in DOMAIN watch' /\ watch'[w].started = 1
    <3>1. CASE d = "chat"
      BY <1>2, <3>1, ChatRows
    <3>2. CASE d = "monitor" /\ ~Doing(w)
      BY <1>2, <3>2, MonitorRows
    <3>3. CASE d = "monitor" /\ Doing(w)
      <4>1. watch[w] \in Rows /\ w # 0 /\ Idle.w = 0
        BY DEF Typed, Idle
      <4>2. ~At("monitor", "idle") /\ monitor.pc \notin Ending /\ w = monitor.w
        BY <1>2, <3>3, <4>1 DEF RecheckInv, InHand, Doing, Typed, monitor, At, Desks
      <4>3. CASE UNCHANGED watch
        BY <1>2, <4>3
      <4>4. CASE CloseWatch \/ ClaimTrigger \/ Announce \/ Complete \/ Report
        BY <1>2, <4>1, <4>2, <4>4 DEF CloseWatch, ClaimTrigger, Announce, Complete, Report, EndWatch,
             Announced, Completed, Reported, monitor, Rows
      <4>6. CASE FailingWrite
        BY <1>2, <4>1, <4>2, <4>6 DEF FailingWrite, CloseFails, ClaimTriggerFails, AnnounceFails, StartFails,
             CompleteFails, ReportFails, NeverRechecked, Excepted, EndWatch, Announced, Completed,
             Reported, At, Ending, monitor, Rows
      <4>5. UNCHANGED watch \/ CloseWatch \/ ClaimTrigger \/ Announce \/ Complete \/ Report \/ FailingWrite
        BY <3>3, <4>2 DEF DeskStep, MonitorStep, AnalysisStep, FindExpired, FindTime, ClaimCandle, Evaluate,
             EvaluateFails, Start, Fails, FirstAccount, TakeSnapshot, MarketClosed, Answer, SecondAccount,
             Judge, CheckCap, Track, Create, Save, SaveFails, tables, At, monitor, Ending, Typed
      <4>. QED
        BY <4>3, <4>4, <4>5, <4>6
    <3>. QED
      BY <3>1, <3>2, <3>3 DEF Desks
  <2>. QED
    BY <1>2, <2>1 DEF Begun, Recheck
<1>. QED
  BY <1>1, <1>2 DEF Begun

\* What a desk stores is begun.
LEMMA BegunHere ==
  ASSUME Typed, RecheckInv, NEW d \in Desks, desk[d].pc \in {"saving"} \cup Analysing
  PROVE  Begun(Id(d))
<1>1. CASE d = "monitor"
  BY <1>1 DEF RecheckInv, InHand, Typed, At, monitor, Begun, Id, Recheck, Analysing, Answered
<1>2. CASE d = "chat"
  <2>1. chats \in 1..chats
    BY <1>2 DEF Typed, At, Analysing, Answered, Desks
  <2>. QED
    BY <1>2, <2>1 DEF Begun, Id
<1>. QED
  BY <1>1, <1>2 DEF Desks

LEMMA KnownStep ==
  ASSUME Typed, RecheckInv, NEW d \in Desks, DeskStep(d)
  PROVE  Known'
<1>0. Touches(d)
  BY TouchesStep
<1>1. ASSUME NEW id, Begun(id) PROVE Begun(id)'
  BY <1>1, BegunStep
<1>2. ASSUME NEW x \in saved' PROVE Begun(x[1])'
  <2>1. Begun(x[1])
    BY <1>0, BegunHere DEF Touches, RecheckInv, Known, Analysing
  <2>. QED
    BY <1>1, <2>1
<1>3. ASSUME NEW x \in tracked' PROVE Begun(x.id)'
  <2>1. Begun(x.id)
    BY <1>0, BegunHere DEF Touches, RecheckInv, Known, Analysing, Answered
  <2>. QED
    BY <1>1, <2>1
<1>. QED
  BY <1>2, <1>3 DEF Known

\* The desks' analyses are not the same.
LEMMA Apart ==
  ASSUME NEW d \in Desks, NEW e \in Desks \ {d}
  PROVE  Id(d) # Id(e)
  BY DEF Id, Desks

LEMMA GoingStep ==
  ASSUME Typed, RecheckInv, NEW d \in Desks, DeskStep(d), NEW e \in Desks
  PROVE  Going(e)'
<1>0. /\ Touches(d) /\ Going(d) /\ Going(e) /\ Known
      /\ desk \in [Desks -> Threads] /\ desk[d] \in Threads /\ chats \in Nat
  BY TouchesStep DEF RecheckInv, Typed
<1>1. CASE e # d
  <2>1. Id(e)' = Id(e) /\ Id(e) # Id(d) /\ desk'[e] = desk[e]
    BY <1>0, <1>1, Apart DEF Touches
  <2>2. Followed(Id(e))' => Followed(Id(e))
    BY <1>0, <2>1 DEF Touches, Followed
  <2>3. Stored(Id(e))' => Stored(Id(e))
    BY <1>0, <2>1 DEF Touches, Stored
  <2>. QED
    BY <1>0, <2>1, <2>2, <2>3 DEF Going
<1>. SUFFICES Going(d)'
  BY <1>1
<1>. DEFINE Busy == {"saving"} \cup Analysing
<1>2. ASSUME desk'[d].pc \notin Busy PROVE Going(d)'
  BY <1>2 DEF Going, Analysing, Answered
<1>r. ASSUME NEW status, Result(d, status) PROVE Going(d)'
  <2>1. desk'[d].pc \in {"idle", "answered"}
    BY <1>0, <1>r DEF Result, Idle
  <2>. QED
    BY <1>2, <2>1 DEF Analysing, Answered
<1>s. ASSUME NEW status, Store(d, status), UNCHANGED <<saved, chats>>, ~Stored(Id(d)),
             (\E x \in tracked' : x.id = Id(d)) => status = "TRADE"
      PROVE  Going(d)'
  <2>1. desk'[d].pc = "saving" /\ desk'[d].w = desk[d].w /\ desk'[d].status = status
    BY <1>0, <1>s DEF Store, Idle
  <2>2. Id(d)' = Id(d)
    BY <1>s, <2>1 DEF Id, Desks
  <2>. QED
    BY <1>s, <2>1, <2>2 DEF Going, Stored, Followed, Analysing, Answered
<1>g. ASSUME desk[d].pc \in Analysing, UNCHANGED <<saved, tracked, chats>>, desk'[d].w = desk[d].w,
             desk'[d].pc \in Analysing,
             desk'[d].pc \in {"capping", "tracking"} => desk'[d].status = "TRADE"
      PROVE  Going(d)'
  <2>1. Id(d)' = Id(d)
    BY <1>g DEF Id, Desks
  <2>. QED
    BY <1>0, <1>g, <2>1 DEF Going, Stored, Followed, Analysing, Answered
<1>o. ASSUME NEW pc, Go(d, pc) PROVE desk'[d].w = desk[d].w /\ desk'[d].pc = pc /\ desk'[d].status = desk[d].status
  BY <1>0, <1>o DEF Go, Threads
<1>3. CASE d = "monitor" /\ MonitorStep /\ ~Start
  <2>1. desk'[d].pc \notin Busy
    <3>. USE <1>0 DEF Analysing, Answered
    <3>1. ASSUME NEW w, NEW ending, Tell(w, ending) PROVE desk'["monitor"].pc \notin Busy
      BY <1>3, <3>1 DEF Tell, Threads
    <3>2. ASSUME Leave("monitor") PROVE desk'["monitor"].pc \notin Busy
      BY <1>3, <3>2 DEF Leave, Idle
    <3>3. ASSUME NEW pc \in Ending \cup Ended, Go("monitor", pc) PROVE desk'["monitor"].pc \notin Busy
      BY <1>3, <1>o, <3>3 DEF Ending, Ended
    <3>4. ASSUME NEW w \in DOMAIN watch, ClaimCandle(w) PROVE desk'["monitor"].pc \notin Busy
      BY <1>3, <3>4 DEF ClaimCandle, Threads
    <3>5. ASSUME FailingWrite PROVE desk'["monitor"].pc \notin Busy
      BY <1>3, <3>2, <3>5, FailingWriteIs DEF Result, Idle
    <3>. QED
      BY <1>3, <3>1, <3>2, <3>3, <3>4, <3>5
         DEF MonitorStep, FindExpired, FindTime, Evaluate, EvaluateFails, CloseWatch, ClaimTrigger,
             Announce, Complete, Report, Ending, Ended
  <2>. QED
    BY <1>2, <2>1
<1>4. CASE d = "monitor" /\ Start
  <2>1. /\ desk'[d].pc = "account" /\ desk'[d].w = desk[d].w /\ UNCHANGED <<saved, tracked>>
        /\ desk[d].pc = "starting"
    BY <1>0, <1>4 DEF Start, At, Threads
  <2>2. watch[monitor.w].started = 0
    BY <1>4, <2>1 DEF RecheckInv, InHand, At, monitor, Ending
  <2>3. ~Begun(Recheck(monitor.w))
    BY <2>2 DEF Begun, Recheck
  <2>4. ~Stored(Recheck(monitor.w)) /\ ~Followed(Recheck(monitor.w))
    BY <1>0, <2>3 DEF Known, Stored, Followed
  <2>. QED
    BY <1>4, <2>1, <2>4 DEF Going, Stored, Followed, Id, Recheck, monitor, Analysing, Answered
<1>5. CASE d = "chat" /\ Command
  <2>1. /\ desk'[d].pc = "account" /\ UNCHANGED <<saved, tracked>> /\ chats' = chats + 1
    BY <1>0, <1>5, <1>o DEF Command, tables
  <2>2. ~Begun(<<"initial", chats + 1>>)
    BY <1>0 DEF Begun, Recheck
  <2>3. ~Stored(<<"initial", chats + 1>>) /\ ~Followed(<<"initial", chats + 1>>)
    BY <1>0, <2>2 DEF Known, Stored, Followed
  <2>. QED
    BY <1>5, <2>1, <2>3 DEF Going, Stored, Followed, Id, Analysing, Answered
<1>6. CASE Fails(d) \/ MarketClosed(d) \/ Save(d) \/ SaveFails(d)
  BY <1>6, <1>r DEF Fails, MarketClosed, Save, SaveFails
<1>7. CASE FirstAccount(d)
  <2>1. Go(d, "snapshot") \/ Result(d, "NO_TRADE")
    BY <1>7 DEF FirstAccount
  <2>2. CASE Go(d, "snapshot")
    <3>1. desk'[d].w = desk[d].w /\ desk'[d].pc = "snapshot"
      BY <1>o, <2>2
    <3>. QED
      BY <1>7, <1>g, <3>1 DEF FirstAccount, At, bounds, Analysing
  <2>. QED
    BY <1>r, <2>1, <2>2
<1>8. CASE TakeSnapshot(d)
  <2>1. (\E status : Result(d, status)) \/ desk' = [desk EXCEPT ![d].pc = "asking", ![d].at = clock]
    BY <1>8 DEF TakeSnapshot
  <2>2. CASE desk' = [desk EXCEPT ![d].pc = "asking", ![d].at = clock]
    <3>1. desk'[d].pc = "asking" /\ desk'[d].w = desk[d].w
      BY <1>0, <2>2 DEF Threads
    <3>. QED
      BY <1>8, <1>g, <3>1 DEF TakeSnapshot, At, bounds, tables, Analysing, Answered
  <2>. QED
    BY <1>r, <2>1, <2>2
<1>9. CASE Answer(d)
  <2>1. PICK a \in Answers : desk' = [desk EXCEPT ![d].pc = "parsed", ![d].answer = a, ![d].status = ParsedStatus(a)]
    BY <1>9 DEF Answer
  <2>2. desk'[d].pc = "parsed" /\ desk'[d].w = desk[d].w
    BY <1>0, <2>1 DEF Threads
  <2>. QED
    BY <1>9, <1>g, <2>2 DEF Answer, At, bounds, tables, Analysing, Answered
<1>10. CASE SecondAccount(d) \/ CheckCap(d) \/ Judge(d)
  <2>1. UNCHANGED <<saved, tracked, chats>> /\ desk[d].pc \in Analysing
    BY <1>10 DEF SecondAccount, CheckCap, Judge, At, bounds, tables, Analysing, Answered
  <2>2. ~Stored(Id(d)) /\ ~Followed(Id(d))
    BY <1>0, <2>1 DEF Going
  <2>3. ASSUME NEW status, Store(d, status) PROVE Going(d)'
    BY <1>s, <2>1, <2>2, <2>3 DEF Followed
  <2>4. ASSUME NEW pc \in Analysing, Go(d, pc), pc \in {"capping", "tracking"} => desk[d].status = "TRADE"
        PROVE  Going(d)'
    BY <1>g, <1>o, <2>1, <2>4
  <2>5. \/ \E status : Store(d, status)
        \/ Go(d, "judging") \/ Go(d, "creating")
        \/ desk[d].status = "TRADE" /\ (Go(d, "capping") \/ Go(d, "tracking"))
    BY <1>0, <1>10 DEF SecondAccount, CheckCap, Judge, Reject, At, Going
  <2>. QED
    BY <2>3, <2>4, <2>5 DEF Analysing, Answered
<1>11. CASE Track(d)
  BY <1>0, <1>11, <1>s DEF Track, At, Going, bounds, Analysing, Answered
<1>12. CASE Create(d)
  <2>1. ~Stored(Id(d)) /\ ~Followed(Id(d)) /\ UNCHANGED <<saved, tracked, chats>>
    BY <1>0, <1>12 DEF Create, Going, At, Analysing, Answered, bounds
  <2>. QED
    BY <1>12, <1>r, <1>s, <2>1 DEF Create, Followed
<1>. QED
  BY <1>3, <1>4, <1>5, <1>6, <1>7, <1>8, <1>9, <1>10, <1>11, <1>12
     DEF DeskStep, AnalysisStep, MonitorStep

\* What is tracked keeps its analysis.
LEMMA TrackedStep ==
  ASSUME Typed, RecheckInv, NEW d \in Desks, DeskStep(d)
  PROVE  TrackedKept'
<1>0. Touches(d) /\ TrackedKept /\ Going(d) /\ desk \in [Desks -> Threads]
  BY TouchesStep DEF RecheckInv, Typed
<1>1. ASSUME NEW x \in tracked, Kept(x.id, "TRADE") \/ x.id \in cut
      PROVE  Kept(x.id, "TRADE")' \/ x.id \in cut'
  BY <1>0, <1>1 DEF Touches, Kept
<1>2. ASSUME NEW x \in tracked, At(d, "saving"), Id(d) = x.id
      PROVE  Kept(x.id, "TRADE")' \/ x.id \in cut'
  <2>1. Save(d) \/ SaveFails(d) \/ Fails(d)
    BY <1>2, FailingWriteIs
     DEF DeskStep, AnalysisStep, MonitorStep, At, Command, FindExpired, FindTime, ClaimCandle, Evaluate,
         monitor, Ending, Ended,
         EvaluateFails, CloseWatch, ClaimTrigger, Announce, Start, Complete, Report,
         FirstAccount, TakeSnapshot, MarketClosed, Answer, SecondAccount, Judge, CheckCap, Track, Create
  <2>2. CASE Save(d)
    <3>1. desk[d].status = "TRADE"
      BY <1>0, <1>2 DEF Going, At, Followed
    <3>. QED
      BY <1>2, <2>2, <3>1 DEF Save, Kept
  <2>3. CASE SaveFails(d) \/ Fails(d)
    BY <1>2, <2>3 DEF SaveFails, Fails
  <2>. QED
    BY <2>1, <2>2, <2>3
<1>3. ASSUME NEW x \in tracked, NEW e \in Desks \ {d}, At(e, "saving"), Id(e) = x.id
      PROVE  At(e, "saving")' /\ Id(e)' = x.id
  BY <1>0, <1>3 DEF Touches, At
<1>4. ASSUME NEW x \in tracked' \ tracked
      PROVE  At(d, "saving")' /\ Id(d)' = x.id
  <2>1. x.id = Id(d) /\ At(d, "tracking")
    BY <1>0, <1>4 DEF Touches, At
  <2>2. Track(d)
    BY <1>4, <2>1, FailingWriteIs
     DEF DeskStep, AnalysisStep, MonitorStep, At, Command, FindExpired, FindTime, ClaimCandle, Evaluate,
         SaveFails, monitor, Ending, Ended,
         EvaluateFails, CloseWatch, ClaimTrigger, Announce, Start, Complete, Report, tables,
         FirstAccount, TakeSnapshot, MarketClosed, Answer, SecondAccount, Judge, CheckCap, Create, Save, Fails
  <2>3. desk'[d].pc = "saving" /\ desk'[d].w = desk[d].w /\ chats' = chats
    BY <1>0, <2>2 DEF Track, Store, Idle, bounds
  <2>. QED
    BY <2>1, <2>3 DEF At, Id, Desks
<1>. QED
  BY <1>0, <1>1, <1>2, <1>3, <1>4 DEF TrackedKept

\* The rows that are not in the monitor's hand.
LEMMA BehindStep ==
  ASSUME Typed, RecheckInv, NEW d \in Desks, DeskStep(d), NEW v \in DOMAIN watch',
         d = "chat" \/ ~Doing(v)
  PROVE  Behind(v)'
<1>0. /\ Touches(d) /\ Id("monitor") = Recheck(monitor.w)
      /\ \A w \in DOMAIN watch : Behind(w)
  BY TouchesStep DEF RecheckInv, Id, Recheck, monitor
<1>1. Recheck(v) # Id(d)
  BY DEF Recheck, Id, Doing, Desks
<1>2. /\ Stored(Recheck(v))' <=> Stored(Recheck(v))
      /\ Followed(Recheck(v))' <=> Followed(Recheck(v))
      /\ \A status : Kept(Recheck(v), status) => Kept(Recheck(v), status)'
      /\ \A status : Agrees(Recheck(v), status) => Agrees(Recheck(v), status)'
      /\ Recheck(v) \in cut => Recheck(v) \in cut'
  BY <1>0, <1>1 DEF Touches, Stored, Followed, Kept, Agrees
<1>3. CASE d = "chat"
  <2>1. monitor' = monitor
    BY <1>0, <1>3 DEF Touches, monitor, Desks
  <2>2. CASE v \in DOMAIN watch
    <3>1. /\ watch'[v].started = watch[v].started /\ watch'[v].result = watch[v].result
          /\ watch'[v].note = watch[v].note
          /\ \/ watch'[v].status = watch[v].status
             \/ watch[v].status = "ACTIVE" /\ watch'[v].status = "INVALIDATED"
      BY <1>3, <2>2, ChatRows
    <3>. QED
      BY <1>0, <1>2, <2>1, <2>2, <3>1 DEF Behind, Doing, monitor, Recheck
  <2>3. CASE v \notin DOMAIN watch
    <3>1. /\ watch'[v].status = "ACTIVE" /\ watch'[v].started = 0
          /\ watch'[v].result = "none" /\ watch'[v].note = "none"
      BY <1>3, <2>3, ChatRows
    <3>. QED
      BY <3>1 DEF Behind
  <2>. QED
    BY <2>2, <2>3
<1>4. CASE d = "monitor"
  <2>1. v \in DOMAIN watch
    BY <1>4, MonitorRows
  <2>2. /\ watch'[v].status = watch[v].status /\ watch'[v].started = watch[v].started
        /\ watch'[v].result = watch[v].result /\ watch'[v].note = watch[v].note
    BY <1>4, <2>1, MonitorRows
  <2>. QED
    BY <1>0, <1>2, <1>4, <2>1, <2>2 DEF Behind, Doing, Recheck
<1>. QED
  BY <1>3, <1>4 DEF Desks

\* The row that is, when the chat takes a step.
LEMMA HandKept ==
  ASSUME Typed, RecheckInv, DeskStep("chat"), ~At("monitor", "idle")'
  PROVE  InHand'
<1>0. Touches("chat") /\ InHand /\ monitor' = monitor /\ monitor.w \in DOMAIN watch
  <2>1. Touches("chat") /\ monitor' = monitor
    BY TouchesStep DEF Touches, monitor, Desks
  <2>. QED
    BY <2>1 DEF RecheckInv, At, Typed, monitor
<1>. PICK w : w = monitor.w
  OBVIOUS
<1>1. Recheck(w) # Id("chat")
  BY DEF Recheck, Id
<1>2. /\ Stored(Recheck(w))' <=> Stored(Recheck(w))
      /\ Followed(Recheck(w))' <=> Followed(Recheck(w))
      /\ \A status : Kept(Recheck(w), status) => Kept(Recheck(w), status)'
      /\ \A status : Agrees(Recheck(w), status) => Agrees(Recheck(w), status)'
      /\ Recheck(w) \in cut => Recheck(w) \in cut'
  BY <1>0, <1>1 DEF Touches, Stored, Followed, Kept, Agrees
<1>3. \A status : Explains(w, status) => Explains(w, status)'
  BY <1>2 DEF Explains, Recheck
<1>4. /\ watch'[w].started = watch[w].started /\ watch'[w].result = watch[w].result
      /\ watch'[w].note = watch[w].note
      /\ \/ watch'[w].status = watch[w].status
         \/ watch[w].status = "ACTIVE" /\ watch'[w].status = "INVALIDATED"
  BY <1>0, ChatRows
<1>. QED
  BY <1>0, <1>3, <1>4 DEF InHand, Endings

\* And when the monitor takes one.
LEMMA HandStep ==
  ASSUME Typed, RecheckInv, DeskStep("monitor")
  PROVE  /\ ~At("monitor", "idle")' => InHand'
         /\ \A w \in DOMAIN watch' : Doing(w) => Behind(w)'
<1>. PICK w : w = monitor.w
  OBVIOUS
<1>. DEFINE Fine == (~At("monitor", "idle")' => InHand') /\ Behind(w)'
            r == watch[w]
            id == Recheck(w)
<1>0. /\ Touches("monitor") /\ desk \in [Desks -> Threads] /\ "monitor" \in Desks
      /\ desk["monitor"] \in Threads /\ Id("monitor") = Recheck(monitor.w)
      /\ monitor.pc # "creating" /\ Idle.w = 0 /\ Idle.pc = "idle"
      /\ (At("monitor", "idle") => monitor = Idle)
      /\ \A v \in DOMAIN watch : watch[v] \in Rows /\ v # 0
      /\ (~At("monitor", "idle") => InHand /\ w \in DOMAIN watch /\ Behind(w))
      /\ Going("monitor") /\ DOMAIN watch' = DOMAIN watch
  BY TouchesStep, MonitorRows DEF RecheckInv, Typed, Idle, Id, Recheck, monitor, Desks
<1>. USE DEF monitor
<1>1. ASSUME NEW v \in DOMAIN watch, FindExpired(v) \/ FindTime(v) \/ ClaimCandle(v)
      PROVE  ~At("monitor", "idle")' => InHand'
  <2>1. desk'["monitor"].w = v /\ desk'["monitor"].pc \in Weighing /\ Active(v)
    <3>1. ASSUME NEW ending, Tell(v, ending) PROVE desk'["monitor"].w = v /\ desk'["monitor"].pc \in Weighing
      BY <1>0, <3>1 DEF Tell, Threads, Weighing
    <3>2. ASSUME ClaimCandle(v) PROVE desk'["monitor"].w = v /\ desk'["monitor"].pc \in Weighing
      BY <1>0, <3>2 DEF ClaimCandle, Threads, Weighing
    <3>. QED
      BY <1>1, <3>1, <3>2 DEF FindExpired, FindTime, ClaimCandle
  <2>2. watch'[v].status = "ACTIVE"
    BY <1>0, <1>1, <2>1 DEF FindExpired, FindTime, ClaimCandle, Active, tables, Rows
  <2>. QED
    BY <2>1, <2>2 DEF InHand, Weighing, Ending, Ended, Analysing, Answered
<1>. SUFFICES ASSUME ~At("monitor", "idle") PROVE Fine
  <2>1. ASSUME At("monitor", "idle") PROVE \E v \in DOMAIN watch : FindExpired(v) \/ FindTime(v) \/ ClaimCandle(v)
    BY <2>1, FailingWriteIs
     DEF DeskStep, MonitorStep, AnalysisStep, At, Evaluate, EvaluateFails, CloseWatch, ClaimTrigger,
         Ending, Ended, SaveFails, Announce, Start, Complete, Report, Fails, FirstAccount, TakeSnapshot, MarketClosed, Answer,
         SecondAccount, Judge, CheckCap, Track, Create, Save
  <2>2. At("monitor", "idle") => \A v \in DOMAIN watch' : ~Doing(v)
    BY <1>0 DEF Doing
  <2>. QED
    BY <1>1, <2>1, <2>2 DEF Doing
<1>2. ASSUME Leave("monitor"), UNCHANGED <<watch, saved, tracked>>, cut \subseteq cut', monitor.pc \in Weighing
      PROVE  Fine
  <2>1. At("monitor", "idle")' /\ r.started = 0
    BY <1>0, <1>2 DEF Leave, At, InHand, Weighing, Behind
  <2>. QED
    BY <1>0, <1>2, <2>1 DEF Behind, InHand, Kept, Stored, Followed, Agrees, At, Weighing
<1>3. CASE Evaluate
  <2>1. monitor.pc \in Weighing /\ UNCHANGED <<watch, saved, tracked, cut>>
    BY <1>3 DEF Evaluate, At, Weighing, tables, history
  <2>2. CASE Leave("monitor")
    BY <1>2, <2>1, <2>2
  <2>3. ASSUME NEW ending, Tell(monitor.w, ending) PROVE Fine
    <3>1. desk'["monitor"].w = monitor.w /\ desk'["monitor"].pc = "told"
      BY <1>0, <2>3 DEF Tell, Threads
    <3>2. InHand'
      BY <1>0, <2>1, <3>1 DEF InHand, At, Weighing, Ending, Ended, Analysing, Answered
    <3>. QED
      BY <1>0, <2>1, <3>1, <3>2 DEF Behind, Doing, Kept, Stored, Followed, Agrees, At, Weighing
  <2>. QED
    BY <1>3, <2>2, <2>3 DEF Evaluate
<1>4. CASE EvaluateFails
  BY <1>0, <1>2, <1>4 DEF EvaluateFails, Touches, At, Weighing, tables
\* The row is closed in one update of an open row.
<1>5. ASSUME NEW status \in Endings, monitor.pc = "told", Active(w), EndWatch(w, status),
             \/ Go("monitor", "announcing")
             \/ Leave("monitor") /\ (status = "TRIGGERED" => Id("monitor") \in cut'),
             UNCHANGED <<saved, tracked>>, cut \subseteq cut'
      PROVE  Fine
  <2>1. r.status = "ACTIVE" /\ r.started = 0 /\ w \in DOMAIN watch
    BY <1>0, <1>5 DEF Active, Behind, At
  <2>2. /\ watch'[w].status = status /\ watch'[w].started = 0 /\ watch'[w].result = r.result
        /\ watch'[w].note = r.note
    BY <1>0, <1>5, <2>1 DEF EndWatch, Rows
  <2>3. CASE Go("monitor", "announcing")
    <3>1. desk'["monitor"].w = monitor.w /\ desk'["monitor"].pc = "announcing"
      BY <1>0, <2>3 DEF Go, Threads
    <3>2. InHand'
      BY <2>2, <3>1 DEF InHand, Weighing, Ending, Ended, Analysing, Answered
    <3>. QED
      BY <1>0, <1>5, <2>1, <2>2, <3>1, <3>2 DEF Behind, Doing, Kept, Stored, Followed, Agrees, At
  <2>4. CASE Leave("monitor") /\ (status = "TRIGGERED" => Id("monitor") \in cut')
    <3>1. At("monitor", "idle")'
      BY <1>0, <2>4 DEF Leave, At
    <3>. QED
      BY <1>0, <1>5, <2>1, <2>2, <2>4, <3>1 DEF Behind, Kept, Stored, Followed, Agrees
  <2>. QED
    BY <1>5, <2>3, <2>4
<1>6. CASE CloseWatch
  <2>1. monitor.pc = "told" /\ monitor.status \in Endings /\ UNCHANGED <<saved, tracked, cut>>
    BY <1>6 DEF CloseWatch, At, Typed, history
  <2>2. CASE Active(w)
    BY <1>5, <1>6, <2>1, <2>2 DEF CloseWatch
  <2>3. CASE ~Active(w)
    BY <1>2, <1>6, <2>1, <2>3 DEF CloseWatch, Weighing
  <2>. QED
    BY <2>2, <2>3
<1>6f. CASE CloseFails
  <2>1. /\ monitor.pc = "told" /\ monitor.status \in Endings /\ monitor.status # "TRIGGERED"
        /\ UNCHANGED <<saved, tracked, cut>> /\ Leave("monitor")
    BY <1>6f DEF CloseFails, At, Typed
  <2>2. CASE UNCHANGED watch
    BY <1>2, <2>1, <2>2 DEF Weighing
  <2>3. CASE Active(w) /\ EndWatch(w, monitor.status)
    BY <1>5, <2>1, <2>3
  <2>. QED
    BY <1>6f, <2>2, <2>3 DEF CloseFails
<1>7. CASE ClaimTrigger
  <2>1. monitor.pc = "told" /\ "TRIGGERED" \in Endings /\ UNCHANGED <<saved, tracked, cut>>
    BY <1>7 DEF ClaimTrigger, At, Endings, history
  <2>2. CASE Active(w) /\ clock < watch[w].scenario.expires
    BY <1>5, <1>7, <2>1, <2>2 DEF ClaimTrigger
  <2>3. CASE ~(Active(w) /\ clock < watch[w].scenario.expires)
    BY <1>2, <1>7, <2>1, <2>3 DEF ClaimTrigger, Weighing
  <2>. QED
    BY <2>2, <2>3
<1>7f. CASE ClaimTriggerFails
  <2>1. monitor.pc = "told" /\ "TRIGGERED" \in Endings /\ UNCHANGED <<saved, tracked>> /\ Leave("monitor")
    BY <1>7f DEF ClaimTriggerFails, At, Endings
  <2>2. CASE UNCHANGED <<watch, cut>>
    BY <1>2, <2>1, <2>2 DEF Weighing
  <2>3. CASE Active(w) /\ EndWatch(w, "TRIGGERED") /\ cut' = cut \cup {Id("monitor")}
    BY <1>5, <2>1, <2>3
  <2>. QED
    BY <1>7f, <2>2, <2>3 DEF ClaimTriggerFails
<1>8. CASE Announce
  <2>0. monitor.pc = "announcing" /\ UNCHANGED <<saved, tracked, cut>> /\ w \in DOMAIN watch
    BY <1>0, <1>8 DEF Announce, At, history
  <2>1. /\ watch'[w].status = r.status /\ watch'[w].started = r.started /\ watch'[w].result = r.result
        /\ watch'[w].note = "ending" /\ r.status \in Endings /\ r.started = 0 /\ r.result = "none"
    BY <1>0, <1>8, <2>0 DEF Announce, Announced, Rows, InHand, Ending, At, Behind
  <2>2. CASE r.status = "TRIGGERED"
    <3>1. desk'["monitor"].w = monitor.w /\ desk'["monitor"].pc = "starting"
      BY <1>0, <1>8, <2>2 DEF Announce, Go, Threads
    <3>2. InHand'
      BY <2>1, <2>2, <3>1 DEF InHand, Weighing, Ending, Ended, Analysing, Answered
    <3>. QED
      BY <1>0, <2>0, <2>1, <2>2, <3>1, <3>2 DEF Behind, Doing, Kept, Stored, Followed, Agrees, At
  <2>3. CASE r.status # "TRIGGERED"
    <3>1. At("monitor", "idle")'
      BY <1>0, <1>8, <2>3 DEF Announce, Leave, At
    <3>2. Behind(w)'
      BY <2>1, <2>3 DEF Behind
    <3>. QED
      BY <3>1, <3>2
  <2>. QED
    BY <2>2, <2>3
\* The desk is left before the recheck, which will not be made.
<1>8f. CASE AnnounceFails \/ StartFails
  <2>1. /\ UNCHANGED <<saved, tracked>> /\ cut' = cut \cup {id} /\ Leave("monitor")
        /\ w \in DOMAIN watch /\ monitor.pc \in Ending
    BY <1>0, <1>8f DEF AnnounceFails, StartFails, NeverRechecked, At, Ending
  <2>2. /\ r.status \in Endings /\ r.started = 0 /\ r.result = "none" /\ r.note \in {"none", "ending"}
        /\ StartFails => r.status = "TRIGGERED" /\ r.note = "ending"
    BY <1>0, <2>1 DEF InHand, Behind, Ending, StartFails, At
  <2>3. /\ watch'[w].status = r.status /\ watch'[w].result = "none"
        /\ \/ watch'[w].started = 0 /\ watch'[w].note \in {"none", "ending"}
           \/ watch'[w].started = 1 /\ watch'[w].note = "ending" /\ r.status = "TRIGGERED"
    BY <1>0, <1>8f, <2>1, <2>2 DEF AnnounceFails, StartFails, NeverRechecked, Announced, Started, Rows
  <2>4. At("monitor", "idle")'
    BY <1>0, <2>1 DEF Leave, At
  <2>. QED
    BY <2>1, <2>3, <2>4 DEF Behind
<1>9. CASE Start
  <2>0. monitor.pc = "starting" /\ UNCHANGED <<saved, tracked, cut>> /\ w \in DOMAIN watch
    BY <1>0, <1>9 DEF Start, At, history
  <2>1. r.status = "TRIGGERED" /\ r.note = "ending" /\ r.started = 0 /\ r.result = "none"
    BY <1>0, <2>0 DEF InHand, Ending, At, Behind
  <2>2. /\ watch'[w].status = "TRIGGERED" /\ watch'[w].started = 1 /\ watch'[w].result = "none"
        /\ watch'[w].note = "ending"
    BY <1>0, <1>9, <2>0, <2>1 DEF Start, Started, Rows
  <2>3. desk'["monitor"].w = monitor.w /\ desk'["monitor"].pc = "account"
    BY <1>0, <1>9 DEF Start, Threads
  <2>4. InHand'
    BY <2>2, <2>3 DEF InHand, Weighing, Ending, Ended, Analysing, Answered
  <2>. QED
    BY <1>0, <2>0, <2>1, <2>2, <2>3, <2>4 DEF Behind, Doing, Kept, Stored, Followed, Agrees, At
\* The analysis leaves the row as it is.
<1>10. ASSUME monitor.pc \in {"saving"} \cup Analysing, UNCHANGED watch, desk'["monitor"].w = monitor.w,
              \/ desk'["monitor"].pc \in {"saving"} \cup Analysing
              \/ desk'["monitor"].pc = "answered" /\ Explains(w, desk["monitor"].status)'
       PROVE  Fine
  <2>0. ~At("monitor", "idle")
    BY <1>10 DEF At, Analysing, Answered
  <2>1. r.status = "TRIGGERED" /\ r.note = "ending" /\ r.started = 1 /\ r.result = "none"
    BY <1>0, <1>10, <2>0 DEF InHand
  <2>2. InHand'
    BY <1>10, <2>1
     DEF InHand, Weighing, Ending, Ended, Analysing, Answered, Explains, Recheck, Kept, Stored, Followed, Agrees
  <2>. QED
    BY <1>10, <2>1, <2>2 DEF Behind, Doing
<1>11. ASSUME NEW status, monitor.pc \in {"saving"} \cup Analysing, UNCHANGED watch, Result("monitor", status),
              \A v : v = w => (status \in {"TRADE", "WATCH"} => Kept(Recheck(v), status)'),
              \A v : v = w => (status = "DEFERRED" => ~Stored(Recheck(v))'),
              \A v : v = w => (status = "ERROR" => Recheck(v) \in cut'),
              \A v : v = w => (status # "ERROR" => Agrees(Recheck(v), status)'),
              \A v : v = w => (Followed(Recheck(v))' => status \in {"TRADE", "ERROR"})
       PROVE  Fine
  <2>1. desk'["monitor"].w = monitor.w /\ desk'["monitor"].pc = "answered" /\ desk'["monitor"].status = status
    BY <1>0, <1>11 DEF Result, Idle
  <2>. QED
    BY <1>10, <1>11, <2>1 DEF Explains, Kept, Agrees
<1>12. ASSUME NEW pc \in {"saving"} \cup Analysing, Go("monitor", pc)
       PROVE  desk'["monitor"].w = monitor.w /\ desk'["monitor"].pc = pc
  BY <1>0, <1>12 DEF Go, Threads
<1>13. ASSUME NEW status, Store("monitor", status)
       PROVE  desk'["monitor"].w = monitor.w /\ desk'["monitor"].pc = "saving"
  BY <1>0, <1>13 DEF Store, Idle
<1>s. monitor.pc \in Analysing => ~Followed(Recheck(w)) /\ ~Stored(Recheck(w))
  BY <1>0 DEF Going
<1>14. CASE Fails("monitor")
  <2>1. monitor.pc \in {"saving"} \cup Analysing /\ UNCHANGED watch /\ Recheck(w) \in cut'
    BY <1>0, <1>14 DEF Fails, tables, Analysing, Answered
  <2>. QED
    BY <1>11, <1>14, <2>1 DEF Fails
<1>15. CASE FirstAccount("monitor")
  <2>1. monitor.pc \in Analysing /\ UNCHANGED <<watch, tracked>> /\ (Go("monitor", "snapshot") \/ Result("monitor", "NO_TRADE"))
    BY <1>15 DEF FirstAccount, At, Analysing
  <2>2. CASE Go("monitor", "snapshot")
    BY <1>10, <1>12, <2>1, <2>2 DEF Analysing
  <2>3. CASE Result("monitor", "NO_TRADE")
    BY <1>11, <1>15, <1>s, <2>1, <2>3 DEF FirstAccount, Followed, Stored, Agrees
  <2>. QED
    BY <2>1, <2>2, <2>3
<1>16. CASE TakeSnapshot("monitor")
  <2>1. desk' = [desk EXCEPT !["monitor"].pc = "asking", !["monitor"].at = clock]
    BY <1>16 DEF TakeSnapshot
  <2>2. desk'["monitor"].w = monitor.w /\ desk'["monitor"].pc = "asking"
    BY <1>0, <2>1 DEF Threads
  <2>. QED
    BY <1>10, <1>16, <2>2 DEF TakeSnapshot, tables, At, Analysing
<1>17. CASE MarketClosed("monitor")
  <2>1. monitor.pc \in Analysing /\ UNCHANGED <<watch, tracked, saved>> /\ Result("monitor", "DEFERRED")
    BY <1>17 DEF MarketClosed, At, Analysing
  <2>. QED
    BY <1>11, <1>s, <2>1 DEF Followed, Stored, Agrees
<1>18. CASE Answer("monitor")
  <2>1. PICK a \in Answers : desk' = [desk EXCEPT !["monitor"].pc = "parsed", !["monitor"].answer = a,
                                                  !["monitor"].status = ParsedStatus(a)]
    BY <1>18 DEF Answer
  <2>2. desk'["monitor"].w = monitor.w /\ desk'["monitor"].pc = "parsed"
    BY <1>0, <2>1 DEF Threads
  <2>. QED
    BY <1>10, <1>18, <2>2 DEF Answer, tables, At, Analysing, Answered
<1>19. CASE SecondAccount("monitor") \/ Judge("monitor") \/ CheckCap("monitor") \/ Track("monitor")
  <2>1. monitor.pc \in Analysing /\ UNCHANGED watch
    BY <1>19 DEF SecondAccount, Judge, CheckCap, Track, tables, At, Analysing, Answered
  <2>2. \/ \E pc \in Analysing : Go("monitor", pc)
        \/ \E status : Store("monitor", status)
    <3>1. {"judging", "capping", "creating", "tracking"} \subseteq Analysing
      BY DEF Analysing, Answered
    <3>. QED
      BY <1>19, <3>1 DEF SecondAccount, Judge, CheckCap, Track, Reject
  <2>. QED
    BY <1>10, <1>12, <1>13, <2>1, <2>2
<1>20. CASE Save("monitor")
  <2>1. /\ monitor.pc = "saving" /\ UNCHANGED <<watch, tracked>> /\ Result("monitor", monitor.status)
        /\ monitor.status \in Verdicts /\ saved' = saved \cup {<<Recheck(w), monitor.status>>}
    BY <1>0, <1>20 DEF Save, At, Typed
  <2>2. ~Stored(Recheck(w)) /\ (Followed(Recheck(w)) => monitor.status = "TRADE")
    BY <1>0, <2>1 DEF Going
  <2>3. \A status : status = monitor.status => Agrees(Recheck(w), status)'
    BY <2>1, <2>2 DEF Agrees, Stored
  <2>. QED
    BY <1>11, <2>1, <2>2, <2>3 DEF Verdicts, Kept, Followed, Agrees
<1>20f. CASE SaveFails("monitor")
  <2>1. monitor.pc = "saving" /\ UNCHANGED <<watch, tracked>> /\ Recheck(w) \in cut'
    BY <1>0, <1>20f DEF SaveFails, At
  <2>. QED
    BY <1>11, <1>20f, <2>1 DEF SaveFails
<1>21. CASE Complete
  <2>0. monitor.pc = "answered" /\ UNCHANGED <<saved, tracked, cut>> /\ w \in DOMAIN watch
    BY <1>0, <1>21 DEF Complete, At, history
  <2>1. /\ r.status = "TRIGGERED" /\ r.started = 1 /\ Behind(w)
        /\ Explains(w, monitor.status) /\ monitor.status \in Results
        /\ monitor.status # "ERROR" => r.note = "ending"
    BY <1>0, <2>0 DEF InHand, Ended, Typed, At
  <2>2. /\ watch'[w].status = "TRIGGERED" /\ watch'[w].started = 1 /\ watch'[w].note = r.note
        /\ watch'[w].result = IF monitor.status = "DEFERRED" THEN "WATCH" ELSE monitor.status
    BY <1>0, <1>21, <2>0, <2>1 DEF Complete, Completed, Rows
  <2>3. /\ desk'["monitor"].w = monitor.w /\ desk'["monitor"].pc = "reporting"
        /\ desk'["monitor"].status = monitor.status
    BY <1>0, <1>21 DEF Complete, Go, Threads
  <2>4. InHand'
    BY <2>0, <2>1, <2>2, <2>3
       DEF InHand, Weighing, Ending, Ended, Analysing, Answered, Explains, Kept, Stored, Followed, Agrees
  <2>5. watch'[w].result = "WATCH" \/ (watch'[w].result = monitor.status /\ monitor.status # "DEFERRED")
    BY <2>2
  <2>6. r.note = "suppressed" => ~Stored(id) /\ (watch'[w].result = "WATCH" \/ id \in cut)
    BY <2>1, <2>5 DEF Behind, Explains
  <2>. QED
    BY <2>0, <2>1, <2>2, <2>3, <2>4, <2>6
     DEF Behind, Doing, Explains, Results, Verdicts, Kept, Stored, Followed, Agrees
<1>22. CASE Report
  <2>0. monitor.pc = "reporting" /\ UNCHANGED <<saved, tracked, cut>> /\ w \in DOMAIN watch
    BY <1>0, <1>22 DEF Report, At, history
  <2>1. /\ r.status = "TRIGGERED" /\ r.started = 1
        /\ r.result = IF monitor.status = "DEFERRED" THEN "WATCH" ELSE monitor.status
        /\ Explains(w, monitor.status) /\ monitor.status \in Results
    BY <1>0, <2>0 DEF InHand, Ended, Typed
  <2>2. /\ watch'[w].status = "TRIGGERED" /\ watch'[w].started = 1 /\ watch'[w].result = r.result
        /\ watch'[w].note = IF monitor.status = "DEFERRED" THEN "suppressed" ELSE "result"
    BY <1>0, <1>22, <2>0, <2>1 DEF Report, Reported, Rows
  <2>3. At("monitor", "idle")'
    BY <1>0, <1>22 DEF Report, Leave, At
  <2>4. Behind(w)'
    BY <2>0, <2>1, <2>2 DEF Behind, Explains, Results, Verdicts, Kept, Stored, Followed, Agrees
  <2>. QED
    BY <2>3, <2>4
\* The desk is left, or goes on as ERROR, and the row is written or not.
<1>22f. CASE CompleteFails \/ ReportFails
  <2>1. /\ UNCHANGED <<saved, tracked>> /\ cut' = cut \cup {id} /\ monitor.pc \in Ended /\ w \in DOMAIN watch
        /\ Leave("monitor") \/ Result("monitor", "ERROR")
    BY <1>0, <1>22f DEF CompleteFails, ReportFails, Excepted, At, Ended
  <2>2. /\ r.status = "TRIGGERED" /\ r.started = 1 /\ Explains(w, monitor.status)
        /\ monitor.status \in Results /\ Behind(w)
    BY <1>0, <2>1 DEF InHand, Ended, Typed, At
  <2>3. /\ watch'[w].status = "TRIGGERED" /\ watch'[w].started = 1
        /\ \/ watch'[w].result = r.result
           \/ watch'[w].result = IF monitor.status = "DEFERRED" THEN "WATCH" ELSE monitor.status
        /\ \/ watch'[w].note = r.note
           \/ watch'[w].note = IF monitor.status = "DEFERRED" THEN "suppressed" ELSE "result"
    BY <1>0, <1>22f, <2>1, <2>2 DEF CompleteFails, ReportFails, Excepted, Completed, Reported, Rows
  <2>4. watch'[w].result = "TRADE" => Kept(id, "TRADE")
    BY <2>2, <2>3 DEF Behind, Explains
  <2>5. watch'[w].note = "suppressed" => ~Stored(id)
    BY <2>2, <2>3 DEF Behind, Explains
  <2>6. watch'[w].result # "none" /\ Followed(id) => watch'[w].result \in {"TRADE", "ERROR"}
    BY <2>2, <2>3 DEF Behind, Explains
  <2>7. Behind(w)'
    BY <2>1, <2>2, <2>3, <2>4, <2>5, <2>6 DEF Behind, Kept, Stored, Followed, Agrees
  <2>8. CASE Leave("monitor")
    BY <1>0, <2>7, <2>8 DEF Leave, At
  <2>9. CASE Result("monitor", "ERROR")
    <3>1. desk'["monitor"].w = monitor.w /\ desk'["monitor"].pc = "answered" /\ desk'["monitor"].status = "ERROR"
      BY <1>0, <2>9 DEF Result, Idle
    <3>2. InHand'
      BY <2>1, <2>3, <3>1 DEF InHand, Weighing, Ending, Ended, Analysing, Answered, Explains, Agrees
    <3>. QED
      BY <2>7, <3>2
  <2>. QED
    BY <2>1, <2>8, <2>9
<1>23. ~Create("monitor")
  BY <1>0 DEF Create, At
<1>24. \A v \in DOMAIN watch : ~FindExpired(v) /\ ~FindTime(v) /\ ~ClaimCandle(v)
  BY DEF FindExpired, FindTime, ClaimCandle
<1>. QED
  BY <1>3, <1>4, <1>6, <1>6f, <1>7, <1>7f, <1>8, <1>8f, <1>9, <1>14, <1>15, <1>16, <1>17, <1>18, <1>19,
     <1>20, <1>20f, <1>21, <1>22, <1>22f, <1>23, <1>24
     DEF DeskStep, MonitorStep, FailingWrite, AnalysisStep

LEMMA RecheckStep ==
  ASSUME Typed, RecheckInv, [Next]_vars
  PROVE  RecheckInv'
<1>0. /\ desk \in [Desks -> Threads] /\ {"monitor", "chat"} = Desks /\ Idle.w = 0 /\ Idle.pc = "idle"
      /\ (At("monitor", "idle") => monitor = Idle) /\ \A w \in DOMAIN watch : w # 0
  BY DEF Typed, Desks, Idle, monitor
<1>1. ASSUME NEW d \in Desks, DeskStep(d) PROVE RecheckInv'
  <2>1. Known' /\ TrackedKept' /\ \A e \in Desks : Going(e)'
    BY <1>1, KnownStep, TrackedStep, GoingStep
  <2>2. CASE d = "chat"
    <3>1. ~At("monitor", "idle")' => InHand'
      BY <1>1, <2>2, HandKept
    <3>2. \A w \in DOMAIN watch' : Behind(w)'
      BY <1>1, <2>2, BehindStep
    <3>. QED
      BY <2>1, <3>1, <3>2 DEF RecheckInv
  <2>3. CASE d = "monitor"
    <3>1. /\ ~At("monitor", "idle")' => InHand'
          /\ \A w \in DOMAIN watch' : Doing(w) => Behind(w)'
      BY <1>1, <2>3, HandStep
    <3>2. \A w \in DOMAIN watch' : ~Doing(w) => Behind(w)'
      BY <1>1, <2>3, BehindStep
    <3>. QED
      BY <2>1, <3>1, <3>2 DEF RecheckInv
  <2>. QED
    BY <1>0, <2>2, <2>3
<1>2. CASE UNCHANGED <<watch, tracked, saved, desk, cut, chats>>
  <2>. USE <1>2 DEF RecheckInv
  <2>1. Known' /\ TrackedKept'
    BY DEF Known, Begun, TrackedKept, Kept, At, Id
  <2>2. \A e \in Desks : Going(e)'
    BY DEF Going, Stored, Followed, Id
  <2>3. ~At("monitor", "idle")' => InHand'
    BY DEF InHand, Explains, Kept, Stored, Followed, Agrees, At, monitor
  <2>4. \A w \in DOMAIN watch : Behind(w)'
    BY DEF Behind, Kept, Stored, Followed, Agrees, Doing
  <2>. QED
    BY <2>1, <2>2, <2>3, <2>4
<1>3. CASE Crash
  <2>1. /\ UNCHANGED <<watch, tracked, saved, chats>>
        /\ desk' = [e \in Desks |-> Idle]
        /\ cut' = cut \cup {Id(e) : e \in {x \in Desks : desk[x] # Idle}}
    BY <1>3 DEF Crash, tables
  <2>2. \A e \in Desks : At(e, "idle")'
    BY <1>0, <2>1 DEF At
  <2>3. Known'
    BY <2>1 DEF RecheckInv, Known, Begun
  <2>4. \A e \in Desks : Going(e)'
    BY <2>2 DEF Going, At, Analysing, Answered
  <2>5. TrackedKept'
    <3>1. ASSUME NEW e \in Desks, At(e, "saving") PROVE Id(e) \in cut'
      BY <1>0, <2>1, <3>1 DEF At
    <3>. QED
      BY <2>1, <3>1 DEF RecheckInv, TrackedKept, Kept
  <2>6. ASSUME NEW w \in DOMAIN watch PROVE Behind(w)'
    <3>1. Doing(w) => Recheck(w) \in cut'
      BY <1>0, <2>1 DEF Doing, Id, Recheck
    <3>2. Recheck(w) \in cut => Recheck(w) \in cut'
      BY <2>1
    <3>3. Behind(w)
      BY DEF RecheckInv
    <3>. QED
      BY <2>1, <3>1, <3>2, <3>3 DEF Behind, Kept, Stored, Followed, Agrees, Recheck
  <2>. QED
    BY <1>0, <2>1, <2>2, <2>3, <2>4, <2>5, <2>6 DEF RecheckInv
<1>. QED
  BY <1>1, <1>2, <1>3, Steps DEF Tick, vars, tables, history, bounds
-----------------------------------------------------------------------------
(* The endings.  A candle that was taken for a watch is weighed once, so    *)
(* that what it decides must be done by the thread that has it in hand.     *)

Seen(w, t) == <<w, t>> \in claimed
Candles == \A x \in claimed : x[1] \in DOMAIN watch /\ x[2] \in 1..clock /\ watch[x[1]].made < x[2]

Invalidated(w, t) == ClaimedInvalidates(watch[w].scenario, price[t])
\* No candle of M15 has closed in the life of w.
Early(w, t) ==
  ReadsM15(watch[w].scenario) /\ \A b \in watch[w].made + 1 .. t : b % Length["M15"] # 0
Holding(w, t) == monitor.pc \in Weighing /\ monitor.w = w /\ monitor.at = t

\* What the monitor is told of its watch is so.
Grounds(w, t) ==
  /\ At("monitor", "claimed") => Seen(w, t)
  /\ At("monitor", "told") =>
       \/ monitor.status = "EXPIRED" /\ t = 0
       \/ monitor.status = "TRIGGERED" /\ watch[w].scenario.kind.timed /\ t = 0
       \/ monitor.status = "TRIGGERED" /\ Seen(w, t) /\ TriggerMet(w, t)
       \/ monitor.status = "INVALIDATED" /\ Seen(w, t) /\ Invalidated(w, t)

EndsTriggered(w) ==
  LET r == watch[w]
  IN /\ r.closedAt < r.scenario.expires
     /\ r.scenario.kind.timed \/ \E t \in Taken(w) : t <= r.closedAt /\ TriggerMet(w, t)

Acted(w) ==
  /\ watch[w].status = "TRIGGERED" => EndsTriggered(w)
  /\ watch[w].status = "INVALIDATED" /\ watch[w].by = "monitor" => \E t \in Taken(w) : Invalidated(w, t)
  /\ \A t \in Taken(w) : Invalidated(w, t) /\ ~TriggerMet(w, t) =>
       watch[w].status = "INVALIDATED" \/ <<w, t>> \in excused \/ Early(w, t) \/ Holding(w, t)
  /\ \A t \in Taken(w) : TriggeredBy(w, t) =>
       \/ watch[w].status # "ACTIVE" \/ clock >= watch[w].scenario.expires
       \/ <<w, t>> \in excused \/ Holding(w, t)

EndingInv ==
  /\ Candles
  /\ Grounds(monitor.w, monitor.at)
  /\ \A w \in DOMAIN watch : Acted(w)

LEMMA Divided ==
  ASSUME NEW n \in Nat, NEW d \in Nat, d > 0
  PROVE  n \div d \in Nat /\ n - (n % d) = (n \div d) * d /\ n % d \in Nat /\ n % d < d
  OBVIOUS

LEMMA LastMultiple ==
  ASSUME NEW d \in Nat, d > 0, NEW t \in Nat, NEW b \in Nat, b <= t, b % d = 0
  PROVE  b <= t - (t % d)
<1>. DEFINE p == t \div d
            q == b \div d
            r == t % d
<1>1. /\ p \in Nat /\ q \in Nat /\ r \in Nat /\ r < d
      /\ t - r = p * d /\ b - 0 = q * d
  BY Divided
<1>. HIDE DEF p, q, r
<1>2. ASSUME q > p PROVE FALSE
  <2>1. q = p + 1 + (q - p - 1) /\ q - p - 1 \in Nat
    BY <1>1, <1>2
  <2>2. \A k \in Nat : (p + 1 + k) * d >= p * d + d
    BY <1>1
  <2>. QED
    BY <1>1, <2>1, <2>2
<1>3. p = q + (p - q) /\ p - q \in Nat
  BY <1>1, <1>2
<1>4. \A k \in Nat : (q + k) * d >= q * d
  BY <1>1
<1>5. b <= t - r
  BY <1>1, <1>3, <1>4
<1>. QED
  BY <1>5 DEF r

LEMMA LastClosedIs ==
  ASSUME NEW t \in Nat
  PROVE  /\ LastClosed("M15", t) \in Nat /\ LastClosed("M15", t) <= t
         /\ \A b \in Nat : b <= t /\ b % Length["M15"] = 0 => b <= LastClosed("M15", t)
<1>1. PICK n \in Nat : n = Length["M15"] /\ n > 0
  BY ClaimedBotAssumption DEF Frames
<1>2. t % n \in Nat /\ t - (t % n) = (t \div n) * n /\ t \div n \in Nat
  BY <1>1, Divided
<1>3. \A k \in Nat : k * n \in Nat
  BY <1>1
<1>4. t - (t % n) \in Nat /\ t - (t % n) <= t
  BY <1>2, <1>3
<1>. QED
  BY <1>1, <1>4, LastMultiple DEF LastClosed

\* What a candle meant for a watch does not change.
LEMMA MeansKept ==
  ASSUME Typed, Lasting, NEW w \in DOMAIN watch, NEW t \in 1..clock
  PROVE  /\ TriggerMet(w, t)' <=> TriggerMet(w, t)
         /\ Invalidated(w, t)' <=> Invalidated(w, t)
         /\ Early(w, t)' <=> Early(w, t)
         /\ watch[w].made < t => (TriggeredBy(w, t)' <=> TriggeredBy(w, t))
<1>1. /\ watch'[w].scenario = watch[w].scenario /\ watch'[w].made = watch[w].made
      /\ watch[w].made \in Nat /\ clock \in Nat
      /\ \A b \in 1..clock : price'[b] = price[b]
  <2>1. watch[w] \in Rows /\ clock \in Nat
    BY DEF Typed
  <2>. QED
    BY <2>1 DEF Lasting, Succeeds, Rows
<1>2. \A b \in watch[w].made + 1 .. t : price'[b] = price[b]
  BY <1>1
<1>3. ASSUME watch[w].made < t PROVE TriggeredBy(w, t)' <=> TriggeredBy(w, t)
  <2>1. Bar(w, t)' = Bar(w, t) /\ (Bar(w, t) = 0 \/ price'[Bar(w, t)] = price[Bar(w, t)])
    <3>1. /\ LastClosed("M15", t) \in Nat /\ LastClosed("M15", t) <= t
      BY LastClosedIs
    <3>2. Bar(w, t)' = Bar(w, t) /\ (Bar(w, t) = 0 \/ Bar(w, t) \in 1..clock)
      BY <1>1, <3>1 DEF Bar
    <3>. QED
      BY <1>1, <3>2
  <2>2. price'[t] = price[t]
    BY <1>1
  <2>. QED
    BY <1>1, <2>1, <2>2 DEF TriggeredBy
<1>. QED
  BY <1>1, <1>3, <1>2 DEF TriggerMet, Invalidated, Early

\* A candle that triggers a watch met its trigger; one that invalidates it is
\* passed over only while there is no candle of M15.
LEMMA VerdictIs ==
  ASSUME Typed, NEW w \in DOMAIN watch, NEW t \in 1..clock, watch[w].made < t
  PROVE  /\ Verdict(w, t) = "TRIGGERED" => TriggerMet(w, t)
         /\ Verdict(w, t) = "INVALIDATED" => Invalidated(w, t)
         /\ Verdict(w, t) = "none" /\ Invalidated(w, t) => Early(w, t)
         /\ Verdict(w, t) = "none" => ~TriggeredBy(w, t)
         /\ Verdict(w, t) \in {"none", "TRIGGERED", "INVALIDATED"}
<1>1. watch[w].made \in Nat /\ clock \in Nat /\ t \in Nat
  <2>1. watch[w] \in Rows /\ clock \in Nat
    BY DEF Typed
  <2>. QED
    BY <2>1 DEF Rows
<1>2. ASSUME TriggeredBy(w, t) PROVE TriggerMet(w, t)
  <2>1. CASE ReadAsZone(watch[w].scenario)
    BY <1>1, <1>2, <2>1 DEF TriggeredBy, TriggerMet
  <2>2. CASE ~ReadAsZone(watch[w].scenario)
    <3>1. Bar(w, t) \in watch[w].made + 1 .. t
      BY <1>1, <1>2, <2>2, LastClosedIs DEF TriggeredBy, Bar
    <3>. QED
      BY <1>2, <2>2, <3>1 DEF TriggeredBy, TriggerMet
  <2>. QED
    BY <2>1, <2>2
<1>3. ASSUME Bar(w, t) = 0 PROVE Early(w, t)
  <2>1. ReadsM15(watch[w].scenario) /\ ~(LastClosed("M15", t) > watch[w].made)
    BY <1>1, <1>3 DEF Bar
  <2>. QED
    BY <1>1, <2>1, LastClosedIs DEF Early
<1>. QED
  BY <1>2, <1>3 DEF Verdict, InvalidatedBy, Invalidated

LEMMA TakenIs ==
  ASSUME Candles, NEW w, NEW t, Seen(w, t)
  PROVE  w \in DOMAIN watch /\ t \in 1..clock /\ watch[w].made < t /\ t \in Taken(w)
  BY DEF Candles, Seen, Taken

LEMMA CandlesKept ==
  ASSUME Typed, Typed', Candles, Lasting, claimed' = claimed
  PROVE  Candles'
<1>1. clock \in Nat /\ clock' \in Nat /\ clock <= clock'
  BY DEF Typed, Lasting
<1>2. \A w \in DOMAIN watch : w \in DOMAIN watch' /\ watch'[w].made = watch[w].made
  BY DEF Lasting, Succeeds
<1>. QED
  BY <1>1, <1>2 DEF Candles

\* What must be seen to of a watch, when a step is taken.
LEMMA ActedKept ==
  ASSUME Typed, Typed', Candles, Candles', Lasting, NEW w \in DOMAIN watch, Acted(w),
         \A t : Seen(w, t) => Seen(w, t)',
         \A t : Seen(w, t)' => Seen(w, t) \/ Holding(w, t)',
         \A t : <<w, t>> \in excused => <<w, t>> \in excused',
         \A t \in Taken(w) : Holding(w, t) =>
           \/ Holding(w, t)' \/ <<w, t>> \in excused' \/ watch'[w].status = "INVALIDATED"
           \/ Invalidated(w, t) => TriggerMet(w, t) \/ Early(w, t),
         \A t \in Taken(w) : Holding(w, t) /\ TriggeredBy(w, t) =>
           \/ Holding(w, t)' \/ <<w, t>> \in excused' \/ watch'[w].status # "ACTIVE"
           \/ clock >= watch[w].scenario.expires,
         watch[w].status = "ACTIVE" /\ watch'[w].status = "TRIGGERED" =>
           /\ watch'[w].closedAt < watch[w].scenario.expires
           /\ \/ watch[w].scenario.kind.timed
              \/ \E t \in Taken(w) : t <= watch'[w].closedAt /\ TriggerMet(w, t),
         watch[w].status = "ACTIVE" /\ watch'[w].status = "INVALIDATED" /\ watch'[w].by = "monitor" =>
           \E t \in Taken(w) : Invalidated(w, t)
  PROVE  Acted(w)'
<1>1. /\ watch'[w].scenario = watch[w].scenario /\ w \in DOMAIN watch'
      /\ watch[w].status # "ACTIVE" =>
           /\ watch'[w].status = watch[w].status /\ watch'[w].by = watch[w].by
           /\ watch'[w].closedAt = watch[w].closedAt
  BY DEF Lasting, Succeeds
<1>2. \A t \in Taken(w) : /\ t \in 1..clock /\ t \in Taken(w)'
                          /\ TriggerMet(w, t)' <=> TriggerMet(w, t)
                          /\ Invalidated(w, t)' <=> Invalidated(w, t)
                          /\ Early(w, t)' <=> Early(w, t)
                          /\ TriggeredBy(w, t)' <=> TriggeredBy(w, t)
  <2>1. \A t \in Taken(w) : t \in 1..clock /\ Seen(w, t) /\ watch[w].made < t
    BY TakenIs DEF Taken, Seen
  <2>2. clock \in Nat /\ clock' \in Nat /\ clock <= clock'
    BY DEF Typed, Lasting
  <2>. QED
    BY <2>1, <2>2, MeansKept DEF Taken, Seen
<1>3. \A t \in Taken(w)' : t \in Taken(w) \/ Holding(w, t)'
  BY TakenIs DEF Taken, Seen
<1>4. watch'[w].status = "TRIGGERED" => EndsTriggered(w)'
  <2>1. CASE watch[w].status = "ACTIVE"
    BY <1>1, <1>2, <2>1 DEF EndsTriggered
  <2>2. CASE watch[w].status # "ACTIVE"
    BY <1>1, <1>2, <2>2 DEF EndsTriggered, Acted
  <2>. QED
    BY <2>1, <2>2
<1>5. watch'[w].status = "INVALIDATED" /\ watch'[w].by = "monitor" => \E t \in Taken(w)' : Invalidated(w, t)'
  BY <1>1, <1>2 DEF Acted
<1>6. ASSUME NEW t \in Taken(w)', Invalidated(w, t)', ~TriggerMet(w, t)'
      PROVE  watch'[w].status = "INVALIDATED" \/ <<w, t>> \in excused' \/ Early(w, t)' \/ Holding(w, t)'
  BY <1>1, <1>2, <1>3, <1>6 DEF Acted
<1>7. ASSUME NEW t \in Taken(w)', TriggeredBy(w, t)'
      PROVE  \/ watch'[w].status # "ACTIVE" \/ clock' >= watch'[w].scenario.expires
             \/ <<w, t>> \in excused' \/ Holding(w, t)'
  <2>1. clock \in Nat /\ clock' \in Nat /\ clock <= clock' /\ watch[w].scenario.expires \in Nat
    <3>1. watch[w] \in Rows /\ clock \in Nat /\ clock' \in Nat /\ clock <= clock'
      BY DEF Typed, Lasting
    <3>. QED
      BY <3>1, ClaimedBotAssumption DEF Rows
  <2>2. CASE Holding(w, t)'
    BY <2>2
  <2>3. CASE t \in Taken(w)
    BY <1>1, <1>2, <1>7, <2>1, <2>3 DEF Acted
  <2>. QED
    BY <1>3, <2>2, <2>3
<1>. QED
  BY <1>4, <1>5, <1>6, <1>7 DEF Acted

\* When nothing is taken, and no watch is in hand that was not.
LEMMA OthersKept ==
  ASSUME Typed, RecheckInv, EndingInv, DeskStep("monitor"), Typed', Lasting, Candles',
         NEW w \in DOMAIN watch, w # monitor.w
  PROVE  Acted(w)'
<1>1. /\ watch'[w].status = watch[w].status /\ Acted(w) /\ Candles
      /\ \A t : ~Holding(w, t)
  <2>1. ~Doing(w)
    BY DEF Doing, monitor
  <2>2. watch'[w].status = watch[w].status
    BY <2>1, MonitorRows
  <2>. QED
    BY <2>2 DEF EndingInv, Holding
<1>2. excused \subseteq excused' /\ claimed \subseteq claimed'
  BY FailingWriteIs
  DEF DeskStep, MonitorStep, AnalysisStep, SaveFails, FindExpired, FindTime, ClaimCandle, Evaluate, EvaluateFails,
     CloseWatch, ClaimTrigger, Announce, Start, Complete, Report, Fails, FirstAccount, TakeSnapshot,
     MarketClosed, Answer, SecondAccount, Judge, CheckCap, Track, Create, Save, history
<1>3. claimed' = claimed \/ \E v \in DOMAIN watch : ClaimCandle(v)
  BY FailingWriteIs
  DEF DeskStep, MonitorStep, AnalysisStep, SaveFails, FindExpired, FindTime, Evaluate, EvaluateFails,
     CloseWatch, ClaimTrigger, Announce, Start, Complete, Report, Fails, FirstAccount, TakeSnapshot,
     MarketClosed, Answer, SecondAccount, Judge, CheckCap, Track, Create, Save, history
<1>4. \A t : Seen(w, t)' => Seen(w, t) \/ Holding(w, t)'
  <2>1. ASSUME NEW v \in DOMAIN watch, ClaimCandle(v), NEW t, Seen(w, t)'
        PROVE  Seen(w, t) \/ Holding(w, t)'
    <3>1. claimed' = claimed \cup {<<v, clock>>}
      BY <2>1 DEF ClaimCandle
    <3>2. monitor'.w = v /\ monitor'.at = clock /\ monitor'.pc = "claimed"
      BY <2>1 DEF ClaimCandle, Typed, Threads, monitor, Desks
    <3>. QED
      BY <2>1, <3>1, <3>2 DEF Seen, Holding, Weighing
  <2>. QED
    BY <1>3, <2>1 DEF Seen
<1>. QED
  BY <1>1, <1>2, <1>4, ActedKept DEF Seen

LEMMA CandlesStep ==
  ASSUME Typed, EndingInv, [Next]_vars
  PROVE  Candles'
<1>1. Typed' /\ Lasting /\ Candles
  BY TypedStep DEF EndingInv
<1>2. ASSUME NEW v \in DOMAIN watch, ClaimCandle(v) PROVE Candles'
  <2>1. /\ claimed' = claimed \cup {<<v, clock>>} /\ watch[v].made < clock /\ clock' = clock
    <3>1. clock > watch[v].made /\ clock' = clock /\ claimed' = claimed \cup {<<v, clock>>}
      BY <1>2 DEF ClaimCandle, market
    <3>2. watch[v] \in Rows /\ clock \in Nat
      BY DEF Typed
    <3>3. watch[v].made \in Nat
      BY <3>2 DEF Rows
    <3>. QED
      BY <3>1, <3>2, <3>3
  <2>3. clock \in 1..clock
    BY DEF Typed
  <2>2. \A w \in DOMAIN watch : w \in DOMAIN watch' /\ watch'[w].made = watch[w].made
    BY <1>1 DEF Lasting, Succeeds
  <2>. QED
    BY <1>1, <1>2, <2>1, <2>2, <2>3 DEF Candles
<1>3. claimed' = claimed \/ \E v \in DOMAIN watch : ClaimCandle(v)
  BY FailingWriteIs
  DEF Next, FailingWrite, SaveFails, FindExpired, FindTime, Evaluate, EvaluateFails, Command, Crash, Tick, vars,
     CloseWatch, ClaimTrigger, Announce, Start, Complete, Report, Fails, FirstAccount, TakeSnapshot,
     MarketClosed, Answer, SecondAccount, Judge, CheckCap, Track, Create, Save, history
<1>. QED
  BY <1>1, <1>2, <1>3, CandlesKept

\* A step of the monitor, on the watch it has in hand.
LEMMA HandActed ==
  ASSUME Typed, RecheckInv, EndingInv, DeskStep("monitor"), Typed', Lasting, Candles',
         NEW w \in DOMAIN watch, w = monitor.w
  PROVE  Acted(w)'
<1>. DEFINE r == watch[w]
<1>0. /\ Acted(w) /\ Candles /\ r \in Rows /\ desk \in [Desks -> Threads] /\ Grounds(w, monitor.at)
      /\ ~At("monitor", "idle") /\ InHand /\ "monitor" \in Desks
  <2>1. w # 0 /\ Idle.w = 0
    BY DEF Idle, Typed
  <2>2. ~At("monitor", "idle")
    BY <2>1 DEF Typed, monitor, Desks
  <2>. QED
    BY <2>2 DEF EndingInv, RecheckInv, Typed, Desks
\* Nothing but the hand is changed.
<1>1. ASSUME watch'[w].status = r.status,
             claimed' = claimed, excused \subseteq excused',
             \A t \in Taken(w) : Holding(w, t) =>
               \/ Holding(w, t)' \/ <<w, t>> \in excused' \/ r.status = "INVALIDATED"
               \/ Invalidated(w, t) => TriggerMet(w, t) \/ Early(w, t),
             \A t \in Taken(w) : Holding(w, t) /\ TriggeredBy(w, t) =>
               \/ Holding(w, t)' \/ <<w, t>> \in excused' \/ r.status # "ACTIVE"
               \/ clock >= r.scenario.expires
      PROVE  Acted(w)'
  BY <1>0, <1>1, ActedKept DEF Seen
<1>2. monitor.pc \notin Weighing => \A t : ~Holding(w, t)
  BY DEF Holding
<1>3. CASE Evaluate
  <2>1. UNCHANGED <<watch, claimed, excused>> /\ monitor.pc = "claimed"
    BY <1>3 DEF Evaluate, tables, history, At, monitor
  <2>2. CASE Leave("monitor")
    <3>1. ASSUME NEW t \in Taken(w), Holding(w, t)
          PROVE  (Invalidated(w, t) => Early(w, t)) /\ ~TriggeredBy(w, t)
      <4>1. Verdict(w, t) = "none" \/ Tell(w, Verdict(w, t))
        BY <1>0, <1>3, <3>1, TakenIs DEF Evaluate, Holding, monitor, Taken, Seen
      <4>2. Verdict(w, t) = "none"
        BY <1>0, <2>2, <4>1 DEF Leave, Tell, Idle, Threads
      <4>3. t \in 1..clock /\ watch[w].made < t
        BY <1>0, <3>1, TakenIs DEF Taken, Seen
      <4>. QED
        BY <4>2, <4>3, VerdictIs
    <3>. QED
      BY <1>1, <2>1, <3>1
  <2>3. ASSUME NEW ending, Tell(w, ending) PROVE Acted(w)'
    <3>1. monitor'.w = w /\ monitor'.at = monitor.at /\ monitor'.pc = "told"
      BY <1>0, <2>3 DEF Tell, Threads, monitor
    <3>2. \A t : Holding(w, t) => Holding(w, t)'
      BY <3>1 DEF Holding, Weighing
    <3>. QED
      BY <1>1, <2>1, <3>2
  <2>. QED
    BY <1>3, <2>2, <2>3 DEF Evaluate, monitor
<1>4. CASE EvaluateFails
  <2>1. UNCHANGED <<watch, claimed>> /\ excused' = excused \cup {<<w, monitor.at>>}
    BY <1>4 DEF EvaluateFails, tables, monitor
  <2>. QED
    BY <1>1, <2>1 DEF Holding
\* The row of a closed watch is as the candle told.
<1>e. ASSUME monitor.pc = "told", monitor.status \in Endings \ {"TRIGGERED"}, EndWatch(w, monitor.status),
             UNCHANGED <<claimed, excused>>
      PROVE  Acted(w)'
  <2>1. watch'[w].status = monitor.status /\ monitor.status \in {"EXPIRED", "INVALIDATED"}
    BY <1>0, <1>e DEF EndWatch, Endings, Rows
  <2>2. monitor.status = "INVALIDATED" => \E t \in Taken(w) : Invalidated(w, t)
    BY <1>0, <1>e, TakenIs DEF Grounds, At, monitor
  <2>3. ASSUME NEW t \in Taken(w), Holding(w, t), monitor.status # "INVALIDATED" PROVE FALSE
    BY <1>0, <1>e, <2>3 DEF Grounds, At, monitor, Holding, Taken
  <2>. QED
    BY <1>0, <1>e, <2>1, <2>2, <2>3, ActedKept DEF Seen
<1>5. CASE CloseWatch
  <2>0. /\ monitor.pc = "told" /\ UNCHANGED <<claimed, excused>> /\ monitor.status \in Endings \ {"TRIGGERED"}
    BY <1>5 DEF CloseWatch, At, history, monitor, Typed
  <2>1. CASE Active(w)
    BY <1>5, <1>e, <2>0, <2>1 DEF CloseWatch, monitor
  <2>2. CASE ~Active(w)
    <3>1. r.status = "INVALIDATED" /\ UNCHANGED watch
      BY <1>0, <1>5, <2>0, <2>2 DEF CloseWatch, InHand, Weighing, Active, monitor
    <3>. QED
      BY <1>1, <2>0, <3>1
  <2>. QED
    BY <2>1, <2>2
<1>5f. CASE CloseFails
  <2>1. /\ monitor.pc = "told" /\ monitor.status \in Endings \ {"TRIGGERED"} /\ claimed' = claimed
    BY <1>5f DEF CloseFails, At, monitor, Typed
  <2>2. CASE EndWatch(w, monitor.status) /\ UNCHANGED excused
    BY <1>e, <2>1, <2>2
  <2>3. CASE UNCHANGED watch /\ excused' = excused \cup {<<w, monitor.at>>}
    BY <1>1, <2>1, <2>3 DEF Holding
  <2>. QED
    BY <1>5f, <2>2, <2>3 DEF CloseFails, monitor
<1>t. ASSUME monitor.pc = "told", monitor.status = "TRIGGERED", EndWatch(w, "TRIGGERED"),
             clock < r.scenario.expires, UNCHANGED <<claimed, excused>>
      PROVE  Acted(w)'
  <2>1. watch'[w].status = "TRIGGERED" /\ watch'[w].closedAt = clock
    BY <1>0, <1>t DEF EndWatch, Rows
  <2>2. ASSUME NEW t \in Taken(w), Holding(w, t) PROVE TriggerMet(w, t)
    BY <1>0, <1>t, <2>2 DEF Grounds, At, monitor, Holding, Taken
  <2>3. r.scenario.kind.timed \/ \E t \in Taken(w) : t <= clock /\ TriggerMet(w, t)
    <3>1. ASSUME ~r.scenario.kind.timed PROVE Seen(w, monitor.at) /\ TriggerMet(w, monitor.at)
      BY <1>0, <1>t, <3>1 DEF Grounds, At, monitor
    <3>2. ASSUME ~r.scenario.kind.timed PROVE monitor.at \in Taken(w) /\ monitor.at <= clock
      BY <1>0, <3>1, <3>2, TakenIs DEF Typed
    <3>. QED
      BY <3>1, <3>2
  <2>. QED
    BY <1>0, <1>t, <2>1, <2>2, <2>3, ActedKept DEF Seen
<1>6. CASE ClaimTrigger
  <2>0. monitor.pc = "told" /\ monitor.status = "TRIGGERED" /\ UNCHANGED <<market, claimed, excused>>
    BY <1>6 DEF ClaimTrigger, At, history, monitor
  <2>1. CASE Active(w) /\ clock < r.scenario.expires
    BY <1>6, <1>t, <2>0, <2>1 DEF ClaimTrigger, monitor
  <2>2. CASE ~(Active(w) /\ clock < r.scenario.expires)
    <3>1. UNCHANGED watch
      BY <1>6, <2>2 DEF ClaimTrigger, monitor
    <3>2. ASSUME NEW t \in Taken(w), Holding(w, t) PROVE TriggerMet(w, t)
      BY <1>0, <2>0, <3>2 DEF Grounds, At, monitor, Holding, Taken
    <3>3. r.status # "ACTIVE" \/ clock >= r.scenario.expires
      <4>1. clock \in Nat /\ r.scenario.expires \in Nat
        BY <1>0, ClaimedBotAssumption DEF Typed, Rows
      <4>. QED
        BY <2>2, <4>1 DEF Active
    <3>. QED
      BY <1>1, <2>0, <3>1, <3>2, <3>3
  <2>. QED
    BY <2>1, <2>2
<1>6f. CASE ClaimTriggerFails
  <2>1. monitor.pc = "told" /\ monitor.status = "TRIGGERED" /\ claimed' = claimed
    BY <1>6f DEF ClaimTriggerFails, At, monitor
  <2>2. CASE EndWatch(w, "TRIGGERED") /\ clock < r.scenario.expires /\ UNCHANGED excused
    BY <1>t, <2>1, <2>2
  <2>3. CASE UNCHANGED watch /\ excused' = excused \cup {<<w, monitor.at>>}
    BY <1>1, <2>1, <2>3 DEF Holding
  <2>. QED
    BY <1>6f, <2>2, <2>3 DEF ClaimTriggerFails, monitor
<1>7. CASE \/ Announce \/ Start \/ Complete \/ Report
           \/ AnnounceFails \/ StartFails \/ CompleteFails \/ ReportFails
  <2>. USE DEF NeverRechecked, Excepted, AnnounceFails, StartFails, CompleteFails, ReportFails
  <2>1. monitor.pc \notin Weighing /\ UNCHANGED <<claimed, excused>>
    BY <1>7 DEF Announce, Start, Complete, Report, At, history, monitor, Weighing
  <2>2. watch'[w].status = r.status
    BY <1>0, <1>7 DEF Announce, Start, Complete, Report, Announced, Started, Completed, Reported, monitor, Rows
  <2>. QED
    BY <1>1, <1>2, <2>1, <2>2
<1>8. CASE AnalysisStep("monitor")
  <2>1. UNCHANGED <<watch, claimed, excused>>
    BY <1>0, <1>8 DEF AnalysisStep, Fails, FirstAccount, TakeSnapshot, MarketClosed, Answer, SecondAccount,
         Judge, CheckCap, Track, Create, Save, SaveFails, tables, At, monitor, Typed, history
  <2>2. monitor.pc \notin Weighing
    BY <1>8 DEF AnalysisStep, Fails, FirstAccount, TakeSnapshot, MarketClosed, Answer, SecondAccount,
         Judge, CheckCap, Track, Create, Save, SaveFails, At, monitor, Weighing
  <2>. QED
    BY <1>1, <1>2, <2>1, <2>2
<1>. QED
  BY <1>0, <1>3, <1>4, <1>5, <1>5f, <1>6, <1>6f, <1>7, <1>8
     DEF DeskStep, MonitorStep, FailingWrite, FindExpired, FindTime, ClaimCandle

LEMMA GroundsKept ==
  ASSUME Typed, Candles, Lasting, monitor' = monitor, claimed' = claimed, Grounds(monitor.w, monitor.at)
  PROVE  Grounds(monitor.w, monitor.at)'
<1>. PICK w, t : w = monitor.w /\ t = monitor.at
  OBVIOUS
<1>1. At("monitor", "claimed")' => Seen(w, t)'
  BY DEF Grounds, At, Seen, monitor
<1>2. CASE At("monitor", "told")
  <2>1. w \in DOMAIN watch /\ watch'[w].scenario = watch[w].scenario
    BY <1>2 DEF Typed, At, monitor, Lasting, Succeeds
  <2>2. Seen(w, t) => (TriggerMet(w, t)' <=> TriggerMet(w, t)) /\ (Invalidated(w, t)' <=> Invalidated(w, t))
    BY <2>1, TakenIs, MeansKept
  <2>3. Seen(w, t)' <=> Seen(w, t)
    BY DEF Seen
  <2>. QED
    BY <1>1, <1>2, <2>1, <2>2, <2>3 DEF Grounds
<1>3. CASE ~At("monitor", "told")
  BY <1>1, <1>3 DEF Grounds, At, monitor
<1>. QED
  BY <1>2, <1>3

LEMMA GroundsStep ==
  ASSUME Typed, EndingInv, DeskStep("monitor")
  PROVE  Grounds(monitor.w, monitor.at)'
<1>0. /\ desk \in [Desks -> Threads] /\ "monitor" \in Desks /\ Candles
      /\ Grounds(monitor.w, monitor.at)
      /\ At("monitor", "idle") => monitor = Idle
  BY DEF Typed, Desks, EndingInv, monitor
<1>1. ASSUME monitor'.pc \notin Weighing PROVE Grounds(monitor.w, monitor.at)'
  BY <1>1 DEF Grounds, At, Weighing, monitor
<1>t. ASSUME NEW w, NEW ending, Tell(w, ending)
      PROVE  monitor'.pc = "told" /\ monitor'.w = w /\ monitor'.at = monitor.at /\ monitor'.status = ending
  BY <1>0, <1>t DEF Tell, Threads, monitor
<1>l. ASSUME Leave("monitor") PROVE Grounds(monitor.w, monitor.at)'
  BY <1>0, <1>1, <1>l DEF Leave, Idle, monitor, Weighing
<1>g. ASSUME NEW pc, pc \notin Weighing, Go("monitor", pc) PROVE Grounds(monitor.w, monitor.at)'
  BY <1>0, <1>1, <1>g DEF Go, Threads, monitor
<1>2. ASSUME NEW v \in DOMAIN watch, FindExpired(v) \/ FindTime(v) PROVE Grounds(monitor.w, monitor.at)'
  <2>1. UNCHANGED <<watch, claimed>> /\ monitor.at = 0
    BY <1>0, <1>2 DEF FindExpired, FindTime, tables, history, Idle
  <2>2. \/ Tell(v, "EXPIRED")
        \/ Tell(v, "TRIGGERED") /\ watch[v].scenario.kind.timed
    BY <1>2 DEF FindExpired, FindTime
  <2>. QED
    BY <1>t, <2>1, <2>2 DEF Grounds, At, monitor
<1>3. ASSUME NEW v \in DOMAIN watch, ClaimCandle(v) PROVE Grounds(monitor.w, monitor.at)'
  <2>1. monitor'.pc = "claimed" /\ monitor'.w = v /\ monitor'.at = clock /\ <<v, clock>> \in claimed'
    BY <1>0, <1>3 DEF ClaimCandle, Threads, monitor
  <2>. QED
    BY <2>1 DEF Grounds, At, monitor, Seen
<1>4. CASE Evaluate
  <2>. PICK w, t : w = monitor.w /\ t = monitor.at
    OBVIOUS
  <2>1. UNCHANGED <<market, watch, claimed>> /\ At("monitor", "claimed") /\ Seen(w, t)
    BY <1>0, <1>4 DEF Evaluate, tables, history, Grounds
  <2>2. CASE Leave("monitor")
    BY <1>l, <2>2
  <2>3. CASE Tell(w, Verdict(w, t)) /\ Verdict(w, t) # "none"
    <3>1. \/ Verdict(w, t) = "TRIGGERED" /\ TriggerMet(w, t)
          \/ Verdict(w, t) = "INVALIDATED" /\ Invalidated(w, t)
      BY <1>0, <2>1, <2>3, TakenIs, VerdictIs
    <3>2. /\ monitor'.pc = "told" /\ monitor'.w = w /\ monitor'.at = t
          /\ monitor'.status = Verdict(w, t)
      BY <1>t, <2>3
    <3>3. Seen(w, t)' /\ TriggerMet(w, t)' = TriggerMet(w, t) /\ Invalidated(w, t)' = Invalidated(w, t)
      BY <2>1 DEF Seen, TriggerMet, Invalidated, market
    <3>. QED
      BY <3>1, <3>2, <3>3 DEF Grounds, At, monitor
  <2>. QED
    BY <1>4, <2>2, <2>3 DEF Evaluate, monitor
<1>5. CASE EvaluateFails \/ CloseWatch \/ ClaimTrigger \/ Announce \/ Complete \/ Report
  BY <1>5, <1>l, <1>g DEF EvaluateFails, CloseWatch, ClaimTrigger, Announce, Complete, Report, Weighing
<1>5f. CASE FailingWrite
  <2>1. CASE Leave("monitor")
    BY <1>l, <2>1
  <2>2. CASE Result("monitor", "ERROR")
    BY <1>0, <1>1, <2>2 DEF Result, Idle, monitor, Weighing
  <2>. QED
    BY <1>5f, <2>1, <2>2, FailingWriteIs
<1>6. CASE Start
  <2>1. monitor'.pc = "account"
    BY <1>0, <1>6 DEF Start, Threads, monitor
  <2>. QED
    BY <1>1, <2>1 DEF Weighing
<1>7. CASE AnalysisStep("monitor")
  <2>1. ASSUME NEW status, Result("monitor", status) \/ Store("monitor", status) PROVE monitor'.pc \notin Weighing
    BY <1>0, <2>1 DEF Result, Store, Idle, monitor, Weighing
  <2>2. CASE TakeSnapshot("monitor") \/ Answer("monitor")
    <3>1. \E x \in Threads : desk' = [desk EXCEPT !["monitor"] = x] /\ x.pc \in {"asking", "parsed", "answered"}
      <4>1. CASE TakeSnapshot("monitor")
        <5>1. desk' = [desk EXCEPT !["monitor"] = [monitor EXCEPT !.pc = "asking", !.at = clock]]
          BY <4>1 DEF TakeSnapshot, monitor
        <5>2. [monitor EXCEPT !.pc = "asking", !.at = clock] \in Threads
          BY <1>0 DEF Threads, Analysing, Typed, monitor
        <5>3. [monitor EXCEPT !.pc = "asking", !.at = clock].pc = "asking"
          BY <1>0 DEF Threads, monitor
        <5>. QED
          BY <5>1, <5>2, <5>3
      <4>2. CASE Answer("monitor")
        <5>1. PICK a \in Answers : desk' = [desk EXCEPT !["monitor"] = [monitor EXCEPT !.pc = "parsed", !.answer = a,
                                                                          !.status = ParsedStatus(a)]]
          BY <4>2 DEF Answer, monitor
        <5>. DEFINE x == [monitor EXCEPT !.pc = "parsed", !.answer = a, !.status = ParsedStatus(a)]
        <5>2. ParsedStatus(a) \in Statuses \cup Endings
          BY ClaimedBotAssumption DEF ParsedStatus, Statuses, Results, Verdicts
        <5>3. x \in Threads /\ x.pc = "parsed"
          BY <1>0, <5>2 DEF Threads, Analysing, Answered, monitor
        <5>. QED
          BY <5>1, <5>3
      <4>. QED
        BY <2>2, <4>1, <4>2
    <3>. QED
      BY <1>0, <1>1, <3>1 DEF monitor, Weighing
  <2>3. CASE Judge("monitor")
    BY <1>1, <1>g, <2>1, <2>3 DEF Judge, Reject, Weighing
  <2>4. CASE FirstAccount("monitor") \/ SecondAccount("monitor") \/ CheckCap("monitor")
    BY <1>1, <1>g, <2>1, <2>4 DEF FirstAccount, SecondAccount, CheckCap, Reject, Weighing
  <2>5. CASE Fails("monitor") \/ MarketClosed("monitor") \/ Track("monitor") \/ Create("monitor")
             \/ Save("monitor") \/ SaveFails("monitor")
    BY <1>1, <2>1, <2>5 DEF Fails, MarketClosed, Track, Create, Save, SaveFails
  <2>. QED
    BY <1>7, <2>2, <2>3, <2>4, <2>5 DEF AnalysisStep
<1>. QED
  BY <1>2, <1>3, <1>4, <1>5, <1>5f, <1>6, <1>7 DEF DeskStep, MonitorStep

\* A step of the chat.
LEMMA ChatActed ==
  ASSUME Typed, EndingInv, DeskStep("chat"), Typed', Lasting, Candles'
  PROVE  Grounds(monitor.w, monitor.at)' /\ \A w \in DOMAIN watch' : Acted(w)'
<1>1. monitor' = monitor
  BY TouchesStep DEF Touches, Desks, monitor
<1>2. UNCHANGED <<claimed, excused>>
  BY DEF DeskStep, AnalysisStep, Command, Fails, FirstAccount, TakeSnapshot, MarketClosed, Answer,
     SecondAccount, Judge, CheckCap, Track, Create, Save, SaveFails, history
<1>3. Candles /\ Grounds(monitor.w, monitor.at) /\ \A w \in DOMAIN watch : Acted(w)
  BY DEF EndingInv
<1>4. ASSUME NEW w \in DOMAIN watch, Active(w), watch'[w].status # "ACTIVE"
      PROVE  watch'[w].status = "INVALIDATED" /\ watch'[w].by = "chat"
  <2>1. watch'[w].status = "INVALIDATED"
    BY <1>4, ChatRows DEF Active
  <2>2. watch' # watch /\ watch[w] \in Rows
    BY <1>4 DEF Active, Typed
  <2>3. CASE FirstAccount("chat")
    <3>1. PICK v \in DOMAIN watch :
            watch' = [watch EXCEPT ![v].status = "INVALIDATED", ![v].by = "chat", ![v].closedAt = clock]
      BY <2>2, <2>3 DEF FirstAccount
    <3>2. v = w
      BY <1>4, <3>1 DEF Active
    <3>. QED
      BY <2>1, <2>2, <3>1, <3>2 DEF Rows
  <2>4. CASE Create("chat")
    <3>1. \E r : watch' = Append(watch, r)
      BY <2>2, <2>4 DEF Create
    <3>. QED
      BY <1>4, <3>1 DEF Active, Typed
  <2>. QED
    BY <2>2, <2>3, <2>4
       DEF DeskStep, AnalysisStep, Command, Fails, TakeSnapshot, MarketClosed, Answer, SecondAccount,
           Judge, CheckCap, Track, Save, SaveFails, tables
<1>5. ASSUME NEW w \in DOMAIN watch PROVE Acted(w)'
  BY <1>1, <1>2, <1>3, <1>4, ActedKept DEF Seen, Holding, Active
<1>6. ASSUME NEW w \in DOMAIN watch' \ DOMAIN watch PROVE Acted(w)'
  <2>1. watch'[w].status = "ACTIVE"
    BY <1>6, ChatRows
  <2>2. Taken(w)' = {}
    BY <1>2, <1>3, <1>6, TakenIs DEF Taken, Seen
  <2>. QED
    BY <2>1, <2>2 DEF Acted
<1>. QED
  BY <1>1, <1>2, <1>3, <1>5, <1>6, GroundsKept

LEMMA EndingStep ==
  ASSUME Typed, RecheckInv, EndingInv, [Next]_vars
  PROVE  EndingInv'
<1>0. Typed' /\ Lasting /\ Candles' /\ Candles
  BY TypedStep, CandlesStep DEF EndingInv
<1>1. CASE DeskStep("monitor")
  <2>1. ASSUME NEW w \in DOMAIN watch PROVE Acted(w)'
    <3>1. CASE w = monitor.w
      BY <1>0, <1>1, <3>1, HandActed
    <3>2. CASE w # monitor.w
      BY <1>0, <1>1, <3>2, OthersKept
    <3>. QED
      BY <3>1, <3>2
  <2>2. DOMAIN watch' = DOMAIN watch
    BY <1>1, MonitorRows
  <2>. QED
    BY <1>0, <1>1, <2>1, <2>2, GroundsStep DEF EndingInv
<1>2. CASE DeskStep("chat")
  BY <1>0, <1>2, ChatActed DEF EndingInv
<1>3. CASE Tick \/ UNCHANGED vars
  <2>1. UNCHANGED <<watch, desk, claimed, excused>>
    BY <1>3 DEF Tick, vars, tables, history
  <2>2. monitor' = monitor /\ Grounds(monitor.w, monitor.at)
    BY <2>1 DEF monitor, EndingInv
  <2>3. ASSUME NEW w \in DOMAIN watch PROVE Acted(w)'
    BY <1>0, <2>1, <2>2, ActedKept DEF Seen, Holding, EndingInv
  <2>. QED
    BY <1>0, <2>1, <2>2, <2>3, GroundsKept DEF EndingInv
<1>4. CASE Crash
  <2>1. /\ UNCHANGED <<watch, claimed>> /\ At("monitor", "idle")'
        /\ excused \subseteq excused'
        /\ monitor.pc \in Weighing => <<monitor.w, monitor.at>> \in excused'
    BY <1>4 DEF Crash, tables, At, Desks, Idle, monitor, Weighing
  <2>2. Grounds(monitor.w, monitor.at)'
    BY <2>1 DEF Grounds, At
  <2>3. ASSUME NEW w \in DOMAIN watch PROVE Acted(w)'
    BY <1>0, <2>1, ActedKept DEF Seen, Holding, EndingInv
  <2>. QED
    BY <1>0, <2>1, <2>2, <2>3 DEF EndingInv
<1>. QED
  BY <1>1, <1>2, <1>3, <1>4, Steps DEF Desks
-----------------------------------------------------------------------------
(* The inductive invariant. *)

IInv == Typed /\ OneScenario /\ Alone /\ RecheckInv /\ EndingInv

LEMMA InitIInv ==
  ASSUME Init
  PROVE  IInv
<1>. USE DEF Init
<1>1. watch = <<>> /\ DOMAIN watch = {} /\ Len(watch) = 0 /\ \A d \in Desks : desk[d] = Idle
  OBVIOUS
<1>2. Idle \in Threads /\ Idle.pc = "idle" /\ Idle.w = 0
  BY DEF Idle, Threads, Statuses
<1>3. Typed
  <2>1. price \in Seq(Prices) /\ Len(price) = 1 /\ clock = 1
    <3>1. PICK p \in Prices : price = <<p>> /\ clock = 1
      OBVIOUS
    <3>. QED
      BY <3>1
  <2>2. desk \in [Desks -> Threads]
    BY <1>2
  <2>. QED
    BY <1>1, <1>2, <2>1, <2>2 DEF Typed, At, Desks, monitor, chat, Answered, Ended
<1>4. OneScenario /\ Alone
  BY <1>1, <1>2 DEF OneScenario, Alone, NoneOpen, At, Desks, chat, Analysing, Answered
<1>5. RecheckInv
  BY <1>1, <1>2 DEF RecheckInv, Known, Going, TrackedKept, At, Desks, monitor, Analysing, Answered
<1>6. EndingInv
  BY <1>1, <1>2 DEF EndingInv, Candles, Grounds, At, Desks, monitor
<1>. QED
  BY <1>3, <1>4, <1>5, <1>6 DEF IInv

LEMMA NextIInv ==
  ASSUME IInv, [Next]_vars
  PROVE  IInv'
<1>1. Typed' /\ OneScenario' /\ Alone' /\ RecheckInv'
  BY TypedStep, ScenarioStep, RecheckStep DEF IInv
<1>2. EndingInv'
  BY EndingStep DEF IInv
<1>. QED
  BY <1>1, <1>2 DEF IInv

\* The tables and the desks keep to their types, and what each desk has in
\* hand agrees with the rows and the records, through every step and crash.
THEOREM Inductive == Spec => []IInv
<1>1. Init => IInv
  BY InitIInv
<1>2. IInv /\ [Next]_vars => IInv'
  BY NextIInv
<1>. QED
  BY <1>1, <1>2, PTL DEF Spec

\* analysis_service.py and watch_manager.py of gpt/v3: the chat opens a watch
\* only when none is open and the last one was another scenario, so that at
\* most the newest watch is open and it differs from the one before it,
\* however the analyses of the two desks interleave.
THEOREM ScenarioCorrect == Spec => []OneScenario
<1>1. IInv => OneScenario
  BY DEF IInv
<1>. QED
  BY <1>1, Inductive, PTL

\* monitor_loop.py of gpt/v3: a watch is rechecked at most once, after its
\* trigger was claimed and told; the row says what was stored, or ERROR over it
\* when a call or a write failed; a triggered watch without a result, and a
\* trade tracked without its analysis, is in hand or was cut short by a crash, a
\* call or a write that failed, inside the try or outside it.
THEOREM RecheckCorrect == Spec => []RecheckAccounted
<1>1. ASSUME IInv PROVE RecheckAccounted
  <2>. USE <1>1 DEF IInv, RecheckInv
  <2>1. ASSUME NEW w \in DOMAIN watch
        PROVE  LET r == watch[w]
                   id == Recheck(w)
               IN /\ r.started <= 1
                  /\ r.started = 1 => r.status = "TRIGGERED" /\ r.note # "none"
                  /\ r.status = "TRIGGERED" /\ r.result = "none" => Doing(w) \/ id \in cut
                  /\ r.result # "none" => r.started = 1
                  /\ r.result = "TRADE" => <<id, "TRADE">> \in saved
                  /\ r.result = "WATCH" /\ <<id, "WATCH">> \notin saved =>
                       r.note = "suppressed" \/ Doing(w) \/ id \in cut
                  /\ r.note = "suppressed" =>
                       (r.result = "WATCH" \/ id \in cut) /\ \A x \in saved : x[1] # id
                  /\ r.result # "none" =>
                       \A x \in saved : x[1] = id => r.result = x[2] \/ id \in cut
                  /\ r.result = "ERROR" => id \in cut
                  /\ r.result # "none" /\ (\E x \in tracked : x.id = id) =>
                       \/ r.result = "TRADE"
                       \/ r.result = "ERROR" /\ id \in cut
    BY DEF Behind, Kept, Stored, Followed, Agrees
  <2>2. \A x \in tracked :
          \/ <<x.id, "TRADE">> \in saved \/ x.id \in cut
          \/ \E d \in Desks : At(d, "saving") /\ Id(d) = x.id
    BY DEF TrackedKept, Kept
  <2>. QED
    BY <2>1, <2>2 DEF RecheckAccounted, Recheck
<1>. QED
  BY <1>1, Inductive, PTL

\* watch_manager.py of gpt/v3: a watch ends on a candle of its own life that
\* was taken for it, with time left for a trigger; a taken candle that triggered
\* or invalidated it was acted upon, but for what a crash, a broker or a write
\* that failed between the claim and the ending cost, a trigger whose time ran
\* out, and an invalidation before the first candle of M15.
THEOREM EndingCorrect == Spec => []EndingExplained
<1>1. ASSUME IInv PROVE EndingExplained
  <2>. SUFFICES ASSUME NEW w \in DOMAIN watch
                PROVE  LET r == watch[w]
                           s == r.scenario
                       IN /\ r.status = "TRIGGERED" =>
                               /\ r.closedAt < s.expires
                               /\ s.kind.timed \/ \E t \in Taken(w) :
                                                    r.made < t /\ t <= r.closedAt /\ TriggerMet(w, t)
                          /\ r.status = "INVALIDATED" /\ r.by = "monitor" =>
                               \E t \in Taken(w) : r.made < t /\ ClaimedInvalidates(s, price[t])
                          /\ \A t \in Taken(w) :
                               /\ ClaimedInvalidates(s, price[t]) /\ ~TriggerMet(w, t) =>
                                    \/ r.status = "INVALIDATED"
                                    \/ <<w, t>> \in excused
                                    \/ monitor.w = w /\ monitor.at = t
                                    \/ ReadsM15(s) /\ \A b \in r.made + 1 .. t : b % Length["M15"] # 0
                               /\ TriggeredBy(w, t) =>
                                    \/ r.status # "ACTIVE" \/ clock >= s.expires
                                    \/ <<w, t>> \in excused
                                    \/ monitor.w = w /\ monitor.at = t
    BY DEF EndingExplained, monitor
  <2>1. \A t \in Taken(w) : watch[w].made < t
    BY <1>1, TakenIs DEF IInv, EndingInv, Taken, Seen
  <2>2. Acted(w)
    BY <1>1 DEF IInv, EndingInv
  <2>. QED
    BY <2>1, <2>2 DEF Acted, EndsTriggered, Invalidated, Early, Holding
<1>. QED
  BY <1>1, Inductive, PTL
=============================================================================
