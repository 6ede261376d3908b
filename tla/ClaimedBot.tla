----------------------------- MODULE ClaimedBot -----------------------------
(***************************************************************************)
(* The bot of gpt/v3 on one symbol.  Its monitor takes every closed candle *)
(* once for a watch, ends the watch in one conditional update, and runs    *)
(* the check after the trigger itself; a chat command runs an initial      *)
(* analysis at the same time.  There is no queue and no outbox: what the   *)
(* process was doing when it dies is lost, and nothing looks for it.       *)
(*                                                                         *)
(* Time counts closes of the shortest timeframe; a candle is named by the  *)
(* time it closes.  The chat's commands are served one after another, and  *)
(* the watches of other symbols share only the cap on open risk.           *)
(*                                                                         *)
(* An operator whose comment begins with "Slip" is a plausible mistake in  *)
(* the operator that follows it.                                           *)
(***************************************************************************)
EXTENDS OlderRules, FiniteSetsExt

CONSTANTS
  Length,        \* closes of the shortest timeframe in a candle of each
  MaxAge,        \* how old the quote of a TRADE may be (the code: 5 minutes)
  Prices,        \* closes and quotes
  Answers,       \* the answers of the model, as the parser tells them apart
  Account,       \* balance, point value and volume limits of the symbol
  MaxTime,       \* bound: closes the clock runs through
  MaxChats,      \* bound: commands of the chat
  MaxFaults,     \* bound: calls of the broker, the model or the database that fail
  MaxCrashes     \* bound: times the process dies

ASSUME ClaimedBotAssumption ==
  /\ Length \in [Frames -> Nat \ {0}] /\ Length["M5"] = 1
  /\ Prices \subseteq Nat /\ MaxAge \in Nat
  /\ \A a \in Answers : a.status \in {"TRADE", "WATCH", "NO_TRADE"} /\ a.scenario.expires \in Nat
  /\ MaxTime \in Nat /\ MaxChats \in Nat /\ MaxFaults \in Nat /\ MaxCrashes \in Nat

Desks == {"chat", "monitor"}
Endings == {"TRIGGERED", "EXPIRED", "INVALIDATED"}

VARIABLES
  clock, price,      \* the market: closes so far, and the close at each
  watch,             \* the table of watches, oldest first
  tracked, saved,    \* rows of trade_tracking with their risk, and of analyses
                     \*   with their status
  desk,              \* what the thread of each desk is doing
  chats,             \* commands of the chat so far
  claimed, excused,  \* history: candles taken for a watch; those of them that
                     \*   a crash, the broker or a failing write lost before
                     \*   they counted
  cut,               \* history: rechecks and analyses that a crash, a call or
                     \*   a write that failed cut short
  faults, crashes

market == <<clock, price>>
tables == <<watch, tracked, saved>>
history == <<claimed, excused, cut>>
bounds == <<chats, faults, crashes>>
vars == <<market, tables, desk, history, bounds>>

Idle == [pc |-> "idle", w |-> 0, at |-> 0, answer |-> "none", status |-> "none"]

Init ==
  /\ clock = 1 /\ price \in {<<p>> : p \in Prices}
  /\ watch = <<>> /\ tracked = {} /\ saved = {}
  /\ desk = [d \in Desks |-> Idle]
  /\ claimed = {} /\ excused = {} /\ cut = {}
  /\ chats = 0 /\ faults = 0 /\ crashes = 0

Active(w) == watch[w].status = "ACTIVE"
LastClosed(f, t) == t - (t % Length[f])
\* The analysis a desk is at: the recheck of a watch, or a command of the chat.
Id(d) == IF d = "monitor" THEN <<"recheck", desk[d].w>> ELSE <<"initial", chats>>

At(d, pc) == desk[d].pc = pc
Go(d, pc) == desk' = [desk EXCEPT ![d].pc = pc]
\* The analysis is over: the chat reads the result, the monitor has yet to
\* record it; of its desk only the watch and the status go on.
Result(d, status) ==
  desk' = [desk EXCEPT ![d] =
             IF d = "chat" THEN Idle
             ELSE [Idle EXCEPT !.pc = "answered", !.w = desk[d].w, !.status = status]]
\* All that is left is to store the analysis.
Store(d, status) ==
  desk' = [desk EXCEPT ![d] = [Idle EXCEPT !.pc = "saving", !.w = desk[d].w, !.status = status]]
Leave(d) == desk' = [desk EXCEPT ![d] = Idle]
-----------------------------------------------------------------------------
Tick ==
  /\ clock < MaxTime
  /\ clock' = clock + 1
  /\ \E p \in Prices : price' = Append(price, p)
  /\ UNCHANGED <<tables, desk, history, bounds>>

\* A call raises.  A write of the database may do so before its row is changed
\* or after it, in the event that is logged in a transaction of its own.
Faulty == faults < MaxFaults /\ faults' = faults + 1
-----------------------------------------------------------------------------
(* check_trigger.  Its row is the one just listed; what it decides is        *)
(* applied to the row as it is by then.                                      *)

Tell(w, ending) ==
  desk' = [desk EXCEPT !["monitor"].pc = "told", !["monitor"].w = w,
                       !["monitor"].status = ending]

FindExpired(w) ==
  /\ At("monitor", "idle") /\ Active(w) /\ clock >= watch[w].scenario.expires
  /\ Tell(w, "EXPIRED")
  /\ UNCHANGED <<market, tables, history, bounds>>

\* A time takes the place of the price; the candles are not asked for.
FindTime(w) ==
  /\ At("monitor", "idle") /\ Active(w) /\ clock < watch[w].scenario.expires
  /\ watch[w].scenario.kind.timed /\ clock >= watch[w].scenario.zone.numbers[1]
  /\ Tell(w, "TRIGGERED")
  /\ UNCHANGED <<market, tables, history, bounds>>

\* claim_watch_candle: the newest closed candle is marked as taken in a
\* transaction of its own, before anything is decided on it.
ClaimCandle(w) ==
  /\ At("monitor", "idle") /\ Active(w) /\ clock < watch[w].scenario.expires
  /\ ~watch[w].scenario.kind.timed
  /\ clock > watch[w].made /\ watch[w].checked # clock
  /\ watch' = [watch EXCEPT ![w].checked = clock]
  /\ claimed' = claimed \cup {<<w, clock>>}
  /\ desk' = [desk EXCEPT !["monitor"].pc = "claimed", !["monitor"].w = w,
                          !["monitor"].at = clock]
  /\ UNCHANGED <<market, tracked, saved, excused, cut, bounds>>

\* The candle a single level is compared with; a close of M15 that is not
\* younger than the watch is none (0).
Bar(w, at) ==
  IF ~ReadsM15(watch[w].scenario) THEN at
  ELSE IF LastClosed("M15", at) > watch[w].made THEN LastClosed("M15", at) ELSE 0

TriggeredBy(w, at) ==
  LET s == watch[w].scenario
      levels == ClaimedLevels(s.zone)
  IN IF ReadAsZone(s) THEN Between(price[at], levels[1], levels[2])
     ELSE Bar(w, at) # 0 /\ Crosses(s.direction, price[Bar(w, at)], levels[1])

InvalidatedBy(w, at) == ClaimedInvalidates(watch[w].scenario, price[at])

\* Slip: a zone is asked for its trigger alone.
VerdictZoneOnly(w, at) ==
  IF TriggeredBy(w, at) THEN "TRIGGERED"
  ELSE IF Bar(w, at) # 0 /\ InvalidatedBy(w, at) /\ ~ReadAsZone(watch[w].scenario)
       THEN "INVALIDATED" ELSE "none"

\* The trigger first, then the invalidation; without a candle of M15 neither.
Verdict(w, at) ==
  IF TriggeredBy(w, at) THEN "TRIGGERED"
  ELSE IF Bar(w, at) # 0 /\ InvalidatedBy(w, at) THEN "INVALIDATED" ELSE "none"

Evaluate ==
  /\ At("monitor", "claimed")
  /\ LET w == desk["monitor"].w
         verdict == Verdict(w, desk["monitor"].at)
     IN IF verdict = "none" THEN Leave("monitor") ELSE Tell(w, verdict)
  /\ UNCHANGED <<market, tables, history, bounds>>

\* The event of the claim is not logged, or the candles of M15, asked for after
\* it, do not come: the candle is taken and nothing is decided on it.
EvaluateFails ==
  /\ At("monitor", "claimed") /\ Faulty
  /\ excused' = excused \cup {<<desk["monitor"].w, desk["monitor"].at>>}
  /\ Leave("monitor")
  /\ UNCHANGED <<market, tables, claimed, cut, chats, crashes>>

EndWatch(w, status) ==
  watch' = [watch EXCEPT ![w].status = status, ![w].by = "monitor", ![w].closedAt = clock]

\* close_watch_lifecycle: one update, of an open row only.
CloseWatch ==
  /\ At("monitor", "told") /\ desk["monitor"].status # "TRIGGERED"
  /\ LET w == desk["monitor"].w
     IN IF Active(w)
        THEN EndWatch(w, desk["monitor"].status) /\ Go("monitor", "announcing")
        ELSE Leave("monitor") /\ UNCHANGED watch
  /\ UNCHANGED <<market, tracked, saved, history, bounds>>

\* It stands outside the try: the row is open and its candle spent, or closed
\* and nobody told.
CloseFails ==
  /\ At("monitor", "told") /\ desk["monitor"].status # "TRIGGERED" /\ Faulty
  /\ LET w == desk["monitor"].w
     IN \/ /\ excused' = excused \cup {<<w, desk["monitor"].at>>}
           /\ UNCHANGED watch
        \/ Active(w) /\ EndWatch(w, desk["monitor"].status) /\ UNCHANGED excused
  /\ Leave("monitor")
  /\ UNCHANGED <<market, tracked, saved, claimed, cut, chats, crashes>>

\* claim_watch_trigger: the row must be open and have time left.
ClaimTrigger ==
  /\ At("monitor", "told") /\ desk["monitor"].status = "TRIGGERED"
  /\ LET w == desk["monitor"].w
     IN IF Active(w) /\ clock < watch[w].scenario.expires
        THEN EndWatch(w, "TRIGGERED") /\ Go("monitor", "announcing")
        ELSE Leave("monitor") /\ UNCHANGED watch
  /\ UNCHANGED <<market, tracked, saved, history, bounds>>

\* So does the claim: triggered by now, the watch is never rechecked.
ClaimTriggerFails ==
  /\ At("monitor", "told") /\ desk["monitor"].status = "TRIGGERED" /\ Faulty
  /\ LET w == desk["monitor"].w
     IN \/ /\ excused' = excused \cup {<<w, desk["monitor"].at>>}
           /\ UNCHANGED <<watch, cut>>
        \/ /\ Active(w) /\ clock < watch[w].scenario.expires
           /\ EndWatch(w, "TRIGGERED")
           /\ cut' = cut \cup {Id("monitor")}
           /\ UNCHANGED excused
  /\ Leave("monitor")
  /\ UNCHANGED <<market, tracked, saved, claimed, chats, crashes>>

\* The message of the ending; a chat that cannot be reached is only logged.
Announced == [watch EXCEPT ![desk["monitor"].w].note = "ending"]

Announce ==
  /\ At("monitor", "announcing")
  /\ watch' = Announced
  /\ IF watch[desk["monitor"].w].status = "TRIGGERED"
     THEN Go("monitor", "starting") ELSE Leave("monitor")
  /\ UNCHANGED <<market, tracked, saved, history, bounds>>

\* mark_reanalysis_started, then the recheck's thread.
Started == [watch EXCEPT ![desk["monitor"].w].started = @ + 1]

Start ==
  /\ At("monitor", "starting")
  /\ watch' = Started
  /\ desk' = [desk EXCEPT !["monitor"].pc = "account", !["monitor"].at = 0]
  /\ UNCHANGED <<market, tracked, saved, history, bounds>>

\* Neither of the two writes is inside the try: the recheck is never made.
NeverRechecked(written) ==
  /\ Faulty
  /\ watch' \in {watch, written}
  /\ cut' = cut \cup {Id("monitor")}
  /\ Leave("monitor")
  /\ UNCHANGED <<market, tracked, saved, claimed, excused, chats, crashes>>

AnnounceFails == At("monitor", "announcing") /\ NeverRechecked(Announced)
StartFails == At("monitor", "starting") /\ NeverRechecked(Started)
-----------------------------------------------------------------------------
(* The analysis of either desk. *)

Command ==
  /\ At("chat", "idle") /\ chats < MaxChats
  /\ chats' = chats + 1
  /\ Go("chat", "account")
  /\ UNCHANGED <<market, tables, history, faults, crashes>>

\* Something raised: the monitor records ERROR, the chat shows the message.
Fails(d) ==
  /\ desk[d].pc \in {"account", "snapshot", "asking", "parsed", "judging", "capping",
                   "tracking", "creating", "saving"}
  /\ Faulty
  /\ cut' = cut \cup {Id(d)}
  /\ Result(d, "ERROR")
  /\ UNCHANGED <<market, tables, claimed, excused, chats, crashes>>

\* A position or an order on the symbol ends the open watch of the chat's
\* symbol; an account that cannot be read ends the analysis only.
FirstAccount(d) ==
  /\ At(d, "account")
  /\ \/ Go(d, "snapshot") /\ UNCHANGED watch
     \/ Result(d, "NO_TRADE") /\ UNCHANGED watch
     \/ /\ d = "chat"
        /\ \E w \in DOMAIN watch :
             /\ Active(w)
             /\ watch' = [watch EXCEPT ![w].status = "INVALIDATED", ![w].by = "chat",
                                     ![w].closedAt = clock]
        /\ Result(d, "NO_TRADE")
  /\ UNCHANGED <<market, tracked, saved, history, bounds>>

\* With an open watch the chat is shown that watch and no analysis is made.
TakeSnapshot(d) ==
  /\ At(d, "snapshot")
  /\ IF d = "chat" /\ \E w \in DOMAIN watch : Active(w)
     THEN Result(d, "WATCH")
     ELSE desk' = [desk EXCEPT ![d].pc = "asking", ![d].at = clock]
  /\ UNCHANGED <<market, tables, history, bounds>>

\* Slip: a deferred recheck is left where it is.
MarketClosedLeaves(d) ==
  /\ At(d, "snapshot")
  /\ IF d = "chat"
     THEN saved' = saved \cup {<<Id(d), "NO_TRADE">>} /\ Result(d, "NO_TRADE")
     ELSE Leave(d) /\ UNCHANGED saved
  /\ UNCHANGED <<market, watch, tracked, history, bounds>>

\* The market is closed, or its last tick is old.  The chat's answer is
\* stored; the monitor's is a WATCH nobody is told of.
MarketClosed(d) ==
  /\ At(d, "snapshot")
  /\ IF d = "chat"
     THEN saved' = saved \cup {<<Id(d), "NO_TRADE">>} /\ Result(d, "NO_TRADE")
     ELSE Result(d, "DEFERRED") /\ UNCHANGED saved
  /\ UNCHANGED <<market, watch, tracked, history, bounds>>

ParsedStatus(a) ==
  IF a.status = "WATCH" /\ ~(a.grade \in WatchGrades /\ ClaimedParses(a.scenario))
  THEN "NO_TRADE" ELSE a.status

\* The model answers, whatever time has passed.
Answer(d) ==
  /\ At(d, "asking")
  /\ \E a \in Answers :
       desk' = [desk EXCEPT ![d].pc = "parsed", ![d].answer = a,
                            ![d].status = ParsedStatus(a)]
  /\ UNCHANGED <<market, tables, history, bounds>>

\* The account again: when it is busy the answer is stored as it is, and
\* neither watch nor tracking comes of it.
SecondAccount(d) ==
  /\ At(d, "parsed")
  /\ \/ Go(d, "judging")
     \/ Store(d, desk[d].status)
  /\ UNCHANGED <<market, tables, history, bounds>>

\* calculate_position_size is the release's; without a volume no TRADE is told.
ClaimedVolume(a) == Volume(a, Account)

\* The terms, the age of the quote and the volume, on the snapshot of before.
TradeHolds(d, friday) ==
  LET a == desk[d].answer
      at == desk[d].at
      bid == price[at]
  IN /\ ClaimedTerms(a, bid, bid + 1, friday)
     /\ clock - at <= MaxAge /\ clock < a.expires
     /\ ClaimedVolume(a) > 0

\* Slip: only a watch that was triggered counts as the last closed one.
RepeatsTriggered(s) ==
  \E w \in DOMAIN watch :
    w = Len(watch) /\ watch[w].status = "TRIGGERED" /\ ClaimedSame(watch[w].scenario, s)

\* The last closed watch was the same scenario.
Repeats(s) ==
  \E w \in DOMAIN watch :
    w = Len(watch) /\ ~Active(w) /\ ClaimedSame(watch[w].scenario, s)

\* validate_before_creation, against the candle of the snapshot.
BornStanding(s, at) == ~ClaimedInvalidates([s EXCEPT !.invalidation.words = {}], price[at])

Reject(d) == Store(d, "NO_TRADE")

Judge(d) ==
  /\ At(d, "judging")
  /\ LET a == desk[d].answer
     IN CASE desk[d].status = "TRADE" ->
               \E friday \in BOOLEAN : IF TradeHolds(d, friday) THEN Go(d, "capping") ELSE Reject(d)
          [] desk[d].status = "WATCH" ->
               IF d = "monitor" \/ Repeats(a.scenario) \/ ~BornStanding(a.scenario, desk[d].at)
               THEN Reject(d) ELSE Go(d, "creating")
          [] OTHER -> Store(d, desk[d].status)
  /\ UNCHANGED <<market, tables, history, bounds>>

\* The risk of all that is tracked, and then, in another transaction, the row.
OpenRisk == (Account.balance * MapThenSumSet(LAMBDA row : row.risk, tracked)) \div Whole

CheckCap(d) ==
  /\ At(d, "capping")
  /\ IF CapAllows(OpenRisk, desk[d].answer, Account) THEN Go(d, "tracking") ELSE Reject(d)
  /\ UNCHANGED <<market, tables, history, bounds>>

Track(d) ==
  /\ At(d, "tracking")
  /\ tracked' = tracked \cup {[id |-> Id(d), risk |-> desk[d].answer.risk]}
  /\ Store(d, desk[d].status)
  /\ UNCHANGED <<market, watch, saved, history, bounds>>

\* save_watch: refused when the symbol has an open watch.
Create(d) ==
  /\ At(d, "creating")
  /\ IF \E w \in DOMAIN watch : Active(w)
     THEN cut' = cut \cup {Id(d)} /\ Result(d, "ERROR") /\ UNCHANGED watch
     ELSE /\ watch' = Append(watch, [scenario |-> desk[d].answer.scenario, made |-> clock,
                                     checked |-> desk[d].at, status |-> "ACTIVE", by |-> "none",
                                     closedAt |-> 0, started |-> 0, result |-> "none", note |-> "none"])
          /\ Store(d, desk[d].status)
          /\ UNCHANGED cut
  /\ UNCHANGED <<market, tracked, saved, claimed, excused, bounds>>

\* save_analysis, last of all.
Save(d) ==
  /\ At(d, "saving")
  /\ saved' = saved \cup {<<Id(d), desk[d].status>>}
  /\ Result(d, desk[d].status)
  /\ UNCHANGED <<market, watch, tracked, history, bounds>>

\* The analysis is stored and its event is not.
SaveFails(d) ==
  /\ At(d, "saving") /\ Faulty
  /\ saved' = saved \cup {<<Id(d), desk[d].status>>}
  /\ cut' = cut \cup {Id(d)}
  /\ Result(d, "ERROR")
  /\ UNCHANGED <<market, watch, tracked, claimed, excused, chats, crashes>>

\* mark_reanalysis_completed; a deferred recheck is completed as WATCH.
Completed ==
  [watch EXCEPT ![desk["monitor"].w].result =
     IF desk["monitor"].status = "DEFERRED" THEN "WATCH" ELSE desk["monitor"].status]

Complete ==
  /\ At("monitor", "answered")
  /\ watch' = Completed
  /\ Go("monitor", "reporting")
  /\ UNCHANGED <<market, tracked, saved, history, bounds>>

Reported ==
  [watch EXCEPT ![desk["monitor"].w].note =
     IF desk["monitor"].status = "DEFERRED" THEN "suppressed" ELSE "result"]

Report ==
  /\ At("monitor", "reporting")
  /\ watch' = Reported
  /\ Leave("monitor")
  /\ UNCHANGED <<market, tracked, saved, history, bounds>>

\* A write that fails inside the try is answered by the except branch, which
\* completes the recheck as ERROR whatever its result was; one of the except
\* branch itself ends the tick.
Excepted(written) ==
  /\ Faulty
  /\ watch' \in {watch, written}
  /\ cut' = cut \cup {Id("monitor")}
  /\ IF desk["monitor"].status = "ERROR" THEN Leave("monitor") ELSE Result("monitor", "ERROR")
  /\ UNCHANGED <<market, tracked, saved, claimed, excused, chats, crashes>>

CompleteFails == At("monitor", "answered") /\ Excepted(Completed)
ReportFails == At("monitor", "reporting") /\ Excepted(Reported)
-----------------------------------------------------------------------------
\* Both threads are lost.  init_db finds nothing to mend, and the monitor goes
\* on with the watches that are open.
Crash ==
  /\ crashes < MaxCrashes /\ \E d \in Desks : desk[d] # Idle
  /\ crashes' = crashes + 1
  /\ desk' = [d \in Desks |-> Idle]
  /\ excused' = IF desk["monitor"].pc \in {"claimed", "told"}
                THEN excused \cup {<<desk["monitor"].w, desk["monitor"].at>>} ELSE excused
  /\ cut' = cut \cup {Id(d) : d \in {e \in Desks : desk[e] # Idle}}
  /\ UNCHANGED <<market, tables, claimed, chats, faults>>

Next ==
  \/ Tick
  \/ \E w \in DOMAIN watch : FindExpired(w) \/ FindTime(w) \/ ClaimCandle(w)
  \/ Evaluate \/ EvaluateFails \/ CloseWatch \/ CloseFails \/ ClaimTrigger
  \/ ClaimTriggerFails \/ Announce \/ AnnounceFails \/ Start \/ StartFails
  \/ Command
  \/ \E d \in Desks :
       \/ Fails(d) \/ FirstAccount(d) \/ TakeSnapshot(d) \/ MarketClosed(d) \/ Answer(d)
       \/ SecondAccount(d) \/ Judge(d) \/ CheckCap(d) \/ Track(d) \/ Create(d) \/ Save(d)
       \/ SaveFails(d)
  \/ Complete \/ CompleteFails \/ Report \/ ReportFails
  \/ Crash

Spec == Init /\ [][Next]_vars
-----------------------------------------------------------------------------
(* Properties. *)

Taken(w) == {t \in 1..clock : <<w, t>> \in claimed}
\* A close in the life of the watch, up to t, that met its trigger.
TriggerMet(w, t) ==
  LET s == watch[w].scenario
      levels == ClaimedLevels(s.zone)
  IN \E b \in watch[w].made + 1 .. t :
       IF ReadAsZone(s) THEN b = t /\ Between(price[b], levels[1], levels[2])
                        ELSE Crosses(s.direction, price[b], levels[1])

\* watch_manager.py: a closed candle is judged exactly once for a watch, the
\* trigger first and then the invalidation of the same candle.  So a watch
\* ends TRIGGERED or INVALIDATED on a candle of its own life that it has taken,
\* with time left.  A candle that triggered the watch ended it, unless its time
\* ran out before the trigger was claimed, and one that invalidated it without
\* triggering it did so too.  What excuses either is a crash, a broker or a
\* write that failed between the claim of the candle and the end of the watch;
\* and a watch that waits for its first M15 candle: until that closes the
\* invalidation is not looked at, and the candle is not looked at again.
EndingExplained ==
  \A w \in DOMAIN watch :
    LET r == watch[w]
        s == r.scenario
    IN /\ r.status = "TRIGGERED" =>
            /\ r.closedAt < s.expires
            /\ s.kind.timed \/ \E t \in Taken(w) : r.made < t /\ t <= r.closedAt /\ TriggerMet(w, t)
       /\ r.status = "INVALIDATED" /\ r.by = "monitor" =>
            \E t \in Taken(w) : r.made < t /\ ClaimedInvalidates(s, price[t])
       /\ \A t \in Taken(w) :
            /\ ClaimedInvalidates(s, price[t]) /\ ~TriggerMet(w, t) =>
                 \/ r.status = "INVALIDATED"
                 \/ <<w, t>> \in excused
                 \/ desk["monitor"].w = w /\ desk["monitor"].at = t
                 \/ ReadsM15(s) /\ \A b \in r.made + 1 .. t : b % Length["M15"] # 0
            /\ TriggeredBy(w, t) =>
                 \/ r.status # "ACTIVE" \/ clock >= s.expires
                 \/ <<w, t>> \in excused
                 \/ desk["monitor"].w = w /\ desk["monitor"].at = t

Doing(w) == desk["monitor"].w = w

\* monitor_loop.py: only the worker that makes the change to TRIGGERED sends
\* the message and runs the recheck.  A watch is rechecked at most once, after
\* its trigger was claimed and told; what the row says of the recheck is what
\* was stored; a trade that is tracked has its analysis.  Only a crash or a
\* write that failed leaves a triggered watch without a result, for ever, and
\* only a call or a write that failed lets ERROR stand over what was stored, or
\* a trade tracked without its analysis.  The chat is not told of a result only
\* when the market was closed and nothing was stored.
RecheckAccounted ==
  /\ \A w \in DOMAIN watch :
       LET r == watch[w]
           id == <<"recheck", w>>
       IN /\ r.started <= 1
          /\ r.started = 1 => r.status = "TRIGGERED" /\ r.note # "none"
          /\ r.status = "TRIGGERED" /\ r.result = "none" => Doing(w) \/ id \in cut
          /\ r.result # "none" => r.started = 1
          /\ r.result = "TRADE" => <<id, "TRADE">> \in saved
          /\ r.result = "WATCH" /\ <<id, "WATCH">> \notin saved =>
               r.note = "suppressed" \/ Doing(w) \/ id \in cut
          /\ r.note = "suppressed" =>
               (r.result = "WATCH" \/ id \in cut) /\ \A x \in saved : x[1] # id
          /\ r.result # "none" =>
               \A x \in saved : x[1] = id => r.result = x[2] \/ id \in cut
          /\ r.result = "ERROR" => id \in cut
          /\ r.result # "none" /\ (\E x \in tracked : x.id = id) =>
               \/ r.result = "TRADE"
               \/ r.result = "ERROR" /\ id \in cut
  /\ \A x \in tracked :
       \/ <<x.id, "TRADE">> \in saved \/ x.id \in cut
       \/ \E d \in Desks : At(d, "saving") /\ Id(d) = x.id

\* analysis_service.py:169-171, of a recheck when the market is closed: the
\* watch is neither closed nor replaced, only freed for the next check, when the
\* market is open and a new candle has closed.
DeferredIsFree == \A w \in DOMAIN watch : watch[w].note = "suppressed" => Active(w)

\* analysis_service.py: a new analysis waits until the fate of the open watch
\* is settled, and a scenario that did not change is not watched again.  At
\* most the newest watch is open, and it differs from the one before it.
OneScenario ==
  \A w \in DOMAIN watch :
    w < Len(watch) =>
      /\ ~Active(w)
      /\ ~ClaimedSame(watch[w].scenario, watch[w + 1].scenario)
=============================================================================
