------------------------------ MODULE FirstBot ------------------------------
(***************************************************************************)
(* The bot at the root of the repository on one symbol, and the upgrade of *)
(* its database by the release that replaced it.  Everything runs on one   *)
(* asyncio thread: a coroutine gives way only while it sends a message or  *)
(* sleeps, and the calls of the broker, of the model and of the database   *)
(* block it.  But every UPDATE is a transaction of its own, so that the    *)
(* process can die between any two of them.                                *)
(*                                                                         *)
(* Only the monitor changes a row, so the rows it listed are not older     *)
(* than those it works on.  A watch has no status here; status is the      *)
(* close_status the upgrade adds to its row.                               *)
(*                                                                         *)
(* Time counts the prices of the market.  The broker is asked for candles  *)
(* from position 0, so the last one it gives is the one still forming: a   *)
(* candle is named by its first price and holds those so far.              *)
(*                                                                         *)
(* An operator whose comment begins with "Slip" is a plausible mistake in  *)
(* the operator that follows it.                                           *)
(***************************************************************************)
EXTENDS OlderRules, Integers

CONSTANTS
  Length,        \* prices in a candle of each timeframe
  Prices,        \* quotes and levels
  Tolerance,     \* how far the levels of an unchanged watch may differ
  Answers,       \* the answers of the model, as the parser tells them apart
  Account,       \* balance, point value and volume limits of the symbol
  Legacy,        \* the tables of watches the bot may find when it is started
  MaxTime,       \* bound: prices the clock runs through
  MaxChats,      \* bound: commands of the chat
  MaxAnalyses,   \* bound: answers of the model
  MaxTroubles    \* bound: calls that fail, and times the process dies

Statuses == {"TRADE", "WATCH", "NO_TRADE"}

\* A row, its scenario one of those given.
RowsOf(scenarios) ==
  [scenario : scenarios, made : Nat, checked : Nat, locked : BOOLEAN, triggered : BOOLEAN,
   closed : BOOLEAN, status : {"none"}]

LegacyScenarios == UNION {{rows[w].scenario : w \in DOMAIN rows} : rows \in Legacy}

\* The numbers of a trade are those the parser read, whatever their sign; a
\* row an earlier run left locked had been marked before.
ASSUME FirstBotAssumption ==
  /\ Length \in [Frames -> Nat \ {0}] /\ Prices \subseteq Nat
  /\ Tolerance \in Nat /\ MaxTime \in Nat /\ MaxChats \in Nat
  /\ MaxAnalyses \in Nat /\ MaxTroubles \in Nat
  /\ \A a \in Answers : a.status \in Statuses
  /\ \A a \in Answers :
       a.status = "TRADE" => a.entry \in Int /\ a.stop \in Int /\ a.risk \in Int
  /\ Account \in [balance : Nat, point : Nat, least : Nat, most : Nat]
  /\ \A rows \in Legacy :
       /\ rows \in Seq(RowsOf(LegacyScenarios))
       /\ \A w \in DOMAIN rows : ~rows[w].closed /\ rows[w].locked => rows[w].triggered

Desks == {"chat", "monitor"}
Other(d) == IF d = "chat" THEN "monitor" ELSE "chat"

VARIABLES
  clock, price,      \* the market: prices so far
  release,           \* the bot that owns the database: "first" or "second"
  watch,             \* the table of watches, oldest first
  tracked, saved,    \* the analyses with a row in trade_tracking, and with
                     \*   one in analyses, with its status
  desk,              \* what the coroutine of each desk is doing
  told,              \* history: the desks that sent a TRADE
  lost, cut,         \* history: watches nobody will look at again, and analyses
                     \*   a crash or a failure cut short; at the start those
                     \*   whose rows an earlier run left so
  chats, analyses, troubles

market == <<clock, price, release>>
tables == <<watch, tracked, saved>>
history == <<told, lost, cut>>
bounds == <<chats, analyses, troubles>>
vars == <<market, tables, desk, history, bounds>>

Idle == [pc |-> "idle", w |-> 0, at |-> 0, id |-> 0, answer |-> "none",
         status |-> "none", volume |-> 0, busy |-> FALSE]

NewWatch(s) ==
  [scenario |-> s, made |-> clock, checked |-> 0, locked |-> FALSE, triggered |-> FALSE,
   closed |-> FALSE, status |-> "none"]

Init ==
  /\ clock = 1 /\ price \in {<<p>> : p \in Prices} /\ release = "first"
  /\ watch \in Legacy
  /\ tracked = {} /\ saved = {}
  /\ desk = [d \in Desks |-> Idle]
  /\ told = {}
  /\ lost = {w \in DOMAIN watch : ~watch[w].closed /\ watch[w].triggered}
  /\ cut = {<<w, 0>> : w \in {v \in DOMAIN watch : watch[v].closed /\ ~watch[v].triggered}}
  /\ chats = 0 /\ analyses = 0 /\ troubles = 0

Open(w) == ~watch[w].closed
Candle(t) == t - ((t - 1) % Length["M5"])

\* Where a coroutine lets the other one run.
Awaits == {"idle", "called", "telling", "apologising"}
At(d, pc) == release = "first" /\ desk[d].pc = pc /\ desk[Other(d)].pc \in Awaits
Go(d, pc) == desk' = [desk EXCEPT ![d].pc = pc]
Leave(d) == desk' = [desk EXCEPT ![d] = Idle]
Doing(w) == desk["monitor"].w = w

\* update_watch_flags: the three flags of a row that is named, whatever it holds.
Flags(w, locked, triggered, closed) ==
  watch' = [watch EXCEPT ![w].locked = locked, ![w].triggered = triggered, ![w].closed = closed]
Reset(w) == Flags(w, FALSE, FALSE, watch[w].closed)
-----------------------------------------------------------------------------
Tick ==
  /\ clock < MaxTime /\ release = "first"
  /\ clock' = clock + 1
  /\ \E p \in Prices : price' = Append(price, p)
  /\ UNCHANGED <<release, tables, desk, history, bounds>>

\* notify logs what it cannot send.
Command ==
  /\ At("chat", "idle") /\ chats < MaxChats
  /\ chats' = chats + 1
  /\ Go("chat", "called")
  /\ UNCHANGED <<market, tables, history, analyses, troubles>>

Begin ==
  /\ At("chat", "called")
  /\ Go("chat", "snapshot")
  /\ UNCHANGED <<market, tables, history, bounds>>
-----------------------------------------------------------------------------
(* The monitor: check_trigger, and the flags before the recheck. *)

Watched(w) == Open(w) /\ ~watch[w].locked /\ ~watch[w].triggered

\* The end of a watch is a trigger like any other, without a candle.
FindExpired(w) ==
  /\ At("monitor", "idle") /\ Watched(w) /\ clock >= watch[w].scenario.expires
  /\ desk' = [desk EXCEPT !["monitor"].pc = "marking", !["monitor"].w = w]
  /\ UNCHANGED <<market, tables, history, bounds>>

\* The candle that is forming is looked at once, as it is then.
TakeCandle(w) ==
  /\ At("monitor", "idle") /\ Watched(w) /\ clock < watch[w].scenario.expires
  /\ watch[w].checked # Candle(clock)
  /\ watch' = [watch EXCEPT ![w].checked = Candle(clock)]
  /\ desk' = [desk EXCEPT !["monitor"].pc = "judging candle", !["monitor"].w = w,
                          !["monitor"].at = clock]
  /\ UNCHANGED <<market, tracked, saved, history, bounds>>

Reaches(direction, seen, level) ==
  \E p \in seen : IF direction = "BUY" THEN p >= level ELSE p <= level

\* At the level is enough; a zone is touched by any part of the candle.  The
\* close of a candle that is forming is the price, and that of M15 the price
\* when it is asked for.
TriggeredBy(s, at) ==
  LET levels == ClaimedLevels(s.zone)
      seen == {price[t] : t \in Candle(at)..at}
  IN /\ levels # <<>>
     /\ IF ReadAsZone(s)
        THEN /\ Reaches("BUY", seen, LowerOf(levels[1], levels[2]))
             /\ Reaches("SELL", seen, HigherOf(levels[1], levels[2]))
        ELSE IF ReadsM15(s) THEN Reaches(s.direction, {price[clock]}, levels[1])
        ELSE IF "close" \in s.kind.words THEN Reaches(s.direction, {price[at]}, levels[1])
        ELSE Reaches(s.direction, seen, levels[1])

JudgeCandle ==
  /\ At("monitor", "judging candle")
  /\ IF TriggeredBy(watch[desk["monitor"].w].scenario, desk["monitor"].at)
     THEN desk' = [desk EXCEPT !["monitor"].pc = "marking", !["monitor"].at = 0]
     ELSE Leave("monitor")
  /\ UNCHANGED <<market, tables, history, bounds>>

\* mark_triggered and lock_watch, two updates.
Mark ==
  /\ At("monitor", "marking")
  /\ LET w == desk["monitor"].w IN Flags(w, watch[w].locked, TRUE, watch[w].closed)
  /\ Go("monitor", "locking")
  /\ UNCHANGED <<market, tracked, saved, history, bounds>>

Lock ==
  /\ At("monitor", "locking")
  /\ LET w == desk["monitor"].w IN Flags(w, TRUE, watch[w].triggered, watch[w].closed)
  /\ Go("monitor", "snapshot")
  /\ UNCHANGED <<market, tracked, saved, history, bounds>>

\* Before the recheck nothing catches an error but the loop itself, which
\* leaves the row as it is.
TickFails ==
  /\ \E pc \in {"judging candle", "marking", "locking"} : At("monitor", pc)
  /\ troubles < MaxTroubles /\ troubles' = troubles + 1
  /\ lost' = IF desk["monitor"].pc = "locking" THEN lost \cup {desk["monitor"].w} ELSE lost
  /\ Leave("monitor")
  /\ UNCHANGED <<market, tables, told, cut, chats, analyses>>
-----------------------------------------------------------------------------
(* The analysis of either desk: run_initial_analysis, run_watch_recheck and  *)
(* _finalize.                                                                *)

\* Slip: a recheck the closed market puts off is left as it was marked.
MarketClosedLeaves(d) ==
  /\ At(d, "snapshot")
  /\ IF d = "chat"
     THEN /\ saved' = saved \cup {<<0, "NO_TRADE">>}
          /\ desk' = [desk EXCEPT ![d].pc = "telling", ![d].status = "NO_TRADE"]
          /\ UNCHANGED watch
     ELSE UNCHANGED <<watch, saved>> /\ Leave(d)
  /\ UNCHANGED <<market, tracked, history, bounds>>

MarketClosed(d) ==
  /\ At(d, "snapshot")
  /\ IF d = "chat"
     THEN /\ saved' = saved \cup {<<0, "NO_TRADE">>}
          /\ desk' = [desk EXCEPT ![d].pc = "telling", ![d].status = "NO_TRADE"]
          /\ UNCHANGED watch
     ELSE Reset(desk[d].w) /\ Leave(d) /\ UNCHANGED saved
  /\ UNCHANGED <<market, tracked, history, bounds>>

\* Any open watch, one nobody looks at too, stands for the chat's answer.
TakeSnapshot(d) ==
  /\ At(d, "snapshot")
  /\ desk' = IF d = "chat" /\ \E w \in DOMAIN watch : Open(w)
             THEN [desk EXCEPT ![d].pc = "telling", ![d].status = "WATCH"]
             ELSE [desk EXCEPT ![d].pc = "asking", ![d].at = clock]
  /\ UNCHANGED <<market, tables, history, bounds>>

ParsedStatus(a) ==
  IF a.status = "WATCH" /\ ~FirstParses(a.scenario) THEN "NO_TRADE" ELSE a.status

Answer(d) ==
  /\ At(d, "asking") /\ analyses < MaxAnalyses
  /\ analyses' = analyses + 1
  /\ \E a \in Answers :
       desk' = [desk EXCEPT ![d].pc = "parsed", ![d].id = analyses + 1, ![d].answer = a,
                            ![d].status = ParsedStatus(a)]
  /\ UNCHANGED <<market, tables, history, chats, troubles>>

\* A position or an order is found: the answer is stored and shown, and the
\* watch that was rechecked stays open, locked and triggered.
AccountBusy(d) ==
  /\ At(d, "parsed")
  /\ desk' = [desk EXCEPT ![d].pc = "saving", ![d].busy = TRUE]
  /\ UNCHANGED <<market, tables, history, bounds>>

\* The account is free, or it cannot be read.
AccountFree(d) ==
  /\ At(d, "parsed")
  /\ Go(d, "judging")
  /\ UNCHANGED <<market, tables, history, bounds>>

\* is_same_setup: the same words, and levels that are close one by one.
FirstSame(old, new) ==
  LET m == ClaimedLevels(old.zone)
      n == ClaimedLevels(new.zone)
  IN /\ old.direction = new.direction /\ old.kind = new.kind
     /\ old.invalidation = new.invalidation
     /\ Len(m) = Len(n)
     /\ \E p \in [DOMAIN m -> DOMAIN n] :
          /\ {p[i] : i \in DOMAIN m} = DOMAIN n
          /\ \A i \in DOMAIN m : Gap(m[i], n[p[i]]) <= Tolerance

\* Slip: the trade is sized and tracked before it is validated.
JudgeTracksAll(d) ==
  /\ At(d, "judging")
  /\ IF desk[d].status = "TRADE"
     THEN desk' = [desk EXCEPT ![d].pc = "tracking",
                               ![d].volume = FirstVolume(desk[d].answer, Account)]
     ELSE Go(d, "settling")
  /\ UNCHANGED <<market, tables, history, bounds>>

\* A trade is held against the quote of its snapshot; a volume that is refused
\* only adds a warning to the text.
Judge(d) ==
  /\ At(d, "judging")
  /\ LET a == desk[d].answer
         bid == price[desk[d].at]
     IN IF desk[d].status = "TRADE"
        THEN \E friday \in BOOLEAN :
               desk' = IF FirstTerms(a, bid, bid + 1, friday)
                       THEN [desk EXCEPT ![d].pc = "tracking",
                                         ![d].volume = FirstVolume(a, Account)]
                       ELSE [desk EXCEPT ![d].pc = "settling", ![d].status = "NO_TRADE"]
        ELSE Go(d, "settling")
  /\ UNCHANGED <<market, tables, history, bounds>>

Track(d) ==
  /\ At(d, "tracking")
  /\ tracked' = tracked \cup {desk[d].id}
  /\ Go(d, "settling")
  /\ UNCHANGED <<market, watch, saved, history, bounds>>

\* The watch that was rechecked goes on when nothing changed; else it is
\* closed, and a new one takes its place in another transaction.
Settle(d) ==
  /\ At(d, "settling")
  /\ LET w == desk[d].w
         fresh == desk[d].status = "WATCH"
     IN IF d = "monitor" /\ fresh /\ FirstSame(watch[w].scenario, desk[d].answer.scenario)
        THEN Reset(w) /\ Go(d, "keeping")
        ELSE /\ IF d = "monitor" THEN Flags(w, FALSE, watch[w].triggered, TRUE)
                ELSE UNCHANGED watch
             /\ Go(d, IF fresh THEN "creating" ELSE "saving")
  /\ UNCHANGED <<market, tracked, saved, history, bounds>>

Create(d) ==
  /\ At(d, "creating")
  /\ watch' = Append(watch, NewWatch(desk[d].answer.scenario))
  /\ Go(d, "saving")
  /\ UNCHANGED <<market, tracked, saved, history, bounds>>

\* save_analysis, last of all; of a watch that goes on nobody is told.
Save(d) ==
  /\ At(d, "saving") \/ At(d, "keeping")
  /\ saved' = saved \cup {<<desk[d].id, desk[d].status>>}
  /\ IF desk[d].pc = "keeping" THEN Leave(d) ELSE Go(d, "telling")
  /\ lost' = IF d = "monitor" /\ desk[d].busy THEN lost \cup {desk[d].w} ELSE lost
  /\ UNCHANGED <<market, watch, tracked, told, cut, bounds>>

TellResult(d) ==
  /\ At(d, "telling")
  /\ told' = IF desk[d].status = "TRADE" THEN told \cup {desk[d]} ELSE told
  /\ Leave(d)
  /\ UNCHANGED <<market, tables, lost, cut, bounds>>

\* An error of the analysis is caught: the chat reads it, the monitor sends it
\* and then frees the watch.
Fails(d) ==
  /\ \E pc \in {"snapshot", "asking", "judging", "tracking", "settling", "creating",
                "saving", "keeping"} : At(d, pc)
  /\ troubles < MaxTroubles /\ troubles' = troubles + 1
  /\ cut' = cut \cup {<<desk[d].w, desk[d].id>>}
  /\ IF d = "chat" THEN Leave(d)
     ELSE desk' = [desk EXCEPT ![d] = [Idle EXCEPT !.pc = "apologising", !.w = desk[d].w]]
  /\ UNCHANGED <<market, tables, told, lost, chats, analyses>>

\* Slip: what the error left is what the next tick finds.
ApologiseOnly ==
  /\ At("monitor", "apologising")
  /\ Leave("monitor")
  /\ UNCHANGED <<market, tables, history, bounds>>

Apologise ==
  /\ At("monitor", "apologising")
  /\ Reset(desk["monitor"].w)
  /\ Leave("monitor")
  /\ UNCHANGED <<market, tracked, saved, history, bounds>>

\* The write that would free the watch, if it is not free by then, fails as
\* the one before it did.
ApologyFails ==
  /\ At("monitor", "apologising")
  /\ lost' = lost \cup {w \in {desk["monitor"].w} : watch[w].triggered}
  /\ Leave("monitor")
  /\ UNCHANGED <<market, tables, told, cut, bounds>>
-----------------------------------------------------------------------------
(* The process dies and is started again, or its successor is.  init_db of   *)
(* the first bot only adds columns.                                          *)

Dies ==
  /\ desk' = [d \in Desks |-> Idle]
  /\ lost' = lost \cup {w \in DOMAIN watch : Doing(w) /\ watch[w].triggered}
  /\ cut' = cut \cup {<<desk[d].w, desk[d].id>> : d \in {e \in Desks : desk[e].pc # "idle"}}

Crash ==
  /\ release = "first"
  /\ troubles < MaxTroubles /\ troubles' = troubles + 1
  /\ \E d \in Desks : desk[d] # Idle
  /\ Dies
  /\ UNCHANGED <<market, tables, told, chats, analyses>>

Ended(row, status) == [row EXCEPT !.closed = TRUE, !.status = status]

\* Slip: only triggered watches that are open are given their end.
UpgradedOpenOnly(rows) ==
  [w \in DOMAIN rows |->
     IF rows[w].triggered /\ ~rows[w].closed THEN Ended(rows[w], "TRIGGERED")
     ELSE IF ~rows[w].closed
             /\ \E v \in DOMAIN rows : w < v /\ ~rows[v].closed /\ ~rows[v].triggered
     THEN Ended(rows[w], "INVALIDATED")
     ELSE rows[w]]

\* init_db of the second: watches that were triggered have ended so, open or
\* without a status; of those still open the newest is kept.  The updates and
\* the index that allows one open watch of a symbol are one transaction, and
\* a start that dies before it is a start that did nothing.
Upgraded(rows) ==
  [w \in DOMAIN rows |->
     IF rows[w].triggered /\ (~rows[w].closed \/ rows[w].status = "none")
     THEN Ended(rows[w], "TRIGGERED")
     ELSE IF ~rows[w].closed
             /\ \E v \in DOMAIN rows : w < v /\ ~rows[v].closed /\ ~rows[v].triggered
     THEN Ended(rows[w], "INVALIDATED")
     ELSE rows[w]]

Upgrade ==
  /\ release = "first" /\ release' = "second"
  /\ watch' = Upgraded(watch)
  /\ Dies
  /\ UNCHANGED <<clock, price, tracked, saved, told, bounds>>

Next ==
  \/ Tick \/ Command \/ Begin
  \/ \E w \in DOMAIN watch : FindExpired(w) \/ TakeCandle(w)
  \/ JudgeCandle \/ Mark \/ Lock \/ TickFails
  \/ \E d \in Desks :
       \/ MarketClosed(d) \/ TakeSnapshot(d) \/ Answer(d) \/ AccountBusy(d) \/ AccountFree(d)
       \/ Judge(d) \/ Track(d) \/ Settle(d) \/ Create(d) \/ Save(d) \/ TellResult(d) \/ Fails(d)
  \/ Apologise \/ ApologyFails
  \/ Crash \/ Upgrade

Spec == Init /\ [][Next]_vars
-----------------------------------------------------------------------------
(* Properties. *)

\* monitor_loop.py: a passing error must not disable a watch for ever; the
\* lock and the flag are reset so that the next candle is looked at.  An open
\* watch is locked or marked only while its recheck runs, or when the recheck
\* found the account busy, the process died in it, or a write failed that no
\* handler covers; then it is open for ever, and every command for its symbol
\* is answered with it.
StuckExplained ==
  release = "first" =>
    \A w \in DOMAIN watch :
      /\ Open(w) /\ (watch[w].locked \/ watch[w].triggered) => Doing(w) \/ w \in lost
      /\ w \in lost /\ Open(w) => watch[w].triggered

\* A trade held against the quote it was asked with; its volume, when one was
\* given, risks more than the trade's own risk by no more than half a lot step.
Priced(m) ==
  LET bid == price[m.at]
      loss == LossOfStep(m.answer, Account)
  IN /\ \E friday \in BOOLEAN : FirstTerms(m.answer, bid, bid + 1, friday)
     /\ m.volume # 0 =>
          2 * m.volume * loss * Whole <= 2 * Account.balance * m.answer.risk + loss * Whole

\* analysis_service.py: a TRADE that is shown as a new signal held against the
\* quote it was asked with, is tracked, and its volume risks more than the
\* trade's own risk by no more than half a lot step.  What is stored as TRADE
\* is tracked unless the account was busy, and what is tracked is stored,
\* unless a crash or a failing write came between.
TradesAccounted ==
  /\ \A m \in told :
       /\ <<m.id, "TRADE">> \in saved
       /\ m.busy <=> m.id \notin tracked
       /\ ~m.busy => Priced(m)
  /\ \A id \in tracked :
       \/ <<id, "TRADE">> \in saved
       \/ \E c \in cut : c[2] = id
       \/ \E d \in Desks : desk[d].id = id /\ desk[d].pc \in {"settling", "saving"}

\* storage/db.py of the release: the upgrade leaves at most one open watch,
\* one the old bot still looked at, and none newer was given up for it; every
\* watch that was stuck has ended as TRIGGERED; a closed watch is not opened,
\* and one without a status is one whose recheck failed after it closed the
\* row; and to start again changes nothing.
UpgradeRepairs ==
  [][release # release' =>
       /\ DOMAIN watch' = DOMAIN watch
       /\ Upgraded(watch') = watch'
       /\ \A v, w \in DOMAIN watch : ~watch'[v].closed /\ ~watch'[w].closed => v = w
       /\ \A w \in DOMAIN watch :
            /\ Open(w) /\ w \in lost => watch'[w].status = "TRIGGERED"
            /\ Watched(w) => \E v \in DOMAIN watch : w <= v /\ Watched(v) /\ ~watch'[v].closed
            /\ ~Open(w) => watch'[w].closed
            /\ watch'[w].closed /\ watch'[w].status = "none" => \E c \in cut : c[1] = w]_vars
=============================================================================
