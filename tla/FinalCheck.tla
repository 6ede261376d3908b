----------------------------- MODULE FinalCheck -----------------------------
(***************************************************************************)
(* One analysis from its first look at the market to its final             *)
(* transaction: the snapshot, the model's slow and failing requests while  *)
(* the market moves on, the parser, and everything _finalize does to the   *)
(* answer before it is stored.  The analysis is either an initial one,     *)
(* which may create a watch, or the check after a watch has triggered,     *)
(* which may not.                                                          *)
(*                                                                         *)
(* Time is counted in units of which Length gives each timeframe several,  *)
(* so that a quote can be older than the last close.  A candle is named by *)
(* the time it closes; price holds the closes of the shortest timeframe.   *)
(* Locks, jobs and the tables are module WatchRuntime; the open-risk cap   *)
(* between two analyses is module OpenRisk.                                *)
(*                                                                         *)
(* An operator whose comment begins with "Slip" is a plausible mistake in  *)
(* the operator that follows it.                                           *)
(***************************************************************************)
EXTENDS TradeRules

CONSTANTS
  Length,        \* units of time in a candle of each timeframe
  Grace,         \* what the age of a closed candle may exceed its length by
                 \*   (the code: a minute)
  Prices,        \* closes and quotes
  Histories,     \* closes before the analysis begins
  Pasts,         \* what the analysis may come after: kind "parent" (the
                 \*   triggered watch), "previous" (the symbol's last closed
                 \*   watch) or "none"
  Answers,       \* the answers of the model, as the parser tells them apart
  Account,       \* balance, point value and volume limits of the symbol
  OpenRisks,     \* risk of what is open on the account
  Charts,        \* images described before the decision is asked for
  MaxAttempts,   \* requests made for one description or decision
  StartAt, MaxTime \* bound: the clock's first and last value

ASSUME FinalCheckAssumption ==
  /\ Length \in [Frames -> Nat \ {0}] /\ \A f \in Frames : Length[f] % Length["M5"] = 0
  /\ Grace \in Nat /\ Grace < Length["M5"]
  /\ Charts \in Nat /\ MaxAttempts \in Nat \ {0}
  /\ StartAt \in Nat /\ MaxTime \in Nat /\ OpenRisks \subseteq Nat
  /\ \A h \in Histories : h \in Seq(Prices) /\ Len(h) = StartAt \div Length["M5"]
  /\ \A p \in Pasts : /\ p.parentAt \in Nat /\ p.closedAt \in Nat
                      /\ p.kind = "parent" => Parses(p.scenario)
  /\ \A a \in Answers : /\ a.entry \in Nat /\ a.stop \in Nat /\ a.risk \in Nat
                        /\ a.scenario.expires \in Nat
  /\ Prices \subseteq Nat
  /\ Account \in [balance : Nat, point : Nat, least : Nat, most : Nat]

Bars == {"M15", "H1"}      \* timeframes whose structure is compared
Statuses == {"TRADE", "WATCH", "NO_TRADE"}

VARIABLES
  clock, price,              \* the market
  past,                      \* parent, or the last closed watch
  pc,
  snap, snapAt,              \* last moment the snapshot knows; when it was taken
  described, attempt,        \* charts described, the current attempt
  answer, status,            \* what the model will answer; its status so far
  fresh, freshAt,            \* the second snapshot
  quote, steps,              \* its bid, and the volume computed from it
  baselineAt,                \* when the watch's last candle was looked at
  outcome, outcomeAt         \* what was stored or returned

market == <<clock, price>>
request == <<described, attempt>>
trade == <<fresh, freshAt, quote, steps>>
vars == <<market, past, pc, snap, snapAt, request, answer, status, trade, baselineAt,
          outcome, outcomeAt>>

Init ==
  /\ clock = StartAt /\ price \in Histories
  /\ past \in Pasts
  /\ pc = "begin"
  /\ snap = 0 /\ snapAt = 0
  /\ described = 0 /\ attempt = 1
  /\ answer \in Answers /\ status = "NO_TRADE"
  /\ fresh = 0 /\ freshAt = 0 /\ quote = 0 /\ steps = 0
  /\ baselineAt = 0
  /\ outcome = "none" /\ outcomeAt = 0

HasParent == past.kind = "parent"
LastClosed(f, t) == t - (t % Length[f])
CloseAt(t) == price[t \div Length["M5"]]
-----------------------------------------------------------------------------
\* What the market does after the analysis is over is not followed.
Tick ==
  /\ clock < MaxTime /\ pc # "done"
  /\ clock' = clock + 1
  /\ IF clock' % Length["M5"] = 0
     THEN \E p \in Prices : price' = Append(price, p)
     ELSE price' = price
  /\ UNCHANGED <<past, pc, snap, snapAt, request, answer, status, trade, baselineAt,
                 outcome, outcomeAt>>

\* The analysis ends with a result.
Return(result) ==
  /\ pc' = "done" /\ outcome' = result /\ outcomeAt' = clock

\* An exception leaves the analysis: the worker will answer NO_TRADE.
Raise == Return("failed")
Stay == UNCHANGED <<outcome, outcomeAt>>
-----------------------------------------------------------------------------
(* Before the model. *)

\* The account is read first; only a free one lets the analysis go on.
FirstAccount ==
  /\ pc = "begin"
  /\ \/ pc' = "snapshot" /\ Stay
     \/ Return("NO_TRADE")
  /\ UNCHANGED <<market, past, snap, snapAt, request, answer, status, trade, baselineAt>>

\* A snapshot knows the candles closed before its last quote, which may be
\* older than the clock; with a quote too old the broker's adapter raises.
Known(age) == clock - age
QuoteAges == 0 .. (Length["M5"] - 1)

TakeSnapshot ==
  /\ pc = "snapshot"
  /\ \/ \E age \in QuoteAges :
          /\ snap' = Known(age) /\ snapAt' = clock
          /\ IF HasParent /\ clock >= past.scenario.expires
             THEN Return("NO_TRADE")
             ELSE pc' = "asking" /\ Stay
     \/ Return("NO_TRADE") /\ UNCHANGED <<snap, snapAt>>     \* the market is closed
     \/ Raise /\ UNCHANGED <<snap, snapAt>>
  /\ UNCHANGED <<market, past, request, answer, status, trade, baselineAt>>
-----------------------------------------------------------------------------
(* The requests: every chart is described, then the decision is asked for. *)

Deciding == described = Charts

\* A description found in the cache costs no request.
FromCache ==
  /\ pc = "asking" /\ ~Deciding /\ attempt = 1
  /\ described' = described + 1
  /\ UNCHANGED <<market, past, pc, snap, snapAt, attempt, answer, status, trade,
                 baselineAt, outcome, outcomeAt>>

Describe ==
  /\ pc = "asking" /\ ~Deciding
  /\ described' = described + 1 /\ attempt' = 1
  /\ UNCHANGED <<market, past, pc, snap, snapAt, answer, status, trade, baselineAt,
                 outcome, outcomeAt>>

\* One more attempt, or the last one was made.
Retry ==
  IF attempt < MaxAttempts
  THEN attempt' = attempt + 1 /\ pc' = pc /\ Stay
  ELSE Raise /\ UNCHANGED attempt

TransientFailure ==
  /\ pc = "asking"
  /\ Retry
  /\ UNCHANGED <<market, past, snap, snapAt, described, answer, status, trade, baselineAt>>

\* Refusal, exhausted quota, cut-off answer: raised at once.
PermanentFailure ==
  /\ pc = "asking"
  /\ Raise
  /\ UNCHANGED <<market, past, snap, snapAt, described, attempt, answer, status, trade,
                 baselineAt>>

\* What parse_ai_response makes of the answer; a text it rejects is NO_TRADE.
WatchParses(a) == a.grade \in WatchGrades /\ Parses(a.scenario)
TradeParses(a) == a.direction \in Directions /\ a.grade # "none" /\ a.order \in Orders
Parsed(a) ==
  IF \/ a.status = "TRADE" /\ TradeParses(a)
     \/ a.status = "WATCH" /\ WatchParses(a)
  THEN a.status ELSE "NO_TRADE"

Decision ==
  /\ pc = "asking" /\ Deciding
  /\ status' = Parsed(answer)
  /\ pc' = "answered"
  /\ UNCHANGED <<market, past, snap, snapAt, described, attempt, answer, trade, baselineAt,
                 outcome, outcomeAt>>
-----------------------------------------------------------------------------
(* _finalize. *)

\* After a trigger: the direction is the scenario's, the trigger is neither
\* denied nor waited for again, and a timeframe without a new candle keeps its
\* structure.
Contradicts(a) ==
  \/ status = "WATCH"
  \/ status = "TRADE" /\ a.direction # past.scenario.direction
  \/ a.denies
  \/ \E f \in Bars : f \in a.relabels /\ LastClosed(f, past.parentAt) = LastClosed(f, snap)

\* The account again, then the comparisons with the parent.
SecondAccount ==
  /\ pc = "answered"
  /\ \/ Return("NO_TRADE") /\ UNCHANGED status     \* busy or unreadable
     \/ /\ status' = IF HasParent /\ Contradicts(answer) THEN "NO_TRADE" ELSE status
        /\ pc' = CASE status' = "TRADE" -> "checking"
                   [] status' = "WATCH" -> "comparing"
                   [] OTHER -> "committing"
        /\ Stay
  /\ UNCHANGED <<market, past, snap, snapAt, request, answer, trade, baselineAt>>

\* Candles that closed between the two snapshots, as the second knows them.
Changed(known) == \E f \in Frames : LastClosed(f, known) # LastClosed(f, snap)

\* latest_closed is there and not older than its length and the grace.
FreshEnough(known) == \A f \in Frames :
  LastClosed(f, known) > 0 /\ clock - LastClosed(f, known) <= Length[f] + Grace

ParentStands(known) ==
  /\ clock < past.scenario.expires
  /\ ~Matches(InvalidOf(past.scenario), CloseAt(LastClosed(InvalidOf(past.scenario).timeframe, known)))

\* Slip: the candles of the second snapshot are not compared with the first's.
AcceptedUnchanged(known, bid, friday) ==
  /\ FreshEnough(known)
  /\ answer.frames = Frames
  /\ TermsHold(answer, bid, bid + 1, friday)
  /\ clock < answer.expires
  /\ HasParent => ParentStands(known)

Accepted(known, bid, friday) ==
  /\ FreshEnough(known)
  /\ answer.frames = Frames
  /\ TermsHold(answer, bid, bid + 1, friday)
  /\ clock < answer.expires
  /\ HasParent => ParentStands(known)
  /\ ~Changed(known)

\* The second snapshot, its validation and the volume.
CheckTrade ==
  /\ pc = "checking"
  /\ \/ Raise /\ UNCHANGED <<status, trade>>       \* the broker does not answer
     \/ \E age \in QuoteAges, bid \in Prices, friday \in BOOLEAN :
          /\ fresh' = Known(age) /\ freshAt' = clock /\ quote' = bid
          /\ steps' = Volume(answer, Account)
          /\ IF Accepted(fresh', bid, friday) /\ steps' > 0
             THEN pc' = "capping" /\ UNCHANGED status
             ELSE pc' = "committing" /\ status' = "NO_TRADE"
          /\ Stay
  /\ UNCHANGED <<market, past, snap, snapAt, request, answer, baselineAt>>

CheckCap ==
  /\ pc = "capping"
  /\ \/ Raise /\ UNCHANGED status                  \* the account's risk is unknown
     \/ \E openRisk \in OpenRisks :
          /\ status' = IF CapAllows(openRisk, answer, Account) THEN "TRADE" ELSE "NO_TRADE"
          /\ pc' = "committing" /\ Stay
  /\ UNCHANGED <<market, past, snap, snapAt, request, answer, trade, baselineAt>>

\* The last closed watch was invalidated by a later candle of the snapshot
\* other than the newest.
Reset ==
  \E t \in 1 .. (LastClosed(InvalidOf(past.scenario).timeframe, snap) - 1) :
    /\ t % Length[InvalidOf(past.scenario).timeframe] = 0
    /\ t > past.closedAt
    /\ Matches(InvalidOf(past.scenario), CloseAt(t))

\* A longer timeframe closed outside everything the earlier analysis had seen.
RangeBroken ==
  \E f \in Bars :
    /\ LastClosed(f, past.parentAt) > 0
    /\ LastClosed(f, snap) > LastClosed(f, past.parentAt)
    /\ LET seen == {CloseAt(t) : t \in {x \in 1..past.parentAt : x % Length[f] = 0}}
           last == CloseAt(LastClosed(f, snap))
       IN (\A p \in seen : last > p) \/ (\A p \in seen : last < p)

\* Slip: any change of a level is a new scenario.
NewScenarioByLevel(s) ==
  past.scenario.direction # s.direction \/ Reset \/ ~SameScenario(past.scenario, s)

NewScenario(s) ==
  \/ past.scenario.direction # s.direction
  \/ Parses(past.scenario) /\ Reset
  \/ ~SameScenario(past.scenario, s) /\ RangeBroken

Compare ==
  /\ pc = "comparing"
  /\ IF past.kind = "previous" /\ ~NewScenario(answer.scenario)
     THEN status' = "NO_TRADE" /\ pc' = "committing"
     ELSE pc' = "registering" /\ UNCHANGED status
  /\ UNCHANGED <<market, past, snap, snapAt, request, answer, trade, baselineAt, outcome,
                 outcomeAt>>

\* Slip: the last candle of the snapshot serves, it need not be asked for again.
BaselineStood(known) ==
  CreationAllowed(answer.scenario,
                  CloseAt(LastClosed(InvalidOf(answer.scenario).timeframe, snap)), clock)

\* The last closed candle of the invalidation's timeframe, asked for again, is
\* fresh and has not invalidated the scenario.
BaselineStands(known) ==
  LET frame == InvalidOf(answer.scenario).timeframe
      last == LastClosed(frame, known)
  IN /\ last > 0 /\ clock - last <= Length[frame] + Grace
     /\ CreationAllowed(answer.scenario, CloseAt(last), clock)

Register ==
  /\ pc = "registering"
  /\ \/ Raise /\ UNCHANGED <<status, baselineAt>>      \* the broker does not answer
     \/ \E age \in QuoteAges :
          /\ baselineAt' = clock
          /\ status' = IF BaselineStands(Known(age)) THEN "WATCH" ELSE "NO_TRADE"
          /\ pc' = "committing" /\ Stay
  /\ UNCHANGED <<market, past, snap, snapAt, request, answer, trade>>

\* One transaction; a watch that has expired by now raises inside it.
Commit ==
  /\ pc = "committing"
  /\ IF status = "WATCH" /\ answer.scenario.expires <= clock THEN Raise ELSE Return(status)
  /\ UNCHANGED <<market, past, snap, snapAt, request, answer, status, trade, baselineAt>>

Next ==
  \/ Tick
  \/ FirstAccount \/ TakeSnapshot
  \/ FromCache \/ Describe \/ TransientFailure \/ PermanentFailure
  \/ Decision
  \/ SecondAccount \/ CheckTrade \/ CheckCap
  \/ Compare \/ Register \/ Commit

Spec == Init /\ [][Next]_vars
-----------------------------------------------------------------------------
(* Properties. *)

\* Candles of f that closed in the open interval.
ClosedBetween(f, from, to) == {t \in from + 1 .. to - 1 : t % Length[f] = 0}

\* RELEASE_FA.md: a change of direction, the scenario's end, its invalidation
\* and a new candle during the analysis all prevent a TRADE.  So, for a TRADE
\* that is stored, however long the model took: no candle closed between the
\* snapshot it answered and the second one, up to the grace given to a quiet
\* market; the scenario it came from had the same direction, had time left and
\* had not been invalidated by the last candle before that grace; and the
\* volume shown can lose no more than the trade's own risk and the hard cap.
TradeStillStands ==
  outcome = "TRADE" =>
    /\ \A f \in Frames : ClosedBetween(f, snap, freshAt - Grace) = {}
    /\ HasParent =>
         LET invalid == InvalidOf(past.scenario)
             last == LastClosed(invalid.timeframe, freshAt)
         IN /\ answer.direction = past.scenario.direction
            /\ freshAt < past.scenario.expires
            /\ last < freshAt - Grace => ~Matches(invalid, CloseAt(last))
    /\ WithinRisk(answer, Account, steps)
    /\ steps * LossOfStep(answer, Account) * Whole <= Account.balance * HardCap

\* RELEASE_FA.md: before a watch is stored the last closed candle of its
\* invalidation is fetched again, and a scenario already invalidated becomes
\* NO_TRADE.  A stored watch comes from an initial analysis, has time left, and
\* the last candle that closed before its registration, up to the grace, had
\* not invalidated it, although the model answered an older snapshot.
BornStanding ==
  outcome = "WATCH" =>
    LET invalid == InvalidOf(answer.scenario)
        last == LastClosed(invalid.timeframe, baselineAt)
    IN /\ ~HasParent
       /\ outcomeAt < answer.scenario.expires
       /\ last < baselineAt - Grace => ~Matches(invalid, CloseAt(last))

\* RELEASE_FA.md: a small change of level is not a new scenario.  While no
\* longer candle has closed since the earlier analysis, a watch in the same
\* direction comes back only after a candle had invalidated the closed one.
NotARepeat ==
  outcome = "WATCH" /\ past.kind = "previous" =>
    \/ answer.scenario.direction # past.scenario.direction
    \/ \E f \in Bars : ClosedBetween(f, past.parentAt, snap + 1) # {}
    \/ \E t \in past.closedAt + 1 .. snap :
         /\ t % Length[InvalidOf(past.scenario).timeframe] = 0
         /\ Matches(InvalidOf(past.scenario), CloseAt(t))
=============================================================================
