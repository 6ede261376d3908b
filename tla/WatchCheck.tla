----------------------------- MODULE WatchCheck -----------------------------
(***************************************************************************)
(* check_trigger: how one watch reads the closed candles of several        *)
(* timeframes, poll after poll, with the broker failing, showing a candle  *)
(* late, the process dying, and another thread closing the watch.          *)
(*                                                                         *)
(* Time counts closes of the shortest timeframe.  A candle is named by the *)
(* time it closes; price[t] is the close of every candle that closes at t. *)
(* The row is created at time 0, and a cursor of 0 is a cursor not yet     *)
(* written.  What the endings do elsewhere is module WatchRuntime.         *)
(*                                                                         *)
(* An operator whose comment begins with "Slip" is a plausible mistake in  *)
(* the operator that follows it.                                           *)
(***************************************************************************)
EXTENDS Conditions

CONSTANTS
  Length,        \* closes of the shortest timeframe in a candle of each
  Prices,        \* closes a candle can have
  Scenarios,     \* scenarios a row can hold; one that does not parse is the
                 \*   row of an older database
  MaxTime,       \* bound: closes the clock runs through
  MaxFaults,     \* bound: polls in which the broker does not answer in time
  MaxCrashes     \* bound: times the process dies

ASSUME WatchCheckAssumption ==
  /\ Length \in [Frames -> Nat \ {0}] /\ Length["M5"] = 1
  /\ Prices \subseteq Nat /\ \A s \in Scenarios : s.expires \in Nat
  /\ MaxTime \in Nat /\ MaxFaults \in Nat /\ MaxCrashes \in Nat

Decisions == {"trigger", "invalidation"}

VARIABLES
  clock, price,                \* the market
  scenario,                    \* the row: its conditions and expiration,
  closed,                      \*   close_status,
  cursor, event, eventAt,      \*   candle_cursors, pending_event
  reports,                     \* outbox rows 'watch-check:<id>:M5:<close>'
  pc, now, after, bars,        \* check_trigger: its clock, cursors, candles
  whole, reason,               \*   (none of them shown late)
  checked, served,             \* history: candles evaluated, in order; the
                               \*   clocks of the polls that saw and served all
  faults, crashes

market == <<clock, price>>
row == <<scenario, closed, cursor, event, eventAt, reports>>
poll == <<pc, now, after, bars, whole, reason>>
history == <<checked, served>>
vars == <<market, row, poll, history, faults, crashes>>

Init ==
  /\ clock = 0 /\ price = <<>>
  /\ scenario \in Scenarios
  /\ closed = "no"
  /\ cursor = [f \in Frames |-> 0] /\ event = "none" /\ eventAt = 0
  /\ reports = {}
  /\ pc = "idle" /\ now = 0 /\ after = cursor /\ bars = {}
  /\ whole = TRUE /\ reason = "none"
  /\ checked = <<>> /\ served = {}
  /\ faults = 0 /\ crashes = 0

Trigger == TriggerOf(scenario)
Invalid == InvalidOf(scenario)
Watched == {Trigger.timeframe, Invalid.timeframe, "M5"}
Ended(t) == t >= scenario.expires

\* The last candle of frame f that has closed at t, 0 when there is none.
LastClosed(f, t) == t - (t % Length[f])
-----------------------------------------------------------------------------
Tick ==
  /\ clock < MaxTime
  /\ clock' = clock + 1
  /\ \E p \in Prices : price' = Append(price, p)
  /\ UNCHANGED <<row, poll, history, faults, crashes>>

\* An initial analysis that finds a position ends the watch from its thread.
CloseElsewhere ==
  /\ closed = "no"
  /\ closed' = "invalidated"
  /\ UNCHANGED <<market, scenario, cursor, event, eventAt, reports, poll, history,
                 faults, crashes>>
-----------------------------------------------------------------------------
Tell(why) == pc' = "told" /\ reason' = why

\* Up to the first call of the broker: the expiry, the row read again, a
\* decision found on disk.
Begin ==
  /\ pc = "idle" /\ closed = "no"
  /\ now' = clock /\ after' = cursor
  /\ \/ Ended(clock) /\ Tell("expiration")
     \/ ~Ended(clock) /\ event # "none" /\ Tell(event)
     \/ ~Ended(clock) /\ event = "none" /\ pc' = "asking" /\ UNCHANGED reason
  /\ UNCHANGED <<market, row, bars, whole, history, faults, crashes>>

\* The account is busy, or the stored words do not parse.
AskAccount ==
  /\ pc = "asking"
  /\ \/ Tell("account")
     \/ ~Parses(scenario) /\ Tell("invalidation")
     \/ Parses(scenario) /\ pc' = "fetching" /\ UNCHANGED reason
  /\ UNCHANGED <<market, row, now, after, bars, whole, history, faults, crashes>>

\* Slip: one cursor serves every timeframe.
FetchOneCursor ==
  /\ pc = "fetching"
  /\ bars' = {b \in {[frame |-> f, at |-> LastClosed(f, now)] : f \in Watched} :
                \A f \in Frames : after[f] < b.at}
  /\ pc' = "evaluating" /\ whole' = TRUE
  /\ UNCHANGED <<market, row, now, after, reason, history, faults, crashes>>

\* Of every timeframe only the last candle closed at `now` is taken, and
\* only when its cursor has not passed it.
Fetch ==
  /\ pc = "fetching"
  /\ bars' = {b \in {[frame |-> f, at |-> LastClosed(f, now)] : f \in Watched} :
                after[b.frame] < b.at /\ b.at <= scenario.expires}
  /\ pc' = "evaluating" /\ whole' = TRUE
  /\ UNCHANGED <<market, row, now, after, reason, history, faults, crashes>>

\* The broker has not yet built the newest candle of f: the one before it is
\* the last it can show.
FetchLate(f) ==
  /\ pc = "fetching" /\ faults < MaxFaults /\ f \in Watched
  /\ LastClosed(f, now) > Length[f]
  /\ bars' = {b \in {[frame |-> g, at |-> LastClosed(g, now) - IF g = f THEN Length[f] ELSE 0] :
                       g \in Watched} :
                after[b.frame] < b.at /\ b.at <= scenario.expires}
  /\ pc' = "evaluating" /\ whole' = FALSE
  /\ faults' = faults + 1
  /\ UNCHANGED <<market, row, now, after, reason, history, crashes>>

\* Any call of the broker raises: the poll ends, the loop goes on.
BrokerFails ==
  /\ pc \in {"asking", "fetching"} /\ faults < MaxFaults
  /\ pc' = "idle"
  /\ faults' = faults + 1
  /\ UNCHANGED <<market, row, now, after, bars, whole, reason, history, crashes>>

Stamps == {b.at : b \in bars}
\* The candles of the earliest close time, as far as no cursor has passed them.
Batch == {b \in bars : \A t \in Stamps : b.at <= t}
Fresh(batch) == {b \in batch : cursor[b.frame] < b.at}

\* Slip: a candle of any timeframe meets a condition.
HitsAnyFrame(condition, batch) == \E b \in batch : Matches(condition, price[b.at])

Hits(condition, batch) ==
  \E b \in batch : b.frame = condition.timeframe /\ Matches(condition, price[b.at])

Verdict(batch) ==
  IF Hits(Invalid, batch) THEN "invalidation"
  ELSE IF Hits(Trigger, batch) THEN "trigger" ELSE "none"

\* Slip: the cursor of the trigger's timeframe alone is moved.
MovedTriggerOnly(batch) ==
  [f \in Frames |-> IF \E b \in batch : b.frame = f /\ f = Trigger.timeframe
                    THEN (CHOOSE b \in batch : b.frame = f).at ELSE cursor[f]]

Moved(batch) ==
  [f \in Frames |-> IF \E b \in batch : b.frame = f
                    THEN (CHOOSE b \in batch : b.frame = f).at ELSE cursor[f]]

\* The transaction of one close time: cursors, decision and report together.
Evaluate ==
  /\ pc = "evaluating" /\ bars # {} /\ closed = "no" /\ event = "none"
  /\ LET batch == Fresh(Batch)
         verdict == Verdict(batch)
         at == (CHOOSE b \in Batch : TRUE).at
     IN /\ cursor' = Moved(batch)
        /\ checked' = IF batch = {} THEN checked ELSE Append(checked, batch)
        /\ \/ /\ verdict = "none"
              /\ reports' = reports \cup {b.at : b \in {x \in batch : x.frame = "M5"}}
              /\ bars' = bars \ Batch
              /\ UNCHANGED <<event, eventAt, pc, reason>>
           \/ /\ verdict # "none"
              /\ event' = verdict /\ eventAt' = at
              /\ Tell(verdict)
              /\ UNCHANGED <<reports, bars>>
  /\ UNCHANGED <<market, scenario, closed, now, after, whole, served, faults, crashes>>

\* Another thread has closed the watch meanwhile.
Overtaken ==
  /\ pc = "evaluating" /\ bars # {} /\ (closed # "no" \/ event # "none")
  /\ pc' = "idle"
  /\ UNCHANGED <<market, row, now, after, bars, whole, reason, history, faults, crashes>>

\* No candle is left: the poll has served the watch.
NothingLeft ==
  /\ pc = "evaluating" /\ bars = {}
  /\ pc' = "idle"
  /\ served' = IF whole THEN served \cup {now} ELSE served
  /\ UNCHANGED <<market, row, now, after, bars, whole, reason, checked, faults, crashes>>

\* claim_watch_trigger: only an open watch with time left is triggered.
Claim == closed' = IF closed = "no" /\ ~Ended(clock) THEN "triggered" ELSE closed

\* The monitor turns the answer of check_trigger into an ending.
Apply ==
  /\ pc = "told"
  /\ \/ reason = "trigger" /\ Claim
     \/ /\ reason # "trigger"
        /\ closed' = IF closed # "no" THEN closed
                     ELSE IF reason = "expiration" THEN "expired" ELSE "invalidated"
  /\ pc' = "idle"
  /\ UNCHANGED <<market, scenario, cursor, event, eventAt, reports, now, after, bars, whole, reason,
                 history, faults, crashes>>

\* The poll is lost with the process, the row is not.
Crash ==
  /\ pc # "idle" /\ crashes < MaxCrashes
  /\ crashes' = crashes + 1
  /\ pc' = "idle"
  /\ UNCHANGED <<market, row, now, after, bars, whole, reason, history, faults>>

Next ==
  \/ Tick \/ CloseElsewhere
  \/ Begin \/ AskAccount \/ Fetch \/ BrokerFails
  \/ \E f \in Frames : FetchLate(f)
  \/ Evaluate \/ Overtaken \/ NothingLeft \/ Apply
  \/ Crash

Spec == Init /\ [][Next]_vars
-----------------------------------------------------------------------------
(* Properties. *)

Evaluated == UNION {checked[i] : i \in DOMAIN checked}

\* README.md of the release: every closed candle is processed once for every
\* timeframe of a watch, whatever crashes, late candles and repeated polls do,
\* and the candles of a timeframe are taken in the order of time.
ReadOnceInOrder ==
  \A i, j \in DOMAIN checked : i < j =>
    \A b \in checked[i], c \in checked[j] : b.frame = c.frame => b.at < c.at

\* A watch becomes TRIGGERED on a candle that closed in its own lifetime and
\* met the trigger, and on no account when a candle evaluated before it, or
\* with it, had met the invalidation; an invalidation by price is as real.
DecisionEarned ==
  /\ closed = "triggered" \/ event = "trigger" =>
       /\ [frame |-> Trigger.timeframe, at |-> eventAt] \in Evaluated
       /\ Matches(Trigger, price[eventAt])
       /\ eventAt < scenario.expires
       /\ \A b \in Evaluated : b.frame = Invalid.timeframe => ~Matches(Invalid, price[b.at])
  /\ event = "invalidation" =>
       /\ [frame |-> Invalid.timeframe, at |-> eventAt] \in Evaluated
       /\ Matches(Invalid, price[eventAt])

\* A candle the cursor has passed without looking at it was never the last
\* closed one of a poll that ran to its end: only failing or missing polls
\* leave candles unread, and never the cursor of another timeframe.
SkipsExplained ==
  closed = "no" /\ event = "none" /\ Parses(scenario) =>
    \A f \in Watched, t \in 1..clock :
      /\ t % Length[f] = 0 /\ t <= cursor[f]
      /\ [frame |-> f, at |-> t] \notin Evaluated
      => \A n \in served : n < t \/ n >= t + Length[f]
=============================================================================
