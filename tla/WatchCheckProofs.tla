-------------------------- MODULE WatchCheckProofs --------------------------
(***************************************************************************)
(* What a watch reads, it reads once and in order, and what it decides it  *)
(* has earned, for all lengths of candles, scenarios and prices, and any   *)
(* number of late candles, failing calls and crashes.                      *)
(***************************************************************************)
EXTENDS WatchCheck, Integers, TLAPS

Candles == [frame : Frames, at : Nat]

Typed ==
  /\ clock \in Nat /\ price \in Seq(Nat) /\ Len(price) = clock
  /\ scenario \in Scenarios
  /\ event \in {"none"} \cup Decisions /\ eventAt \in Nat
  /\ cursor \in [Frames -> Nat] /\ after \in [Frames -> Nat]
  /\ now \in 0..clock
  /\ bars \in SUBSET Candles
  /\ checked \in Seq(SUBSET Candles)
  /\ served \in SUBSET Nat

\* No candle that was evaluated lies beyond its timeframe's cursor.
CursorLeads ==
  \A i \in DOMAIN checked : \A b \in checked[i] : b.at <= cursor[b.frame]

\* Every candle in hand, and every candle evaluated, has closed; those in hand
\* closed before the scenario's end.
CandlesClosed ==
  /\ \A b \in Evaluated : b.at \in 1..clock
  /\ pc \in {"asking", "fetching", "evaluating"} => now < scenario.expires
  /\ pc = "fetching" => Parses(scenario)
  /\ pc = "evaluating" => \A b \in bars : b.at \in 1..now

\* While nothing is decided no evaluated candle met the invalidation; what was
\* decided, and what is to be applied, rests on the event stored.
Decided ==
  /\ event # "invalidation" =>
       \A b \in Evaluated : b.frame = Invalid.timeframe => ~Matches(Invalid, price[b.at])
  /\ event = "trigger" =>
       /\ [frame |-> Trigger.timeframe, at |-> eventAt] \in Evaluated
       /\ Matches(Trigger, price[eventAt])
       /\ eventAt < scenario.expires
  /\ event = "invalidation" =>
       /\ [frame |-> Invalid.timeframe, at |-> eventAt] \in Evaluated
       /\ Matches(Invalid, price[eventAt])
  /\ pc = "told" /\ reason = "trigger" => event = "trigger"
  /\ closed = "triggered" => event = "trigger"

IInv == Typed /\ CursorLeads /\ ReadOnceInOrder /\ CandlesClosed /\ Decided
-----------------------------------------------------------------------------
(* Candles. *)

\* The last close is not in the future.
LEMMA LastClosedType ==
  ASSUME NEW f \in Frames, NEW t \in Nat
  PROVE  LastClosed(f, t) \in Nat /\ LastClosed(f, t) <= t
<1>1. Length[f] \in Nat /\ Length[f] > 0
  BY WatchCheckAssumption
<1>2. t % Length[f] \in Nat /\ t % Length[f] <= t
  BY <1>1
<1>. QED
  BY <1>2 DEF LastClosed

LEMMA WatchedFrames == ASSUME NEW f \in Watched, Parses(scenario) PROVE f \in Frames
<1>1. \A fs : NamesOneFrame(fs) => FrameIn(fs) \in Frames
  BY DEF NamesOneFrame, FrameIn, Frames
<1>. QED
  BY <1>1 DEF Watched, Trigger, Invalid, TriggerOf, InvalidOf, Parses, Frames

\* The candles of one transaction have closed together.
LEMMA BatchTogether ==
  ASSUME Typed
  PROVE  /\ Batch \subseteq bars /\ Fresh(Batch) \subseteq Batch
         /\ \A b, c \in Batch : b.at = c.at
<1>1. \A b \in bars : b.at \in Nat
  BY DEF Typed, Candles
<1>. QED
  BY <1>1 DEF Batch, Fresh, Stamps

\* What a transaction adds to the candles evaluated.
LEMMA EvaluatedGrows ==
  ASSUME Typed, NEW batch \in SUBSET Candles,
         checked' = IF batch = {} THEN checked ELSE Append(checked, batch)
  PROVE  /\ checked' \in Seq(SUBSET Candles)
         /\ Evaluated' = Evaluated \cup batch
         /\ \A i \in DOMAIN checked' :
              \/ i \in DOMAIN checked /\ checked'[i] = checked[i]
              \/ i = Len(checked) + 1 /\ checked'[i] = batch
<1>1. CASE batch = {}
  BY <1>1 DEF Typed, Evaluated
<1>2. CASE batch # {}
  <2>1. /\ Len(checked) \in Nat /\ checked \in Seq(SUBSET Candles)
        /\ checked' = Append(checked, batch) /\ DOMAIN checked = 1..Len(checked)
    BY <1>2 DEF Typed
  <2>2. /\ checked' \in Seq(SUBSET Candles) /\ Len(checked') = Len(checked) + 1
        /\ DOMAIN checked' = 1..(Len(checked) + 1)
        /\ \A i \in 1..Len(checked) : checked'[i] = checked[i]
        /\ checked'[Len(checked) + 1] = batch
    BY <2>1
  <2>. QED
    BY <2>1, <2>2 DEF Evaluated
<1>. QED
  BY <1>1, <1>2
-----------------------------------------------------------------------------
(* The steps that read nothing. *)

\* A step that leaves what was read and stored alone, and moves the poll only
\* to where nothing is in hand, or tells what the event says.
LEMMA QuietStep ==
  ASSUME IInv, Typed', UNCHANGED <<market, scenario, cursor, event, eventAt, bars, checked>>,
         pc' \in {"asking", "fetching", "evaluating"} => now' < scenario.expires,
         pc' = "fetching" => Parses(scenario),
         pc' # "evaluating",
         pc' = "told" /\ reason' = "trigger" => event = "trigger",
         closed' = "triggered" => event = "trigger"
  PROVE  IInv'
<1>. USE DEF IInv, market
<1>1. Evaluated' = Evaluated /\ Trigger' = Trigger /\ Invalid' = Invalid
  BY DEF Evaluated, Trigger, Invalid
<1>2. CursorLeads' /\ ReadOnceInOrder'
  BY DEF CursorLeads, ReadOnceInOrder
<1>3. CandlesClosed'
  BY <1>1 DEF CandlesClosed
<1>4. Decided'
  BY <1>1 DEF Decided
<1>. QED
  BY <1>2, <1>3, <1>4

LEMMA TickStep == IInv /\ Tick => IInv'
<1>. SUFFICES ASSUME IInv, Tick PROVE IInv'
  OBVIOUS
<1>. USE DEF IInv
<1>1. /\ UNCHANGED <<scenario, closed, cursor, event, eventAt, pc, now, after, bars, reason,
                     checked, served>>
      /\ clock' = clock + 1
  BY DEF Tick, row, poll, history
<1>2. PICK p \in Prices : price' = Append(price, p)
  BY DEF Tick
<1>3. /\ clock \in Nat /\ price' \in Seq(Nat) /\ Len(price') = clock + 1
      /\ \A t \in 1..clock : price'[t] = price[t]
  BY <1>2, WatchCheckAssumption DEF Typed
<1>4. Evaluated' = Evaluated /\ Trigger' = Trigger /\ Invalid' = Invalid
  BY <1>1 DEF Evaluated, Trigger, Invalid
<1>5. Typed' /\ CursorLeads' /\ ReadOnceInOrder'
  BY <1>1, <1>3 DEF Typed, CursorLeads, ReadOnceInOrder
<1>6. CandlesClosed'
  BY <1>1, <1>3, <1>4 DEF CandlesClosed, Typed
<1>7. Decided'
  <2>1. \A b \in Evaluated : price'[b.at] = price[b.at]
    BY <1>3 DEF CandlesClosed
  <2>2. event \in Decisions => price'[eventAt] = price[eventAt]
    BY <2>1 DEF Decided, Decisions
  <2>3. event \in {"none", "trigger", "invalidation"}
    BY DEF Typed, Decisions
  <2>. QED
    BY <1>1, <1>4, <2>1, <2>2, <2>3 DEF Decided, Decisions
<1>. QED
  BY <1>5, <1>6, <1>7

LEMMA PollStep ==
  IInv /\ (CloseElsewhere \/ Begin \/ AskAccount \/ BrokerFails \/ Overtaken \/ NothingLeft
           \/ Apply \/ Crash) => IInv'
<1>. USE DEF IInv, market, row, poll, history
<1>1. ASSUME IInv, CloseElsewhere PROVE IInv'
  <2>1. Typed' /\ pc' = pc /\ reason' = reason /\ now' = now /\ bars' = bars
    BY <1>1 DEF CloseElsewhere, Typed
  <2>2. /\ UNCHANGED <<market, scenario, cursor, event, eventAt, bars, checked>>
        /\ closed' # "triggered"
    BY <1>1 DEF CloseElsewhere
  <2>3. Evaluated' = Evaluated /\ Trigger' = Trigger /\ Invalid' = Invalid
    BY <2>2 DEF Evaluated, Trigger, Invalid
  <2>. QED
    BY <1>1, <2>1, <2>2, <2>3 DEF CursorLeads, ReadOnceInOrder, CandlesClosed, Decided
<1>2. ASSUME IInv, Begin PROVE IInv'
  <2>1. Typed'
    BY <1>2 DEF Begin, Typed
  <2>2. /\ UNCHANGED <<market, scenario, cursor, event, eventAt, bars, checked, closed>>
        /\ pc' \in {"told", "asking"} /\ now' = clock
        /\ pc' = "asking" => ~Ended(clock)
        /\ pc' = "told" => reason' \in {"expiration", event}
    BY <1>2 DEF Begin, Tell
  <2>3. pc' = "asking" => now' < scenario.expires
    BY <1>2, <2>2, WatchCheckAssumption DEF Ended, Typed
  <2>4. closed' = "triggered" => event = "trigger"
    BY <1>2, <2>2 DEF Decided
  <2>. QED
    BY <1>2, <2>1, <2>2, <2>3, <2>4, QuietStep
<1>3. ASSUME IInv, AskAccount PROVE IInv'
  <2>1. Typed'
    BY <1>3 DEF AskAccount, Typed
  <2>2. /\ UNCHANGED <<market, scenario, cursor, event, eventAt, bars, checked, closed, now>>
        /\ pc' \in {"told", "fetching"} /\ pc = "asking"
        /\ pc' = "fetching" => Parses(scenario)
        /\ pc' = "told" => reason' # "trigger"
    BY <1>3 DEF AskAccount, Tell
  <2>3. now' < scenario.expires /\ (closed' = "triggered" => event = "trigger")
    BY <1>3, <2>2 DEF CandlesClosed, Decided
  <2>. QED
    BY <1>3, <2>1, <2>2, <2>3, QuietStep
<1>4. ASSUME IInv, BrokerFails \/ Overtaken \/ NothingLeft \/ Crash PROVE IInv'
  <2>1. Typed'
    <3>1. UNCHANGED <<market, row, now, after, bars, whole, reason, checked>>
      BY <1>4 DEF BrokerFails, Overtaken, NothingLeft, Crash
    <3>2. now \in Nat
      BY <1>4 DEF Typed
    <3>3. served' \in SUBSET Nat
      <4>1. served' = served \/ served' = served \cup {now}
        BY <1>4 DEF BrokerFails, Overtaken, NothingLeft, Crash
      <4>. QED
        BY <1>4, <3>2, <4>1 DEF Typed
    <3>. QED
      BY <1>4, <3>1, <3>3 DEF Typed
  <2>2. /\ UNCHANGED <<market, scenario, cursor, event, eventAt, bars, checked, closed>>
        /\ pc' = "idle"
    BY <1>4 DEF BrokerFails, Overtaken, NothingLeft, Crash
  <2>3. closed' = "triggered" => event = "trigger"
    BY <1>4, <2>2 DEF Decided
  <2>. QED
    BY <1>4, <2>1, <2>2, <2>3, QuietStep
<1>5. ASSUME IInv, Apply PROVE IInv'
  <2>1. Typed'
    BY <1>5 DEF Apply, Typed
  <2>2. /\ UNCHANGED <<market, scenario, cursor, event, eventAt, bars, checked>>
        /\ pc' = "idle" /\ pc = "told"
        /\ closed' = "triggered" => closed = "triggered" \/ reason = "trigger"
    BY <1>5 DEF Apply, Claim
  <2>3. closed' = "triggered" => event = "trigger"
    BY <1>5, <2>2 DEF Decided
  <2>. QED
    BY <1>5, <2>1, <2>2, <2>3, QuietStep
<1>. QED
  BY <1>1, <1>2, <1>3, <1>4, <1>5
-----------------------------------------------------------------------------
(* The steps that read. *)

LEMMA FetchStep == IInv /\ (Fetch \/ \E f \in Frames : FetchLate(f)) => IInv'
<1>. SUFFICES ASSUME IInv, Fetch \/ \E f \in Frames : FetchLate(f) PROVE IInv'
  OBVIOUS
<1>. USE DEF IInv, market, row, poll, history
<1>1. /\ UNCHANGED <<clock, price, scenario, closed, cursor, event, eventAt, now, after, reason,
                     checked, served>>
      /\ pc = "fetching" /\ pc' = "evaluating"
  BY DEF Fetch, FetchLate
<1>2. \A f \in Frames : Length[f] \in Nat /\ LastClosed(f, now) \in Nat /\ LastClosed(f, now) <= now
  <2>. TAKE f \in Frames
  <2>1. now \in Nat
    BY DEF Typed
  <2>. QED
    BY <2>1, LastClosedType, WatchCheckAssumption
<1>3. /\ now \in Nat /\ now < scenario.expires
      /\ \A f \in Watched : f \in Frames /\ after[f] \in Nat
  BY <1>1, WatchedFrames DEF CandlesClosed, Typed
<1>4. \A b \in bars' : b \in Candles /\ b.at \in 1..now
  <2>1. CASE Fetch
    <3>1. ASSUME NEW b \in bars' PROVE b \in Candles /\ b.at \in 1..now
      <4>1. PICK f \in Watched : b = [frame |-> f, at |-> LastClosed(f, now)]
        BY <2>1, <3>1 DEF Fetch
      <4>2. after[f] < b.at /\ b.at \in Nat /\ b.at <= now /\ after[f] \in Nat /\ f \in Frames
        BY <2>1, <3>1, <4>1, <1>2, <1>3 DEF Fetch
      <4>. QED
        BY <4>1, <4>2, <1>3 DEF Candles
    <3>. QED
      BY <3>1
  <2>2. ASSUME NEW g \in Frames, FetchLate(g)
        PROVE  \A b \in bars' : b \in Candles /\ b.at \in 1..now
    <3>1. ASSUME NEW b \in bars' PROVE b \in Candles /\ b.at \in 1..now
      <4>1. PICK f \in Watched :
              b = [frame |-> f, at |-> LastClosed(f, now) - IF f = g THEN Length[g] ELSE 0]
        BY <2>2, <3>1 DEF FetchLate
      <4>2. after[f] < b.at /\ after[f] \in Nat /\ f \in Frames
        BY <2>2, <3>1, <4>1, <1>2, <1>3 DEF FetchLate
      <4>3. b.at \in Nat /\ b.at <= now
        <5>1. CASE f = g
          BY <2>2, <4>1, <4>2, <5>1, <1>2, <1>3 DEF FetchLate
        <5>2. CASE f # g
          BY <4>1, <4>2, <5>2, <1>2, <1>3
        <5>. QED
          BY <5>1, <5>2
      <4>. QED
        BY <4>1, <4>2, <4>3, <1>3 DEF Candles
    <3>. QED
      BY <3>1
  <2>. QED
    BY <2>1, <2>2
<1>5. Typed'
  BY <1>1, <1>4 DEF Typed
<1>6. Evaluated' = Evaluated /\ Trigger' = Trigger /\ Invalid' = Invalid
  BY <1>1 DEF Evaluated, Trigger, Invalid
<1>. QED
  BY <1>1, <1>3, <1>4, <1>5, <1>6 DEF CursorLeads, ReadOnceInOrder, CandlesClosed, Decided

LEMMA EvaluateStep == IInv /\ Evaluate => IInv'
<1>. SUFFICES ASSUME IInv, Evaluate PROVE IInv'
  OBVIOUS
<1>. USE DEF IInv, market, row, poll, history
<1>. DEFINE batch == Fresh(Batch)
            at == (CHOOSE b \in Batch : TRUE).at
<1>1. /\ UNCHANGED <<clock, price, scenario, closed, now, after, served>>
      /\ pc = "evaluating" /\ event = "none" /\ closed = "no"
      /\ cursor' = Moved(batch)
      /\ checked' = IF batch = {} THEN checked ELSE Append(checked, batch)
      /\ bars' \subseteq bars
      /\ \/ /\ Verdict(batch) = "none" /\ UNCHANGED <<event, eventAt, pc, reason>>
         \/ /\ Verdict(batch) # "none" /\ event' = Verdict(batch) /\ eventAt' = at
            /\ pc' = "told" /\ reason' = Verdict(batch)
  BY DEF Evaluate, Tell
<1>2. /\ batch \subseteq bars /\ batch \subseteq Batch /\ batch \in SUBSET Candles
      /\ \A b \in batch : b.at = at /\ b.frame \in Frames /\ b.at \in Nat
      /\ \A b \in batch : cursor[b.frame] < b.at
      /\ \A b \in batch : b = [frame |-> b.frame, at |-> b.at]
  BY BatchTogether DEF Typed, Candles, Fresh
<1>3. /\ checked' \in Seq(SUBSET Candles) /\ checked \in Seq(SUBSET Candles)
      /\ Evaluated' = Evaluated \cup batch
      /\ \A i \in DOMAIN checked' :
           \/ i \in DOMAIN checked /\ checked'[i] = checked[i]
           \/ i = Len(checked) + 1 /\ checked'[i] = batch
  BY <1>1, <1>2, EvaluatedGrows DEF Typed
<1>4. \A f \in Frames :
        \/ /\ \E b \in batch : b.frame = f
           /\ cursor'[f] = at /\ at \in Nat /\ cursor[f] < at
        \/ /\ \A b \in batch : b.frame # f
           /\ cursor'[f] = cursor[f]
  <2>. TAKE f \in Frames
  <2>1. CASE \E b \in batch : b.frame = f
    <3>1. PICK c \in batch : c.frame = f /\ c = CHOOSE b \in batch : b.frame = f
      BY <2>1
    <3>. QED
      BY <1>1, <1>2, <2>1, <3>1 DEF Moved
  <2>2. CASE ~ \E b \in batch : b.frame = f
    BY <1>1, <2>2 DEF Moved
  <2>. QED
    BY <2>1, <2>2
<1>5. cursor' \in [Frames -> Nat] /\ \A f \in Frames : cursor[f] \in Nat /\ cursor[f] <= cursor'[f]
  <2>1. cursor' = [f \in Frames |-> cursor'[f]]
    BY <1>1 DEF Moved
  <2>2. \A f \in Frames : cursor[f] \in Nat
    BY DEF Typed
  <2>3. \A f \in Frames : cursor'[f] \in Nat /\ cursor[f] <= cursor'[f]
    BY <1>4, <2>2
  <2>. QED
    BY <2>1, <2>2, <2>3
<1>6. Verdict(batch) \in {"none"} \cup Decisions
  BY DEF Verdict, Decisions
<1>7. at \in Nat \/ Verdict(batch) = "none"
  BY <1>2 DEF Verdict, Hits
<1>8. Typed'
  BY <1>1, <1>3, <1>5, <1>6, <1>7 DEF Typed
<1>9. CursorLeads'
  <2>1. \A i \in DOMAIN checked : \A b \in checked[i] : b.frame \in Frames /\ b.at \in Nat
    BY DEF Typed, Candles
  <2>2. ASSUME NEW i \in DOMAIN checked, NEW b \in checked[i] PROVE b.at <= cursor'[b.frame]
    BY <1>5, <2>1, <2>2 DEF CursorLeads
  <2>3. ASSUME NEW b \in batch PROVE b.at <= cursor'[b.frame]
    BY <1>2, <1>4, <2>3
  <2>. QED
    BY <1>3, <2>2, <2>3 DEF CursorLeads
<1>10. ReadOnceInOrder'
  <2>. SUFFICES ASSUME NEW i \in DOMAIN checked', NEW j \in DOMAIN checked', i < j,
                       NEW b \in checked'[i], NEW c \in checked'[j], b.frame = c.frame
                PROVE  b.at < c.at
    BY DEF ReadOnceInOrder
  <2>1. i \in DOMAIN checked /\ checked'[i] = checked[i]
    BY <1>3
  <2>2. CASE j \in DOMAIN checked /\ checked'[j] = checked[j]
    BY <2>1, <2>2 DEF ReadOnceInOrder
  <2>3. CASE checked'[j] = batch
    <3>1. b.at <= cursor[c.frame] /\ b.at \in Nat /\ cursor[c.frame] < c.at
      BY <1>2, <2>1, <2>3 DEF CursorLeads, Typed, Candles
    <3>. QED
      BY <1>2, <1>5, <2>3, <3>1
  <2>. QED
    BY <1>3, <2>2, <2>3
<1>11. CandlesClosed'
  BY <1>1, <1>2, <1>3 DEF CandlesClosed, Typed
<1>12. Decided'
  <2>1. Trigger' = Trigger /\ Invalid' = Invalid
    BY <1>1 DEF Trigger, Invalid
  <2>2. CASE Verdict(batch) = "none"
    <3>1. ~Hits(Invalid, batch)
      BY <2>2 DEF Verdict
    <3>. QED
      BY <1>1, <1>3, <2>1, <2>2, <3>1 DEF Decided, Hits
  <2>3. CASE Verdict(batch) = "trigger"
    <3>1. ~Hits(Invalid, batch) /\ Hits(Trigger, batch)
      BY <2>3 DEF Verdict
    <3>2. /\ [frame |-> Trigger.timeframe, at |-> at] \in batch
          /\ Matches(Trigger, price[at]) /\ at \in 1..now
      BY <1>1, <1>2, <3>1 DEF Hits, CandlesClosed
    <3>3. at < scenario.expires
      BY <1>1, <3>2, WatchCheckAssumption DEF CandlesClosed, Typed
    <3>. QED
      BY <1>1, <1>3, <2>1, <2>3, <3>1, <3>2, <3>3 DEF Decided, Hits
  <2>4. CASE Verdict(batch) = "invalidation"
    <3>1. Hits(Invalid, batch)
      BY <2>4 DEF Verdict
    <3>2. [frame |-> Invalid.timeframe, at |-> at] \in batch /\ Matches(Invalid, price[at])
      BY <1>2, <3>1 DEF Hits
    <3>. QED
      BY <1>1, <1>3, <2>1, <2>4, <3>2 DEF Decided
  <2>. QED
    BY <1>6, <2>2, <2>3, <2>4 DEF Decisions
<1>. QED
  BY <1>8, <1>9, <1>10, <1>11, <1>12
-----------------------------------------------------------------------------
LEMMA InitIInv == Init => IInv
  BY WatchCheckAssumption
     DEF Init, IInv, Typed, CursorLeads, ReadOnceInOrder, CandlesClosed, Decided, Evaluated,
         Decisions

LEMMA StutterIInv == IInv /\ UNCHANGED vars => IInv'
<1>. SUFFICES ASSUME IInv, UNCHANGED vars PROVE IInv'
  OBVIOUS
<1>. USE DEF IInv, vars, market, row, poll, history
<1>1. Evaluated' = Evaluated /\ Trigger' = Trigger /\ Invalid' = Invalid
  BY DEF Evaluated, Trigger, Invalid
<1>. QED
  BY <1>1 DEF Typed, CursorLeads, ReadOnceInOrder, CandlesClosed, Decided

THEOREM Inductive == Spec => []IInv
<1>1. IInv /\ [Next]_vars => IInv'
  BY TickStep, PollStep, FetchStep, EvaluateStep, StutterIInv DEF Next
<1>. QED
  BY InitIInv, <1>1, PTL DEF Spec

\* Each closed candle is evaluated at most once for its timeframe, and the
\* candles of a timeframe in the order of time (check_trigger, the cursors).
THEOREM ReadOnceCorrect == Spec => []ReadOnceInOrder
<1>1. IInv => ReadOnceInOrder
  BY DEF IInv
<1>. QED
  BY <1>1, Inductive, PTL

\* A trigger and an invalidation by price rest on a candle of their own
\* timeframe that met them, and no trigger follows a met invalidation.
THEOREM DecisionCorrect == Spec => []DecisionEarned
<1>1. IInv => DecisionEarned
  BY DEF IInv, Decided, DecisionEarned
<1>. QED
  BY <1>1, Inductive, PTL
-----------------------------------------------------------------------------
(* What is skipped.  A cursor stands at a candle that was evaluated, so that *)
(* a poll that ran to its end has seen the last closed candle of every       *)
(* timeframe, if not itself then in a poll before it.                        *)

Read(f, n) == LastClosed(f, n) = 0 \/ [frame |-> f, at |-> LastClosed(f, n)] \in Evaluated

CursorsRead == \A f \in Frames :
  /\ cursor[f] % Length[f] = 0 /\ cursor[f] <= now
  /\ cursor[f] = 0 \/ [frame |-> f, at |-> cursor[f]] \in Evaluated

AllInHand ==
  /\ pc \in {"asking", "fetching"} => after = cursor
  /\ pc = "evaluating" => Parses(scenario) /\ \A b \in bars : b.at % Length[b.frame] = 0
  /\ pc = "evaluating" /\ whole =>
       \A f \in Watched : Read(f, now) \/ [frame |-> f, at |-> LastClosed(f, now)] \in bars

AllServed == Parses(scenario) => \A n \in served, f \in Watched : Read(f, n)

ServedInv == CursorsRead /\ AllInHand /\ AllServed

LEMMA Lengths == \A f \in Frames : Length[f] \in Nat /\ Length[f] > 0
  BY WatchCheckAssumption

LEMMA Division ==
  ASSUME NEW n \in Int, NEW d \in Nat, d > 0
  PROVE  /\ n \div d \in Int /\ n % d \in Nat /\ n % d < d
         /\ n - (n % d) = (n \div d) * d
  OBVIOUS

\* A multiple of a length, and the next.
LEMMA Multiple ==
  ASSUME NEW d \in Nat, d > 0, NEW p \in Int, NEW q \in Int
  PROVE  /\ (q * d) % d = 0
         /\ q * d - d = (q - 1) * d
         /\ p * d < q * d => p * d + d <= q * d
<1>1. (q * d) % d = 0 /\ q * d - d = (q - 1) * d /\ p * d + d = (p + 1) * d
  OBVIOUS
<1>2. ASSUME p * d < q * d PROVE (p + 1) * d <= q * d
  <2>1. ASSUME q <= p PROVE q * d <= p * d
    BY <2>1
  <2>2. p + 1 <= q
    BY <1>2, <2>1
  <2>. QED
    BY <2>2
<1>. QED
  BY <1>1, <1>2

\* The last close is the only candle's end in its own stretch of time.
LEMMA LastClosedIs ==
  ASSUME NEW f \in Frames, NEW n \in Nat
  PROVE  /\ LastClosed(f, n) \in Nat /\ LastClosed(f, n) % Length[f] = 0
         /\ (LastClosed(f, n) - Length[f]) % Length[f] = 0
         /\ \A t \in Nat : t % Length[f] = 0 /\ t <= n => t <= LastClosed(f, n)
         /\ \A t \in Nat : t % Length[f] = 0 /\ t <= n /\ n < t + Length[f] => t = LastClosed(f, n)
<1>. DEFINE d == Length[f]
            last == LastClosed(f, n)
<1>1. d \in Nat /\ d > 0
  BY Lengths
<1>2. n \div d \in Int /\ last = (n \div d) * d /\ last \in Nat /\ last <= n /\ n < last + d
  <2>1. /\ n \div d \in Int /\ n % d \in Nat /\ n % d < d
        /\ n - (n % d) = (n \div d) * d
    <3>1. n \in Int
      OBVIOUS
    <3>. QED
      BY <1>1, <3>1, Division
  <2>2. last \in Nat /\ last = n - (n % d)
    BY LastClosedType DEF LastClosed
  <2>. HIDE DEF last, d
  <2>. QED
    BY <1>1, <2>1, <2>2
<1>3. last % d = 0 /\ (last - d) % d = 0
  <2>1. \A q \in Int : (q * d) % d = 0 /\ q * d - d = (q - 1) * d /\ q - 1 \in Int
    BY <1>1, Multiple
  <2>. HIDE DEF last, d
  <2>. QED
    BY <1>2, <2>1
<1>4. ASSUME NEW t \in Nat, t % d = 0, t <= n
      PROVE  t <= last /\ (n < t + d => t = last)
  <2>1. t \div d \in Int /\ t = (t \div d) * d
    BY <1>1, <1>4
  <2>2. /\ last < t => last + d <= t
        /\ t < last => t + d <= last
    BY <1>1, <1>2, <2>1, Multiple
  <2>. HIDE DEF last, d
  <2>. QED
    BY <1>1, <1>2, <1>4, <2>2
<1>. QED
  BY <1>2, <1>3, <1>4

\* A cursor that is not behind the last close stands at it.
LEMMA CursorAtLast ==
  ASSUME IInv, CursorsRead, NEW f \in Frames, LastClosed(f, now) <= cursor[f]
  PROVE  Read(f, now)
<1>1. now \in Nat /\ cursor[f] \in Nat /\ cursor[f] % Length[f] = 0 /\ cursor[f] <= now
  <2>1. now \in Nat /\ cursor[f] \in Nat
    BY DEF IInv, Typed
  <2>. QED
    BY <2>1 DEF CursorsRead
<1>2. cursor[f] <= LastClosed(f, now) /\ LastClosed(f, now) \in Nat
  BY <1>1, LastClosedIs
<1>3. cursor[f] = LastClosed(f, now)
  BY <1>1, <1>2
<1>. QED
  BY <1>3 DEF CursorsRead, Read

LEMMA ServedQuiet ==
  ASSUME IInv, ServedInv, UNCHANGED <<scenario, cursor, checked, bars, whole>>, now' >= now, now' \in Nat,
         pc' \in {"asking", "fetching"} => after' = cursor,
         pc' = "evaluating" => pc = "evaluating" /\ now' = now,
         served' = served \/ (served' = served \cup {now} /\ pc = "evaluating" /\ whole /\ bars = {})
  PROVE  ServedInv'
<1>1. /\ Evaluated' = Evaluated /\ Watched' = Watched
      /\ \A f, n : Read(f, n)' <=> Read(f, n)
  BY DEF Evaluated, Watched, Trigger, Invalid, Read, LastClosed
<1>2. CursorsRead'
  <2>1. now \in Nat /\ \A f \in Frames : cursor[f] \in Nat
    BY DEF IInv, Typed
  <2>. QED
    BY <1>1, <2>1 DEF CursorsRead, ServedInv
<1>3. AllInHand'
  BY <1>1 DEF AllInHand, ServedInv, LastClosed
<1>4. AllServed'
  <2>1. bars = {} /\ pc = "evaluating" /\ whole => \A f \in Watched : Read(f, now)
    BY DEF ServedInv, AllInHand
  <2>. QED
    BY <1>1, <2>1 DEF AllServed, ServedInv
<1>. QED
  BY <1>2, <1>3, <1>4 DEF ServedInv

LEMMA ServedFetch ==
  ASSUME IInv, ServedInv, Fetch \/ \E g \in Frames : FetchLate(g)
  PROVE  ServedInv'
<1>1. /\ UNCHANGED <<scenario, cursor, checked, now, after, served>>
      /\ pc = "fetching" /\ pc' = "evaluating"
  BY DEF Fetch, FetchLate, row, history
<1>2. /\ Evaluated' = Evaluated /\ Watched' = Watched
      /\ \A f, n : Read(f, n)' <=> Read(f, n)
  BY <1>1 DEF Evaluated, Watched, Trigger, Invalid, Read, LastClosed
<1>3. /\ now \in Nat /\ now < scenario.expires /\ Parses(scenario) /\ after = cursor
      /\ \A f \in Watched : f \in Frames /\ cursor[f] \in Nat
  BY <1>1, WatchedFrames DEF IInv, CandlesClosed, Typed, ServedInv, AllInHand
<1>4. CursorsRead' /\ AllServed'
  BY <1>1, <1>2 DEF CursorsRead, AllServed, ServedInv
<1>5. CASE Fetch
  <2>1. ASSUME NEW b \in bars' PROVE b.at % Length[b.frame] = 0
    <3>1. PICK f \in Watched : b = [frame |-> f, at |-> LastClosed(f, now)]
      BY <1>5, <2>1 DEF Fetch
    <3>. QED
      BY <1>3, <3>1, LastClosedIs
  <2>2. ASSUME NEW f \in Watched
        PROVE  Read(f, now) \/ [frame |-> f, at |-> LastClosed(f, now)] \in bars'
    <3>1. LastClosed(f, now) \in Nat /\ LastClosed(f, now) <= now
      BY <1>3, LastClosedType
    <3>2. CASE cursor[f] < LastClosed(f, now)
      <4>1. scenario.expires \in Nat
        BY WatchCheckAssumption DEF IInv, Typed
      <4>. HIDE DEF LastClosed
      <4>2. LastClosed(f, now) <= scenario.expires
        BY <1>3, <3>1, <4>1
      <4>. QED
        BY <1>3, <1>5, <3>2, <4>2 DEF Fetch
    <3>3. CASE LastClosed(f, now) <= cursor[f]
      BY <1>3, <3>3, CursorAtLast DEF ServedInv
    <3>. QED
      BY <1>3, <3>1, <3>2, <3>3
  <2>. QED
    BY <1>1, <1>2, <1>3, <1>4, <2>1, <2>2 DEF ServedInv, AllInHand, LastClosed
<1>6. ASSUME NEW g \in Frames, FetchLate(g) PROVE ServedInv'
  <2>1. ASSUME NEW b \in bars' PROVE b.at % Length[b.frame] = 0
    <3>1. PICK f \in Watched :
            b = [frame |-> f, at |-> LastClosed(f, now) - IF f = g THEN Length[g] ELSE 0]
      BY <1>6, <2>1 DEF FetchLate
    <3>2. CASE f = g
      BY <1>3, <3>1, <3>2, LastClosedIs
    <3>3. CASE f # g
      <4>1. b.at = LastClosed(f, now)
        BY <1>3, <3>1, <3>3, LastClosedIs
      <4>. QED
        BY <1>3, <3>1, <4>1, LastClosedIs
    <3>. QED
      BY <3>2, <3>3
  <2>2. ~whole'
    BY <1>6 DEF FetchLate
  <2>. QED
    BY <1>1, <1>3, <1>4, <2>1, <2>2 DEF ServedInv, AllInHand
<1>. QED
  BY <1>5, <1>6

LEMMA ServedEvaluate == ASSUME IInv, ServedInv, Evaluate PROVE ServedInv'
<1>. DEFINE batch == Fresh(Batch)
<1>1. /\ UNCHANGED <<scenario, now, after, whole, served>> /\ pc = "evaluating"
      /\ cursor' = Moved(batch)
      /\ checked' = IF batch = {} THEN checked ELSE Append(checked, batch)
      /\ (pc' = "evaluating" /\ bars' = bars \ Batch) \/ (pc' = "told" /\ bars' = bars)
  BY DEF Evaluate, Tell
<1>2. /\ Batch \subseteq bars /\ batch \subseteq Batch /\ batch \in SUBSET Candles
      /\ bars \in SUBSET Candles
      /\ \A b \in bars : b = [frame |-> b.frame, at |-> b.at] /\ b.frame \in Frames /\ b.at \in 1..now
      /\ \A b \in bars : b.at % Length[b.frame] = 0
  BY <1>1, BatchTogether DEF IInv, Typed, Candles, CandlesClosed, ServedInv, AllInHand
<1>3. Evaluated' = Evaluated \cup batch /\ Watched' = Watched
  BY <1>1, <1>2, EvaluatedGrows DEF IInv, Watched, Trigger, Invalid
<1>4. \A f, n : Read(f, n) => Read(f, n)'
  BY <1>3 DEF Read, LastClosed
<1>5. CursorsRead'
  <2>. SUFFICES ASSUME NEW f \in Frames
                PROVE  /\ cursor'[f] % Length[f] = 0 /\ cursor'[f] <= now
                       /\ cursor'[f] = 0 \/ [frame |-> f, at |-> cursor'[f]] \in Evaluated'
    BY <1>1 DEF CursorsRead
  <2>1. CASE \E b \in batch : b.frame = f
    <3>1. PICK c \in batch : c.frame = f /\ c = CHOOSE b \in batch : b.frame = f
      BY <2>1
    <3>2. cursor'[f] = c.at
      BY <1>1, <2>1, <3>1 DEF Moved
    <3>. QED
      BY <1>2, <1>3, <3>1, <3>2
  <2>2. CASE ~ \E b \in batch : b.frame = f
    <3>1. cursor'[f] = cursor[f]
      BY <1>1, <2>2 DEF Moved
    <3>. QED
      BY <1>3, <3>1 DEF CursorsRead, ServedInv
  <2>. QED
    BY <2>1, <2>2
<1>6. ASSUME NEW f \in Watched, whole, pc' = "evaluating"
      PROVE  LastClosed(f, now) = 0
               \/ [frame |-> f, at |-> LastClosed(f, now)] \in Evaluated' \cup bars'
  <2>. DEFINE b == [frame |-> f, at |-> LastClosed(f, now)]
  <2>1. Read(f, now) \/ b \in bars
    BY <1>1, <1>6 DEF ServedInv, AllInHand
  <2>2. CASE b \in Batch
    <3>1. CASE b \in batch
      BY <1>3, <3>1
    <3>2. CASE b \notin batch
      <4>1. b \in bars /\ f \in Frames /\ LastClosed(f, now) \in Nat /\ cursor[f] \in Nat
        BY <1>2, <2>2 DEF IInv, Typed
      <4>2. ~(cursor[f] < LastClosed(f, now))
        BY <2>2, <3>2 DEF Fresh
      <4>3. Read(f, now)
        <5>1. LastClosed(f, now) <= cursor[f]
          BY <4>1, <4>2
        <5>. QED
          BY <4>1, <5>1, CursorAtLast DEF ServedInv
      <4>. QED
        BY <1>3, <4>3 DEF Read
    <3>. QED
      BY <3>1, <3>2
  <2>3. CASE b \notin Batch
    BY <1>1, <1>3, <1>6, <2>1, <2>3 DEF Read
  <2>. QED
    BY <2>2, <2>3
<1>7. AllInHand'
  BY <1>1, <1>2, <1>3, <1>6 DEF AllInHand, ServedInv, Read, LastClosed
<1>8. AllServed'
  BY <1>1, <1>3, <1>4 DEF AllServed, ServedInv
<1>. QED
  BY <1>5, <1>7, <1>8 DEF ServedInv

LEMMA ServedStep == IInv /\ ServedInv /\ [Next]_vars => ServedInv'
<1>. SUFFICES ASSUME IInv, ServedInv, [Next]_vars PROVE ServedInv'
  OBVIOUS
<1>1. now \in Nat /\ clock \in Nat /\ now <= clock
  BY DEF IInv, Typed
<1>2. CASE Tick \/ CloseElsewhere \/ AskAccount \/ BrokerFails \/ Overtaken \/ Apply \/ Crash
           \/ UNCHANGED vars
  <2>1. /\ UNCHANGED <<scenario, cursor, checked, bars, whole, now, after, served>>
        /\ pc' = pc \/ pc' \in {"idle", "told"} \/ (pc' = "fetching" /\ pc = "asking")
    BY <1>2 DEF Tick, CloseElsewhere, AskAccount, BrokerFails, Overtaken, Apply, Crash, Tell,
                row, poll, history, vars
  <2>2. pc' \in {"asking", "fetching"} => after' = cursor
    BY <2>1 DEF ServedInv, AllInHand
  <2>. QED
    BY <1>1, <2>1, <2>2, ServedQuiet
<1>3. CASE Begin
  <2>1. /\ UNCHANGED <<scenario, cursor, checked, bars, whole, served>>
        /\ now' = clock /\ after' = cursor /\ pc' \in {"told", "asking"}
    BY <1>3 DEF Begin, Tell, row, history
  <2>. QED
    BY <1>1, <2>1, ServedQuiet
<1>4. CASE NothingLeft
  <2>1. /\ UNCHANGED <<scenario, cursor, checked, bars, whole, now>>
        /\ pc' = "idle" /\ pc = "evaluating" /\ bars = {}
        /\ served' = IF whole THEN served \cup {now} ELSE served
    BY <1>4 DEF NothingLeft, row
  <2>. QED
    BY <1>1, <2>1, ServedQuiet
<1>. QED
  BY <1>2, <1>3, <1>4, ServedFetch, ServedEvaluate DEF Next

\* A candle the cursor has passed unread was never the last closed one of a
\* poll that ran to its end (the cursor of each timeframe moves only with a
\* candle of that timeframe).
THEOREM SkipsCorrect == Spec => []SkipsExplained
<1>1. Init => ServedInv
  <2>. SUFFICES ASSUME Init PROVE ServedInv
    OBVIOUS
  <2>1. \A f \in Frames : 0 % Length[f] = 0
    BY Lengths
  <2>. QED
    BY <2>1 DEF Init, ServedInv, CursorsRead, AllInHand, AllServed
<1>2. IInv /\ ServedInv => SkipsExplained
  <2>. SUFFICES ASSUME IInv, ServedInv, Parses(scenario),
                       NEW f \in Watched, NEW t \in 1..clock, t % Length[f] = 0,
                       [frame |-> f, at |-> t] \notin Evaluated,
                       NEW n \in served, ~(n < t \/ n >= t + Length[f])
                PROVE  FALSE
    BY DEF SkipsExplained
  <2>1. n \in Nat /\ f \in Frames /\ t \in Nat /\ t # 0 /\ Length[f] \in Nat
    BY WatchedFrames, Lengths DEF IInv, Typed
  <2>2. t = LastClosed(f, n)
    BY <2>1, LastClosedIs
  <2>. QED
    BY <2>1, <2>2 DEF ServedInv, AllServed, Read
<1>. QED
  BY <1>1, <1>2, ServedStep, Inductive, PTL DEF Spec
=============================================================================
