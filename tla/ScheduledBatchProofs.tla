------------------------ MODULE ScheduledBatchProofs ------------------------
(***************************************************************************)
(* What a batch may ask for, say and leave behind, for any number of       *)
(* symbols and slots, any answers and any number of crashes and probes.    *)
(***************************************************************************)
EXTENDS ScheduledBatch, FiniteSetTheorems, TLAPS

Results == Outcomes \cup {"WATCH"}

\* Nothing of the final analysis of symbol s in slot k exists yet.
Blank(k, s) ==
  /\ asked[k][s] = 0 /\ saved[k][s] = "none"
  /\ \A v \in Results : <<"result", k, s, v>> \notin told

Early == {"data", "gate", "receipts", "received", "ready", "cancel", "cancelled"}
Late == {"ready", "analyse", "record", "tell", "close", "end"}

\* The symbols whose final analysis the batch has still to ask for.
Todo(s) ==
  \/ at \in Early
  \/ at = "analyse" /\ \E j \in DOMAIN Order : j >= sym /\ s = Order[j]
  \/ at \in {"record", "tell"} /\ \E j \in DOMAIN Order : j > sym /\ s = Order[j]

\* The symbols whose receipt it has still to ask for.
Unsent(s) ==
  \/ at \in {"data", "gate"}
  \/ at = "receipts" /\ \E j \in DOMAIN Order : j >= sym /\ s = Order[j]

Runs == {"none", "COLLECTING", "CANCELLED", "COMPLETED", "ANALYSIS_FAILED"}
Charts == {"none", "READY", "DATA_FAILED", "ACCEPTED", "SERVICE_FAILED"}
Stages == {"idle", "data", "gate", "receipts", "received", "ready", "analyse", "record", "tell",
           "close", "end", "cancel", "cancelled"}

\* The types, in parts: what a step writes is of one of them.
WorldTyped ==
  /\ now \in 0..Slots /\ open \in BOOLEAN /\ up \in BOOLEAN /\ (open => now \in Times)
  /\ probes \in 0..MaxProbes /\ crashes \in 0..MaxCrashes

TablesTyped ==
  /\ run \in [Times -> Runs]
  /\ chart \in [Times -> [Symbols -> Charts]]
  /\ final \in [Times -> [Symbols -> {"none"} \cup Results]]
  /\ saved \in [Times -> [Symbols -> {"none", "TRADE", "WATCH"}]]
  /\ sent \in [Times -> [Symbols -> Nat]] /\ asked \in [Times -> [Symbols -> Nat]]

ServiceTyped ==
  /\ health \in {"none", "UP", "DEGRADED", "DOWN"} /\ failures \in Nat
  /\ resting \in BOOLEAN /\ (resting => health = "DOWN")
  /\ (health = "DOWN" => failures >= Threshold)

LoopTyped ==
  /\ at \in Stages /\ slot \in 0..Slots /\ sym \in 1..Len(Order)
  /\ result \in {"none"} \cup Results

Typed == WorldTyped /\ TablesTyped /\ ServiceTyped /\ LoopTyped

InRun == at # "idle" => slot \in Times /\ run[slot] = "COLLECTING"

\* A slot without a row has nothing of a batch.
NoRow ==
  \A k \in Times : run[k] = "none" =>
    <<"cancel", k>> \notin told /\ \A s \in Symbols : sent[k][s] = 0 /\ Blank(k, s)

Ahead ==
  /\ \A s \in Symbols : Todo(s) => Blank(slot, s)
  /\ \A s \in Symbols : Unsent(s) => sent[slot][s] = 0

NotCancelled == at \notin {"idle", "cancelled"} => <<"cancel", slot>> \notin told

Accepted == at \in Late => All("ACCEPTED")

Guarded == at = "receipts" => ~(health = "DOWN" /\ resting)

\* The result in hand is what was saved, and not announced yet.
InHand ==
  at \in {"record", "tell"} =>
    /\ result \in Results
    /\ saved[slot][Current] \in {"none", result}
    /\ result = "TRADE" => saved[slot][Current] = "TRADE"
    /\ \A v \in Results : <<"result", slot, Current, v>> \notin told

Truth ==
  \A k \in Times : \A s \in Symbols : \A v \in Results :
    <<"result", k, s, v>> \in told =>
      /\ v = "TRADE" <=> saved[k][s] = "TRADE"
      /\ saved[k][s] = "WATCH" => v = "WATCH"

IInv ==
  /\ Typed /\ InRun /\ NoRow /\ Ahead /\ NotCancelled /\ Accepted /\ Guarded /\ InHand
  /\ Truth /\ AllOrNothing /\ NeverTwice
-----------------------------------------------------------------------------
LEMMA OrderType ==
  /\ Len(Order) \in Nat /\ Len(Order) >= 1 /\ DOMAIN Order = 1..Len(Order)
  /\ \A i \in 1..Len(Order) : Order[i] \in Symbols
  /\ \A i, j \in 1..Len(Order) : Order[i] = Order[j] => i = j
  /\ Slots \in Nat /\ Threshold \in Nat /\ Threshold > 0
  /\ MaxProbes \in Nat /\ MaxCrashes \in Nat /\ "FAILED" \notin Verdicts
<1>1. Len(Order) \in Nat /\ DOMAIN Order = 1..Len(Order) /\ Order # <<>>
  BY BatchAssumption
<1>2. Len(Order) >= 1
  BY <1>1, BatchAssumption
<1>. QED
  BY <1>1, <1>2, BatchAssumption DEF Symbols

\* Writing one cell of a table.
LEMMA CellWritten ==
  ASSUME NEW V, NEW f \in [Times -> [Symbols -> V]], NEW k \in Times, NEW s \in Symbols,
         NEW v \in V
  PROVE  [f EXCEPT ![k][s] = v] \in [Times -> [Symbols -> V]]
OBVIOUS

LEMMA ServiceStep ==
  ASSUME ServiceTyped, NEW h \in BOOLEAN, ServiceState(h)
  PROVE  ServiceTyped'
<1>1. failures' \in Nat /\ Threshold \in Nat /\ Threshold > 0
  BY OrderType DEF ServiceTyped, ServiceState
<1>. QED
  BY <1>1 DEF ServiceTyped, ServiceState

LEMMA CurrentType == LoopTyped => Current \in Symbols /\ Current = Order[sym] /\ sym \in DOMAIN Order
  BY OrderType DEF LoopTyped, Current

LEMMA OnwardType ==
  ASSUME LoopTyped, NEW stage \in Stages, Onward(stage)
  PROVE  at' \in Stages /\ sym' \in 1..Len(Order)
  BY OrderType DEF LoopTyped, Onward

LEMMA TypedStep == Typed /\ InRun /\ InHand /\ [Next]_vars => Typed'
<1>. SUFFICES ASSUME WorldTyped, TablesTyped, ServiceTyped, LoopTyped, InRun, InHand, [Next]_vars
              PROVE  Typed'
  BY DEF Typed
<1>. USE OrderType DEF tables, counts, service, loop, world, vars
<1>1. WorldTyped'
  <2>1. CASE HourComes
    BY <2>1 DEF HourComes, WorldTyped, Times
  <2>2. CASE GraceEnds
    BY <2>2 DEF GraceEnds, WorldTyped
  <2>3. CASE Probe
    <3>1. UNCHANGED <<now, open, up, crashes>>
          /\ (probes' = probes \/ (probes < MaxProbes /\ probes' = probes + 1))
      BY <2>3 DEF Probe
    <3>2. probes' \in 0..MaxProbes
      BY <3>1 DEF WorldTyped
    <3>. QED
      BY <3>1, <3>2, Zenon DEF WorldTyped
  <2>4. CASE Crash
    <3>1. UNCHANGED <<now, open, probes>> /\ up' = FALSE
          /\ crashes < MaxCrashes /\ crashes' = crashes + 1
      BY <2>4 DEF Crash
    <3>2. crashes' \in 0..MaxCrashes
      BY <3>1 DEF WorldTyped
    <3>. QED
      BY <3>1, <3>2, Zenon DEF WorldTyped
  <2>5. CASE Restart
    <3>1. UNCHANGED <<now, open, probes, crashes>> /\ up' = TRUE
      BY <2>5 DEF Restart
    <3>. QED
      BY <3>1, Zenon DEF WorldTyped
  <2>6. CASE ProbeComes \/ Batch \/ UNCHANGED vars
    <3>1. UNCHANGED <<now, open, up, probes, crashes>>
      BY <2>6, Zenon DEF Batch, ProbeComes, Claim, ReadData, Gate, Receive, Received, TellReady,
          Analyse, Record, TellResult, Assess, EndRun, TellCancel, Cancel
    <3>. QED
      BY <3>1, Zenon DEF WorldTyped
  <2>. QED
    BY <2>1, <2>2, <2>3, <2>4, <2>5, <2>6 DEF Next
<1>2. ServiceTyped'
  <2>1. CASE Received
    BY <2>1, ServiceStep DEF Received, AllReceipts, All
  <2>2. CASE Assess
    BY <2>2, ServiceStep DEF Assess, ServiceTyped
  <2>3. CASE Probe
    BY <2>3, ServiceStep DEF Probe
  <2>4. CASE ProbeComes
    BY <2>4 DEF ProbeComes, ServiceTyped
  <2>5. CASE ~(Received \/ Assess \/ Probe \/ ProbeComes)
    BY <2>5 DEF ServiceTyped, Next, Batch, HourComes, GraceEnds, Claim, ReadData, Gate, Receive,
        TellReady, Analyse, Record, TellResult, EndRun, TellCancel, Cancel, Crash, Restart
  <2>. QED
    BY <2>1, <2>2, <2>3, <2>4, <2>5
<1>3. LoopTyped'
  <2>1. CASE Claim
    BY <2>1 DEF Claim, LoopTyped, Stages, WorldTyped
  <2>2. CASE ReadData \/ Receive
    <3>1. UNCHANGED <<slot, result>> /\ at' \in Stages /\ sym' \in 1..Len(Order)
      BY <2>2, OnwardType DEF ReadData, Receive, Stages
    <3>. QED
      BY <3>1 DEF LoopTyped
  <2>3. CASE Analyse
    <3>1. UNCHANGED <<slot, sym>> /\ at' = "record" /\ result' \in Verdicts \cup {"FAILED", "WATCH"}
      BY <2>3 DEF Analyse, ShowActive, Ask
    <3>. QED
      BY <3>1 DEF LoopTyped, Results, Outcomes, Stages
  <2>4. CASE TellResult
    BY <2>4 DEF TellResult, LoopTyped, Stages
  <2>5. CASE Crash
    BY <2>5 DEF Crash, LoopTyped, Stages
  <2>6. CASE Gate \/ Received \/ TellReady \/ Record \/ Assess \/ EndRun \/ TellCancel \/ Cancel
    BY <2>6 DEF LoopTyped, Stages, Gate, Received, TellReady, Record, Assess, EndRun, TellCancel, Cancel
  <2>7. CASE HourComes \/ GraceEnds \/ ProbeComes \/ Probe \/ Restart \/ UNCHANGED vars
    BY <2>7 DEF LoopTyped, HourComes, GraceEnds, ProbeComes, Probe, Restart
  <2>. QED
    BY <2>1, <2>2, <2>3, <2>4, <2>5, <2>6, <2>7 DEF Next, Batch
<1>4. TablesTyped'
  <2>1. CASE Claim
    BY <2>1 DEF Claim, TablesTyped, Runs
  <2>2. CASE ReadData \/ Receive
    <3>1. /\ UNCHANGED <<run, final, saved, asked>> /\ slot \in Times
          /\ \E v \in Charts : chart' = [chart EXCEPT ![slot][Current] = v]
          /\ sent' = sent \/ sent' = [sent EXCEPT ![slot][Current] = sent[slot][Current] + 1]
      BY <2>2 DEF ReadData, Receive, Charts, InRun
    <3>2. Current \in Symbols /\ sent[slot][Current] + 1 \in Nat
      BY <3>1, CurrentType DEF TablesTyped
    <3>3. chart' \in [Times -> [Symbols -> Charts]]
      BY <3>1, <3>2, CellWritten DEF TablesTyped
    <3>4. sent' \in [Times -> [Symbols -> Nat]]
      <4>1. CASE sent' = sent
        BY <4>1 DEF TablesTyped
      <4>2. CASE \E n \in Nat : sent' = [sent EXCEPT ![slot][Current] = n]
        BY <3>1, <3>2, <4>2 DEF TablesTyped
      <4>. QED
        BY <3>1, <3>2, <4>1, <4>2
    <3>. QED
      BY <3>1, <3>3, <3>4 DEF TablesTyped
  <2>3. CASE Analyse
    <3>1. /\ UNCHANGED <<run, chart, final, sent>> /\ slot \in Times
          /\ asked' = asked \/ asked' = [asked EXCEPT ![slot][Current] = asked[slot][Current] + 1]
          /\ saved' = saved \/ \E v \in {"TRADE", "WATCH"} : saved' = [saved EXCEPT ![slot][Current] = v]
      <4>1. CASE ShowActive
        BY <2>3, <4>1 DEF Analyse, ShowActive, InRun
      <4>2. CASE Ask /\ saved' = saved
        BY <2>3, <4>2 DEF Analyse, Ask, InRun
      <4>3. CASE Ask /\ saved' # saved
        <5>1. result' \in {"TRADE", "WATCH", "NO_TRADE"}
              /\ saved' = [saved EXCEPT ![slot][Current] = IF result' = "NO_TRADE" THEN @ ELSE result']
          BY <4>3, BatchAssumption DEF Ask
        <5>2. result' = "NO_TRADE" => saved' = saved
          BY <5>1 DEF TablesTyped
        <5>. QED
          BY <2>3, <4>3, <5>1, <5>2 DEF Analyse, Ask, InRun
      <4>. QED
        BY <2>3, <4>1, <4>2, <4>3 DEF Analyse
    <3>2. Current \in Symbols /\ asked[slot][Current] + 1 \in Nat
      BY <3>1, CurrentType DEF TablesTyped
    <3>3. asked' \in [Times -> [Symbols -> Nat]]
      <4>1. CASE asked' = asked
        BY <4>1 DEF TablesTyped
      <4>2. CASE \E n \in Nat : asked' = [asked EXCEPT ![slot][Current] = n]
        BY <3>1, <3>2, <4>2 DEF TablesTyped
      <4>. QED
        BY <3>1, <3>2, <4>1, <4>2
    <3>4. saved' \in [Times -> [Symbols -> {"none", "TRADE", "WATCH"}]]
      <4>1. CASE saved' = saved
        BY <4>1 DEF TablesTyped
      <4>2. CASE \E v \in {"TRADE", "WATCH"} : saved' = [saved EXCEPT ![slot][Current] = v]
        BY <3>1, <3>2, <4>2 DEF TablesTyped
      <4>. QED
        BY <3>1, <4>1, <4>2
    <3>. QED
      BY <3>1, <3>3, <3>4 DEF TablesTyped
  <2>4. CASE Record
    <3>1. UNCHANGED <<run, chart, saved, sent, asked>> /\ slot \in Times /\ result \in Results
          /\ final' = [final EXCEPT ![slot][Current] = result]
      BY <2>4 DEF Record, InRun, InHand
    <3>. QED
      BY <3>1, CurrentType DEF TablesTyped
  <2>5. CASE EndRun \/ Cancel
    BY <2>5 DEF EndRun, Cancel, TablesTyped, Runs
  <2>6. CASE HourComes \/ GraceEnds \/ ProbeComes \/ Gate \/ Received \/ TellReady \/ TellResult
             \/ Assess \/ TellCancel \/ Probe \/ Crash \/ Restart \/ UNCHANGED vars
    BY <2>6 DEF TablesTyped, HourComes, GraceEnds, ProbeComes, Gate, Received, TellReady,
        TellResult, Assess, TellCancel, Probe, Crash, Restart
  <2>. QED
    BY <2>1, <2>2, <2>3, <2>4, <2>5, <2>6 DEF Next, Batch
<1>. QED
  BY <1>1, <1>2, <1>3, <1>4 DEF Typed
-----------------------------------------------------------------------------
(* The steps. *)

\* What is told of one kind is not told of another.
LEMMA KindsApart ==
  \A k, l, s, v :
    /\ <<"ready", k>> # <<"cancel", l>>
    /\ <<"ready", k>> # <<"result", l, s, v>>
    /\ <<"cancel", k>> # <<"result", l, s, v>>
OBVIOUS

\* The steps outside a batch change nothing of it.
LEMMA TimeStep ==
  ASSUME IInv, Typed', HourComes \/ GraceEnds \/ ProbeComes \/ Probe \/ Restart \/ UNCHANGED vars
  PROVE  IInv'
<1>. USE OrderType DEF IInv, tables, counts, service, loop, world
<1>1. /\ UNCHANGED <<tables, counts, loop>>
      /\ at = "receipts" => health' = health /\ (resting' = resting \/ resting' = FALSE)
  <2>1. CASE HourComes \/ GraceEnds \/ Restart \/ UNCHANGED vars
    BY <2>1 DEF HourComes, GraceEnds, Restart, vars
  <2>2. CASE ProbeComes
    BY <2>2 DEF ProbeComes
  <2>3. CASE Probe
    BY <2>3 DEF Probe
  <2>. QED
    BY <2>1, <2>2, <2>3
<1>c0. InRun'
  BY <1>1 DEF InRun
<1>c1. NoRow'
  BY <1>1 DEF NoRow, Blank
<1>c2. Ahead'
  BY <1>1 DEF Ahead, Blank, Todo, Unsent, Early, Current
<1>c3. NotCancelled'
  BY <1>1 DEF NotCancelled
<1>c4. Accepted'
  BY <1>1 DEF Accepted, All, Late
<1>c5. Guarded'
  BY <1>1 DEF Guarded
<1>c6. InHand'
  BY <1>1 DEF InHand, Current
<1>c7. Truth'
  BY <1>1 DEF Truth
<1>c8. AllOrNothing'
  BY <1>1 DEF AllOrNothing
<1>c9. NeverTwice'
  BY <1>1 DEF NeverTwice
<1>. QED
  BY <1>c0, <1>c1, <1>c2, <1>c3, <1>c4, <1>c5, <1>c6, <1>c7, <1>c8, <1>c9

LEMMA ClaimStep ==
  ASSUME IInv, Typed', Claim
  PROVE  IInv'
<1>. USE OrderType DEF IInv, tables, counts, service, loop, world
<1>1. /\ UNCHANGED <<chart, final, saved, told, counts>>
      /\ run[now] = "none" /\ now \in Times /\ run \in [Times -> Runs]
      /\ run' = [run EXCEPT ![now] = "COLLECTING"]
      /\ at' = "data" /\ slot' = now
  BY DEF Claim, Unclaimed, Typed, WorldTyped, TablesTyped
<1>c0. InRun'
  BY <1>1 DEF InRun
<1>c1. NoRow'
  BY <1>1 DEF NoRow, Blank
<1>c2. Ahead'
  BY <1>1 DEF Ahead, Blank, Todo, Unsent, Early, Current, NoRow
<1>c3. NotCancelled'
  BY <1>1 DEF NotCancelled, NoRow
<1>c4. Accepted'
  BY <1>1 DEF Accepted, All, Late
<1>c5. Guarded'
  BY <1>1 DEF Guarded
<1>c6. InHand'
  BY <1>1 DEF InHand, Current
<1>c7. Truth'
  BY <1>1 DEF Truth
<1>c8. AllOrNothing'
  BY <1>1 DEF AllOrNothing
<1>c9. NeverTwice'
  BY <1>1 DEF NeverTwice
<1>. QED
  BY <1>c0, <1>c1, <1>c2, <1>c3, <1>c4, <1>c5, <1>c6, <1>c7, <1>c8, <1>c9

LEMMA StageStep ==
  ASSUME IInv, Typed', Gate \/ Received \/ Assess \/ TellReady \/ Record \/ Crash
  PROVE  IInv'
<1>. USE OrderType DEF IInv, tables, counts, service, loop, world
<1>1. /\ UNCHANGED <<run, chart, saved, counts, slot>>
      /\ \A k : <<"cancel", k>> \in told' <=> <<"cancel", k>> \in told
      /\ \A k, s, v : <<"result", k, s, v>> \in told' <=> <<"result", k, s, v>> \in told
      /\ \/ /\ at = "gate" /\ at' \in {"receipts", "cancel"}
            /\ at' = "receipts" => ~(health' = "DOWN" /\ resting')
         \/ at = "received" /\ at' \in {"ready", "cancel"} /\ (at' = "ready" => All("ACCEPTED"))
         \/ at = "close" /\ at' = "end"
         \/ at = "ready" /\ at' = "analyse"
         \/ at = "record" /\ at' = "tell" /\ UNCHANGED <<sym, result>>
         \/ at' = "idle"
  <2>1. CASE Gate
    BY <2>1 DEF Gate, BreakerOpen
  <2>2. CASE Received
    BY <2>2 DEF Received, AllReceipts
  <2>3. CASE Assess
    BY <2>3 DEF Assess
  <2>4. CASE TellReady
    BY <2>4, KindsApart DEF TellReady
  <2>5. CASE Record
    BY <2>5 DEF Record
  <2>6. CASE Crash
    BY <2>6 DEF Crash
  <2>. QED
    BY <2>1, <2>2, <2>3, <2>4, <2>5, <2>6
<1>c0. InRun'
  BY <1>1 DEF InRun
<1>c1. NoRow'
  BY <1>1 DEF NoRow, Blank
<1>c2. Ahead'
  BY <1>1 DEF Ahead, Blank, Todo, Unsent, Early, Current
<1>c3. NotCancelled'
  BY <1>1 DEF NotCancelled
<1>c4. Accepted'
  BY <1>1 DEF Accepted, All, Late
<1>c5. Guarded'
  BY <1>1 DEF Guarded
<1>c6. InHand'
  BY <1>1 DEF InHand, Current
<1>c7. Truth'
  BY <1>1 DEF Truth
<1>c8. AllOrNothing'
  BY <1>1 DEF AllOrNothing
<1>c9. NeverTwice'
  BY <1>1 DEF NeverTwice
<1>. QED
  BY <1>c0, <1>c1, <1>c2, <1>c3, <1>c4, <1>c5, <1>c6, <1>c7, <1>c8, <1>c9

LEMMA EndStep ==
  ASSUME IInv, Typed', EndRun \/ Cancel
  PROVE  IInv'
<1>. USE OrderType DEF IInv, tables, counts, service, loop, world
<1>1. /\ UNCHANGED <<chart, final, saved, told, counts, slot>> /\ at' = "idle"
      /\ slot \in Times /\ run \in [Times -> Runs]
      /\ \E v \in {"ANALYSIS_FAILED", "COMPLETED", "CANCELLED"} :
           run' = [run EXCEPT ![slot] = v] /\ (v = "CANCELLED" => at = "cancelled")
  BY DEF EndRun, Cancel, InRun, Typed, TablesTyped
<1>c0. InRun'
  BY <1>1 DEF InRun
<1>c1. NoRow'
  BY <1>1 DEF NoRow, Blank
<1>c2. Ahead'
  BY <1>1 DEF Ahead, Blank, Todo, Unsent, Early, Current
<1>c3. NotCancelled'
  BY <1>1 DEF NotCancelled
<1>c4. Accepted'
  BY <1>1 DEF Accepted, All, Late
<1>c5. Guarded'
  BY <1>1 DEF Guarded
<1>c6. InHand'
  BY <1>1 DEF InHand, Current
<1>c7. Truth'
  BY <1>1 DEF Truth
<1>c8. AllOrNothing'
  BY <1>1 DEF AllOrNothing, Ahead, Todo, Early, Blank
<1>c9. NeverTwice'
  BY <1>1 DEF NeverTwice
<1>. QED
  BY <1>c0, <1>c1, <1>c2, <1>c3, <1>c4, <1>c5, <1>c6, <1>c7, <1>c8, <1>c9

LEMMA TellCancelStep ==
  ASSUME IInv, Typed', TellCancel
  PROVE  IInv'
<1>. USE OrderType DEF IInv, tables, counts, service, loop, world
<1>1. /\ UNCHANGED <<run, chart, final, saved, counts, slot, sym, result, service>>
      /\ at = "cancel" /\ at' = "cancelled"
      /\ slot \in Times /\ run[slot] = "COLLECTING"
      /\ \A k : <<"cancel", k>> \in told' <=> <<"cancel", k>> \in told \/ k = slot
      /\ \A k, s, v : <<"result", k, s, v>> \in told' <=> <<"result", k, s, v>> \in told
  BY KindsApart DEF TellCancel, InRun
<1>c0. InRun'
  BY <1>1 DEF InRun
<1>c1. NoRow'
  BY <1>1 DEF NoRow, Blank
<1>c2. Ahead'
  BY <1>1 DEF Ahead, Blank, Todo, Unsent, Early, Current
<1>c3. NotCancelled'
  BY <1>1 DEF NotCancelled
<1>c4. Accepted'
  BY <1>1 DEF Accepted, All, Late
<1>c5. Guarded'
  BY <1>1 DEF Guarded
<1>c6. InHand'
  BY <1>1 DEF InHand, Current
<1>c7. Truth'
  BY <1>1 DEF Truth
<1>c8. AllOrNothing'
  BY <1>1 DEF AllOrNothing, Ahead, Todo, Early, Blank
<1>c9. NeverTwice'
  BY <1>1 DEF NeverTwice
<1>. QED
  BY <1>c0, <1>c1, <1>c2, <1>c3, <1>c4, <1>c5, <1>c6, <1>c7, <1>c8, <1>c9

LEMMA ChartStep ==
  ASSUME IInv, Typed', ReadData \/ Receive
  PROVE  IInv'
<1>. USE OrderType DEF IInv, tables, counts, service, loop, world
<1>1. /\ UNCHANGED <<run, final, saved, told, asked, slot, result, service>>
      /\ at \in {"data", "receipts"} /\ slot \in Times /\ run[slot] = "COLLECTING"
      /\ Current \in Symbols /\ Current = Order[sym] /\ sym \in DOMAIN Order
      /\ chart \in [Times -> [Symbols -> Charts]]
      /\ \E v : chart' = [chart EXCEPT ![slot][Current] = v]
      /\ \/ at = "data" /\ sent' = sent
         \/ at = "receipts" /\ sent' = [sent EXCEPT ![slot][Current] = @ + 1]
      /\ \/ sym' = sym + 1 /\ at' = at
         \/ sym = Len(Order) /\ sym' = 1 /\ at' = IF at = "data" THEN "gate" ELSE "received"
  <2>1. Current \in Symbols /\ Current = Order[sym] /\ sym \in DOMAIN Order
        /\ chart \in [Times -> [Symbols -> Charts]]
    BY CurrentType DEF Typed, TablesTyped
  <2>2. \E v : chart' = [chart EXCEPT ![slot][Current] = v]
    BY DEF ReadData, Receive
  <2>3. sym \in 1..Len(Order)
    BY DEF Typed, LoopTyped
  <2>4. \/ sym' = sym + 1 /\ at' = at
        \/ sym = Len(Order) /\ sym' = 1 /\ at' = IF at = "data" THEN "gate" ELSE "received"
    BY <2>3 DEF ReadData, Receive, Onward
  <2>5. /\ UNCHANGED <<run, final, saved, told, asked, slot, result, service>>
        /\ at \in {"data", "receipts"} /\ slot \in Times /\ run[slot] = "COLLECTING"
        /\ \/ at = "data" /\ sent' = sent
           \/ at = "receipts" /\ sent' = [sent EXCEPT ![slot][Current] = @ + 1]
    BY DEF ReadData, Receive, InRun
  <2>. QED
    BY <2>1, <2>2, <2>4, <2>5
<1>2. /\ \A k \in Times : \A s \in Symbols : k # slot \/ s # Current => sent'[k][s] = sent[k][s]
      /\ at = "data" => sent' = sent
      /\ at = "receipts" => sent'[slot][Current] = 1
  <2>1. sent \in [Times -> [Symbols -> Nat]] /\ (at = "receipts" => sent[slot][Current] = 0)
    BY <1>1 DEF Typed, TablesTyped, Ahead, Unsent, LoopTyped
  <2>2. CASE at = "data"
    BY <1>1, <2>2
  <2>3. CASE at = "receipts"
    <3>1. sent' = [sent EXCEPT ![slot][Current] = sent[slot][Current] + 1] /\ sent[slot][Current] = 0
      BY <1>1, <2>1, <2>3
    <3>. QED
      BY <1>1, <2>1, <2>3, <3>1
  <2>. QED
    BY <1>1, <2>2, <2>3
<1>3. \A i \in DOMAIN Order : i # sym => Order[i] # Current
  BY <1>1
<1>c0. InRun'
  BY <1>1, <1>2, <1>3 DEF InRun
<1>c1. NoRow'
  BY <1>1, <1>2, <1>3 DEF NoRow, Blank
<1>c2. Ahead'
  BY <1>1, <1>2, <1>3 DEF Ahead, Blank, Todo, Unsent, Early, Current
<1>c3. NotCancelled'
  BY <1>1, <1>2, <1>3 DEF NotCancelled
<1>c4. Accepted'
  BY <1>1, <1>2, <1>3 DEF Accepted, All, Late
<1>c5. Guarded'
  BY <1>1, <1>2, <1>3 DEF Guarded
<1>c6. InHand'
  BY <1>1, <1>2, <1>3 DEF InHand, Current
<1>c7. Truth'
  BY <1>1, <1>2, <1>3 DEF Truth
<1>c8. AllOrNothing'
  BY <1>1, <1>2, <1>3 DEF AllOrNothing, Ahead, Todo, Early, Blank
<1>c9. NeverTwice'
  BY <1>1, <1>2, <1>3 DEF NeverTwice
<1>. QED
  BY <1>c0, <1>c1, <1>c2, <1>c3, <1>c4, <1>c5, <1>c6, <1>c7, <1>c8, <1>c9

LEMMA AnalyseStep ==
  ASSUME IInv, Typed', Analyse
  PROVE  IInv'
<1>. USE OrderType DEF IInv, tables, counts, service, loop, world
<1>1. /\ UNCHANGED <<run, chart, final, told, sent, slot, sym, service>>
      /\ at = "analyse" /\ at' = "record" /\ slot \in Times /\ run[slot] = "COLLECTING"
      /\ Current \in Symbols /\ Current = Order[sym] /\ sym \in DOMAIN Order
  BY CurrentType DEF Analyse, InRun, Typed
<1>2. Blank(slot, Current)
  BY <1>1 DEF Ahead, Todo, Typed, LoopTyped
<1>3. /\ asked' = asked \/ asked' = [asked EXCEPT ![slot][Current] = 1]
      /\ result' \in Results
      /\ \/ saved' = saved /\ result' # "TRADE"
         \/ result' \in {"TRADE", "WATCH"} /\ saved' = [saved EXCEPT ![slot][Current] = result']
  BY <1>1, <1>2, BatchAssumption
     DEF Analyse, ShowActive, Ask, Results, Outcomes, Blank, Typed, TablesTyped
<1>4. /\ \A k \in Times : \A s \in Symbols : k # slot \/ s # Current =>
           asked'[k][s] = asked[k][s] /\ saved'[k][s] = saved[k][s]
      /\ asked'[slot][Current] \in {0, 1}
      /\ saved'[slot][Current] \in {"none", result'}
      /\ result' = "TRADE" => saved'[slot][Current] = "TRADE"
  <2>1. /\ saved \in [Times -> [Symbols -> {"none", "TRADE", "WATCH"}]]
        /\ asked \in [Times -> [Symbols -> Nat]]
        /\ saved[slot][Current] = "none" /\ asked[slot][Current] = 0
    BY <1>2 DEF Typed, TablesTyped, Blank
  <2>2. /\ \A k \in Times : \A s \in Symbols : k # slot \/ s # Current => asked'[k][s] = asked[k][s]
        /\ asked'[slot][Current] \in {0, 1}
    <3>1. CASE asked' = asked
      BY <2>1, <3>1
    <3>2. CASE asked' = [asked EXCEPT ![slot][Current] = 1]
      BY <1>1, <2>1, <3>2
    <3>. QED
      BY <1>3, <3>1, <3>2
  <2>3. /\ \A k \in Times : \A s \in Symbols : k # slot \/ s # Current => saved'[k][s] = saved[k][s]
        /\ saved'[slot][Current] \in {"none", result'}
        /\ result' = "TRADE" => saved'[slot][Current] = "TRADE"
    <3>1. CASE saved' = saved /\ result' # "TRADE"
      BY <2>1, <3>1
    <3>2. CASE saved' = [saved EXCEPT ![slot][Current] = result']
      BY <1>1, <2>1, <3>2
    <3>. QED
      BY <1>3, <3>1, <3>2
  <2>. QED
    BY <2>2, <2>3
<1>5. \A i \in DOMAIN Order : i # sym => Order[i] # Current
  BY <1>1
<1>c0. InRun'
  BY <1>1, <1>2, <1>3, <1>4, <1>5 DEF InRun, Blank
<1>c1. NoRow'
  BY <1>1, <1>2, <1>3, <1>4, <1>5 DEF NoRow, Blank
<1>c2. Ahead'
  BY <1>1, <1>2, <1>3, <1>4, <1>5 DEF Ahead, Blank, Todo, Unsent, Early, Current
<1>c3. NotCancelled'
  BY <1>1, <1>2, <1>3, <1>4, <1>5 DEF NotCancelled, Blank
<1>c4. Accepted'
  BY <1>1, <1>2, <1>3, <1>4, <1>5 DEF Accepted, All, Late, Blank
<1>c5. Guarded'
  BY <1>1, <1>2, <1>3, <1>4, <1>5 DEF Guarded, Blank
<1>c6. InHand'
  BY <1>1, <1>2, <1>3, <1>4, <1>5 DEF InHand, Current, Blank
<1>c7. Truth'
  BY <1>1, <1>2, <1>3, <1>4, <1>5 DEF Truth, Blank
<1>c8. AllOrNothing'
  BY <1>1, <1>2, <1>3, <1>4, <1>5 DEF AllOrNothing, Accepted, All, NotCancelled, Late, Blank
<1>c9. NeverTwice'
  BY <1>1, <1>2, <1>3, <1>4, <1>5 DEF NeverTwice, Blank
<1>. QED
  BY <1>c0, <1>c1, <1>c2, <1>c3, <1>c4, <1>c5, <1>c6, <1>c7, <1>c8, <1>c9

LEMMA TellResultStep ==
  ASSUME IInv, Typed', TellResult
  PROVE  IInv'
<1>. USE OrderType DEF IInv, tables, counts, service, loop, world
<1>1. /\ UNCHANGED <<run, chart, final, saved, counts, slot, service>>
      /\ at = "tell" /\ slot \in Times /\ run[slot] = "COLLECTING"
      /\ Current \in Symbols /\ Current = Order[sym] /\ sym \in DOMAIN Order /\ sym \in Nat
      /\ \A k : <<"cancel", k>> \in told' <=> <<"cancel", k>> \in told
      /\ \A k, s, v : <<"result", k, s, v>> \in told' <=>
           <<"result", k, s, v>> \in told \/ (k = slot /\ s = Current /\ v = result)
      /\ (at' = "analyse" /\ sym' = sym + 1) \/ at' = "close"
  BY CurrentType, KindsApart DEF TellResult, InRun, Typed, LoopTyped
<1>c0. InRun'
  BY <1>1 DEF InRun
<1>c1. NoRow'
  BY <1>1 DEF NoRow, Blank
<1>c2. Ahead'
  BY <1>1 DEF Ahead, Blank, Todo, Unsent, Early, Current
<1>c3. NotCancelled'
  BY <1>1 DEF NotCancelled
<1>c4. Accepted'
  BY <1>1 DEF Accepted, All, Late
<1>c5. Guarded'
  BY <1>1 DEF Guarded
<1>c6. InHand'
  BY <1>1 DEF InHand, Current
<1>c7. Truth'
  BY <1>1 DEF Truth, InHand
<1>c8. AllOrNothing'
  BY <1>1 DEF AllOrNothing
<1>c9. NeverTwice'
  BY <1>1 DEF NeverTwice
<1>. QED
  BY <1>c0, <1>c1, <1>c2, <1>c3, <1>c4, <1>c5, <1>c6, <1>c7, <1>c8, <1>c9
-----------------------------------------------------------------------------
(* What crashes leave behind, counted. *)

Orphans == {k \in Times : run[k] = "COLLECTING" /\ ~(at # "idle" /\ slot = k)}

\* The analyses saved and not announced, but for the one in hand.
Silent == {x \in Unannounced : ~(at \in {"record", "tell"} /\ x = <<slot, Current>>)}

Counted == Cardinality(Orphans) <= crashes /\ Cardinality(Silent) <= crashes

LEMMA Finite ==
  /\ IsFiniteSet(Times) /\ IsFiniteSet(Times \X Symbols)
<1>1. IsFiniteSet(Times)
  BY FS_Interval, OrderType DEF Times
<1>2. IsFiniteSet(1..Len(Order))
  BY FS_Interval, OrderType
<1>3. Symbols = {Order[i] : i \in 1..Len(Order)}
  BY OrderType DEF Symbols
<1>4. IsFiniteSet(Symbols)
  <2>1. Order \in [1..Len(Order) -> Symbols] /\ \A s \in Symbols : \E i \in 1..Len(Order) : Order[i] = s
    BY <1>3, OrderType, BatchAssumption
  <2>2. Order \in Surjection(1..Len(Order), Symbols)
    BY <2>1 DEF Surjection
  <2>. QED
    BY <1>2, <2>2, FS_Surjection
<1>. QED
  BY <1>1, <1>4, FS_Product

LEMMA OneMore ==
  ASSUME NEW S, NEW T, NEW x, IsFiniteSet(S), T \subseteq S \cup {x}
  PROVE  /\ IsFiniteSet(T) /\ Cardinality(T) \in Nat /\ Cardinality(S) \in Nat
         /\ Cardinality(T) <= Cardinality(S) + 1
<1>1. IsFiniteSet(S \cup {x}) /\ Cardinality(S \cup {x}) <= Cardinality(S) + 1
      /\ Cardinality(S) \in Nat /\ Cardinality(S \cup {x}) \in Nat
  BY FS_AddElement, FS_CardinalityType
<1>2. IsFiniteSet(T) /\ Cardinality(T) \in Nat /\ Cardinality(T) <= Cardinality(S \cup {x})
  BY <1>1, FS_Subset, FS_CardinalityType
<1>. QED
  BY <1>1, <1>2

LEMMA CountedStep ==
  ASSUME IInv, IInv', Counted, [Next]_vars
  PROVE  Counted'
<1>. USE OrderType DEF IInv, tables, counts, service, loop, world
<1>1. IsFiniteSet(Orphans) /\ IsFiniteSet(Silent)
  <2>1. Orphans \subseteq Times /\ Silent \subseteq Times \X Symbols
    BY DEF Orphans, Silent, Unannounced
  <2>. QED
    BY <2>1, Finite, FS_Subset
<1>2. CASE Crash
  <2>1. Orphans' \subseteq Orphans \cup {slot}
    BY <1>2 DEF Crash, Orphans
  <2>2. Silent' \subseteq Silent \cup {<<slot, Current>>}
    BY <1>2 DEF Crash, Silent, Unannounced
  <2>3. crashes' = crashes + 1 /\ crashes \in Nat
    BY <1>2 DEF Crash, Typed, WorldTyped
  <2>4. /\ Cardinality(Orphans') <= Cardinality(Orphans) + 1
        /\ Cardinality(Orphans') \in Nat /\ Cardinality(Orphans) \in Nat
    BY <1>1, <2>1, OneMore
  <2>5. /\ Cardinality(Silent') <= Cardinality(Silent) + 1
        /\ Cardinality(Silent') \in Nat /\ Cardinality(Silent) \in Nat
    BY <1>1, <2>2, OneMore
  <2>. QED
    BY <2>3, <2>4, <2>5 DEF Counted
<1>3. CASE ~Crash
  <2>1. Orphans' \subseteq Orphans
    <3>1. CASE Claim
      BY <3>1 DEF Claim, Orphans
    <3>2. CASE EndRun \/ Cancel
      BY <3>2 DEF EndRun, Cancel, Orphans, Typed, TablesTyped
    <3>3. CASE ~(Claim \/ EndRun \/ Cancel)
      <4>1. UNCHANGED <<run, slot>> /\ (at # "idle" => at' # "idle")
        BY <1>3, <3>3 DEF Next, Batch, HourComes, GraceEnds, ProbeComes, ReadData, Gate, Receive,
           Received, TellReady, Analyse, Record, TellResult, Assess, TellCancel, Probe, Restart,
           Onward, vars
      <4>. QED
        BY <4>1 DEF Orphans
    <3>. QED
      BY <3>1, <3>2, <3>3
  <2>2. Silent' \subseteq Silent
    <3>1. CASE Analyse
      <4>1. /\ UNCHANGED <<told, slot, sym>> /\ at = "analyse" /\ at' = "record"
            /\ saved' = saved \/ \E v : saved' = [saved EXCEPT ![slot][Current] = v]
        BY <3>1 DEF Analyse, ShowActive, Ask
      <4>2. ASSUME NEW x \in Silent' PROVE x \in Silent
        <5>1. /\ x \in Times \X Symbols /\ x # <<slot, Current>>
              /\ x = <<x[1], x[2]>> /\ x[1] \in Times /\ x[2] \in Symbols
              /\ saved'[x[1]][x[2]] # "none"
              /\ <<"result", x[1], x[2], saved'[x[1]][x[2]]>> \notin told
          BY <4>1, <4>2 DEF Silent, Unannounced, Current
        <5>2. x[1] # slot \/ x[2] # Current
          BY <5>1
        <5>3. saved'[x[1]][x[2]] = saved[x[1]][x[2]]
          <6>1. CASE saved' = saved
            BY <6>1
          <6>2. ASSUME NEW v, saved' = [saved EXCEPT ![slot][Current] = v]
                PROVE  saved'[x[1]][x[2]] = saved[x[1]][x[2]]
            <7>1. saved \in [Times -> [Symbols -> {"none", "TRADE", "WATCH"}]]
              BY DEF Typed, TablesTyped
            <7>. QED
              BY <5>1, <5>2, <6>2, <7>1
          <6>. QED
            BY <4>1, <6>1, <6>2
        <5>. QED
          BY <4>1, <5>1, <5>3 DEF Silent, Unannounced
      <4>. QED
        BY <4>2
    <3>2. CASE TellResult
      <4>1. /\ UNCHANGED <<saved, slot>> /\ at = "tell" /\ at' \notin {"record", "tell"}
            /\ told' = told \cup {<<"result", slot, Current, result>>}
        BY <3>2 DEF TellResult
      <4>2. saved[slot][Current] \in {"none", result}
        BY <4>1 DEF InHand
      <4>. QED
        BY <4>1, <4>2 DEF Silent, Unannounced
    <3>3. CASE ~(Analyse \/ TellResult)
      <4>1. /\ UNCHANGED saved /\ told \subseteq told'
            /\ \/ UNCHANGED <<at, slot, sym>>
               \/ at \in {"record", "tell"} /\ at' \in {"record", "tell"} /\ UNCHANGED <<slot, sym>>
               \/ at \notin {"record", "tell"}
        BY <1>3, <3>3 DEF Next, Batch, Claim, EndRun, Cancel, HourComes, GraceEnds, ProbeComes,
           ReadData, Gate, Receive, Received, TellReady, Record, Assess, TellCancel, Probe,
           Restart, vars
      <4>. QED
        BY <4>1 DEF Silent, Unannounced, Current
    <3>. QED
      BY <3>1, <3>2, <3>3
  <2>3. crashes' = crashes
    BY <1>3 DEF Next, Batch, Claim, EndRun, Cancel, HourComes, GraceEnds, ProbeComes, ReadData,
       Gate, Receive, Received, TellReady, Analyse, Record, TellResult, Assess, TellCancel, Probe,
       Restart, vars
  <2>4. /\ Cardinality(Orphans') <= Cardinality(Orphans)
        /\ Cardinality(Silent') <= Cardinality(Silent)
        /\ Cardinality(Orphans) \in Nat /\ Cardinality(Silent) \in Nat
        /\ Cardinality(Orphans') \in Nat /\ Cardinality(Silent') \in Nat
    BY <1>1, <2>1, <2>2, FS_Subset, FS_CardinalityType
  <2>5. crashes \in Nat
    BY DEF Typed, WorldTyped
  <2>. QED
    BY <2>3, <2>4, <2>5 DEF Counted
<1>. QED
  BY <1>2, <1>3
-----------------------------------------------------------------------------
LEMMA InitIInv == Init => IInv /\ Counted
<1>. SUFFICES ASSUME Init PROVE IInv /\ Counted
  OBVIOUS
<1>. USE OrderType DEF Init, PerChart
<1>1. Typed
  <2>1. WorldTyped
    <3>1. now \in 0..Slots /\ probes \in 0..MaxProbes /\ crashes \in 0..MaxCrashes
      OBVIOUS
    <3>2. open = FALSE /\ up = TRUE
      OBVIOUS
    <3>. QED
      BY <3>1, <3>2, Zenon DEF WorldTyped
  <2>2. TablesTyped /\ LoopTyped
    BY DEF TablesTyped, LoopTyped, Runs, Charts, Stages
  <2>3. ServiceTyped
    BY DEF ServiceTyped
  <2>. QED
    BY <2>1, <2>2, <2>3 DEF Typed
<1>2. InRun /\ NoRow /\ Ahead /\ NotCancelled /\ Accepted /\ Guarded /\ InHand
  BY DEF InRun, NoRow, Blank, Ahead, Todo, Unsent, Early, Late, NotCancelled, Accepted, Guarded,
         InHand
<1>3. Truth /\ AllOrNothing /\ NeverTwice
  BY DEF Truth, AllOrNothing, NeverTwice
<1>4. Orphans = {} /\ Silent = {}
  BY DEF Orphans, Silent, Unannounced
<1>5. Counted
  BY <1>4, FS_EmptySet DEF Counted
<1>. QED
  BY <1>1, <1>2, <1>3, <1>5 DEF IInv

LEMMA NextIInv == IInv /\ [Next]_vars => IInv'
<1>. SUFFICES ASSUME IInv, [Next]_vars PROVE IInv'
  OBVIOUS
<1>1. Typed'
  BY TypedStep DEF IInv
<1>. QED
  BY <1>1, TimeStep, ClaimStep, StageStep, EndStep, TellCancelStep, ChartStep, AnalyseStep,
     TellResultStep DEF Next, Batch

\* The types, the stages of a batch, and what crashes leave, are one inductive
\* invariant.
THEOREM Inductive == Spec => [](IInv /\ Counted)
<1>1. IInv /\ Counted /\ [Next]_vars => (IInv /\ Counted)'
  BY NextIInv, CountedStep
<1>. QED
  BY InitIInv, <1>1, PTL DEF Spec

THEOREM TypeCorrect == Spec => []TypeOK
<1>1. IInv => TypeOK
  <2>1. {"none"} \cup Results = {"none", "WATCH"} \cup Outcomes
    BY DEF Results
  <2>. QED
    BY <2>1 DEF IInv, TypeOK, Typed, WorldTyped, TablesTyped, ServiceTyped, LoopTyped, Runs,
                Charts, Stages
<1>. QED
  BY <1>1, Inductive, PTL

\* No symbol of a batch is analysed, and nothing of it saved, unless the
\* charts of all were accepted, and nothing in a cancelled one (_process_slot).
THEOREM AllOrNothingCorrect == Spec => []AllOrNothing
<1>1. IInv => AllOrNothing
  BY DEF IInv
<1>. QED
  BY <1>1, Inductive, PTL

\* One receipt and one analysis per slot and symbol, with any number of
\* crashes within the grace of a slot (the INSERT OR IGNORE of the run).
THEOREM NeverTwiceCorrect == Spec => []NeverTwice
<1>1. IInv => NeverTwice
  BY DEF IInv
<1>. QED
  BY <1>1, Inductive, PTL

\* Announcements tell what was saved, and only crashes keep a saved analysis
\* from being announced (run_prepared_analysis and the result message).
THEOREM AnnouncedCorrect == Spec => []AnnouncedTruth
<1>1. IInv /\ Counted => AnnouncedTruth
  <2>. SUFFICES ASSUME IInv, Counted PROVE AnnouncedTruth
    OBVIOUS
  <2>1. /\ Unannounced \subseteq Silent \cup {<<slot, Current>>}
        /\ at = "idle" => Unannounced \subseteq Silent
    BY DEF Silent
  <2>2. IsFiniteSet(Silent) /\ crashes \in Nat
    <3>1. Silent \subseteq Times \X Symbols
      BY DEF Silent, Unannounced
    <3>. QED
      BY <3>1, Finite, FS_Subset DEF IInv, Typed, WorldTyped
  <2>3. Cardinality(Unannounced) <= Cardinality(Silent) + 1
        /\ Cardinality(Unannounced) \in Nat /\ Cardinality(Silent) \in Nat
    BY <2>1, <2>2, OneMore
  <2>4. at = "idle" => Cardinality(Unannounced) <= Cardinality(Silent)
    BY <2>1, <2>2, FS_Subset
  <2>5. Cardinality(Unannounced) <= crashes + (IF at = "idle" THEN 0 ELSE 1)
    BY <2>2, <2>3, <2>4 DEF Counted
  <2>6. Truth
    BY DEF IInv
  <2>. QED
    BY <2>5, <2>6 DEF AnnouncedTruth, Truth, Results
<1>. QED
  BY <1>1, Inductive, PTL

\* Every way out of a batch but a crash gives its run a final status.
THEOREM NoOrphanRunCorrect == Spec => []NoOrphanRun
<1>1. Counted => NoOrphanRun
  BY DEF Counted, Orphans, NoOrphanRun
<1>. QED
  BY <1>1, Inductive, PTL

\* The circuit breaker: no chart goes to a service known to be down before
\* its probe is due.
THEOREM BreakerCorrect == Spec => BreakerHolds
<1>1. IInv /\ [Next]_vars => [sent' # sent => ~(health = "DOWN" /\ resting)]_vars
  <2>. SUFFICES ASSUME IInv, Next, sent' # sent PROVE ~(health = "DOWN" /\ resting)
    BY DEF vars, counts
  <2>1. Receive
    BY DEF Next, Batch, Claim, EndRun, Cancel, HourComes, GraceEnds, ProbeComes, ReadData, Gate,
       Received, TellReady, Analyse, ShowActive, Ask, Record, TellResult, Assess, TellCancel, Probe, Crash,
       Restart, counts
  <2>. QED
    BY <2>1 DEF Receive, IInv, Guarded
<1>. QED
  BY <1>1, Inductive, PTL DEF Spec, BreakerHolds
=============================================================================
