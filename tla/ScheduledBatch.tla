--------------------------- MODULE ScheduledBatch ---------------------------
(***************************************************************************)
(* The scheduled analyses: at six fixed times of the day a batch reads the *)
(* data of every symbol, asks the model service for a receipt of every     *)
(* chart, and only when all of them came asks for every final analysis.    *)
(* Beside it stand the state of the service with its circuit breaker and   *)
(* the probe of the health tick.  One loop runs batches and probes, so one *)
(* program counter is enough; the process can die between any two of its   *)
(* transactions, and what it leaves is in the tables.                      *)
(*                                                                         *)
(* What the data source and the model answer is chosen by \E.  Operators   *)
(* whose comment begins with "Slip" are as in WatchRuntime.                *)
(***************************************************************************)
EXTENDS Naturals, Sequences, FiniteSets

CONSTANTS
  Order,        \* the symbols in the order of SYMBOLS
  Slots,        \* bound: times of the day considered, 1..Slots
  Verdicts,     \* the verdicts considered, of TRADE, WATCH and NO_TRADE
  Threshold,    \* service_failure_threshold
  MaxProbes,    \* bound: probes that fail
  MaxCrashes    \* bound: times the process dies

Symbols == {Order[i] : i \in DOMAIN Order}

ASSUME BatchAssumption ==
  /\ Order \in Seq(Symbols) /\ Order # <<>>
  /\ \A i, j \in DOMAIN Order : Order[i] = Order[j] => i = j
  /\ Slots \in Nat \ {0} /\ Threshold \in Nat \ {0}
  /\ Verdicts \subseteq {"TRADE", "WATCH", "NO_TRADE"}
  /\ MaxProbes \in Nat /\ MaxCrashes \in Nat

Times == 1..Slots
Outcomes == Verdicts \cup {"FAILED"}

VARIABLES
  now, open,    \* the last slot whose time has come; is it within the grace
  run,          \* run[k]: scheduled_runs.status
  chart,        \* chart[k][s]: scheduled_charts.status
  final,        \* final[k][s]: scheduled_charts.final_status
  saved,        \* saved[k][s]: what the final analysis wrote: signal or watch
  told,         \* outbox keys of the loop, with the verdict they tell
  sent, asked,  \* receipts and final analyses requested, per slot and symbol
  health, failures, resting,  \* scheduled_health; next_probe_at is to come
  at, slot, sym, result,      \* the loop: where it is, in which slot and symbol,
                              \* and what the last final analysis returned
  up, probes, crashes

tables == <<run, chart, final, saved, told>>
counts == <<sent, asked>>
service == <<health, failures, resting>>
loop == <<at, slot, sym, result>>
world == <<now, open, up, probes, crashes>>
vars == <<tables, counts, service, loop, world>>

PerChart(v) == [k \in Times |-> [s \in Symbols |-> v]]

Init ==
  /\ now = 0 /\ open = FALSE
  /\ run = [k \in Times |-> "none"]
  /\ chart = PerChart("none") /\ final = PerChart("none") /\ saved = PerChart("none")
  /\ told = {}
  /\ sent = PerChart(0) /\ asked = PerChart(0)
  /\ health = "none" /\ failures = 0 /\ resting = FALSE
  /\ at = "idle" /\ slot = 0 /\ sym = 1 /\ result = "none"
  /\ up = TRUE /\ probes = 0 /\ crashes = 0

Current == Order[sym]
All(v) == \A s \in Symbols : chart[slot][s] = v
-----------------------------------------------------------------------------
(* Time: a slot's hour comes, its grace runs out, the time of a probe comes. *)

HourComes ==
  /\ now < Slots /\ ~open
  /\ now' = now + 1 /\ open' = TRUE
  /\ UNCHANGED <<tables, counts, service, loop, up, probes, crashes>>

GraceEnds ==
  /\ open /\ open' = FALSE
  /\ UNCHANGED <<tables, counts, service, loop, now, up, probes, crashes>>

ProbeComes ==
  /\ resting /\ resting' = FALSE
  /\ UNCHANGED <<tables, counts, health, failures, loop, world>>
-----------------------------------------------------------------------------
(* The batch. *)

\* Slip: the row of the slot is replaced instead of ignored.
Reclaimable == TRUE

Unclaimed == run[now] = "none"

Claim ==
  /\ up /\ at = "idle" /\ open /\ Unclaimed
  /\ run' = [run EXCEPT ![now] = "COLLECTING"]
  /\ at' = "data" /\ slot' = now /\ sym' = 1
  /\ UNCHANGED <<chart, final, saved, told, counts, service, result, world>>

\* The loop goes on with the next symbol, or to the next stage.
Onward(stage) ==
  IF sym < Len(Order)
  THEN sym' = sym + 1 /\ UNCHANGED at
  ELSE sym' = 1 /\ at' = stage

ReadData ==
  /\ up /\ at = "data"
  /\ \E v \in {"READY", "DATA_FAILED"} : chart' = [chart EXCEPT ![slot][Current] = v]
  /\ Onward("gate")
  /\ UNCHANGED <<run, final, saved, told, counts, service, slot, result, world>>

\* Slip: the circuit breaker is not consulted.
NoBreaker == FALSE

BreakerOpen == health = "DOWN" /\ resting

\* All the data, and a service not known to be down, or no request at all.
Gate ==
  /\ up /\ at = "gate"
  /\ at' = IF All("READY") /\ ~BreakerOpen THEN "receipts" ELSE "cancel"
  /\ UNCHANGED <<tables, counts, service, slot, sym, result, world>>

Receive ==
  /\ up /\ at = "receipts"
  /\ sent' = [sent EXCEPT ![slot][Current] = @ + 1]
  /\ \E v \in {"ACCEPTED", "SERVICE_FAILED"} : chart' = [chart EXCEPT ![slot][Current] = v]
  /\ Onward("received")
  /\ UNCHANGED <<run, final, saved, told, asked, service, slot, result, world>>

\* Slip: one failure too few takes the service down.
EarlyState(healthy) ==
  /\ failures' = IF healthy THEN 0 ELSE failures + 1
  /\ health' = IF healthy THEN "UP" ELSE IF failures' + 1 >= Threshold THEN "DOWN" ELSE "DEGRADED"
  /\ resting' = (health' = "DOWN")

\* service_state, one transaction.
ServiceState(healthy) ==
  /\ failures' = IF healthy THEN 0 ELSE failures + 1
  /\ health' = IF healthy THEN "UP" ELSE IF failures' >= Threshold THEN "DOWN" ELSE "DEGRADED"
  /\ resting' = (health' = "DOWN")

\* Slip: one receipt is enough.
AnyReceipt == \E s \in Symbols : chart[slot][s] = "ACCEPTED"

AllReceipts == All("ACCEPTED")

Received ==
  /\ up /\ at = "received"
  /\ ServiceState(AllReceipts)
  /\ at' = IF AllReceipts THEN "ready" ELSE "cancel"
  /\ UNCHANGED <<tables, counts, slot, sym, result, world>>

TellReady ==
  /\ up /\ at = "ready"
  /\ told' = told \cup {<<"ready", slot>>}
  /\ at' = "analyse"
  /\ UNCHANGED <<run, chart, final, saved, counts, service, slot, sym, result, world>>

\* run_prepared_analysis: an active watch of the symbol is shown without a
\* request; else the last transaction saves the signal of a TRADE and the
\* watch of a WATCH.  An exception comes before that transaction, and a TRADE
\* that falls short only of the reward to risk becomes a WATCH without a watch.
ShowActive ==
  /\ result' = "WATCH"
  /\ UNCHANGED <<asked, saved>>

\* Slip: writing the replay capsule, after the transaction, may raise.
AskUnguarded ==
  /\ asked' = [asked EXCEPT ![slot][Current] = @ + 1]
  /\ \E v \in Verdicts :
       saved' = [saved EXCEPT ![slot][Current] = IF v = "NO_TRADE" THEN @ ELSE v]
  /\ result' = "FAILED"

Ask ==
  /\ asked' = [asked EXCEPT ![slot][Current] = @ + 1]
  /\ \/ /\ result' \in Verdicts
        /\ saved' = [saved EXCEPT ![slot][Current] = IF result' = "NO_TRADE" THEN @ ELSE result']
     \/ result' \in {"WATCH", "FAILED"} /\ UNCHANGED saved

Analyse ==
  /\ up /\ at = "analyse"
  /\ ShowActive \/ Ask
  /\ at' = "record"
  /\ UNCHANGED <<run, chart, final, told, sent, service, slot, sym, world>>

Record ==
  /\ up /\ at = "record"
  /\ final' = [final EXCEPT ![slot][Current] = result]
  /\ at' = "tell"
  /\ UNCHANGED <<run, chart, saved, told, counts, service, slot, sym, result, world>>

\* The announcement is a transaction of its own.
TellResult ==
  /\ up /\ at = "tell"
  /\ told' = told \cup {<<"result", slot, Current, result>>}
  /\ result' = "none"
  /\ IF sym < Len(Order) THEN sym' = sym + 1 /\ at' = "analyse" ELSE sym' = 1 /\ at' = "close"
  /\ UNCHANGED <<run, chart, final, saved, counts, service, slot, world>>

SomeFailed == \E s \in Symbols : final[slot][s] = "FAILED"

Assess ==
  /\ up /\ at = "close"
  /\ IF SomeFailed THEN ServiceState(FALSE) ELSE UNCHANGED service
  /\ at' = "end"
  /\ UNCHANGED <<tables, counts, slot, sym, result, world>>

EndRun ==
  /\ up /\ at = "end"
  /\ run' = [run EXCEPT ![slot] = IF SomeFailed THEN "ANALYSIS_FAILED" ELSE "COMPLETED"]
  /\ at' = "idle"
  /\ UNCHANGED <<chart, final, saved, told, counts, service, slot, sym, result, world>>

TellCancel ==
  /\ up /\ at = "cancel"
  /\ told' = told \cup {<<"cancel", slot>>}
  /\ at' = "cancelled"
  /\ UNCHANGED <<run, chart, final, saved, counts, service, slot, sym, result, world>>

\* Slip: a cancelled batch is told and its row left as it is.
CancelForgets ==
  /\ up /\ at = "cancelled"
  /\ at' = "idle"
  /\ UNCHANGED <<tables, counts, service, slot, sym, result, world>>

Cancel ==
  /\ up /\ at = "cancelled"
  /\ run' = [run EXCEPT ![slot] = "CANCELLED"]
  /\ at' = "idle"
  /\ UNCHANGED <<chart, final, saved, told, counts, service, slot, sym, result, world>>
-----------------------------------------------------------------------------
\* The health tick asks a service that is down again, when its time has come.
Probe ==
  /\ up /\ at = "idle" /\ health = "DOWN" /\ ~resting
  /\ \/ ServiceState(TRUE) /\ UNCHANGED probes
     \/ probes < MaxProbes /\ probes' = probes + 1 /\ ServiceState(FALSE)
  /\ UNCHANGED <<tables, counts, loop, now, open, up, crashes>>

\* The process dies, or an exception outside every try (drawing a chart, a
\* locked database) leaves the loop and with it the process.
Crash ==
  /\ up /\ crashes < MaxCrashes
  /\ up' = FALSE /\ crashes' = crashes + 1
  /\ at' = "idle" /\ sym' = 1 /\ result' = "none" /\ UNCHANGED slot
  /\ UNCHANGED <<tables, counts, service, now, open, probes>>

Restart ==
  /\ ~up /\ up' = TRUE
  /\ UNCHANGED <<tables, counts, service, loop, now, open, probes, crashes>>
-----------------------------------------------------------------------------
Batch ==
  \/ Claim \/ ReadData \/ Gate \/ Receive \/ Received \/ TellReady \/ Analyse \/ Record
  \/ TellResult \/ Assess \/ EndRun \/ TellCancel \/ Cancel

Next == HourComes \/ GraceEnds \/ ProbeComes \/ Batch \/ Probe \/ Crash \/ Restart

Spec == Init /\ [][Next]_vars
-----------------------------------------------------------------------------
(* Properties. *)

TypeOK ==
  /\ now \in 0..Slots /\ open \in BOOLEAN /\ up \in BOOLEAN
  /\ run \in [Times -> {"none", "COLLECTING", "CANCELLED", "COMPLETED", "ANALYSIS_FAILED"}]
  /\ chart \in [Times -> [Symbols -> {"none", "READY", "DATA_FAILED", "ACCEPTED", "SERVICE_FAILED"}]]
  /\ final \in [Times -> [Symbols -> {"none", "WATCH"} \cup Outcomes]]
  /\ saved \in [Times -> [Symbols -> {"none", "TRADE", "WATCH"}]]
  /\ sent \in [Times -> [Symbols -> Nat]] /\ asked \in [Times -> [Symbols -> Nat]]
  /\ health \in {"none", "UP", "DEGRADED", "DOWN"} /\ failures \in Nat
  /\ resting \in BOOLEAN /\ (resting => health = "DOWN")
  /\ health = "DOWN" => failures >= Threshold
  /\ at \in {"idle", "data", "gate", "receipts", "received", "ready", "analyse", "record", "tell",
             "close", "end", "cancel", "cancelled"}
  /\ slot \in 0..Slots /\ sym \in 1..Len(Order) /\ result \in {"none", "WATCH"} \cup Outcomes
  /\ probes \in 0..MaxProbes /\ crashes \in 0..MaxCrashes

\* A final analysis is asked for, and a signal or a watch is saved, only in a
\* batch whose every chart was accepted, and never in a cancelled one
\* (SCHEDULED_BATCHES_FA.md:12: only after four valid receipts).
AllOrNothing ==
  \A k \in Times : \A s \in Symbols :
    asked[k][s] > 0 \/ saved[k][s] # "none" =>
      /\ \A t \in Symbols : chart[k][t] = "ACCEPTED"
      /\ run[k] # "CANCELLED" /\ <<"cancel", k>> \notin told

\* No chart is sent and no analysis asked for twice in one slot, though the
\* process comes back within the grace of a slot it had begun.
NeverTwice ==
  \A k \in Times : \A s \in Symbols : sent[k][s] <= 1 /\ asked[k][s] <= 1

Unannounced ==
  {x \in Times \X Symbols : /\ saved[x[1]][x[2]] # "none"
                             /\ <<"result", x[1], x[2], saved[x[1]][x[2]]>> \notin told}

\* What is announced is what was saved: no signal that is not tracked, no
\* NO_TRADE or failure over a tracked one.  And what was saved is announced,
\* but for the analysis a batch is at and those a crash has cut off from their
\* message, which is queued in a transaction of its own.
AnnouncedTruth ==
  /\ \A k \in Times : \A s \in Symbols : \A v \in Outcomes \cup {"WATCH"} :
       <<"result", k, s, v>> \in told =>
         /\ v = "TRADE" <=> saved[k][s] = "TRADE"
         /\ saved[k][s] = "WATCH" => v = "WATCH"
  /\ Cardinality(Unannounced) <= crashes + (IF at = "idle" THEN 0 ELSE 1)

\* No chart is sent to a service known to be down before its probe is due.
BreakerHolds ==
  [][sent' # sent => ~(health = "DOWN" /\ resting)]_vars

\* A run is COLLECTING only while the loop is inside it, except for the runs
\* a crash has cut short: every way out of process writes a final status.
NoOrphanRun ==
  Cardinality({k \in Times : run[k] = "COLLECTING" /\ ~(at # "idle" /\ slot = k)}) <= crashes
=============================================================================
