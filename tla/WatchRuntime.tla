---------------------------- MODULE WatchRuntime ----------------------------
(***************************************************************************)
(* The running bot around a watch: the tables `watches` and                *)
(* `analysis_jobs`, the monitor loop that ends watches, the analysis       *)
(* worker that executes jobs, the scheduled batch's analyses, user         *)
(* requests, and the process crashing and recovering over those tables.    *)
(*                                                                         *)
(* One action is one database transaction, or one stretch of a thread      *)
(* between two points where another thread can be observed.  An answer is  *)
(* the result text put in the outbox with the job's final row; the outbox  *)
(* itself and its delivery are module Outbox.  The broker, the model and   *)
(* the user are the environment: what they return is chosen by \E.         *)
(*                                                                         *)
(* An operator whose comment begins with "Slip" is no part of the system:  *)
(* it is a plausible mistake in the operator that follows it, kept here to *)
(* show which property the mistake would break.                            *)
(***************************************************************************)
EXTENDS Naturals, FiniteSets

CONSTANTS
  Symbols,      \* traded symbols
  Watches,      \* identifiers a new watch can take
  Requests,     \* Telegram updates that ask for an analysis
  SymbolOf,     \* symbol of a watch or of a request
  Nothing,      \* Python's None
  MaxTime,      \* bound: candle closes the clock runs through
  MaxSlots,     \* bound: scheduled analyses started
  MaxCrashes    \* bound: times the process dies

Jobs == Requests \cup Watches   \* 'manual:<update>' and 'watch:<watch_id>'

ASSUME RuntimeAssumption ==
  /\ Requests \cap Watches = {}
  /\ SymbolOf \in [Jobs -> Symbols]
  /\ Nothing \notin Jobs \cup Symbols
  /\ MaxTime \in Nat /\ MaxSlots \in Nat /\ MaxCrashes \in Nat
  /\ IsFiniteSet(Jobs)

Analysts == {"worker", "scheduler"}   \* the threads that run an analysis
Endings == {"triggered", "invalidated", "expired"}
Events == {"none", "trigger", "invalidation"}
Reasons == {"trigger", "invalidation", "expiration", "account"}
\* SHOW is a WATCH result that creates no watch; CLOSED is a NO_TRADE result
\* whose text says the active watch was closed as invalidated.
Verdicts == {"TRADE", "NO_TRADE", "WATCH", "SHOW", "CLOSED"}
Answers == {"none", "TRADE", "WATCH", "NO_TRADE", "CLOSED"}

VARIABLES
  clock, crashes, phase,                  \* time, crashes so far, the process
  status, event, expires, seen,           \* table watches: close_status,
  closedAt, started, reanalysis,          \*   pending_event, cursor, ...
  notice,                                 \* outbox row 'watch-end:<id>'
  job, order, answer,                     \* analysis_jobs and 'result:<id>'
  signals, runs,                          \* trade_tracking; analyses begun
  pc, place, verdict, target, workerJob,  \* analysis threads
  slots,
  monPc, monRows, monWatch, monAt, monReason  \* the monitor loop

watchTable == <<status, event, expires, seen, closedAt, started, reanalysis, notice>>
jobTable == <<job, order, answer, signals, runs>>
analyst == <<pc, place, verdict, target, workerJob, slots>>
monitor == <<monPc, monRows, monWatch, monAt, monReason>>
process == <<clock, crashes, phase>>
vars == <<process, watchTable, jobTable, analyst, monitor>>

Init ==
  /\ clock = 0 /\ crashes = 0 /\ phase = "running"
  /\ status = [w \in Watches |-> "none"]
  /\ event = [w \in Watches |-> "none"]
  /\ expires = [w \in Watches |-> 0]
  /\ seen = [w \in Watches |-> 0]
  /\ closedAt = [w \in Watches |-> 0]
  /\ started = [w \in Watches |-> FALSE]
  /\ reanalysis = [w \in Watches |-> "none"]
  /\ notice = [w \in Watches |-> "none"]
  /\ job = [j \in Jobs |-> "none"]
  /\ order = [j \in Jobs |-> 0]
  /\ answer = [j \in Jobs |-> "none"]
  /\ signals = {}
  /\ runs = [j \in Jobs |-> 0]
  /\ pc = [a \in Analysts |-> "idle"]
  /\ place = [a \in Analysts |-> Nothing]
  /\ verdict = "NO_TRADE"
  /\ target = Nothing
  /\ workerJob = Nothing
  /\ slots = 0
  /\ monPc = "idle" /\ monRows = {} /\ monWatch = Nothing
  /\ monAt = 0 /\ monReason = "expiration"

Running == phase = "running"
IsOpen(w) == status[w] = "active"
OpenOn(s) == {w \in Watches : SymbolOf[w] = s /\ IsOpen(w)}
Busy(s) == \E j \in Jobs : SymbolOf[j] = s /\ job[j] \in {"pending", "running"}
\* The place a new row takes in ORDER BY created_at.
NextOrder == 1 + Cardinality({j \in Jobs : job[j] # "none"})
-----------------------------------------------------------------------------
(* Time passes whether or not the process runs: one tick is one M5 close. *)
Tick ==
  /\ clock < MaxTime
  /\ clock' = clock + 1
  /\ UNCHANGED <<crashes, phase, watchTable, jobTable, analyst, monitor>>

(* A user asks for an analysis; a symbol with work in hand is refused. *)
Enqueue(r) ==
  /\ Running
  /\ ~Busy(SymbolOf[r])
  /\ job[r] = "none"
  /\ job' = [job EXCEPT ![r] = "pending"]
  /\ order' = [order EXCEPT ![r] = NextOrder]
  /\ UNCHANGED <<process, watchTable, answer, signals, runs, analyst, monitor>>
-----------------------------------------------------------------------------
(* The monitor loop. *)

\* The rows of one poll are read once and may be stale when they are checked;
\* a poll that finds none changes nothing.
ListRows ==
  /\ Running /\ monPc = "idle"
  /\ monRows' = {w \in Watches : IsOpen(w)}
  /\ monPc' = IF monRows' = {} THEN "idle" ELSE "next"
  /\ UNCHANGED <<process, watchTable, jobTable, analyst, monWatch, monAt, monReason>>

NextRow(w) ==
  /\ monRows' = monRows \ {w}
  /\ monPc' = IF monRows' = {} THEN "idle" ELSE "next"
  /\ monWatch' = Nothing

\* Slip: a stored decision is resumed as a trigger whatever it was.
DecidedAsTrigger(w, reason) ==
  /\ monPc' = "decided" /\ monWatch' = w
  /\ monReason' = IF event[w] # "none" THEN "trigger" ELSE reason
  /\ UNCHANGED <<monRows, monAt>>

Decided(w, reason) ==
  /\ monPc' = "decided" /\ monWatch' = w /\ monReason' = reason
  /\ UNCHANGED <<monRows, monAt>>

\* Slip: the account is read before the expiry is tested.
AnsweredFirst(w) == TRUE

\* What has to be false before the broker is asked about w: the expiry is
\* tested first, then whether w is still open, then a decision on disk.
NeedsBroker(w) == clock < expires[w] /\ IsOpen(w) /\ event[w] = "none"

\* check_trigger up to its broker calls.
CheckBegin(w) ==
  /\ Running /\ monPc = "next" /\ w \in monRows
  /\ \/ clock >= expires[w] /\ Decided(w, "expiration")
     \/ clock < expires[w] /\ ~IsOpen(w) /\ NextRow(w) /\ UNCHANGED <<monAt, monReason>>
     \/ /\ clock < expires[w] /\ IsOpen(w) /\ event[w] # "none"
        /\ Decided(w, event[w])
     \/ /\ NeedsBroker(w)
        /\ \/ NextRow(w) /\ UNCHANGED <<monAt, monReason>>   \* account unreadable
           \/ Decided(w, "account")                           \* position or order
           \/ /\ monPc' = "evaluating" /\ monWatch' = w /\ monAt' = clock
              /\ UNCHANGED <<monRows, monReason>>
  /\ UNCHANGED <<process, watchTable, jobTable, analyst>>

\* The transaction of one candle: the cursor and the decision are written
\* together, unless another thread has closed the watch since.
Evaluate ==
  /\ Running /\ monPc = "evaluating"
  /\ LET w == monWatch IN
     \/ /\ ~IsOpen(w) \/ event[w] # "none" \/ monAt <= seen[w] \/ monAt > expires[w]
        /\ NextRow(w)
        /\ UNCHANGED <<event, seen, monAt, monReason>>
     \/ /\ IsOpen(w) /\ event[w] = "none" /\ seen[w] < monAt /\ monAt <= expires[w]
        /\ seen' = [seen EXCEPT ![w] = monAt]
        /\ \/ UNCHANGED event /\ NextRow(w) /\ UNCHANGED <<monAt, monReason>>
           \/ \E e \in {"trigger", "invalidation"} :
                event' = [event EXCEPT ![w] = e] /\ Decided(w, e)
  /\ UNCHANGED <<process, status, expires, closedAt, started, reanalysis, notice,
                 jobTable, analyst>>

\* Slip: the UPDATE without its condition closes what is already closed.
CloseAnyway(w, how) ==
  /\ status' = [status EXCEPT ![w] = how]
  /\ closedAt' = [closedAt EXCEPT ![w] = clock]

\* The conditional UPDATE of close_watch_lifecycle.
Close(w, how) ==
  /\ status' = [status EXCEPT ![w] = IF IsOpen(w) THEN how ELSE @]
  /\ closedAt' = [closedAt EXCEPT ![w] = IF IsOpen(w) THEN clock ELSE @]

\* Slip: the expiry is left to the check made before.
CanTriggerLate(w) == IsOpen(w)

CanTrigger(w) == IsOpen(w) /\ clock < expires[w]

\* Slip: the job is inserted even when the UPDATE found nothing to change.
ClaimTriggerUnchecked(w) ==
  /\ status' = [status EXCEPT ![w] = IF CanTrigger(w) THEN "triggered" ELSE @]
  /\ closedAt' = [closedAt EXCEPT ![w] = IF CanTrigger(w) THEN clock ELSE @]
  /\ job' = [job EXCEPT ![w] = IF @ = "none" THEN "pending" ELSE @]
  /\ order' = [order EXCEPT ![w] = IF job[w] = "none" THEN NextOrder ELSE @]

\* The conditional UPDATE of claim_watch_trigger, with the job it leaves.
ClaimTrigger(w) ==
  /\ status' = [status EXCEPT ![w] = IF CanTrigger(w) THEN "triggered" ELSE @]
  /\ closedAt' = [closedAt EXCEPT ![w] = IF CanTrigger(w) THEN clock ELSE @]
  /\ job' = [job EXCEPT ![w] = IF CanTrigger(w) /\ @ = "none" THEN "pending" ELSE @]
  /\ order' = [order EXCEPT ![w] = IF CanTrigger(w) /\ job[w] = "none" THEN NextOrder ELSE @]

\* Slip: the message says what was meant, not what the UPDATE did.
ApplyUnchecked ==
  /\ Running /\ monPc = "decided"
  /\ LET w == monWatch
         how == IF monReason = "expiration" THEN "expired" ELSE "invalidated"
     IN /\ \/ monReason = "trigger" /\ ClaimTrigger(w)
           \/ monReason # "trigger" /\ Close(w, how) /\ UNCHANGED <<job, order>>
        /\ notice' = [notice EXCEPT ![w] = IF monReason = "trigger" THEN "triggered" ELSE how]
        /\ NextRow(w)
  /\ UNCHANGED <<process, event, expires, seen, started, reanalysis, answer, signals,
                 runs, analyst, monAt, monReason>>

\* The decision, the ending and the message about it in one transaction; the
\* message is queued only by the one whose UPDATE took effect.
Apply ==
  /\ Running /\ monPc = "decided"
  /\ LET w == monWatch
         how == IF monReason = "expiration" THEN "expired" ELSE "invalidated"
     IN /\ \/ /\ monReason = "trigger"
              /\ ClaimTrigger(w)
           \/ /\ monReason # "trigger"
              /\ Close(w, how)
              /\ UNCHANGED <<job, order>>
        /\ notice' = [notice EXCEPT ![w] = IF status'[w] # status[w] THEN status'[w] ELSE @]
        /\ NextRow(w)
  /\ UNCHANGED <<process, event, expires, seen, started, reanalysis, answer, signals,
                 runs, analyst, monAt, monReason>>
-----------------------------------------------------------------------------
(* Analyses.  A symbol's lock is held from Enter to the return. *)

Locked == {"inside", "closing", "thinking", "committing"}

\* Slip: the decorator is forgotten.
Unlocked(a) == TRUE

LockFree(a) == \A b \in Analysts \ {a} : pc[b] \in Locked => place[b] # place[a]

Claim(j) ==
  /\ Running /\ pc["worker"] = "idle" /\ job[j] = "pending"
  /\ \A k \in Jobs : job[k] = "pending" => order[j] <= order[k]
  /\ job' = [job EXCEPT ![j] = "running"]
  /\ workerJob' = j
  /\ place' = [place EXCEPT !["worker"] = SymbolOf[j]]
  /\ pc' = [pc EXCEPT !["worker"] = IF j \in Watches THEN "claimed" ELSE "waiting"]
  /\ UNCHANGED <<process, watchTable, order, answer, signals, runs, verdict, target, slots,
                 monitor>>

MarkStarted ==
  /\ Running /\ pc["worker"] = "claimed"
  /\ started' = [started EXCEPT ![workerJob] = TRUE]
  /\ pc' = [pc EXCEPT !["worker"] = "waiting"]
  /\ UNCHANGED <<process, status, event, expires, seen, closedAt, reanalysis, notice,
                 jobTable, place, verdict, target, workerJob, slots, monitor>>

\* A batch reaches the final analysis of a symbol.
StartSlot(s) ==
  /\ Running /\ pc["scheduler"] = "idle" /\ slots < MaxSlots
  /\ slots' = slots + 1
  /\ place' = [place EXCEPT !["scheduler"] = s]
  /\ pc' = [pc EXCEPT !["scheduler"] = "waiting"]
  /\ UNCHANGED <<process, watchTable, jobTable, verdict, target, workerJob, monitor>>

Enter(a) ==
  /\ Running /\ pc[a] = "waiting" /\ LockFree(a)
  /\ pc' = [pc EXCEPT ![a] = "inside"]
  /\ UNCHANGED <<process, watchTable, jobTable, place, verdict, target, workerJob, slots,
                 monitor>>

\* The analysis returns v to its caller, which has yet to finish the job.
Return(a, v) ==
  /\ pc' = [pc EXCEPT ![a] = IF a = "worker" THEN "returned" ELSE "idle"]
  /\ verdict' = IF a = "worker" THEN v ELSE verdict
  /\ place' = [place EXCEPT ![a] = IF a = "worker" THEN @ ELSE Nothing]

CallModel(a) ==
  /\ pc' = [pc EXCEPT ![a] = "thinking"]
  /\ runs' = IF a = "worker" THEN [runs EXCEPT ![workerJob] = @ + 1] ELSE runs
  /\ UNCHANGED <<place, verdict, target>>

\* run_initial_analysis: the account first, then an active watch, then the
\* market (closed: NO_TRADE), then the model.
InitialChecks ==
  /\ Running /\ pc["worker"] = "inside" /\ workerJob \in Requests
  /\ \/ Return("worker", "NO_TRADE") /\ UNCHANGED <<target, runs>>
     \/ \E w \in OpenOn(place["worker"]) :    \* a position or an order is open
          /\ pc' = [pc EXCEPT !["worker"] = "closing"]
          /\ target' = w
          /\ UNCHANGED <<place, verdict, runs>>
     \/ /\ OpenOn(place["worker"]) # {}
        /\ Return("worker", "SHOW") /\ UNCHANGED <<target, runs>>
     \/ OpenOn(place["worker"]) = {} /\ CallModel("worker")
  /\ UNCHANGED <<process, watchTable, job, order, answer, signals, workerJob, slots, monitor>>

\* close_watch on the row read before; its result is not looked at.
CloseExisting ==
  /\ Running /\ pc["worker"] = "closing"
  /\ Close(target, "invalidated")
  /\ Return("worker", "CLOSED")
  /\ UNCHANGED <<process, event, expires, seen, started, reanalysis, notice, jobTable,
                 target, workerJob, slots, monitor>>

\* run_watch_recheck: account or market refuse, or the scenario has expired.
RecheckChecks ==
  /\ Running /\ pc["worker"] = "inside" /\ workerJob \in Watches
  /\ \/ Return("worker", "NO_TRADE") /\ UNCHANGED <<target, runs>>
     \/ clock < expires[workerJob] /\ CallModel("worker")
  /\ UNCHANGED <<process, watchTable, job, order, answer, signals, workerJob, slots, monitor>>

\* run_prepared_analysis: an active watch is shown, else the model is called.
SlotChecks ==
  /\ Running /\ pc["scheduler"] = "inside"
  /\ \/ OpenOn(place["scheduler"]) # {} /\ Return("scheduler", "SHOW") /\ UNCHANGED <<target, runs>>
     \/ OpenOn(place["scheduler"]) = {} /\ CallModel("scheduler")
  /\ UNCHANGED <<process, watchTable, job, order, answer, signals, workerJob, slots, monitor>>

IsRecheck(a) == a = "worker" /\ workerJob \in Watches

\* Any exception of the call, or _finalize's account check: no commit is made.
\* For a batch it also stands for TRADE and NO_TRADE, whose commit writes no
\* table of this module.
Abandon(a) ==
  /\ Running /\ pc[a] \in {"thinking", "committing"}
  /\ Return(a, "NO_TRADE")
  /\ UNCHANGED <<process, watchTable, jobTable, target, workerJob, slots, monitor>>

\* What _finalize allows: after a trigger no watch (a model's WATCH becomes
\* NO_TRADE) and no TRADE past the expiry; a TRADE short of the minimum
\* reward/risk alone is shown as WATCH.
Permitted(a) ==
  {"NO_TRADE", "SHOW"}
    \cup (IF IsRecheck(a) THEN {} ELSE {"WATCH"})
    \cup (IF IsRecheck(a) /\ clock >= expires[workerJob] THEN {} ELSE {"TRADE"})

Decide(a) ==
  /\ Running /\ pc[a] = "thinking"
  /\ \E v \in Permitted(a) :
       /\ a = "worker" => verdict' = v
       /\ a = "scheduler" => v = "WATCH" /\ verdict' = verdict
  /\ pc' = [pc EXCEPT ![a] = "committing"]
  /\ UNCHANGED <<process, watchTable, jobTable, place, target, workerJob, slots, monitor>>

\* Slip: the internal verdict is stored as it is.
RawText(v) == v

Text(v) == IF v = "SHOW" THEN "WATCH" ELSE v

\* Slip: a job is finished without its watch's own record.
FinishJobOnly(j, v) ==
  /\ job' = [job EXCEPT ![j] = "done"]
  /\ answer' = [answer EXCEPT ![j] = IF job[j] # "done" THEN Text(v) ELSE @]
  /\ UNCHANGED reanalysis

\* work_queue.finish: a job already DONE keeps its answer.
Finish(j, v) ==
  LET open == job[j] # "done" IN
  /\ job' = [job EXCEPT ![j] = "done"]
  /\ answer' = [answer EXCEPT ![j] = IF open THEN Text(v) ELSE @]
  /\ reanalysis' = [w \in Watches |-> IF w = j /\ open THEN Text(v) ELSE reanalysis[w]]

\* save_watch: refused while the symbol has an active row.
CreateWatch(w, e) ==
  /\ status' = [status EXCEPT ![w] = "active"]
  /\ expires' = [expires EXCEPT ![w] = e]
  /\ seen' = [seen EXCEPT ![w] = clock]

\* Slip: the signal is tracked in the transaction, the job is left to the
\* worker's own finish.
CommitSignalFirst(a) ==
  /\ Running /\ pc[a] = "committing"
  /\ a = "worker" /\ verdict = "TRADE"
  /\ signals' = signals \cup {workerJob}
  /\ Return(a, verdict)
  /\ UNCHANGED <<process, watchTable, job, answer, order, runs, target, workerJob,
                 slots, monitor>>

\* The final transaction: the watch, the tracked signal and the job together.
Commit(a) ==
  /\ Running /\ pc[a] = "committing"
  /\ LET creates == a = "scheduler" \/ verdict = "WATCH" IN
     /\ \/ /\ creates /\ OpenOn(place[a]) = {}
           /\ \E w \in Watches, e \in (clock + 1)..MaxTime :
                /\ status[w] = "none" /\ SymbolOf[w] = place[a]
                /\ CreateWatch(w, e)
        \/ ~creates /\ UNCHANGED <<status, expires, seen>>
     /\ signals' = IF a = "worker" /\ verdict = "TRADE" THEN signals \cup {workerJob} ELSE signals
     /\ IF a = "worker"
        THEN Finish(workerJob, verdict)
        ELSE UNCHANGED <<job, answer, reanalysis>>
     /\ Return(a, verdict)
  /\ UNCHANGED <<process, event, closedAt, started, notice, order, runs, target, workerJob,
                 slots, monitor>>

\* The worker's own finish, after the thread has returned or failed.
FinishJob ==
  /\ Running /\ pc["worker"] = "returned"
  /\ Finish(workerJob, verdict)
  /\ pc' = [pc EXCEPT !["worker"] = "idle"]
  /\ place' = [place EXCEPT !["worker"] = Nothing]
  /\ verdict' = "NO_TRADE" /\ target' = Nothing /\ workerJob' = Nothing
  /\ UNCHANGED <<process, status, event, expires, seen, closedAt, started, notice, order,
                 signals, runs, slots, monitor>>
-----------------------------------------------------------------------------
(* The process dies and comes back; the tables are what is left. *)

Crash ==
  /\ phase # "stopped" /\ crashes < MaxCrashes
  /\ phase' = "stopped" /\ crashes' = crashes + 1
  /\ pc' = [a \in Analysts |-> "idle"]
  /\ place' = [a \in Analysts |-> Nothing]
  /\ verdict' = "NO_TRADE" /\ target' = Nothing /\ workerJob' = Nothing
  /\ monPc' = "idle" /\ monRows' = {} /\ monWatch' = Nothing
  /\ monAt' = 0 /\ monReason' = "expiration"
  /\ UNCHANGED <<clock, watchTable, jobTable, slots>>

\* recover(), first transaction: a triggered watch without a job gets one.
Lost(j) == j \in Watches /\ status[j] = "triggered" /\ reanalysis[j] = "none" /\ job[j] = "none"
Restart ==
  /\ phase = "stopped"
  /\ phase' = "recovering"
  /\ job' = [j \in Jobs |-> IF ~Lost(j) THEN job[j] ELSE IF started[j] THEN "running" ELSE "pending"]
  /\ order' = [j \in Jobs |-> IF Lost(j) THEN NextOrder ELSE order[j]]
  /\ UNCHANGED <<clock, crashes, watchTable, answer, signals, runs, analyst, monitor>>

\* Slip: an interrupted job is put back in the queue.
RequeueJob(j) ==
  /\ phase = "recovering" /\ job[j] = "running"
  /\ job' = [job EXCEPT ![j] = "pending"]
  /\ UNCHANGED <<process, watchTable, order, answer, signals, runs, analyst, monitor>>

\* recover(), then one transaction per interrupted job: it is answered, not rerun.
RecoverJob(j) ==
  /\ phase = "recovering" /\ job[j] = "running"
  /\ Finish(j, "NO_TRADE")
  /\ UNCHANGED <<process, status, event, expires, seen, closedAt, started, notice, order,
                 signals, runs, analyst, monitor>>

\* Slip: the loops are started before the interrupted jobs are answered.
RecoveredEarly ==
  /\ phase = "recovering"
  /\ phase' = "running"
  /\ UNCHANGED <<clock, crashes, watchTable, jobTable, analyst, monitor>>

Recovered ==
  /\ phase = "recovering"
  /\ \A j \in Jobs : job[j] # "running"
  /\ phase' = "running"
  /\ UNCHANGED <<clock, crashes, watchTable, jobTable, analyst, monitor>>
-----------------------------------------------------------------------------
MonitorStep == ListRows \/ (\E w \in Watches : CheckBegin(w)) \/ Evaluate \/ Apply

WorkerStep ==
  \/ \E j \in Jobs : Claim(j)
  \/ MarkStarted \/ Enter("worker") \/ InitialChecks \/ CloseExisting \/ RecheckChecks
  \/ Abandon("worker") \/ Decide("worker") \/ Commit("worker") \/ FinishJob

SchedulerStep ==
  \/ \E s \in Symbols : StartSlot(s)
  \/ Enter("scheduler") \/ SlotChecks
  \/ Abandon("scheduler") \/ Decide("scheduler") \/ Commit("scheduler")

RecoveryStep == Restart \/ (\E j \in Jobs : RecoverJob(j)) \/ Recovered

Next ==
  \/ Tick \/ (\E r \in Requests : Enqueue(r)) \/ Crash
  \/ MonitorStep \/ WorkerStep \/ SchedulerStep \/ RecoveryStep

Spec == Init /\ [][Next]_vars

(* The loops keep polling, a model call returns or times out, a stopped     *)
(* process is started again; users, batches and crashes owe nothing.        *)
FairSpec ==
  /\ Spec
  /\ WF_vars(Tick) /\ WF_vars(MonitorStep) /\ WF_vars(WorkerStep)
  /\ WF_vars(SchedulerStep /\ pc["scheduler"] # "idle") /\ WF_vars(RecoveryStep)
-----------------------------------------------------------------------------
(* Properties. *)

TypeOK ==
  /\ clock \in Nat /\ crashes \in Nat /\ phase \in {"running", "stopped", "recovering"}
  /\ status \in [Watches -> {"none", "active"} \cup Endings]
  /\ event \in [Watches -> Events]
  /\ expires \in [Watches -> Nat] /\ seen \in [Watches -> Nat] /\ closedAt \in [Watches -> Nat]
  /\ started \in [Watches -> BOOLEAN]
  /\ reanalysis \in [Watches -> Answers]
  /\ notice \in [Watches -> {"none"} \cup Endings]
  /\ job \in [Jobs -> {"none", "pending", "running", "done"}]
  /\ order \in [Jobs -> Nat]
  /\ answer \in [Jobs -> Answers]
  /\ signals \in SUBSET Jobs
  /\ runs \in [Jobs -> Nat]
  /\ pc \in [Analysts -> {"idle", "claimed", "waiting", "returned"} \cup Locked]
  /\ place \in [Analysts -> Symbols \cup {Nothing}]
  /\ verdict \in Verdicts
  /\ target \in Watches \cup {Nothing}
  /\ workerJob \in Jobs \cup {Nothing}
  /\ slots \in Nat
  /\ monPc \in {"idle", "next", "evaluating", "decided"}
  /\ monRows \in SUBSET Watches
  /\ monWatch \in Watches \cup {Nothing}
  /\ monAt \in Nat
  /\ monReason \in Reasons

\* A watch is TRIGGERED only before its expiration and EXPIRED only after it,
\* by the time of the transaction that wrote it, however stale the check was
\* that led there (claim_watch_trigger, close_watch_lifecycle).
EndingInTime ==
  \A w \in Watches :
    /\ status[w] = "triggered" => closedAt[w] < expires[w]
    /\ status[w] = "expired" => closedAt[w] >= expires[w]

\* A watch has an analysis job exactly when it ended by its trigger, across
\* every crash: no trigger without its final analysis, no analysis without
\* its trigger (claim_watch_trigger, recover).
JobFollowsTrigger ==
  \A w \in Watches : status[w] = "triggered" <=> job[w] # "none"

\* A triggered watch rests on the trigger stored with the candle that made it,
\* so that a stored invalidation never becomes one; and the monitor ends no
\* watch as invalidated whose stored decision is a trigger.  Both hold whoever
\* restarts in between (check_trigger, pending_event).
TriggerHasEvidence ==
  \A w \in Watches :
    /\ status[w] = "triggered" => event[w] = "trigger"
    /\ notice[w] = "invalidated" => event[w] # "trigger"

\* A job is answered exactly when it is DONE, and the watch's own record of
\* the final analysis is the answer that was sent.
AnswersAgree ==
  /\ \A j \in Jobs : job[j] = "done" <=> answer[j] # "none"
  /\ \A w \in Watches : reanalysis[w] = answer[w]

\* The user is told TRADE exactly for the jobs whose signal is tracked: a
\* crash cannot leave a tracked signal announced as NO_TRADE, or the reverse.
SignalAnnounced ==
  \A j \in Jobs : j \in signals <=> answer[j] = "TRADE"

\* A job's analysis is begun once over all the lives of the process: recovery
\* answers an interrupted job, it never repeats the model call.
RunAtMostOnce == \A j \in Jobs : runs[j] <= 1

\* While the bot is up, a RUNNING job is the one its worker holds: none is
\* left RUNNING with nobody to finish it, which would also refuse its symbol.
NoOrphanJob ==
  Running => \A j \in Jobs : job[j] = "running" => workerJob = j

\* The message about a watch's end names the end it had, and a trigger or an
\* expiry never goes unannounced.
NoticeTruthful ==
  \A w \in Watches :
    /\ notice[w] # "none" => notice[w] = status[w]
    /\ status[w] \in {"triggered", "expired"} => notice[w] # "none"

\* An analysis about to register a watch still finds its symbol free: the
\* per-symbol lock makes the check made before the model call hold after it.
CreationNeverRefused ==
  \A a \in Analysts :
    pc[a] = "committing" /\ (a = "scheduler" \/ verdict = "WATCH") => OpenOn(place[a]) = {}

\* An answer saying that the active watch was closed as invalidated is true.
ClosedClaimTrue ==
  pc["worker"] = "returned" /\ verdict = "CLOSED" => status[target] = "invalidated"

\* The tables implement the promise made about watches.
Promise == INSTANCE WatchPromise WITH life <- status, reply <- [w \in Watches |-> answer[w]]
ImplementsPromise == Promise!Spec

\* Every job is answered in the end, whatever crashes interrupt it.
JobsAnswered == \A j \in Jobs : job[j] = "pending" ~> job[j] = "done"

\* Every watch ends, even if the broker never answers again: the expiry is
\* tested before anything that needs the broker (check_trigger).
WatchesEnd == \A w \in Watches : status[w] = "active" ~> status[w] \in Endings
=============================================================================
