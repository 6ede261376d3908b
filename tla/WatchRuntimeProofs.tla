------------------------- MODULE WatchRuntimeProofs -------------------------
(* Theorems about WatchRuntime for every set of symbols, watches and         *)
(* requests, every schedule, every number of crashes.                        *)
EXTENDS WatchRuntime, FiniteSetTheorems, TLAPS

USE DEF Analysts, Endings, Events, Reasons, Verdicts, Answers, Locked

\* The worker has a job exactly while it is not idle, and only while the
\* process runs; before it returns that job is RUNNING, and it returns TRADE
\* only from the transaction that has already answered the job.
WorkerBound ==
  /\ pc["worker"] = "idle" => workerJob = Nothing
  /\ pc["worker"] # "idle" => workerJob \in Jobs /\ phase = "running"
  /\ pc["worker"] \notin {"idle", "returned"} => job[workerJob] = "running"
  /\ pc["worker"] = "returned" =>
       /\ job[workerJob] \in {"running", "done"}
       /\ verdict = "TRADE" => job[workerJob] = "done"

\* The place a new row takes is a number.
LEMMA NextOrderType == NextOrder \in Nat
<1>1. IsFiniteSet({j \in Jobs : job[j] # "none"})
  BY RuntimeAssumption, FS_Subset
<1>2. Cardinality({j \in Jobs : job[j] # "none"}) \in Nat
  BY <1>1, FS_CardinalityType
<1>. QED
  BY <1>2 DEF NextOrder

\* What finishing a job writes has its type.
LEMMA FinishType ==
  ASSUME TypeOK, NEW j \in Jobs, NEW v \in Verdicts, Finish(j, v)
  PROVE  /\ job' \in [Jobs -> {"none", "pending", "running", "done"}]
         /\ answer' \in [Jobs -> Answers]
         /\ reanalysis' \in [Watches -> Answers]
  BY DEF TypeOK, Finish, Text

\* A step of the monitor loop keeps every type.
LEMMA MonitorType ==
  ASSUME TypeOK, MonitorStep PROVE TypeOK'
<1>. USE DEF TypeOK, watchTable, jobTable, analyst, monitor, process
<1>1. CASE ListRows
  BY <1>1 DEF ListRows
<1>2. ASSUME NEW w \in Watches, CheckBegin(w) PROVE TypeOK'
  BY <1>2 DEF CheckBegin, Decided, NextRow
<1>3. CASE Evaluate
  BY <1>3 DEF Evaluate, Decided, NextRow
<1>4. CASE Apply
  <2>1. /\ status' \in [Watches -> {"none", "active"} \cup Endings]
        /\ closedAt' \in [Watches -> Nat]
        /\ \A w \in Watches : status'[w] # status[w] => status'[w] \in Endings
    BY <1>4 DEF Apply, Close, ClaimTrigger
  <2>2. /\ job' \in [Jobs -> {"none", "pending", "running", "done"}]
        /\ order' \in [Jobs -> Nat]
    BY <1>4, NextOrderType DEF Apply, ClaimTrigger
  <2>3. notice' \in [Watches -> {"none"} \cup Endings]
    BY <1>4, <2>1 DEF Apply
  <2>. QED
    BY <1>4, <2>1, <2>2, <2>3 DEF Apply, NextRow
<1>. QED
  BY <1>1, <1>2, <1>3, <1>4 DEF MonitorStep

\* A step of the worker keeps every type.
LEMMA WorkerType ==
  ASSUME TypeOK, WorkerBound, WorkerStep PROVE TypeOK'
<1>. USE RuntimeAssumption DEF TypeOK, watchTable, jobTable, analyst, monitor, process
<1>1. ASSUME NEW j \in Jobs, Claim(j) PROVE TypeOK'
  BY <1>1 DEF Claim
<1>2. CASE MarkStarted
  <2>1. started' \in [Watches -> BOOLEAN]
    BY <1>2, Zenon DEF MarkStarted
  <2>. QED
    BY <1>2, <2>1 DEF MarkStarted
<1>3. CASE Enter("worker")
  BY <1>3 DEF Enter
<1>4. CASE InitialChecks
  BY <1>4 DEF InitialChecks, OpenOn, Return, CallModel
<1>5. CASE CloseExisting
  BY <1>5 DEF CloseExisting, Close, Return
<1>6. CASE RecheckChecks
  BY <1>6 DEF RecheckChecks, Return, CallModel
<1>7. CASE Abandon("worker")
  BY <1>7 DEF Abandon, Return
<1>8. CASE Decide("worker")
  BY <1>8 DEF Decide, Permitted
<1>9. CASE Commit("worker")
  <2>1. workerJob \in Jobs
    BY <1>9 DEF WorkerBound, Commit
  <2>2. Finish(workerJob, verdict) /\ Return("worker", verdict)
    BY <1>9 DEF Commit
  <2>3. /\ status' \in [Watches -> {"none", "active"} \cup Endings]
        /\ expires' \in [Watches -> Nat] /\ seen' \in [Watches -> Nat]
    BY <1>9 DEF Commit, CreateWatch
  <2>4. signals' \in SUBSET Jobs
    BY <1>9, <2>1 DEF Commit
  <2>. QED
    BY <1>9, <2>1, <2>2, <2>3, <2>4, FinishType DEF Commit, Return
<1>10. CASE FinishJob
  BY <1>10, FinishType DEF FinishJob, WorkerBound
<1>. QED
  BY <1>1, <1>2, <1>3, <1>4, <1>5, <1>6, <1>7, <1>8, <1>9, <1>10 DEF WorkerStep

\* A step of a scheduled batch keeps every type.
LEMMA SchedulerType ==
  ASSUME TypeOK, SchedulerStep PROVE TypeOK'
<1>. USE RuntimeAssumption DEF TypeOK, watchTable, jobTable, analyst, monitor, process
<1>1. ASSUME NEW s \in Symbols, StartSlot(s) PROVE TypeOK'
  BY <1>1 DEF StartSlot
<1>2. CASE Enter("scheduler")
  BY <1>2 DEF Enter
<1>3. CASE SlotChecks
  BY <1>3 DEF SlotChecks, Return, CallModel
<1>4. CASE Abandon("scheduler")
  BY <1>4 DEF Abandon, Return
<1>5. CASE Decide("scheduler")
  BY <1>5 DEF Decide
<1>6. CASE Commit("scheduler")
  BY <1>6 DEF Commit, CreateWatch, Return
<1>. QED
  BY <1>1, <1>2, <1>3, <1>4, <1>5, <1>6 DEF SchedulerStep

\* Recovery keeps every type.
LEMMA RecoveryType ==
  ASSUME TypeOK, RecoveryStep PROVE TypeOK'
<1>. USE RuntimeAssumption DEF TypeOK, watchTable, jobTable, analyst, monitor, process
<1>1. CASE Restart
  BY <1>1, NextOrderType DEF Restart
<1>2. ASSUME NEW j \in Jobs, RecoverJob(j) PROVE TypeOK'
  BY <1>2, FinishType DEF RecoverJob
<1>3. CASE Recovered
  BY <1>3 DEF Recovered
<1>. QED
  BY <1>1, <1>2, <1>3 DEF RecoveryStep
-----------------------------------------------------------------------------
\* What the other threads leave to the worker: its program counter, its job and
\* its verdict, and every job that runs or is done.
WorkerLeftAlone ==
  /\ pc'["worker"] = pc["worker"] /\ UNCHANGED <<workerJob, verdict, phase>>
  /\ \A j \in Jobs :
       /\ job[j] # "none" => job'[j] # "none"
       /\ (job[j] \in {"running", "done"} \/ job'[j] \in {"running", "done"})
            => job'[j] = job[j]

OtherStep == Tick \/ (\E r \in Requests : Enqueue(r)) \/ MonitorStep \/ SchedulerStep

LEMMA OthersLeaveWorker ==
  ASSUME TypeOK, OtherStep PROVE WorkerLeftAlone
<1>. USE DEF TypeOK, WorkerLeftAlone, watchTable, jobTable, analyst, monitor, process
<1>1. CASE Tick
  BY <1>1 DEF Tick
<1>2. ASSUME NEW r \in Requests, Enqueue(r) PROVE WorkerLeftAlone
  BY <1>2 DEF Enqueue
<1>3. CASE MonitorStep
  <2>1. CASE Apply
    BY <2>1 DEF Apply, ClaimTrigger
  <2>2. CASE ListRows \/ (\E w \in Watches : CheckBegin(w)) \/ Evaluate
    BY <2>2 DEF ListRows, CheckBegin, Evaluate
  <2>. QED
    BY <1>3, <2>1, <2>2 DEF MonitorStep
<1>4. CASE SchedulerStep
  BY <1>4 DEF SchedulerStep, StartSlot, Enter, SlotChecks, Abandon, Decide, Commit,
              Return, CallModel
<1>. QED
  BY <1>1, <1>2, <1>3, <1>4 DEF OtherStep

\* The worker's bond with its job is kept by every step.
LEMMA WorkerBoundStep ==
  ASSUME TypeOK, WorkerBound, Next PROVE WorkerBound'
<1>. USE RuntimeAssumption DEF TypeOK, WorkerBound, watchTable, jobTable, analyst, monitor, process
<1>1. CASE OtherStep
  BY <1>1, OthersLeaveWorker DEF WorkerLeftAlone
<1>2. CASE WorkerStep
  <2>1. ASSUME NEW j \in Jobs, Claim(j) PROVE WorkerBound'
    BY <2>1 DEF Claim, Running
  <2>2. CASE MarkStarted \/ Enter("worker")
    BY <2>2 DEF MarkStarted, Enter
  <2>3. CASE InitialChecks \/ RecheckChecks
    BY <2>3 DEF InitialChecks, RecheckChecks, Return, CallModel
  <2>4. CASE CloseExisting \/ Abandon("worker") \/ Decide("worker")
    BY <2>4 DEF CloseExisting, Abandon, Decide, Return
  <2>5. CASE Commit("worker")
    BY <2>5 DEF Commit, Finish, Return
  <2>6. CASE FinishJob
    BY <2>6 DEF FinishJob
  <2>. QED
    BY <1>2, <2>1, <2>2, <2>3, <2>4, <2>5, <2>6 DEF WorkerStep
<1>3. CASE Crash
  BY <1>3 DEF Crash
<1>4. CASE RecoveryStep
  BY <1>4 DEF RecoveryStep, Restart, RecoverJob, Recovered
<1>. QED
  BY <1>1, <1>2, <1>3, <1>4 DEF Next, OtherStep

LEMMA TypeStep ==
  ASSUME TypeOK, WorkerBound, Next PROVE TypeOK'
<1>. USE RuntimeAssumption DEF TypeOK, watchTable, jobTable, analyst, monitor, process
<1>1. CASE Tick
  BY <1>1 DEF Tick
<1>2. ASSUME NEW r \in Requests, Enqueue(r) PROVE TypeOK'
  BY <1>2, NextOrderType DEF Enqueue, Jobs
<1>3. CASE Crash
  BY <1>3 DEF Crash
<1>. QED
  BY <1>1, <1>2, <1>3, MonitorType, WorkerType, SchedulerType, RecoveryType DEF Next

\* Every reachable state is well typed, and the worker holds its job.
THEOREM TypeCorrect == Spec => [](TypeOK /\ WorkerBound)
<1>1. Init => TypeOK /\ WorkerBound
  BY RuntimeAssumption DEF Init, TypeOK, WorkerBound
<1>2. TypeOK /\ WorkerBound /\ [Next]_vars => (TypeOK /\ WorkerBound)'
  <2>. SUFFICES ASSUME TypeOK, WorkerBound, UNCHANGED vars PROVE (TypeOK /\ WorkerBound)'
    BY WorkerBoundStep, TypeStep
  <2>. QED
    BY DEF TypeOK, WorkerBound, vars, process, watchTable, jobTable, analyst, monitor
<1>. QED
  BY <1>1, <1>2, PTL DEF Spec
-----------------------------------------------------------------------------
tables == <<status, event, expires, closedAt, notice, job, answer, reanalysis, signals>>

WriteStep ==
  \/ (\E r \in Requests : Enqueue(r)) \/ Evaluate \/ Apply
  \/ (\E j \in Jobs : Claim(j)) \/ CloseExisting \/ (\E a \in Analysts : Commit(a)) \/ FinishJob
  \/ Restart \/ (\E j \in Jobs : RecoverJob(j))

\* Every other step leaves the tables as they are.
LEMMA WritesAreFew ==
  ASSUME Next PROVE WriteStep \/ UNCHANGED tables
<1>. USE DEF WriteStep, tables, watchTable, jobTable, analyst, monitor, process
<1>1. CASE Tick \/ Crash \/ MonitorStep \/ (\E r \in Requests : Enqueue(r))
  BY <1>1 DEF Tick, Crash, MonitorStep, ListRows, CheckBegin
<1>2. CASE WorkerStep
  BY <1>2 DEF WorkerStep, MarkStarted, Enter, InitialChecks, RecheckChecks, Abandon, Decide,
              Return, CallModel
<1>3. CASE SchedulerStep
  BY <1>3 DEF SchedulerStep, StartSlot, Enter, SlotChecks, Abandon, Decide, Return, CallModel
<1>4. CASE RecoveryStep
  BY <1>4 DEF RecoveryStep, Recovered
<1>. QED
  BY <1>1, <1>2, <1>3, <1>4 DEF Next

\* Triggers and jobs, jobs and answers, signals and answers go together.
JobStory == JobFollowsTrigger /\ AnswersAgree /\ SignalAnnounced

LEMMA JobStoryStep ==
  ASSUME TypeOK, WorkerBound, JobStory, Next PROVE JobStory'
<1>. USE RuntimeAssumption
     DEF TypeOK, JobStory, JobFollowsTrigger, AnswersAgree, SignalAnnounced, Jobs,
         watchTable, jobTable, analyst, monitor, process
<1>1. ASSUME NEW r \in Requests, Enqueue(r) PROVE JobStory'
  BY <1>1 DEF Enqueue
<1>2. CASE Apply
  BY <1>2 DEF Apply, Close, ClaimTrigger, CanTrigger, IsOpen
<1>3. ASSUME NEW j \in Jobs, Claim(j) PROVE JobStory'
  BY <1>3 DEF Claim
<1>4. CASE CloseExisting
  BY <1>4 DEF CloseExisting, Close, IsOpen
<1>5. CASE Commit("worker")
  <2>1. workerJob \in Jobs /\ job[workerJob] = "running"
    BY <1>5 DEF Commit, WorkerBound
  <2>2. Finish(workerJob, verdict)
    BY <1>5 DEF Commit
  <2>3. \A w \in Watches : status'[w] = "triggered" <=> status[w] = "triggered"
    BY <1>5 DEF Commit, CreateWatch
  <2>4. signals' = IF verdict = "TRADE" THEN signals \cup {workerJob} ELSE signals
    BY <1>5 DEF Commit
  <2>. QED
    BY <2>1, <2>2, <2>3, <2>4 DEF Finish, Text
<1>6. CASE Commit("scheduler")
  <2>1. UNCHANGED <<job, answer, reanalysis, signals>>
    BY <1>6 DEF Commit
  <2>2. \A w \in Watches : status'[w] = "triggered" <=> status[w] = "triggered"
    BY <1>6 DEF Commit, CreateWatch
  <2>. QED
    BY <2>1, <2>2
<1>7. CASE FinishJob
  <2>1. /\ workerJob \in Jobs /\ job[workerJob] \in {"running", "done"}
        /\ verdict = "TRADE" => job[workerJob] = "done"
    BY <1>7 DEF FinishJob, WorkerBound
  <2>. QED
    BY <1>7, <2>1 DEF FinishJob, Finish, Text
<1>8. CASE Restart
  BY <1>8 DEF Restart, Lost
<1>9. ASSUME NEW j \in Jobs, RecoverJob(j) PROVE JobStory'
  BY <1>9 DEF RecoverJob, Finish, Text
<1>10. CASE Evaluate
  BY <1>10 DEF Evaluate, NextRow, Decided
<1>11. CASE UNCHANGED tables
  BY <1>11 DEF tables
<1>. QED
  BY <1>1, <1>2, <1>3, <1>4, <1>5, <1>6, <1>7, <1>8, <1>9, <1>10, <1>11, WritesAreFew
     DEF WriteStep
-----------------------------------------------------------------------------
\* What the monitor holds between two of its steps is still true of the tables,
\* however long the step took: the watch was opened, an expiry it saw has
\* passed, a trigger it saw is the decision on disk, and what it is about to
\* end as invalidated has no trigger stored.
MonitorHolds ==
  /\ \A w \in monRows : status[w] # "none"
  /\ monPc \in {"evaluating", "decided"} => monWatch \in Watches /\ status[monWatch] # "none"
  /\ monPc = "decided" =>
       /\ monReason = "expiration" => clock >= expires[monWatch]
       /\ monReason = "trigger" => event[monWatch] = "trigger"
       /\ monReason \in {"invalidation", "account"} => event[monWatch] # "trigger"

LEMMA MonitorHoldsStep ==
  ASSUME TypeOK, MonitorHolds, Next PROVE MonitorHolds'
<1>. USE DEF TypeOK, MonitorHolds, watchTable, jobTable, analyst, monitor, process
<1>1. CASE Tick \/ (\E r \in Requests : Enqueue(r)) \/ Crash \/ RecoveryStep
  BY <1>1 DEF Tick, Enqueue, Crash, RecoveryStep, Restart, RecoverJob, Recovered
<1>2. CASE ListRows
  BY <1>2 DEF ListRows, IsOpen
<1>3. ASSUME NEW w \in Watches, CheckBegin(w) PROVE MonitorHolds'
  BY <1>3 DEF CheckBegin, NeedsBroker, Decided, NextRow
<1>4. CASE Evaluate
  BY <1>4 DEF Evaluate, Decided, NextRow
<1>5. CASE Apply
  BY <1>5 DEF Apply, NextRow, Close, ClaimTrigger
<1>6. CASE Commit("worker") \/ Commit("scheduler")
  BY <1>6 DEF Commit, CreateWatch
<1>7. CASE CloseExisting
  BY <1>7 DEF CloseExisting, Close
<1>8. CASE \/ (\E j \in Jobs : Claim(j)) \/ MarkStarted \/ InitialChecks \/ RecheckChecks
          \/ FinishJob \/ SlotChecks \/ (\E s \in Symbols : StartSlot(s))
          \/ (\E a \in Analysts : Enter(a) \/ Abandon(a) \/ Decide(a))
  BY <1>8 DEF Claim, MarkStarted, InitialChecks, RecheckChecks, FinishJob, SlotChecks, StartSlot,
              Enter, Abandon, Decide
<1>. QED
  BY <1>1, <1>2, <1>3, <1>4, <1>5, <1>6, <1>7, <1>8
     DEF Next, MonitorStep, WorkerStep, SchedulerStep

\* How a watch ended agrees with the clock, the evidence and the message.
EndingStory == EndingInTime /\ TriggerHasEvidence /\ NoticeTruthful

LEMMA EndingStoryStep ==
  ASSUME TypeOK, MonitorHolds, EndingStory, Next PROVE EndingStory'
<1>. USE DEF TypeOK, EndingStory, EndingInTime, TriggerHasEvidence, NoticeTruthful,
             watchTable, jobTable, analyst, monitor, process
<1>1. CASE Apply
  BY <1>1 DEF Apply, Close, ClaimTrigger, CanTrigger, IsOpen, MonitorHolds
<1>2. CASE Evaluate
  BY <1>2 DEF Evaluate, IsOpen
<1>3. CASE CloseExisting
  BY <1>3 DEF CloseExisting, Close, IsOpen
<1>4. CASE Commit("worker") \/ Commit("scheduler")
  BY <1>4 DEF Commit, CreateWatch
<1>5. CASE \/ (\E r \in Requests : Enqueue(r)) \/ (\E j \in Jobs : Claim(j)) \/ FinishJob
          \/ Restart \/ (\E j \in Jobs : RecoverJob(j))
  BY <1>5 DEF Enqueue, Claim, FinishJob, Restart, RecoverJob
<1>6. CASE UNCHANGED tables
  BY <1>6 DEF tables
<1>. QED
  BY <1>1, <1>2, <1>3, <1>4, <1>5, <1>6, WritesAreFew DEF WriteStep

\* A job that has not left the queue has not been analysed, and one that is on
\* its way to the model is about to be for the first time.
FirstRun ==
  /\ \A j \in Jobs : runs[j] > 0 => job[j] \in {"running", "done"}
  /\ pc["worker"] \in {"claimed", "waiting", "inside", "closing"} => runs[workerJob] = 0
  /\ RunAtMostOnce

LEMMA FirstRunStep ==
  ASSUME TypeOK, WorkerBound, FirstRun, Next PROVE FirstRun'
<1>. USE RuntimeAssumption
     DEF TypeOK, FirstRun, RunAtMostOnce, WorkerBound, watchTable, jobTable, analyst, monitor,
         process
<1>1. CASE OtherStep
  <2>1. UNCHANGED runs
    BY <1>1 DEF OtherStep, Tick, Enqueue, MonitorStep, ListRows, CheckBegin, Evaluate, Apply,
                SchedulerStep, StartSlot, Enter, SlotChecks, CallModel, Abandon, Decide, Commit
  <2>. QED
    BY <1>1, <2>1, OthersLeaveWorker DEF WorkerLeftAlone
<1>2. ASSUME NEW j \in Jobs, Claim(j) PROVE FirstRun'
  BY <1>2 DEF Claim
<1>3. CASE MarkStarted \/ Enter("worker")
  BY <1>3 DEF MarkStarted, Enter
<1>4. CASE InitialChecks \/ RecheckChecks
  BY <1>4 DEF InitialChecks, RecheckChecks, Return, CallModel
<1>5. CASE CloseExisting \/ Abandon("worker") \/ Decide("worker")
  BY <1>5 DEF CloseExisting, Abandon, Decide, Return
<1>6. CASE Commit("worker") \/ FinishJob
  BY <1>6 DEF Commit, FinishJob, Finish, Return
<1>7. CASE Crash \/ RecoveryStep
  BY <1>7 DEF Crash, RecoveryStep, Restart, Lost, RecoverJob, Finish, Recovered
<1>. QED
  BY <1>1, <1>2, <1>3, <1>4, <1>5, <1>6, <1>7 DEF Next, OtherStep, WorkerStep

LEMMA NoOrphanStep ==
  ASSUME TypeOK, WorkerBound, NoOrphanJob, Next PROVE NoOrphanJob'
<1>. USE RuntimeAssumption
     DEF TypeOK, NoOrphanJob, Running, WorkerBound, watchTable, jobTable, analyst, monitor, process
<1>1. CASE OtherStep
  BY <1>1, OthersLeaveWorker DEF WorkerLeftAlone
<1>2. ASSUME NEW j \in Jobs, Claim(j) PROVE NoOrphanJob'
  BY <1>2 DEF Claim
<1>3. CASE MarkStarted \/ Enter("worker") \/ InitialChecks \/ RecheckChecks
          \/ CloseExisting \/ Abandon("worker") \/ Decide("worker")
  BY <1>3 DEF MarkStarted, Enter, InitialChecks, RecheckChecks, CloseExisting, Abandon, Decide
<1>4. CASE Commit("worker") \/ FinishJob
  BY <1>4 DEF Commit, FinishJob, Finish, Return
<1>5. CASE Crash \/ RecoveryStep
  BY <1>5 DEF Crash, RecoveryStep, Restart, RecoverJob, Recovered
<1>. QED
  BY <1>1, <1>2, <1>3, <1>4, <1>5 DEF Next, OtherStep, WorkerStep
-----------------------------------------------------------------------------
\* The lock of a symbol: two analyses are never inside for one symbol, so what
\* an analysis found before its model call (no active watch) holds until it
\* commits, and a recheck never commits a watch.
LockHolds ==
  /\ pc["worker"] \in Locked /\ pc["scheduler"] \in Locked => place["worker"] # place["scheduler"]
  /\ pc["worker"] \in {"thinking", "committing"} /\ workerJob \in Requests
       => OpenOn(place["worker"]) = {}
  /\ pc["scheduler"] \in {"thinking", "committing"} => OpenOn(place["scheduler"]) = {}
  /\ pc["worker"] = "committing" /\ workerJob \in Watches => verdict \notin {"WATCH", "CLOSED"}
  /\ pc["worker"] = "closing" => workerJob \in Requests
  /\ pc["worker"] = "returned" /\ verdict = "CLOSED" => workerJob \in Requests

\* A step that opens no watch leaves every free symbol free.
NothingOpened == \A w \in Watches : status'[w] = "active" => status[w] = "active"

LEMMA FreeStaysFree ==
  ASSUME NothingOpened, NEW s, OpenOn(s) = {} PROVE OpenOn(s)' = {}
  BY DEF NothingOpened, OpenOn, IsOpen

LEMMA LockHoldsStep ==
  ASSUME TypeOK, WorkerBound, LockHolds, Next PROVE LockHolds'
<1>. USE RuntimeAssumption
     DEF LockHolds, TypeOK, WorkerBound, watchTable, jobTable, analyst, monitor, process
<1>0. ASSUME NothingOpened, UNCHANGED <<pc, place, workerJob, verdict>> PROVE LockHolds'
  BY <1>0, FreeStaysFree
<1>1. CASE Tick \/ (\E r \in Requests : Enqueue(r)) \/ RecoveryStep
          \/ ListRows \/ (\E w \in Watches : CheckBegin(w)) \/ Evaluate
  BY <1>0, <1>1 DEF Tick, Enqueue, RecoveryStep, Restart, RecoverJob, Recovered, ListRows,
     CheckBegin, Evaluate, NothingOpened
<1>2. CASE Apply
  BY <1>0, <1>2 DEF Apply, Close, ClaimTrigger, CanTrigger, IsOpen, NothingOpened
<1>3. CASE Crash
  BY <1>3 DEF Crash
<1>4. CASE WorkerStep
  <2>1. ASSUME NEW j \in Jobs, Claim(j) PROVE LockHolds'
    BY <2>1 DEF Claim, OpenOn, IsOpen
  <2>2. CASE MarkStarted
    BY <2>2 DEF MarkStarted, OpenOn, IsOpen
  <2>3. CASE Enter("worker")
    BY <2>3 DEF Enter, LockFree, OpenOn, IsOpen
  <2>4. CASE InitialChecks
    BY <2>4 DEF InitialChecks, Return, CallModel, OpenOn, IsOpen
  <2>5. CASE CloseExisting
    <3>1. NothingOpened
      BY <2>5 DEF CloseExisting, Close, IsOpen, NothingOpened
    <3>. QED
      BY <2>5, <3>1, FreeStaysFree DEF CloseExisting, Return
  <2>6. CASE RecheckChecks
    BY <2>6 DEF RecheckChecks, Return, CallModel, OpenOn, IsOpen
  <2>7. CASE Abandon("worker")
    BY <2>7 DEF Abandon, Return, OpenOn, IsOpen
  <2>8. CASE Decide("worker")
    BY <2>8 DEF Decide, Permitted, IsRecheck, OpenOn, IsOpen
  <2>9. CASE Commit("worker")
    <3>1. \A w \in Watches : status'[w] = "active" /\ status[w] # "active"
                               => SymbolOf[w] = place["worker"]
      BY <2>9 DEF Commit, CreateWatch
    <3>2. /\ pc'["scheduler"] = pc["scheduler"] /\ place'["scheduler"] = place["scheduler"]
          /\ pc["worker"] = "committing" /\ pc'["worker"] = "returned"
          /\ UNCHANGED <<verdict, workerJob>>
      BY <2>9 DEF Commit, Return
    <3>. QED
      BY <3>1, <3>2 DEF OpenOn, IsOpen, Jobs
  <2>10. CASE FinishJob
    BY <2>10 DEF FinishJob, OpenOn, IsOpen
  <2>. QED
    BY <1>4, <2>1, <2>2, <2>3, <2>4, <2>5, <2>6, <2>7, <2>8, <2>9, <2>10 DEF WorkerStep
<1>5. CASE SchedulerStep
  <2>1. CASE \/ (\E s \in Symbols : StartSlot(s)) \/ Enter("scheduler") \/ SlotChecks
            \/ Abandon("scheduler") \/ Decide("scheduler")
    BY <2>1 DEF StartSlot, Enter, LockFree, SlotChecks, Abandon, Decide, Return, CallModel,
                OpenOn, IsOpen
  <2>2. CASE Commit("scheduler")
    <3>1. \A w \in Watches : status'[w] = "active" /\ status[w] # "active"
                               => SymbolOf[w] = place["scheduler"]
      BY <2>2 DEF Commit, CreateWatch
    <3>2. /\ pc'["worker"] = pc["worker"] /\ place'["worker"] = place["worker"]
          /\ pc["scheduler"] = "committing" /\ pc'["scheduler"] = "idle"
          /\ UNCHANGED <<verdict, workerJob>>
      BY <2>2 DEF Commit, Return
    <3>. QED
      BY <3>1, <3>2 DEF OpenOn, IsOpen
  <2>. QED
    BY <1>5, <2>1, <2>2 DEF SchedulerStep
<1>. QED
  BY <1>1, <1>2, <1>3, <1>4, <1>5 DEF Next, MonitorStep
-----------------------------------------------------------------------------
(* The inductive invariant, and what it implies. *)

IInv ==
  /\ TypeOK /\ WorkerBound /\ JobStory /\ MonitorHolds /\ EndingStory
  /\ FirstRun /\ NoOrphanJob /\ LockHolds

LEMMA InitIInv == Init => IInv
  BY RuntimeAssumption
     DEF Init, IInv, TypeOK, WorkerBound, JobStory, JobFollowsTrigger, AnswersAgree,
         SignalAnnounced, MonitorHolds, EndingStory, EndingInTime, TriggerHasEvidence,
         NoticeTruthful, FirstRun, RunAtMostOnce, NoOrphanJob, LockHolds, Jobs

LEMMA StutterIInv == IInv /\ UNCHANGED vars => IInv'
<1>. SUFFICES ASSUME IInv, UNCHANGED vars PROVE IInv'
  OBVIOUS
<1>. USE DEF IInv, vars, process, watchTable, jobTable, analyst, monitor
<1>1. TypeOK' /\ WorkerBound' /\ JobStory'
  BY DEF TypeOK, WorkerBound, JobStory, JobFollowsTrigger, AnswersAgree, SignalAnnounced
<1>2. MonitorHolds' /\ EndingStory'
  BY DEF MonitorHolds, EndingStory, EndingInTime, TriggerHasEvidence, NoticeTruthful
<1>3. FirstRun' /\ NoOrphanJob' /\ LockHolds'
  BY DEF FirstRun, RunAtMostOnce, NoOrphanJob, Running, LockHolds, OpenOn, IsOpen
<1>. QED
  BY <1>1, <1>2, <1>3

THEOREM Inductive == Spec => []IInv
<1>1. IInv /\ [Next]_vars => IInv'
  BY TypeStep, WorkerBoundStep, JobStoryStep, MonitorHoldsStep, EndingStoryStep, FirstRunStep,
     NoOrphanStep, LockHoldsStep, StutterIInv DEF IInv
<1>. QED
  BY InitIInv, <1>1, PTL DEF Spec

\* No watch is triggered after its time or expires before it
\* (claim_watch_trigger, close_watch).
THEOREM EndingTimely == Spec => []EndingInTime
<1>1. IInv => EndingInTime
  BY DEF IInv, EndingStory
<1>. QED
  BY <1>1, Inductive, PTL

\* No watch is triggered without the candle that decided it, and none that has
\* a trigger stored is ended by the monitor as invalidated.
THEOREM EvidenceCorrect == Spec => []TriggerHasEvidence
<1>1. IInv => TriggerHasEvidence
  BY DEF IInv, EndingStory
<1>. QED
  BY <1>1, Inductive, PTL

\* What the monitor tells of an ending is what the row says.
THEOREM NoticeCorrect == Spec => []NoticeTruthful
<1>1. IInv => NoticeTruthful
  BY DEF IInv, EndingStory
<1>. QED
  BY <1>1, Inductive, PTL

\* A watch has a job exactly when it was triggered.
THEOREM JobsCorrect == Spec => []JobFollowsTrigger
<1>1. IInv => JobFollowsTrigger
  BY DEF IInv, JobStory
<1>. QED
  BY <1>1, Inductive, PTL

\* A job is answered exactly when it is done.
THEOREM AnswersCorrect == Spec => []AnswersAgree
<1>1. IInv => AnswersAgree
  BY DEF IInv, JobStory
<1>. QED
  BY <1>1, Inductive, PTL

\* TRADE is said of exactly the signals that are tracked.
THEOREM SignalsCorrect == Spec => []SignalAnnounced
<1>1. IInv => SignalAnnounced
  BY DEF IInv, JobStory
<1>. QED
  BY <1>1, Inductive, PTL

\* No analysis is begun twice, whatever is recovered after a crash.
THEOREM RunsCorrect == Spec => []RunAtMostOnce
<1>1. IInv => RunAtMostOnce
  BY DEF IInv, FirstRun
<1>. QED
  BY <1>1, Inductive, PTL

\* No job is left RUNNING to nobody.
THEOREM NoneForgotten == Spec => []NoOrphanJob
<1>1. IInv => NoOrphanJob
  BY DEF IInv
<1>. QED
  BY <1>1, Inductive, PTL

\* The watch an analysis decides on still has its symbol free at the commit.
THEOREM CreationCorrect == Spec => []CreationNeverRefused
<1>1. IInv => CreationNeverRefused
  BY DEF IInv, LockHolds, WorkerBound, CreationNeverRefused, Jobs
<1>. QED
  BY <1>1, Inductive, PTL
-----------------------------------------------------------------------------
(* The tables implement WatchPromise. *)

\* A job that is finished in the invariant gives its watch one answer, and only
\* if the watch was triggered.
LEMMA FinishAnswers ==
  ASSUME IInv, NEW j \in Jobs, job[j] \in {"running", "done"}, UNCHANGED status,
         NEW v \in Verdicts, j \in Watches => v # "CLOSED", Finish(j, v)
  PROVE  (\E w \in Watches : \E r \in Promise!Replies : Promise!Answer(w, r))
           \/ UNCHANGED <<status, [w \in Watches |-> answer[w]]>>
<1>. USE DEF IInv, TypeOK, JobStory, JobFollowsTrigger, AnswersAgree, Finish, Text, Jobs
<1>1. CASE j \in Watches /\ job[j] = "running"
  <2>1. status[j] = "triggered" /\ answer[j] = "none"
    BY <1>1
  <2>2. Text(v) \in Promise!Replies
    BY <1>1 DEF Promise!Replies
  <2>3. Promise!Answer(j, Text(v))
    BY <1>1, <2>1 DEF Promise!Answer
  <2>. QED
    BY <1>1, <2>2, <2>3
<1>2. CASE j \notin Watches \/ job[j] = "done"
  BY <1>2
<1>. QED
  BY <1>1, <1>2

\* Every step of the runtime is a step of the promise, or none.
LEMMA PromiseStep ==
  ASSUME IInv, Next
  PROVE  Promise!Next \/ UNCHANGED <<status, [w \in Watches |-> answer[w]]>>
<1>. DEFINE Kept == UNCHANGED <<status, [w \in Watches |-> answer[w]]>>
<1>. USE DEF IInv, TypeOK, watchTable, jobTable, analyst, monitor, process
<1>1. CASE Apply
  <2>1. CASE status' = status
    BY <1>1, <2>1 DEF Apply
  <2>2. CASE status' # status
    <3>1. monWatch \in Watches /\ status[monWatch] = "active"
      BY <1>1, <2>2 DEF Apply, Close, ClaimTrigger, CanTrigger, IsOpen, MonitorHolds
    <3>2. \E how \in Promise!Endings : status' = [status EXCEPT ![monWatch] = how]
      BY <1>1, <2>2, <3>1 DEF Apply, Close, ClaimTrigger, CanTrigger, IsOpen, Promise!Endings
    <3>3. UNCHANGED answer
      BY <1>1 DEF Apply
    <3>. QED
      BY <3>1, <3>2, <3>3 DEF Promise!Next, Promise!End
  <2>. QED
    BY <2>1, <2>2
<1>2. CASE CloseExisting
  <2>1. CASE target \in Watches /\ status[target] = "active"
    BY <1>2, <2>1 DEF CloseExisting, Close, IsOpen, Promise!Next, Promise!End, Promise!Endings
  <2>2. CASE ~(target \in Watches /\ status[target] = "active")
    BY <1>2, <2>2 DEF CloseExisting, Close, IsOpen
  <2>. QED
    BY <2>1, <2>2
<1>3. ASSUME NEW a \in Analysts, Commit(a), a = "scheduler" \/ verdict = "WATCH"
      PROVE  Promise!Next
  <2>1. PICK w \in Watches : /\ status[w] = "none" /\ SymbolOf[w] = place[a]
                             /\ status' = [status EXCEPT ![w] = "active"]
    BY <1>3 DEF Commit, CreateWatch
  <2>2. OpenOn(place[a]) = {}
    BY <1>3 DEF Commit
  <2>3. ~Promise!OpenOn(SymbolOf[w])
    BY <2>1, <2>2 DEF Promise!OpenOn, OpenOn, IsOpen
  <2>4. \A x \in Watches : answer'[x] = answer[x]
    BY <1>3 DEF Commit, Finish, LockHolds, WorkerBound, Jobs
  <2>. QED
    BY <2>1, <2>3, <2>4 DEF Promise!Next, Promise!Open
<1>4. ASSUME Commit("worker"), verdict # "WATCH" PROVE Promise!Next \/ Kept
  <2>1. workerJob \in Jobs /\ job[workerJob] = "running" /\ verdict \in Verdicts
    BY <1>4 DEF Commit, WorkerBound
  <2>2. Finish(workerJob, verdict) /\ UNCHANGED status
    BY <1>4 DEF Commit
  <2>3. workerJob \in Watches => verdict # "CLOSED"
    BY <1>4 DEF Commit, LockHolds
  <2>. QED
    BY <2>1, <2>2, <2>3, FinishAnswers DEF Promise!Next
<1>5. CASE FinishJob
  <2>1. workerJob \in Jobs /\ job[workerJob] \in {"running", "done"}
    BY <1>5 DEF FinishJob, WorkerBound
  <2>2. workerJob \in Watches => verdict # "CLOSED"
    BY <1>5, RuntimeAssumption DEF FinishJob, LockHolds
  <2>. QED
    BY <1>5, <2>1, <2>2, FinishAnswers DEF FinishJob, Promise!Next
<1>6. ASSUME NEW j \in Jobs, RecoverJob(j) PROVE Promise!Next \/ Kept
  BY <1>6, FinishAnswers DEF RecoverJob, Promise!Next
<1>7. CASE \/ (\E r \in Requests : Enqueue(r)) \/ Evaluate \/ (\E j \in Jobs : Claim(j)) \/ Restart
  BY <1>7 DEF Enqueue, Evaluate, Claim, Restart
<1>8. CASE UNCHANGED tables
  BY <1>8 DEF tables
<1>. QED
  BY <1>1, <1>2, <1>3, <1>4, <1>5, <1>6, <1>7, <1>8, WritesAreFew DEF WriteStep

\* The running bot keeps what it promises about watches: one open watch per
\* symbol, one ending each, one answer and only after the trigger.
THEOREM Refinement == Spec => ImplementsPromise
<1>1. Init => Promise!Init
  BY DEF Init, Promise!Init, Jobs
<1>2. IInv /\ [Next]_vars => [Promise!Next]_<<status, [w \in Watches |-> answer[w]]>>
  <2>1. CASE Next
    BY <2>1, PromiseStep
  <2>2. CASE UNCHANGED vars
    BY <2>2 DEF vars, watchTable, jobTable
  <2>. QED
    BY <2>1, <2>2
<1>. QED
  BY <1>1, <1>2, Inductive, PTL DEF Spec, ImplementsPromise, Promise!Spec
=============================================================================
