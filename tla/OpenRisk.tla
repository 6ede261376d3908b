------------------------------ MODULE OpenRisk ------------------------------
(***************************************************************************)
(* The cap on the open risk of the account.  _finalize adds up the risk of *)
(* the tracked signals that are still open, refuses a signal that would    *)
(* pass the cap over them or over the account's own positions, and inserts *)
(* the signal in a later transaction.  The lock around an analysis is one  *)
(* per symbol, so the worker and a batch weigh signals of two symbols at   *)
(* the same time.  Meanwhile the tracker ends signals.                     *)
(*                                                                         *)
(* Risk is counted in parts of the balance; the open risk is the number of *)
(* parts the open signals hold.  Operators whose comment begins with       *)
(* "Slip" are as in WatchRuntime.                                          *)
(***************************************************************************)
EXTENDS Naturals, FiniteSets

CONSTANTS
  Signals,      \* analyses that can end in TRADE
  SymbolOf,     \* their symbols
  RiskOf,       \* their risk_percent, in parts
  MaxRisk,      \* max_risk_percent_hard_cap: what validation lets a signal risk
  Cap,          \* the cap on the open risk
  AccountRisks, \* values the open risk of the account itself takes
  Nothing,      \* Python's None
  MaxCrashes    \* bound: times the process dies

Desks == {"worker", "scheduler"}   \* the threads that run an analysis

ASSUME RiskAssumption ==
  /\ IsFiniteSet(Signals) /\ Nothing \notin Signals
  /\ MaxRisk \in Nat /\ RiskOf \in [Signals -> 0..MaxRisk]
  /\ Cap \in Nat /\ AccountRisks \subseteq Nat /\ MaxCrashes \in Nat

VARIABLES
  tracked,      \* table trade_tracking; open is PENDING or FILLED
  stage, work,  \* how far a desk is, with which signal
  account,      \* the open risk of the account's positions and orders
  crashes

desks == <<stage, work>>
riskVars == <<tracked, desks, account, crashes>>

RiskInit ==
  /\ tracked = [s \in Signals |-> "none"]
  /\ stage = [d \in Desks |-> "idle"]
  /\ work = [d \in Desks |-> Nothing]
  /\ account \in AccountRisks
  /\ crashes = 0

Parts(signals) == {p \in signals \X (1..MaxRisk) : p[2] <= RiskOf[p[1]]}

OpenSignals == {s \in Signals : tracked[s] = "open"}
OpenRiskAmount == Cardinality(Parts(OpenSignals))

\* An analysis of s begins: its symbol's lock is taken.
Begin(d, s) ==
  /\ stage[d] = "idle" /\ tracked[s] = "none"
  /\ \A e \in Desks \ {d} : stage[e] # "idle" => SymbolOf[work[e]] # SymbolOf[s]
  /\ stage' = [stage EXCEPT ![d] = "thinking"]
  /\ work' = [work EXCEPT ![d] = s]
  /\ UNCHANGED <<tracked, account, crashes>>

\* Slip: the new signal's own risk is left out of the sum.
FitsWithoutItself(s) == OpenRiskAmount <= Cap /\ account <= Cap

Fits(s) ==
  /\ OpenRiskAmount + RiskOf[s] <= Cap
  /\ account + RiskOf[s] <= Cap

\* The verdict is TRADE, and the cap allows it.
Weigh(d) ==
  /\ stage[d] = "thinking" /\ Fits(work[d])
  /\ stage' = [stage EXCEPT ![d] = "cleared"]
  /\ UNCHANGED <<tracked, work, account, crashes>>

\* Slip: the lock is released, the signal not forgotten.
DropHalf(d) ==
  /\ stage[d] # "idle"
  /\ stage' = [stage EXCEPT ![d] = "idle"]
  /\ UNCHANGED <<tracked, work, account, crashes>>

\* Any other end: another verdict, a refusal, an exception.
Drop(d) ==
  /\ stage[d] # "idle"
  /\ stage' = [stage EXCEPT ![d] = "idle"]
  /\ work' = [work EXCEPT ![d] = Nothing]
  /\ UNCHANGED <<tracked, account, crashes>>

\* The last transaction of the analysis.
Insert(d) ==
  /\ stage[d] = "cleared"
  /\ tracked' = [tracked EXCEPT ![work[d]] = "open"]
  /\ stage' = [stage EXCEPT ![d] = "idle"]
  /\ work' = [work EXCEPT ![d] = Nothing]
  /\ UNCHANGED <<account, crashes>>

\* The tracker writes a final status.
Close(s) ==
  /\ tracked[s] = "open"
  /\ tracked' = [tracked EXCEPT ![s] = "closed"]
  /\ UNCHANGED <<desks, account, crashes>>

\* The user trades by hand.
AccountMoves ==
  /\ account' \in AccountRisks
  /\ UNCHANGED <<tracked, desks, crashes>>

Crash ==
  /\ crashes < MaxCrashes /\ crashes' = crashes + 1
  /\ stage' = [d \in Desks |-> "idle"]
  /\ work' = [d \in Desks |-> Nothing]
  /\ UNCHANGED <<tracked, account>>

DeskStep(d) == (\E s \in Signals : Begin(d, s)) \/ Weigh(d) \/ Drop(d) \/ Insert(d)

RiskNext == (\E d \in Desks : DeskStep(d)) \/ (\E s \in Signals : Close(s)) \/ AccountMoves \/ Crash

RiskSpec == RiskInit /\ [][RiskNext]_riskVars
-----------------------------------------------------------------------------
(* Properties. *)

RiskTypeOK ==
  /\ tracked \in [Signals -> {"none", "open", "closed"}]
  /\ stage \in [Desks -> {"idle", "thinking", "cleared"}]
  /\ work \in [Desks -> Signals \cup {Nothing}]
  /\ \A d \in Desks : stage[d] # "idle" <=> work[d] # Nothing
  /\ account \in AccountRisks
  /\ crashes \in 0..MaxCrashes

\* The open risk of the tracked signals passes the cap by at most the risk of
\* one signal: what two concurrent analyses can do is bounded, however many
\* signals one of them inserts while the other waits to insert its own.
OvershootBounded == OpenRiskAmount <= Cap + MaxRisk

\* The sum of the risk open at the same time stays within the cap (config.py:63,
\* rules/anewme_rules.txt:153).
CapHeld == OpenRiskAmount <= Cap
=============================================================================
