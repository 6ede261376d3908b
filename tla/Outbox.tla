------------------------------- MODULE Outbox -------------------------------
(***************************************************************************)
(* The durable table `outbox` and the delivery loop that empties it into   *)
(* Telegram.  What is written about a watch comes from the watch's life,   *)
(* of which WatchPromise says what can happen: a candle report while it is *)
(* active, one message about its end, and the final analysis, which is cut *)
(* into parts.  Every message goes to every recipient, one row per part.   *)
(*                                                                         *)
(* A row is written in the transaction of the event it reports, so the     *)
(* event and the row are one action.  Sending is two: Telegram takes the   *)
(* message, then the bot learns of it, and the process can die between.    *)
(* Telegram's answers are the environment.  Operators whose comment begins *)
(* with "Slip" are as in WatchRuntime.                                     *)
(***************************************************************************)
EXTENDS Naturals, Sequences, FiniteSets

CONSTANTS
  Watches, SymbolOf,
  Recipients,   \* the configured chats, in their order
  Parts,        \* rows the text of a final analysis takes
  Limit,        \* rows one tick takes (30 in the code)
  Deaf,         \* chats no message ever gets through to
  MaxChecks,    \* bound: candle reports per watch
  MaxFaults,    \* bound: failures of the network with other chats
  MaxCrashes    \* bound: times the process dies

Chats == {Recipients[i] : i \in DOMAIN Recipients}

ASSUME OutboxAssumption ==
  /\ Recipients \in Seq(Chats)
  /\ Parts \in Nat \ {0} /\ Limit \in Nat \ {0}
  /\ Deaf \subseteq Chats
  /\ MaxChecks \in Nat /\ MaxFaults \in Nat /\ MaxCrashes \in Nat

VARIABLES
  life, reply,  \* the watches, as in WatchPromise
  overdue,      \* watches whose expiration has passed
  checks,       \* checks[w]: candle reports queued
  outbox,       \* the table, in rowid order
  inbox,        \* inbox[c]: rowids of the messages chat c has seen
  step,         \* where the delivery loop is
  batch,        \* rowids the tick has still to treat, in their order
  faults,       \* transient failures so far
  losses,       \* of these, messages that had arrived
  crashes

watches == <<life, reply, overdue, checks>>
delivery == <<step, batch>>
bounds == <<faults, losses, crashes>>
vars == <<watches, outbox, inbox, delivery, bounds>>

Lifecycle == INSTANCE WatchPromise

Init ==
  /\ Lifecycle!Init
  /\ overdue = {}
  /\ checks = [w \in Watches |-> 0]
  /\ outbox = <<>>
  /\ inbox = [c \in Chats |-> <<>>]
  /\ step = "idle" /\ batch = {}
  /\ faults = 0 /\ losses = 0 /\ crashes = 0

Rowids == DOMAIN outbox
Pending(i) == outbox[i].status = "pending"
-----------------------------------------------------------------------------
(* Writing. *)

\* The rows of one message: every recipient in turn, every part in turn.
Rows(kind, w, number, parts) ==
  [i \in 1..(Len(Recipients) * parts) |->
     [kind |-> kind, watch |-> w, number |-> number,
      chat |-> Recipients[((i - 1) \div parts) + 1], part |-> ((i - 1) % parts) + 1,
      status |-> "pending", resting |-> FALSE]]

\* queue_message: a key already in the table is ignored.
Queue(kind, w, number, parts) ==
  outbox' = IF \E i \in Rowids : outbox[i].kind = kind /\ outbox[i].watch = w
                                 /\ outbox[i].number = number
            THEN outbox
            ELSE outbox \o Rows(kind, w, number, parts)

Open(w) ==
  /\ Lifecycle!Open(w)
  /\ UNCHANGED <<overdue, checks, outbox, inbox, delivery, bounds>>

Expire(w) ==
  /\ life[w] = "active" /\ w \notin overdue
  /\ overdue' = overdue \cup {w}
  /\ UNCHANGED <<life, reply, checks, outbox, inbox, delivery, bounds>>

\* A candle that decided nothing is reported in the candle's transaction.
Report(w) ==
  /\ life[w] = "active" /\ checks[w] < MaxChecks
  /\ checks' = [checks EXCEPT ![w] = @ + 1]
  /\ Queue("check", w, checks'[w], 1)
  /\ UNCHANGED <<life, reply, overdue, inbox, delivery, bounds>>

\* The monitor ends a watch and says so.
End(w, how) ==
  /\ how = "expired" => w \in overdue
  /\ how = "triggered" => w \notin overdue
  /\ Lifecycle!End(w, how)
  /\ Queue("end", w, 0, 1)
  /\ UNCHANGED <<overdue, checks, inbox, delivery, bounds>>

\* An initial analysis that finds a position closes the watch without a
\* message of its own.
EndSilently(w) ==
  /\ Lifecycle!End(w, "invalidated")
  /\ UNCHANGED <<overdue, checks, outbox, inbox, delivery, bounds>>

Answer(w, r) ==
  /\ Lifecycle!Answer(w, r)
  /\ Queue("result", w, 0, Parts)
  /\ UNCHANGED <<overdue, checks, inbox, delivery, bounds>>
-----------------------------------------------------------------------------
(* Delivering. *)

\* Slip: a chat's rows need not wait for the earlier ones.
AnyDue(i) == Pending(i) /\ ~outbox[i].resting

\* Slip: a row waits for the earlier ones of every chat.
OneQueue(i) ==
  /\ Pending(i) /\ ~outbox[i].resting
  /\ \A j \in 1..(i - 1) : ~Pending(j)

\* A row is due when its chat has no earlier pending one, resting or not.
Due(i) ==
  /\ Pending(i) /\ ~outbox[i].resting
  /\ \A j \in 1..(i - 1) : outbox[j].chat = outbox[i].chat => ~Pending(j)

Fetch ==
  /\ step = "idle"
  /\ \E i \in Rowids : Due(i)
  /\ batch' = {i \in Rowids : Due(i) /\ Cardinality({j \in 1..i : Due(j)}) <= Limit}
  /\ step' = "fetched"
  /\ UNCHANGED <<watches, outbox, inbox, bounds>>

Current == CHOOSE i \in batch : \A j \in batch : i <= j

\* The tick goes on with the next row, or ends.
Advance ==
  /\ batch' = batch \ {Current}
  /\ step' = IF batch' = {} THEN "idle" ELSE "fetched"

Obsolete(i) ==
  /\ outbox[i].kind = "check"
  /\ life[outbox[i].watch] # "active" \/ outbox[i].watch \in overdue

Suppress ==
  /\ step = "fetched" /\ Obsolete(Current)
  /\ outbox' = [outbox EXCEPT ![Current].status = "suppressed"]
  /\ Advance
  /\ UNCHANGED <<watches, inbox, bounds>>

Send ==
  /\ step = "fetched" /\ ~Obsolete(Current)
  /\ step' = "sending"
  /\ UNCHANGED <<watches, outbox, inbox, batch, bounds>>

\* Telegram takes the message.
Arrive ==
  /\ step = "sending" /\ outbox[Current].chat \notin Deaf
  /\ inbox' = [inbox EXCEPT ![outbox[Current].chat] = Append(@, Current)]
  /\ step' = "arrived"
  /\ UNCHANGED <<watches, outbox, batch, bounds>>

\* Slip: the row is settled only if it was the last of the tick.
DeliveredLast ==
  /\ step = "arrived"
  /\ outbox' = IF batch = {Current} THEN [outbox EXCEPT ![Current].status = "sent"] ELSE outbox
  /\ Advance
  /\ UNCHANGED <<watches, inbox, bounds>>

Delivered ==
  /\ step = "arrived"
  /\ outbox' = [outbox EXCEPT ![Current].status = "sent"]
  /\ Advance
  /\ UNCHANGED <<watches, inbox, bounds>>

\* Slip: the row is put at the end of the queue.
Requeue == outbox' = Append([outbox EXCEPT ![Current].status = "failed"], outbox[Current])

\* Slip: any answer from the network settles the row.
GiveUp == outbox' = [outbox EXCEPT ![Current].status = "sent"]

\* delivery_failed, transient: the row keeps its turn and waits.
Postpone == outbox' = [outbox EXCEPT ![Current].resting = TRUE]

\* A transient failure, before the message arrived or after it.
Fail ==
  /\ step \in {"sending", "arrived"}
  /\ Postpone
  /\ Advance
  /\ IF outbox[Current].chat \in Deaf
     THEN UNCHANGED <<faults, losses>>
     ELSE /\ faults < MaxFaults /\ faults' = faults + 1
          /\ losses' = IF step = "arrived" THEN losses + 1 ELSE losses
  /\ UNCHANGED <<watches, inbox, crashes>>

\* Forbidden or BadRequest: the row is never tried again.
Refuse ==
  /\ step = "sending"
  /\ outbox' = [outbox EXCEPT ![Current].status = "failed"]
  /\ Advance
  /\ UNCHANGED <<watches, inbox, bounds>>

\* The time set in next_attempt passes.
Wake(i) ==
  /\ outbox[i].resting
  /\ outbox' = [outbox EXCEPT ![i].resting = FALSE]
  /\ UNCHANGED <<watches, inbox, delivery, bounds>>

Crash ==
  /\ crashes < MaxCrashes
  /\ crashes' = crashes + 1
  /\ step' = "idle" /\ batch' = {}
  /\ UNCHANGED <<watches, outbox, inbox, faults, losses>>
-----------------------------------------------------------------------------
Watching ==
  \E w \in Watches :
    \/ Open(w) \/ Expire(w) \/ Report(w) \/ EndSilently(w)
    \/ \E how \in {"triggered", "invalidated", "expired"} : End(w, how)
    \/ \E r \in {"TRADE", "WATCH", "NO_TRADE"} : Answer(w, r)

Sending == Fetch \/ Suppress \/ Send \/ Arrive \/ Delivered \/ Fail \/ Refuse

Next == Watching \/ Sending \/ (\E i \in Rowids : Wake(i)) \/ Crash

Spec == Init /\ [][Next]_vars

MaxRows == Cardinality(Watches) * Len(Recipients) * (MaxChecks + 1 + Parts)

(* The delivery loop runs every second and every send ends, one way or     *)
(* another; the time every waiting row waits for passes.                   *)
FairSpec ==
  /\ Spec
  /\ WF_vars(Sending)
  /\ \A i \in 1..MaxRows : WF_vars(i \in Rowids /\ Wake(i))
-----------------------------------------------------------------------------
(* Properties. *)

TypeOK ==
  /\ life \in [Watches -> {"none", "active", "triggered", "invalidated", "expired"}]
  /\ reply \in [Watches -> {"none", "TRADE", "WATCH", "NO_TRADE"}]
  /\ overdue \subseteq Watches
  /\ checks \in [Watches -> 0..MaxChecks]
  /\ \A i \in Rowids :
       /\ outbox[i].status \in {"pending", "sent", "failed", "suppressed"}
       /\ outbox[i].resting => Pending(i)
  /\ \A c \in Chats : \A k \in DOMAIN inbox[c] :
       inbox[c][k] \in Rowids /\ outbox[inbox[c][k]].chat = c
  /\ step \in {"idle", "fetched", "sending", "arrived"}
  /\ batch \subseteq Rowids /\ (step = "idle" <=> batch = {})
  \* One row per chat: the set `blocked` of the code has nothing to add.
  /\ \A i, j \in batch : i # j => outbox[i].chat # outbox[j].chat

Seen(c, k) == outbox[inbox[c][k]]

\* A chat reads a watch's story in order: no candle report after its end, no
\* final analysis before it, whatever was retried (RELEASE_FA.md: the order of
\* each recipient's messages is kept).
StoryInOrder ==
  \A c \in Chats : \A k, l \in DOMAIN inbox[c] :
    (k < l /\ Seen(c, k).watch = Seen(c, l).watch) =>
      /\ Seen(c, k).kind \in {"end", "result"} => Seen(c, l).kind # "check"
      /\ Seen(c, k).kind = "result" => Seen(c, l).kind = "result"

\* A row leaves the queue only because its message arrived, Telegram refused
\* it for good, or it is a report nobody needs any more; SENT means arrived,
\* and the end and the result of a watch are never suppressed.
Accounted ==
  \A i \in Rowids :
    /\ outbox[i].status = "sent" => \E k \in DOMAIN inbox[outbox[i].chat] : inbox[outbox[i].chat][k] = i
    /\ outbox[i].status = "suppressed" => Obsolete(i)

\* A chat sees a message twice only if the reply about the first copy was lost
\* or the process died before writing it down (RELEASE_FA.md:50).
DuplicatesExplained ==
  \A c \in Chats :
    Len(inbox[c]) <= Cardinality({inbox[c][k] : k \in DOMAIN inbox[c]}) + losses + crashes

\* The table and the loop implement the promise made to each chat.
Contract == INSTANCE Courier WITH
  posted <- Len(outbox),
  queue <- [c \in Chats |-> {i \in Rowids : Pending(i) /\ outbox[i].chat = c}],
  received <- inbox
ImplementsCourier == Contract!Spec

\* Every message to a chat that can be reached is settled in the end, though
\* another chat fails for ever and the process dies now and then.
Settled ==
  \A i \in 1..MaxRows :
    (i \in Rowids /\ Pending(i) /\ outbox[i].chat \notin Deaf)
      ~> (i \in Rowids /\ ~Pending(i))
=============================================================================
