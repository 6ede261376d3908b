---------------------------- MODULE OutboxProofs ----------------------------
(***************************************************************************)
(* What each chat is sent, for any number of watches, recipients, parts,   *)
(* reports, failures of the network and crashes: the story of a watch in   *)
(* its order, nothing lost without a reason, nothing repeated without one, *)
(* and the promise of Courier.                                             *)
(***************************************************************************)
EXTENDS Outbox, FiniteSetTheorems, WellFoundedInduction, TLAPS

Kinds == {"check", "end", "result"}
Statuses == {"pending", "sent", "failed", "suppressed"}
OutboxRows == [kind : Kinds, watch : Watches, number : Nat, chat : Chats, part : Nat,
               status : Statuses, resting : BOOLEAN]
Lives == {"none", "active", "triggered", "invalidated", "expired"}
Answers == {"none", "TRADE", "WATCH", "NO_TRADE"}

Typed ==
  /\ life \in [Watches -> Lives] /\ reply \in [Watches -> Answers]
  /\ overdue \subseteq Watches /\ checks \in [Watches -> 0..MaxChecks]
  /\ outbox \in Seq(OutboxRows)
  /\ inbox \in [Chats -> Seq(Nat)]
  /\ step \in {"idle", "fetched", "sending", "arrived"} /\ batch \in SUBSET Nat
  /\ faults \in Nat /\ losses \in Nat /\ crashes \in Nat

\* What the table says of a watch the watch has been through.
LifeTold ==
  /\ \A w \in Watches : reply[w] # "none" => life[w] = "triggered"
  /\ \A i \in Rowids :
       LET w == outbox[i].watch
       IN /\ life[w] # "none"
          /\ outbox[i].kind = "end" => life[w] # "active"
          /\ outbox[i].kind = "result" => reply[w] # "none"

\* The rows of a watch are in the order of its story.
TableInOrder ==
  \A i, j \in Rowids : i < j /\ outbox[i].watch = outbox[j].watch =>
    /\ outbox[i].kind \in {"end", "result"} => outbox[j].kind # "check"
    /\ outbox[i].kind = "result" => outbox[j].kind = "result"

\* The earliest row of its chat that is not settled.
HeadOfLine(i) ==
  Pending(i) /\ \A j \in 1..(i - 1) : outbox[j].chat = outbox[i].chat => ~Pending(j)

BatchLeads ==
  /\ batch \subseteq Rowids /\ (step = "idle" <=> batch = {})
  /\ \A i \in batch : HeadOfLine(i)

\* A chat has seen rows of its own, in the order of the table, and nothing
\* before them waits.
InboxInOrder ==
  \A c \in Chats :
    /\ \A k \in DOMAIN inbox[c] :
         /\ inbox[c][k] \in Rowids /\ outbox[inbox[c][k]].chat = c
         /\ \A j \in 1..(inbox[c][k] - 1) : outbox[j].chat = c => ~Pending(j)
    /\ \A k, l \in DOMAIN inbox[c] : k < l => inbox[c][k] <= inbox[c][l]

SeenBy(c) == {inbox[c][k] : k \in DOMAIN inbox[c]}

ArrivedSeen ==
  step = "arrived" =>
    outbox[Current].chat \notin Deaf /\ Current \in SeenBy(outbox[Current].chat)

\* A row the chat has seen and the bot does not know of.
Unaware(c) ==
  \E i \in Rowids : /\ Pending(i) /\ outbox[i].chat = c /\ i \in SeenBy(c)
                    /\ ~(step = "arrived" /\ i = Current)

Repeats ==
  \A c \in Chats :
    /\ IsFiniteSet(SeenBy(c))
    /\ Len(inbox[c]) <= Cardinality(SeenBy(c)) + losses + crashes
    /\ Unaware(c) => Len(inbox[c]) + 1 <= Cardinality(SeenBy(c)) + losses + crashes

IInv ==
  /\ Typed /\ LifeTold /\ TableInOrder /\ BatchLeads /\ InboxInOrder /\ ArrivedSeen
  /\ Accounted /\ Repeats
-----------------------------------------------------------------------------
(* The table. *)

LEMMA Constants ==
  /\ Len(Recipients) \in Nat /\ Recipients \in Seq(Chats)
  /\ \A i \in 1..Len(Recipients) : Recipients[i] \in Chats
  /\ Parts \in Nat /\ Parts > 0 /\ MaxChecks \in Nat
  BY OutboxAssumption

LEMMA Least ==
  ASSUME NEW T \in SUBSET Nat, T # {}
  PROVE  \E x \in T : \A y \in T : x <= y
<1>1. \E x \in T : \A y \in T : ~ (<<y, x>> \in OpToRel(<, Nat))
  BY NatLessThanWellFounded, WFMin
<1>2. ASSUME NEW x \in Nat, NEW y \in Nat, ~ (<<y, x>> \in OpToRel(<, Nat)) PROVE x <= y
  BY <1>2 DEF OpToRel
<1>3. PICK x \in T : \A y \in T : ~ (<<y, x>> \in OpToRel(<, Nat))
  BY <1>1
<1>4. ASSUME NEW y \in T PROVE x <= y
  <2>1. ~ (<<y, x>> \in OpToRel(<, Nat))
    BY <1>3, <1>4, Zenon
  <2>. QED
    BY <2>1, <1>2
<1>. QED
  BY <1>4

LEMMA CurrentLeast ==
  ASSUME batch \in SUBSET Nat, batch # {}
  PROVE  Current \in batch /\ \A j \in batch : Current <= j
  BY Least DEF Current

\* The rows of one message fit the table.
LEMMA RowsType ==
  ASSUME NEW kind \in Kinds, NEW w \in Watches, NEW number \in Nat, NEW parts \in Nat, parts > 0
  PROVE  /\ Rows(kind, w, number, parts) \in Seq(OutboxRows)
         /\ Len(Rows(kind, w, number, parts)) = Len(Recipients) * parts
         /\ \A i \in 1..(Len(Recipients) * parts) :
              LET row == Rows(kind, w, number, parts)[i]
              IN row.kind = kind /\ row.watch = w /\ row.status = "pending" /\ ~row.resting
<1>. DEFINE n == Len(Recipients) * parts
<1>1. n \in Nat
  BY Constants
<1>2. ASSUME NEW i \in 1..n
      PROVE  ((i - 1) \div parts) + 1 \in 1..Len(Recipients) /\ ((i - 1) % parts) + 1 \in Nat
  <2>1. i - 1 \in Nat /\ i - 1 < Len(Recipients) * parts
    BY <1>1
  <2>. HIDE DEF n
  <2>2. (i - 1) \div parts \in Nat /\ (i - 1) \div parts < Len(Recipients) /\ (i - 1) % parts \in Nat
    BY <2>1, Constants
  <2>. QED
    BY <2>2, Constants
<1>3. ASSUME NEW i \in 1..n
      PROVE  [kind |-> kind, watch |-> w, number |-> number,
              chat |-> Recipients[((i - 1) \div parts) + 1], part |-> ((i - 1) % parts) + 1,
              status |-> "pending", resting |-> FALSE] \in OutboxRows
  BY <1>2, Constants DEF OutboxRows, Statuses
<1>. QED
  BY <1>1, <1>3 DEF Rows

\* Queueing leaves the rows there are and adds pending ones of one message.
LEMMA QueueAdds ==
  ASSUME outbox \in Seq(OutboxRows),
         NEW kind \in Kinds, NEW w \in Watches, NEW number \in Nat, NEW parts \in Nat, parts > 0,
         Queue(kind, w, number, parts)
  PROVE  /\ outbox' \in Seq(OutboxRows) /\ Len(outbox') \in Nat
         /\ Len(outbox) \in Nat /\ Len(outbox') >= Len(outbox)
         /\ Rowids = 1..Len(outbox) /\ Rowids' = 1..Len(outbox')
         /\ \A i \in Rowids : outbox'[i] = outbox[i]
         /\ \A i \in Rowids' \ Rowids :
              /\ i > Len(outbox)
              /\ outbox'[i].kind = kind /\ outbox'[i].watch = w
              /\ outbox'[i].status = "pending" /\ ~outbox'[i].resting
<1>1. CASE outbox' = outbox
  BY <1>1 DEF Rowids
<1>2. CASE outbox' = outbox \o Rows(kind, w, number, parts)
  <2>. DEFINE more == Rows(kind, w, number, parts)
  <2>1. /\ more \in Seq(OutboxRows) /\ Len(more) \in Nat
        /\ \A i \in 1..Len(more) : more[i].kind = kind /\ more[i].watch = w
                                    /\ more[i].status = "pending" /\ ~more[i].resting
    BY RowsType
  <2>. HIDE DEF more
  <2>2. /\ outbox' \in Seq(OutboxRows) /\ Len(outbox') = Len(outbox) + Len(more)
        /\ \A i \in 1..Len(outbox) : outbox'[i] = outbox[i]
        /\ \A i \in (Len(outbox) + 1)..Len(outbox') : outbox'[i] = more[i - Len(outbox)]
    BY <1>2, <2>1 DEF more
  <2>3. /\ Len(outbox) \in Nat /\ Len(outbox') \in Nat /\ Len(outbox') >= Len(outbox)
        /\ Rowids = 1..Len(outbox) /\ Rowids' = 1..Len(outbox')
    BY <2>1, <2>2 DEF Rowids
  <2>4. ASSUME NEW i \in Rowids' \ Rowids
        PROVE  i > Len(outbox) /\ i - Len(outbox) \in 1..Len(more) /\ outbox'[i] = more[i - Len(outbox)]
    BY <2>1, <2>2, <2>3, <2>4
  <2>. QED
    BY <2>1, <2>2, <2>3, <2>4
<1>. QED
  BY <1>1, <1>2 DEF Queue

\* Writing a status, or that a row rests, moves no row and changes nothing else.
LEMMA RowWritten ==
  ASSUME outbox \in Seq(OutboxRows), NEW i \in Rowids,
         \/ \E v \in Statuses : outbox' = [outbox EXCEPT ![i].status = v]
         \/ \E v \in BOOLEAN : outbox' = [outbox EXCEPT ![i].resting = v]
  PROVE  /\ outbox' \in Seq(OutboxRows) /\ Len(outbox') = Len(outbox) /\ Rowids' = Rowids
         /\ \A j \in Rowids : /\ outbox'[j].chat = outbox[j].chat
                              /\ outbox'[j].watch = outbox[j].watch
                              /\ outbox'[j].kind = outbox[j].kind
                              /\ j # i => outbox'[j] = outbox[j]
         /\ (\E v \in BOOLEAN : outbox' = [outbox EXCEPT ![i].resting = v])
              => outbox'[i].status = outbox[i].status
<1>1. \A j \in Rowids : outbox[j] \in OutboxRows
  BY DEF Rowids
<1>2. ASSUME NEW v \in Statuses, outbox' = [outbox EXCEPT ![i].status = v]
      PROVE  /\ outbox' \in Seq(OutboxRows) /\ Len(outbox') = Len(outbox) /\ Rowids' = Rowids
             /\ \A j \in Rowids : /\ outbox'[j].chat = outbox[j].chat
                                  /\ outbox'[j].watch = outbox[j].watch
                                  /\ outbox'[j].kind = outbox[j].kind
                                  /\ j # i => outbox'[j] = outbox[j]
  <2>1. [outbox[i] EXCEPT !.status = v] \in OutboxRows
    BY <1>1 DEF OutboxRows
  <2>. QED
    BY <1>1, <1>2, <2>1 DEF Rowids, OutboxRows
<1>3. ASSUME NEW v \in BOOLEAN, outbox' = [outbox EXCEPT ![i].resting = v]
      PROVE  /\ outbox' \in Seq(OutboxRows) /\ Len(outbox') = Len(outbox) /\ Rowids' = Rowids
             /\ \A j \in Rowids : /\ outbox'[j].chat = outbox[j].chat
                                  /\ outbox'[j].watch = outbox[j].watch
                                  /\ outbox'[j].kind = outbox[j].kind
                                  /\ j # i => outbox'[j] = outbox[j]
             /\ outbox'[i].status = outbox[i].status
  <2>1. [outbox[i] EXCEPT !.resting = v] \in OutboxRows
    BY <1>1 DEF OutboxRows
  <2>2. outbox' = [outbox EXCEPT ![i] = [outbox[i] EXCEPT !.resting = v]]
    BY <1>3
  <2>3. outbox' \in Seq(OutboxRows) /\ Len(outbox') = Len(outbox) /\ Rowids' = Rowids
    BY <2>1, <2>2 DEF Rowids
  <2>4. \A j \in Rowids : j # i => outbox'[j] = outbox[j]
    BY <2>2 DEF Rowids
  <2>5. outbox'[i] = [outbox[i] EXCEPT !.resting = v]
    BY <2>2 DEF Rowids
  <2>6. outbox[i] \in OutboxRows
    BY <1>1
  <2>7. /\ outbox'[i].chat = outbox[i].chat /\ outbox'[i].watch = outbox[i].watch
        /\ outbox'[i].kind = outbox[i].kind /\ outbox'[i].status = outbox[i].status
    BY <2>5, <2>6 DEF OutboxRows
  <2>. QED
    BY <2>3, <2>4, <2>7
<1>. QED
  BY <1>2, <1>3
-----------------------------------------------------------------------------
(* Steps of the watches: they add rows at the end of the table. *)

\* The rows there are stay as they are, and new ones wait behind them.
Grown ==
  /\ outbox' \in Seq(OutboxRows) /\ Rowids \subseteq Rowids' /\ Rowids \subseteq Nat
  /\ Rowids' \subseteq Nat
  /\ \A i \in Rowids : outbox'[i] = outbox[i] /\ \A j \in 1..i : j \in Rowids
  /\ \A i \in Rowids' \ Rowids : outbox'[i].status = "pending" /\ \A j \in Rowids : j < i

\* What a message says fits what the watch has been through.
Fits(kind, w) ==
  /\ life'[w] # "none"
  /\ kind = "check" => life[w] = "active"
  /\ kind = "end" => life[w] = "active" /\ life'[w] # "active"
  /\ kind = "result" => reply[w] = "none" /\ reply'[w] # "none"

LEMMA RowidsType ==
  ASSUME Typed
  PROVE  /\ Rowids \subseteq Nat /\ \A i \in Rowids : \A j \in 1..i : j \in Rowids
         /\ \A i \in Rowids : outbox[i] \in OutboxRows /\ outbox[i].watch \in Watches
                               /\ outbox[i].chat \in Chats
<1>1. /\ Rowids \subseteq Nat /\ \A i \in Rowids : \A j \in 1..i : j \in Rowids
      /\ \A i \in Rowids : outbox[i] \in OutboxRows
  BY DEF Typed, Rowids
<1>. QED
  BY <1>1 DEF OutboxRows

LEMMA Before == ASSUME Typed, NEW i \in Rowids PROVE \A j \in 1..(i - 1) : j \in Rowids
  BY RowidsType

\* A watch that goes forward, with or without a message that fits.
LEMMA WatchForward ==
  ASSUME IInv, NEW w \in Watches,
         life' \in [Watches -> Lives], reply' \in [Watches -> Answers],
         \A v \in Watches : life'[v] = life[v] \/ (v = w /\ life[w] \in {"none", "active"}),
         \A v \in Watches : reply'[v] = reply[v] \/ (v = w /\ reply[w] = "none"),
         life[w] = "active" => life'[w] # "none",
         reply'[w] # "none" => life'[w] = "triggered",
         \/ outbox' = outbox
         \/ \E kind \in Kinds : \E number \in Nat : \E parts \in Nat :
              parts > 0 /\ Fits(kind, w) /\ Queue(kind, w, number, parts)
  PROVE  /\ Grown /\ LifeTold' /\ TableInOrder'
         /\ \A i \in Rowids : life[outbox[i].watch] # "active" => life'[outbox[i].watch] # "active"
<1>. USE DEF IInv
<1>1. /\ Rowids \subseteq Nat /\ \A i \in Rowids : \A j \in 1..i : j \in Rowids
      /\ \A i \in Rowids : outbox[i].watch \in Watches
  BY RowidsType
<1>2. CASE outbox' = outbox
  <2>1. Grown
    BY <1>1, <1>2 DEF Grown, Rowids, Typed
  <2>2. LifeTold' /\ TableInOrder'
    BY <1>1, <1>2 DEF LifeTold, TableInOrder, Rowids
  <2>. QED
    BY <1>1, <2>1, <2>2 DEF LifeTold
<1>3. ASSUME NEW kind \in Kinds, NEW number \in Nat, NEW parts \in Nat,
             parts > 0, Fits(kind, w), Queue(kind, w, number, parts)
      PROVE  /\ Grown /\ LifeTold' /\ TableInOrder'
             /\ \A i \in Rowids : life[outbox[i].watch] # "active" => life'[outbox[i].watch] # "active"
  <2>1. /\ outbox' \in Seq(OutboxRows) /\ Len(outbox') \in Nat
        /\ Len(outbox) \in Nat /\ Len(outbox') >= Len(outbox)
        /\ Rowids = 1..Len(outbox) /\ Rowids' = 1..Len(outbox')
        /\ \A i \in Rowids : outbox'[i] = outbox[i]
        /\ \A i \in Rowids' \ Rowids :
              /\ i > Len(outbox)
              /\ outbox'[i].kind = kind /\ outbox'[i].watch = w
              /\ outbox'[i].status = "pending" /\ ~outbox'[i].resting
    BY <1>3, QueueAdds DEF Typed
  <2>2. Grown
    BY <1>1, <2>1 DEF Grown
  <2>3. LifeTold'
    <3>1. ASSUME NEW v \in Watches, reply'[v] # "none" PROVE life'[v] = "triggered"
      BY <3>1 DEF LifeTold
    <3>2. ASSUME NEW i \in Rowids'
          PROVE  /\ life'[outbox'[i].watch] # "none"
                 /\ outbox'[i].kind = "end" => life'[outbox'[i].watch] # "active"
                 /\ outbox'[i].kind = "result" => reply'[outbox'[i].watch] # "none"
      <4>1. CASE i \in Rowids
        BY <1>1, <2>1, <4>1 DEF LifeTold
      <4>2. CASE i \notin Rowids
        BY <1>3, <2>1, <3>2, <4>2 DEF Fits
      <4>. QED
        BY <4>1, <4>2
    <3>. QED
      BY <3>1, <3>2 DEF LifeTold
  <2>4. ASSUME NEW i \in Rowids', NEW j \in Rowids', i < j, outbox'[i].watch = outbox'[j].watch
        PROVE  /\ outbox'[i].kind \in {"end", "result"} => outbox'[j].kind # "check"
               /\ outbox'[i].kind = "result" => outbox'[j].kind = "result"
    <3>1. CASE j \in Rowids
      BY <1>1, <2>1, <2>4, <3>1 DEF TableInOrder
    <3>2. CASE j \notin Rowids /\ i \notin Rowids
      BY <2>1, <2>4, <3>2
    <3>3. CASE j \notin Rowids /\ i \in Rowids
      <4>1. outbox'[j].kind = kind /\ outbox[i].watch = w /\ outbox'[i].kind = outbox[i].kind
        BY <2>1, <2>4, <3>3
      <4>2. outbox[i].kind = "end" => life[w] # "active"
        BY <3>3, <4>1 DEF LifeTold
      <4>3. outbox[i].kind = "result" => reply[w] # "none" /\ life[w] = "triggered"
        BY <3>3, <4>1 DEF LifeTold
      <4>. QED
        BY <1>3, <4>1, <4>2, <4>3 DEF Fits, Kinds
    <3>. QED
      BY <3>1, <3>2, <3>3
  <2>. QED
    BY <1>1, <2>2, <2>3, <2>4 DEF TableInOrder, LifeTold
<1>. QED
  BY <1>2, <1>3

LEMMA WatchingStep ==
  ASSUME IInv, Watching
  PROVE  /\ UNCHANGED <<inbox, step, batch, faults, losses, crashes>> /\ Typed' /\ Grown
         /\ LifeTold' /\ TableInOrder' /\ overdue \subseteq overdue'
         /\ \A i \in Rowids : life[outbox[i].watch] # "active" => life'[outbox[i].watch] # "active"
<1>. DEFINE Goal == /\ UNCHANGED <<inbox, step, batch, faults, losses, crashes>> /\ Typed' /\ Grown
                    /\ LifeTold' /\ TableInOrder' /\ overdue \subseteq overdue'
                    /\ \A i \in Rowids : life[outbox[i].watch] # "active" => life'[outbox[i].watch] # "active"
<1>. USE DEF IInv, delivery, bounds
<1>1. ASSUME NEW w \in Watches, Open(w) PROVE Goal
  <2>1. /\ UNCHANGED <<reply, overdue, checks, outbox, inbox, step, batch, faults, losses, crashes>>
        /\ life[w] = "none" /\ life' = [life EXCEPT ![w] = "active"]
    BY <1>1 DEF Open, Lifecycle!Open
  <2>2. life' \in [Watches -> Lives] /\ reply[w] = "none"
    BY <2>1 DEF Typed, Lives, LifeTold
  <2>3. Grown /\ LifeTold' /\ TableInOrder'
        /\ \A i \in Rowids : life[outbox[i].watch] # "active" => life'[outbox[i].watch] # "active"
    BY <2>1, <2>2, WatchForward DEF Typed
  <2>. QED
    BY <2>1, <2>2, <2>3 DEF Typed
<1>2. ASSUME NEW w \in Watches, Expire(w) PROVE Goal
  <2>1. /\ UNCHANGED <<life, reply, checks, outbox, inbox, step, batch, faults, losses, crashes>>
        /\ overdue' = overdue \cup {w}
    BY <1>2 DEF Expire
  <2>2. Grown /\ LifeTold' /\ TableInOrder'
    BY <2>1, RowidsType DEF Grown, LifeTold, TableInOrder, Rowids, Typed
  <2>. QED
    BY <2>1, <2>2 DEF Typed
<1>3. ASSUME NEW w \in Watches, Report(w) PROVE Goal
  <2>1. /\ UNCHANGED <<life, reply, overdue, inbox, step, batch, faults, losses, crashes>>
        /\ life[w] = "active" /\ checks[w] < MaxChecks
        /\ checks' = [checks EXCEPT ![w] = checks[w] + 1]
        /\ Queue("check", w, checks'[w], 1)
    BY <1>3 DEF Report
  <2>2. checks' \in [Watches -> 0..MaxChecks] /\ checks'[w] \in Nat
    BY <2>1, Constants DEF Typed
  <2>3. Fits("check", w) /\ "check" \in Kinds /\ (reply[w] # "none" => life[w] = "triggered")
    BY <2>1 DEF Fits, Kinds, LifeTold
  <2>5. \E kind \in Kinds : \E number \in Nat : \E parts \in Nat :
          parts > 0 /\ Fits(kind, w) /\ Queue(kind, w, number, parts)
    <3>. DEFINE number == checks'[w]
    <3>1. Queue("check", w, number, 1) /\ number \in Nat
      BY <2>1, <2>2
    <3>. HIDE DEF number
    <3>. QED
      BY <2>3, <3>1
  <2>4. Grown /\ LifeTold' /\ TableInOrder'
        /\ \A i \in Rowids : life[outbox[i].watch] # "active" => life'[outbox[i].watch] # "active"
    BY <2>1, <2>2, <2>3, <2>5, WatchForward DEF Typed
  <2>. QED
    BY <2>1, <2>2, <2>4 DEF Typed, Grown
<1>4. ASSUME NEW w \in Watches, NEW how \in {"triggered", "invalidated", "expired"},
             End(w, how) \/ (EndSilently(w) /\ how = "invalidated")
      PROVE  Goal
  <2>1. /\ UNCHANGED <<reply, overdue, checks, inbox, step, batch, faults, losses, crashes>>
        /\ life[w] = "active" /\ life' = [life EXCEPT ![w] = how]
        /\ Queue("end", w, 0, 1) \/ outbox' = outbox
    BY <1>4 DEF End, EndSilently, Lifecycle!End
  <2>2. life' \in [Watches -> Lives] /\ life'[w] = how /\ reply[w] = "none"
    BY <2>1 DEF Typed, Lives, LifeTold
  <2>3. Fits("end", w) /\ "end" \in Kinds
    BY <2>1, <2>2 DEF Fits, Kinds
  <2>4. Grown /\ LifeTold' /\ TableInOrder'
        /\ \A i \in Rowids : life[outbox[i].watch] # "active" => life'[outbox[i].watch] # "active"
    BY <2>1, <2>2, <2>3, WatchForward DEF Typed
  <2>. QED
    BY <2>1, <2>2, <2>4 DEF Typed, Grown
<1>5. ASSUME NEW w \in Watches, NEW r \in {"TRADE", "WATCH", "NO_TRADE"}, Answer(w, r) PROVE Goal
  <2>1. /\ UNCHANGED <<life, overdue, checks, inbox, step, batch, faults, losses, crashes>>
        /\ life[w] = "triggered" /\ reply[w] = "none" /\ reply' = [reply EXCEPT ![w] = r]
        /\ Queue("result", w, 0, Parts)
    BY <1>5 DEF Answer, Lifecycle!Answer
  <2>2. reply' \in [Watches -> Answers] /\ reply'[w] = r
    BY <2>1 DEF Typed, Answers
  <2>3. Fits("result", w) /\ "result" \in Kinds
    BY <2>1, <2>2 DEF Fits, Kinds
  <2>4. Grown /\ LifeTold' /\ TableInOrder'
        /\ \A i \in Rowids : life[outbox[i].watch] # "active" => life'[outbox[i].watch] # "active"
    BY <2>1, <2>2, <2>3, Constants, WatchForward DEF Typed
  <2>. QED
    BY <2>1, <2>2, <2>4 DEF Typed, Grown
<1>. QED
  BY <1>1, <1>2, <1>3, <1>4, <1>5 DEF Watching

\* What the delivery holds and what the chats have seen does not change with
\* rows that wait behind all others.
LEMMA GrownStep ==
  ASSUME IInv, UNCHANGED <<inbox, step, batch, faults, losses, crashes>>, Typed', Grown,
         LifeTold', TableInOrder', overdue \subseteq overdue',
         \A i \in Rowids : life[outbox[i].watch] # "active" => life'[outbox[i].watch] # "active"
  PROVE  IInv'
<1>. USE DEF IInv, Grown
<1>1. \A i \in Rowids : Pending(i)' <=> Pending(i)
  BY DEF Pending
<1>2. BatchLeads'
  <2>1. ASSUME NEW i \in batch PROVE HeadOfLine(i)'
    <3>1. HeadOfLine(i) /\ i \in Rowids
      BY DEF BatchLeads
    <3>2. \A j \in 1..(i - 1) : j \in Rowids
      BY <3>1
    <3>. QED
      BY <1>1, <3>1, <3>2 DEF HeadOfLine, Pending
  <2>. QED
    BY <2>1 DEF BatchLeads
<1>3. Current' = Current /\ \A c : SeenBy(c)' = SeenBy(c)
  BY DEF Current, SeenBy
<1>4. InboxInOrder'
  <2>1. ASSUME NEW c \in Chats, NEW k \in DOMAIN inbox[c]
        PROVE  /\ inbox[c][k] \in Rowids' /\ outbox'[inbox[c][k]].chat = c
               /\ \A j \in 1..(inbox[c][k] - 1) : outbox'[j].chat = c => ~Pending(j)'
    <3>1. /\ inbox[c][k] \in Rowids /\ outbox[inbox[c][k]].chat = c
          /\ \A j \in 1..(inbox[c][k] - 1) : outbox[j].chat = c => ~Pending(j)
      BY <2>1 DEF InboxInOrder
    <3>2. \A j \in 1..(inbox[c][k] - 1) : j \in Rowids
      BY <3>1, Before
    <3>3. ASSUME NEW j \in 1..(inbox[c][k] - 1), outbox'[j].chat = c PROVE ~Pending(j)'
      BY <1>1, <3>1, <3>2, <3>3
    <3>. QED
      BY <3>1, <3>3
  <2>. QED
    BY <2>1 DEF InboxInOrder
<1>5. ArrivedSeen'
  <2>1. step = "arrived" => Current \in Rowids
    BY CurrentLeast DEF BatchLeads, Typed
  <2>. QED
    BY <1>3, <2>1 DEF ArrivedSeen
<1>6. Accounted'
  BY DEF Accounted, Obsolete
<1>7. \A c \in Chats : Unaware(c)' <=> Unaware(c)
  <2>1. \A c \in Chats : \A i \in SeenBy(c) : i \in Rowids
    BY DEF SeenBy, InboxInOrder
  <2>. QED
    BY <1>1, <1>3, <2>1 DEF Unaware
<1>8. Repeats'
  BY <1>3, <1>7 DEF Repeats
<1>. QED
  BY <1>2, <1>4, <1>5, <1>6, <1>8
-----------------------------------------------------------------------------
(* Steps of the delivery: they write rows and leave the watches alone. *)

\* Rows keep their place and what they say, and none is pending again.
Kept ==
  /\ outbox' \in Seq(OutboxRows) /\ Rowids' = Rowids
  /\ \A j \in Rowids : /\ outbox'[j].chat = outbox[j].chat /\ outbox'[j].watch = outbox[j].watch
                       /\ outbox'[j].kind = outbox[j].kind
                       /\ Pending(j)' => Pending(j)

LEMMA KeptStep ==
  ASSUME IInv, Kept, UNCHANGED watches
  PROVE  /\ LifeTold' /\ TableInOrder' /\ (inbox' = inbox => InboxInOrder')
         /\ \A i \in Rowids : Obsolete(i)' <=> Obsolete(i)
         /\ \A i \in Rowids : HeadOfLine(i) /\ Pending(i)' => HeadOfLine(i)'
<1>. USE DEF IInv, Kept, watches
<1>1. Rowids \subseteq Nat /\ \A i \in Rowids : \A j \in 1..i : j \in Rowids
  BY RowidsType
<1>2. LifeTold' /\ TableInOrder'
  BY DEF LifeTold, TableInOrder
<1>3. ASSUME inbox' = inbox PROVE InboxInOrder'
  <2>1. ASSUME NEW c \in Chats, NEW k \in DOMAIN inbox[c]
        PROVE  /\ inbox[c][k] \in Rowids' /\ outbox'[inbox[c][k]].chat = c
               /\ \A j \in 1..(inbox[c][k] - 1) : outbox'[j].chat = c => ~Pending(j)'
    <3>1. /\ inbox[c][k] \in Rowids /\ outbox[inbox[c][k]].chat = c
          /\ \A j \in 1..(inbox[c][k] - 1) : outbox[j].chat = c => ~Pending(j)
      BY <2>1 DEF InboxInOrder
    <3>2. \A j \in 1..(inbox[c][k] - 1) : j \in Rowids
      BY <3>1, Before
    <3>3. ASSUME NEW j \in 1..(inbox[c][k] - 1), outbox'[j].chat = c PROVE ~Pending(j)'
      BY <3>1, <3>2, <3>3
    <3>. QED
      BY <3>1, <3>3
  <2>. QED
    BY <1>3, <2>1 DEF InboxInOrder
<1>4. \A i \in Rowids : Obsolete(i)' <=> Obsolete(i)
  BY DEF Obsolete
<1>5. ASSUME NEW i \in Rowids, HeadOfLine(i), Pending(i)' PROVE HeadOfLine(i)'
  <2>1. \A j \in 1..(i - 1) : j \in Rowids
    BY <1>1
  <2>. QED
    BY <1>5, <2>1 DEF HeadOfLine
<1>. QED
  BY <1>2, <1>3, <1>4, <1>5

LEMMA RowSettled ==
  ASSUME Typed, NEW i \in Rowids, NEW v \in Statuses,
         outbox' = [outbox EXCEPT ![i].status = v]
  PROVE  outbox'[i].status = v /\ (v # "pending" => Kept) /\ \A j \in Rowids : j # i => outbox'[j] = outbox[j]
<1>1. outbox \in Seq(OutboxRows)
  BY DEF Typed
<1>2. outbox[i] \in OutboxRows
  BY <1>1 DEF Rowids
<1>3. outbox'[i].status = v
  BY <1>2 DEF Rowids, OutboxRows
<1>. QED
  BY <1>1, <1>3, RowWritten DEF Kept, Pending

LEMMA RowRests ==
  ASSUME Typed, NEW i \in Rowids, NEW v \in BOOLEAN,
         outbox' = [outbox EXCEPT ![i].resting = v]
  PROVE  Kept /\ \A j \in Rowids : outbox'[j].status = outbox[j].status
<1>1. outbox \in Seq(OutboxRows)
  BY DEF Typed
<1>. QED
  BY <1>1, RowWritten DEF Kept, Pending

\* The loop goes on when the current row is settled, or waits.
LEMMA MovedOn ==
  ASSUME IInv, Kept, UNCHANGED <<watches, inbox, crashes>>, faults' \in Nat, losses' \in Nat,
         losses' >= losses, step # "idle", Advance,
         \A j \in Rowids : j # Current => outbox'[j].status = outbox[j].status,
         \/ outbox'[Current].status = outbox[Current].status
         \/ outbox'[Current].status = "failed"
         \/ outbox'[Current].status = "suppressed" /\ Obsolete(Current)
         \/ outbox'[Current].status = "sent" /\ step = "arrived",
         outbox'[Current].status = "pending" => step # "arrived" \/ losses' = losses + 1
  PROVE  IInv'
<1>. USE DEF IInv, Advance
<1>1. Current \in batch /\ Current \in Rowids /\ batch \subseteq Rowids
  BY CurrentLeast DEF BatchLeads, Typed
<1>2. Typed'
  BY DEF Typed, Kept, watches
<1>3. LifeTold' /\ TableInOrder' /\ InboxInOrder'
  BY KeptStep
<1>4. /\ \A i \in Rowids : Obsolete(i)' <=> Obsolete(i)
      /\ \A i \in Rowids : HeadOfLine(i) /\ Pending(i)' => HeadOfLine(i)'
  BY KeptStep
<1>5. BatchLeads'
  <2>1. ASSUME NEW i \in batch' PROVE HeadOfLine(i)'
    <3>1. i \in batch /\ i # Current /\ i \in Rowids /\ HeadOfLine(i)
      BY <1>1 DEF BatchLeads
    <3>. QED
      BY <1>4, <3>1 DEF HeadOfLine, Pending
  <2>. QED
    BY <1>1, <2>1 DEF BatchLeads, Kept
<1>6. ArrivedSeen'
  BY DEF ArrivedSeen
<1>7. \A c : SeenBy(c)' = SeenBy(c)
  BY DEF SeenBy
<1>8. Accounted'
  <2>1. ASSUME NEW i \in Rowids, outbox'[i].status = "sent"
        PROVE  \E k \in DOMAIN inbox[outbox[i].chat] : inbox[outbox[i].chat][k] = i
    <3>1. CASE outbox[i].status = "sent"
      BY <3>1 DEF Accounted
    <3>2. CASE i = Current /\ step = "arrived"
      BY <3>2 DEF ArrivedSeen, SeenBy
    <3>. QED
      BY <2>1, <3>1, <3>2
  <2>2. ASSUME NEW i \in Rowids, outbox'[i].status = "suppressed" PROVE Obsolete(i)'
    BY <1>4, <2>2 DEF Accounted
  <2>. QED
    BY <2>1, <2>2 DEF Accounted, Kept
<1>9. Repeats'
  <2>. SUFFICES ASSUME NEW c \in Chats
                PROVE  /\ IsFiniteSet(SeenBy(c)')
                       /\ Len(inbox'[c]) <= Cardinality(SeenBy(c)') + losses' + crashes'
                       /\ Unaware(c)' =>
                            Len(inbox'[c]) + 1 <= Cardinality(SeenBy(c)') + losses' + crashes'
    BY DEF Repeats
  <2>1. /\ IsFiniteSet(SeenBy(c)) /\ Cardinality(SeenBy(c)) \in Nat /\ Len(inbox[c]) \in Nat
        /\ Len(inbox[c]) <= Cardinality(SeenBy(c)) + losses + crashes
        /\ Unaware(c) => Len(inbox[c]) + 1 <= Cardinality(SeenBy(c)) + losses + crashes
        /\ losses \in Nat /\ crashes \in Nat
    BY FS_CardinalityType DEF Repeats, Typed
  <2>2. Unaware(c)' => Unaware(c) \/ losses' = losses + 1
    <3>. SUFFICES ASSUME Unaware(c)' PROVE Unaware(c) \/ losses' = losses + 1
      OBVIOUS
    <3>1. PICK i \in Rowids : Pending(i)' /\ outbox'[i].chat = c /\ i \in SeenBy(c)
      BY <1>7 DEF Unaware, Kept
    <3>2. Pending(i) /\ outbox[i].chat = c
      BY <3>1 DEF Kept
    <3>3. CASE i = Current /\ step = "arrived"
      BY <3>1, <3>3 DEF Pending
    <3>4. CASE ~(i = Current /\ step = "arrived")
      BY <3>1, <3>2, <3>4 DEF Unaware
    <3>. QED
      BY <3>3, <3>4
  <2>4. inbox'[c] = inbox[c] /\ crashes' = crashes /\ SeenBy(c)' = SeenBy(c)
    BY <1>7
  <2>. QED
    <3>1. Cardinality(SeenBy(c)') = Cardinality(SeenBy(c)) /\ IsFiniteSet(SeenBy(c)')
      BY <2>1, <2>4
    <3>2. Len(inbox'[c]) = Len(inbox[c])
      BY <2>4
    <3>3. Len(inbox'[c]) <= Cardinality(SeenBy(c)') + losses' + crashes'
      BY <2>1, <2>4, <3>1, <3>2
    <3>4. ASSUME Unaware(c)' PROVE Len(inbox'[c]) + 1 <= Cardinality(SeenBy(c)') + losses' + crashes'
      BY <2>1, <2>2, <2>4, <3>1, <3>2, <3>4
    <3>. QED
      BY <3>1, <3>3, <3>4
<1>. QED
  BY <1>2, <1>3, <1>5, <1>6, <1>8, <1>9

\* Steps that write nothing: a new tick, the decision to send, a crash.
LEMMA StillStep ==
  ASSUME IInv, Typed', UNCHANGED <<watches, outbox, inbox, faults, losses>>,
         crashes' >= crashes, BatchLeads', step' # "arrived",
         step = "arrived" => crashes' = crashes + 1
  PROVE  IInv'
<1>. USE DEF IInv
<1>1. Kept
  BY DEF Kept, Typed, Rowids, Pending
<1>2. LifeTold' /\ TableInOrder' /\ InboxInOrder' /\ \A i \in Rowids : Obsolete(i)' <=> Obsolete(i)
  BY <1>1, KeptStep
<1>3. ArrivedSeen'
  BY DEF ArrivedSeen
<1>4. Accounted'
  BY <1>2 DEF Accounted, Rowids
<1>5. \A c : SeenBy(c)' = SeenBy(c)
  BY DEF SeenBy
<1>6. Repeats'
  <2>. SUFFICES ASSUME NEW c \in Chats
                PROVE  /\ IsFiniteSet(SeenBy(c)')
                       /\ Len(inbox'[c]) <= Cardinality(SeenBy(c)') + losses' + crashes'
                       /\ Unaware(c)' =>
                            Len(inbox'[c]) + 1 <= Cardinality(SeenBy(c)') + losses' + crashes'
    BY DEF Repeats
  <2>1. /\ IsFiniteSet(SeenBy(c)) /\ Cardinality(SeenBy(c)) \in Nat /\ Len(inbox[c]) \in Nat
        /\ Len(inbox[c]) <= Cardinality(SeenBy(c)) + losses + crashes
        /\ Unaware(c) => Len(inbox[c]) + 1 <= Cardinality(SeenBy(c)) + losses + crashes
        /\ losses \in Nat /\ crashes \in Nat /\ crashes' \in Nat
    BY FS_CardinalityType DEF Repeats, Typed
  <2>2. Unaware(c)' => Unaware(c) \/ crashes' = crashes + 1
    BY <1>5 DEF Unaware, Rowids, Pending
  <2>4. inbox'[c] = inbox[c] /\ losses' = losses /\ SeenBy(c)' = SeenBy(c)
    BY <1>5
  <2>. QED
    <3>1. Cardinality(SeenBy(c)') = Cardinality(SeenBy(c)) /\ IsFiniteSet(SeenBy(c)')
      BY <2>1, <2>4
    <3>2. Len(inbox'[c]) = Len(inbox[c])
      BY <2>4
    <3>3. Len(inbox'[c]) <= Cardinality(SeenBy(c)') + losses' + crashes'
      BY <2>1, <2>4, <3>1, <3>2
    <3>4. ASSUME Unaware(c)' PROVE Len(inbox'[c]) + 1 <= Cardinality(SeenBy(c)') + losses' + crashes'
      BY <2>1, <2>2, <2>4, <3>1, <3>2, <3>4
    <3>. QED
      BY <3>1, <3>3, <3>4
<1>. QED
  BY <1>2, <1>3, <1>4, <1>6

LEMMA ArriveStep == IInv /\ Arrive => IInv'
<1>. SUFFICES ASSUME IInv, Arrive PROVE IInv'
  OBVIOUS
<1>. USE DEF IInv
<1>. PICK chat : chat = outbox[Current].chat
  OBVIOUS
<1>1. /\ UNCHANGED <<watches, outbox, batch, faults, losses, crashes>>
      /\ step = "sending" /\ step' = "arrived" /\ chat \notin Deaf
      /\ inbox' = [inbox EXCEPT ![chat] = Append(inbox[chat], Current)]
  BY DEF Arrive, bounds
<1>2. /\ Current \in batch /\ Current \in Rowids /\ HeadOfLine(Current) /\ Current \in Nat
      /\ chat \in Chats /\ inbox[chat] \in Seq(Nat)
  BY <1>1, CurrentLeast, RowidsType DEF BatchLeads, Typed
<1>3. /\ inbox' \in [Chats -> Seq(Nat)]
      /\ \A c \in Chats : c # chat => inbox'[c] = inbox[c]
      /\ inbox'[chat] = Append(inbox[chat], Current)
  BY <1>1, <1>2 DEF Typed
<1>4. /\ Len(inbox[chat]) \in Nat /\ DOMAIN inbox[chat] = 1..Len(inbox[chat])
      /\ Len(inbox'[chat]) = Len(inbox[chat]) + 1
      /\ DOMAIN inbox'[chat] = 1..(Len(inbox[chat]) + 1)
      /\ \A k \in 1..Len(inbox[chat]) : inbox'[chat][k] = inbox[chat][k]
      /\ inbox'[chat][Len(inbox[chat]) + 1] = Current
  BY <1>2, <1>3
<1>5. Typed'
  BY <1>1, <1>3 DEF Typed, watches
<1>6. Kept
  BY <1>1 DEF Kept, Typed, Rowids, Pending
<1>7. LifeTold' /\ TableInOrder' /\ \A i \in Rowids : Obsolete(i)' <=> Obsolete(i)
  BY <1>1, <1>6, KeptStep
<1>8. Current' = Current /\ Rowids' = Rowids /\ \A i : Pending(i)' <=> Pending(i)
  BY <1>1 DEF Current, Rowids, Pending
<1>9. BatchLeads'
  BY <1>1, <1>8 DEF BatchLeads, HeadOfLine
<1>10. SeenBy(chat)' = SeenBy(chat) \cup {Current} /\ \A c \in Chats : c # chat => SeenBy(c)' = SeenBy(c)
  <2>1. \A c \in Chats : c # chat => SeenBy(c)' = SeenBy(c)
    BY <1>3 DEF SeenBy
  <2>2. \A i : i \in SeenBy(chat)' <=> i \in SeenBy(chat) \/ i = Current
    <3>1. ASSUME NEW k \in 1..(Len(inbox[chat]) + 1)
          PROVE  inbox'[chat][k] \in SeenBy(chat) \cup {Current}
      <4>1. CASE k \in 1..Len(inbox[chat])
        BY <1>4, <4>1 DEF SeenBy
      <4>2. CASE k = Len(inbox[chat]) + 1
        BY <1>4, <4>2
      <4>. QED
        BY <1>4, <3>1, <4>1, <4>2
    <3>2. ASSUME NEW k \in 1..Len(inbox[chat])
          PROVE  k \in DOMAIN inbox'[chat] /\ inbox'[chat][k] = inbox[chat][k]
      BY <1>4, <3>2
    <3>3. Len(inbox[chat]) + 1 \in DOMAIN inbox'[chat]
      BY <1>4
    <3>4. SeenBy(chat)' \subseteq SeenBy(chat) \cup {Current}
      BY <1>4, <3>1 DEF SeenBy
    <3>5. SeenBy(chat) \cup {Current} \subseteq SeenBy(chat)'
      BY <1>4, <3>2, <3>3 DEF SeenBy
    <3>. QED
      BY <3>4, <3>5
  <2>. QED
    BY <2>1, <2>2
<1>11. \A k \in DOMAIN inbox[chat] : inbox[chat][k] <= Current
  <2>1. ASSUME NEW k \in DOMAIN inbox[chat], inbox[chat][k] > Current PROVE FALSE
    <3>1. inbox[chat][k] \in Nat /\ \A j \in 1..(inbox[chat][k] - 1) : outbox[j].chat = chat => ~Pending(j)
      BY <1>2, RowidsType DEF InboxInOrder
    <3>2. Current \in 1..(inbox[chat][k] - 1)
      BY <1>2, <2>1, <3>1 DEF Rowids, Typed
    <3>. QED
      BY <1>2, <3>1, <3>2 DEF HeadOfLine
  <2>2. \A k \in DOMAIN inbox[chat] : inbox[chat][k] \in Nat
    BY <1>2
  <2>. QED
    BY <1>2, <2>1, <2>2
<1>12. InboxInOrder'
  <2>1. ASSUME NEW c \in Chats, c # chat
        PROVE  /\ \A k \in DOMAIN inbox'[c] :
                    /\ inbox'[c][k] \in Rowids /\ outbox[inbox'[c][k]].chat = c
                    /\ \A j \in 1..(inbox'[c][k] - 1) : outbox[j].chat = c => ~Pending(j)
               /\ \A k, l \in DOMAIN inbox'[c] : k < l => inbox'[c][k] <= inbox'[c][l]
    BY <1>3, <2>1 DEF InboxInOrder
  <2>2. ASSUME NEW k \in DOMAIN inbox'[chat]
        PROVE  /\ inbox'[chat][k] \in Rowids /\ outbox[inbox'[chat][k]].chat = chat
               /\ \A j \in 1..(inbox'[chat][k] - 1) : outbox[j].chat = chat => ~Pending(j)
    <3>1. CASE k \in 1..Len(inbox[chat])
      <4>1. k \in DOMAIN inbox[chat] /\ inbox'[chat][k] = inbox[chat][k]
        BY <1>4, <3>1
      <4>. QED
        BY <1>2, <4>1 DEF InboxInOrder
    <3>2. CASE k = Len(inbox[chat]) + 1
      BY <1>2, <1>4, <3>2 DEF HeadOfLine
    <3>3. k \in 1..Len(inbox[chat]) \/ k = Len(inbox[chat]) + 1
      BY <1>4, <2>2
    <3>. QED
      BY <3>1, <3>2, <3>3
  <2>3. ASSUME NEW k \in DOMAIN inbox'[chat], NEW l \in DOMAIN inbox'[chat], k < l
        PROVE  inbox'[chat][k] <= inbox'[chat][l]
    <3>1. k \in 1..Len(inbox[chat])
      BY <1>4, <2>3
    <3>2. CASE l \in 1..Len(inbox[chat])
      BY <1>2, <1>4, <2>3, <3>1, <3>2 DEF InboxInOrder
    <3>3. CASE l = Len(inbox[chat]) + 1
      BY <1>4, <1>11, <3>1, <3>3
    <3>. QED
      BY <1>4, <2>3, <3>2, <3>3
  <2>. QED
    BY <1>1, <1>8, <2>1, <2>2, <2>3 DEF InboxInOrder
<1>13. ArrivedSeen'
  BY <1>1, <1>8, <1>10 DEF ArrivedSeen
<1>14. Accounted'
  <2>1. ASSUME NEW i \in Rowids, outbox[i].status = "sent"
        PROVE  \E k \in DOMAIN inbox'[outbox[i].chat] : inbox'[outbox[i].chat][k] = i
    <3>1. PICK c \in Chats : c = outbox[i].chat /\ i \in SeenBy(c)
      BY <2>1, RowidsType DEF Accounted, SeenBy
    <3>2. i \in SeenBy(c)'
      BY <1>10, <3>1
    <3>. QED
      BY <3>1, <3>2 DEF SeenBy
  <2>. QED
    BY <1>1, <1>7, <1>8, <2>1 DEF Accounted
<1>15. Repeats'
  <2>1. ASSUME NEW c \in Chats
        PROVE  /\ IsFiniteSet(SeenBy(c)) /\ Cardinality(SeenBy(c)) \in Nat /\ Len(inbox[c]) \in Nat
               /\ Len(inbox[c]) <= Cardinality(SeenBy(c)) + losses + crashes
               /\ Unaware(c) => Len(inbox[c]) + 1 <= Cardinality(SeenBy(c)) + losses + crashes
               /\ losses \in Nat /\ crashes \in Nat
    BY FS_CardinalityType DEF Repeats, Typed
  <2>2. ASSUME NEW c \in Chats, c # chat
        PROVE  /\ IsFiniteSet(SeenBy(c)')
               /\ Len(inbox'[c]) <= Cardinality(SeenBy(c)') + losses' + crashes'
               /\ Unaware(c)' =>
                    Len(inbox'[c]) + 1 <= Cardinality(SeenBy(c)') + losses' + crashes'
    <3>1. SeenBy(c)' = SeenBy(c) /\ inbox'[c] = inbox[c]
      BY <1>3, <1>10, <2>2
    <3>2. Unaware(c)' => Unaware(c)
      BY <1>1, <1>8, <3>1 DEF Unaware
    <3>. QED
      BY <1>1, <2>1, <3>1, <3>2
  <2>3. /\ IsFiniteSet(SeenBy(chat)')
        /\ Len(inbox'[chat]) <= Cardinality(SeenBy(chat)') + losses' + crashes'
        /\ ~Unaware(chat)'
    <3>1. ~Unaware(chat)'
      <4>. SUFFICES ASSUME NEW i \in Rowids, Pending(i), outbox[i].chat = chat,
                           i \in SeenBy(chat)', i # Current
                    PROVE  FALSE
        BY <1>1, <1>8 DEF Unaware
      <4>1. i \in SeenBy(chat) /\ i <= Current /\ i \in Nat
        BY <1>10, <1>11, RowidsType DEF SeenBy
      <4>2. i \in 1..(Current - 1)
        BY <1>2, <4>1 DEF Rowids, Typed
      <4>. QED
        BY <1>2, <4>2 DEF HeadOfLine
    <3>2. CASE Current \in SeenBy(chat)
      <4>1. Unaware(chat)
        BY <1>1, <1>2, <3>2 DEF Unaware, HeadOfLine
      <4>2. SeenBy(chat)' = SeenBy(chat)
        BY <1>10, <3>2
      <4>. QED
        BY <1>1, <1>2, <1>4, <2>1, <3>1, <4>1, <4>2
    <3>3. CASE Current \notin SeenBy(chat)
      <4>1. /\ IsFiniteSet(SeenBy(chat) \cup {Current})
            /\ Cardinality(SeenBy(chat) \cup {Current}) = Cardinality(SeenBy(chat)) + 1
        BY <1>2, <2>1, <3>3, FS_AddElement
      <4>2. Len(inbox[chat]) <= Cardinality(SeenBy(chat)) + losses + crashes
        BY <1>2, <2>1
      <4>. QED
        BY <1>1, <1>2, <1>4, <1>10, <2>1, <3>1, <4>1, <4>2
    <3>. QED
      BY <3>2, <3>3
  <2>. QED
    BY <2>2, <2>3 DEF Repeats
<1>. QED
  BY <1>5, <1>7, <1>9, <1>12, <1>13, <1>14, <1>15

\* A row whose wait is over.
LEMMA WakeStep == ASSUME IInv, NEW i \in Rowids, Wake(i) PROVE IInv'
<1>. USE DEF IInv
<1>1. /\ UNCHANGED <<watches, inbox, step, batch, faults, losses, crashes>>
      /\ outbox' = [outbox EXCEPT ![i].resting = FALSE]
  BY DEF Wake, delivery, bounds
<1>2. Kept /\ \A j \in Rowids : outbox'[j].status = outbox[j].status
  BY <1>1, RowRests
<1>3. /\ LifeTold' /\ TableInOrder' /\ InboxInOrder'
      /\ \A j \in Rowids : Obsolete(j)' <=> Obsolete(j)
      /\ \A j \in Rowids : HeadOfLine(j) /\ Pending(j)' => HeadOfLine(j)'
  BY <1>1, <1>2, KeptStep
<1>4. Typed'
  BY <1>1, <1>2 DEF Typed, Kept, watches
<1>5. BatchLeads'
  BY <1>1, <1>2, <1>3 DEF BatchLeads, HeadOfLine, Pending, Kept
<1>6. Current' = Current /\ \A c : SeenBy(c)' = SeenBy(c)
  BY <1>1 DEF Current, SeenBy
<1>7. ArrivedSeen'
  <2>1. step = "arrived" => Current \in Rowids
    BY CurrentLeast DEF BatchLeads, Typed
  <2>2. step = "arrived" => outbox'[Current].chat = outbox[Current].chat
    BY <1>2, <2>1 DEF Kept
  <2>. QED
    BY <1>1, <1>6, <2>2 DEF ArrivedSeen
<1>8. Accounted'
  BY <1>1, <1>2, <1>3 DEF Accounted, Kept
<1>9. \A c : Unaware(c)' => Unaware(c)
  BY <1>1, <1>2, <1>6 DEF Unaware, Kept
<1>10. Repeats'
  BY <1>1, <1>6, <1>9 DEF Repeats
<1>. QED
  BY <1>3, <1>4, <1>5, <1>7, <1>8, <1>10

LEMMA DeliveryStep == IInv /\ (Sending \/ Crash) => IInv'
<1>. USE DEF IInv, delivery, bounds
<1>1. ASSUME IInv, Fetch PROVE IInv'
  <2>1. /\ UNCHANGED <<watches, outbox, inbox, faults, losses, crashes>>
        /\ batch' = {i \in Rowids : Due(i) /\ Cardinality({j \in 1..i : Due(j)}) <= Limit}
        /\ step = "idle" /\ step' = "fetched" /\ \E i \in Rowids : Due(i)
    BY <1>1 DEF Fetch
  <2>2. Rowids \subseteq Nat
    BY <1>1, RowidsType
  <2>3. Typed'
    BY <1>1, <2>1, <2>2 DEF Typed, watches
  <2>4. batch' # {}
    <3>1. {i \in Rowids : Due(i)} \in SUBSET Nat /\ {i \in Rowids : Due(i)} # {}
      BY <2>1, <2>2
    <3>2. PICK i \in Rowids : Due(i) /\ \A j \in Rowids : Due(j) => i <= j
      BY <3>1, Least
    <3>3. {j \in 1..i : Due(j)} = {i}
      <4>1. i \in Nat /\ i >= 1 /\ \A j \in 1..i : j \in Rowids
        BY <1>1, RowidsType DEF Typed, Rowids
      <4>2. ASSUME NEW j \in 1..i, Due(j) PROVE j = i
        <5>1. i <= j
          BY <3>2, <4>1, <4>2
        <5>. QED
          BY <4>1, <5>1
      <4>3. i \in 1..i
        BY <4>1
      <4>. QED
        BY <3>2, <4>2, <4>3
    <3>4. Cardinality({j \in 1..i : Due(j)}) = 1
      BY <3>3, FS_Singleton
    <3>. QED
      BY <2>1, <3>2, <3>4, OutboxAssumption
  <2>5. BatchLeads'
    BY <2>1, <2>4 DEF BatchLeads, HeadOfLine, Due, Rowids, Pending
  <2>6. crashes' >= crashes
    BY <1>1, <2>1 DEF Typed
  <2>. QED
    BY <1>1, <2>1, <2>3, <2>5, <2>6, StillStep
<1>2. ASSUME IInv, Send PROVE IInv'
  <2>1. /\ UNCHANGED <<watches, outbox, inbox, batch, faults, losses, crashes>>
        /\ step = "fetched" /\ step' = "sending"
    BY <1>2 DEF Send
  <2>2. Typed' /\ crashes' >= crashes
    BY <1>2, <2>1 DEF Typed, watches
  <2>3. BatchLeads'
    BY <1>2, <2>1 DEF BatchLeads, HeadOfLine, Rowids, Pending
  <2>. QED
    BY <1>2, <2>1, <2>2, <2>3, StillStep
<1>3. ASSUME IInv, Crash PROVE IInv'
  <2>1. /\ UNCHANGED <<watches, outbox, inbox, faults, losses>>
        /\ step' = "idle" /\ batch' = {} /\ crashes' = crashes + 1
    BY <1>3 DEF Crash
  <2>2. Typed' /\ crashes' >= crashes
    BY <1>3, <2>1 DEF Typed, watches
  <2>3. BatchLeads'
    BY <2>1 DEF BatchLeads
  <2>. QED
    BY <1>3, <2>1, <2>2, <2>3, StillStep
<1>4. ASSUME IInv, Suppress \/ Delivered \/ Refuse PROVE IInv'
  <2>1. Current \in Rowids /\ step # "idle" /\ UNCHANGED <<watches, inbox, faults, losses, crashes>> /\ Advance
    BY <1>4, CurrentLeast DEF BatchLeads, Typed, Suppress, Delivered, Refuse
  <2>2. PICK v \in {"sent", "failed", "suppressed"} :
          /\ outbox' = [outbox EXCEPT ![Current].status = v]
          /\ v = "suppressed" => Obsolete(Current)
          /\ v = "sent" => step = "arrived"
    BY <1>4 DEF Suppress, Delivered, Refuse
  <2>3. outbox'[Current].status = v /\ Kept /\ \A j \in Rowids : j # Current => outbox'[j] = outbox[j]
    BY <1>4, <2>1, <2>2, RowSettled DEF Statuses
  <2>4. faults' \in Nat /\ losses' \in Nat /\ losses' >= losses
    BY <1>4, <2>1 DEF Typed
  <2>. QED
    BY <1>4, <2>1, <2>2, <2>3, <2>4, MovedOn
<1>5. ASSUME IInv, Fail PROVE IInv'
  <2>1. /\ Current \in Rowids /\ step # "idle" /\ UNCHANGED <<watches, inbox, crashes>> /\ Advance
        /\ outbox' = [outbox EXCEPT ![Current].resting = TRUE]
    BY <1>5, CurrentLeast DEF BatchLeads, Typed, Fail, Postpone
  <2>2. Kept /\ \A j \in Rowids : outbox'[j].status = outbox[j].status
    BY <1>5, <2>1, RowRests
  <2>3. /\ faults' \in Nat /\ losses' \in Nat /\ losses' >= losses
        /\ step # "arrived" \/ losses' = losses + 1
    BY <1>5 DEF Fail, Typed, ArrivedSeen
  <2>. QED
    BY <1>5, <2>1, <2>2, <2>3, MovedOn
<1>. QED
  BY <1>1, <1>2, <1>3, <1>4, <1>5, ArriveStep DEF Sending
-----------------------------------------------------------------------------
LEMMA InitIInv == Init => IInv
<1>. SUFFICES ASSUME Init PROVE IInv
  OBVIOUS
<1>. USE DEF Init, Rowids
<1>1. life = [w \in Watches |-> "none"] /\ reply = [w \in Watches |-> "none"]
  BY DEF Lifecycle!Init
<1>2. Typed
  BY <1>1, Constants DEF Typed, Lives, Answers
<1>3. LifeTold /\ TableInOrder /\ BatchLeads /\ InboxInOrder /\ ArrivedSeen /\ Accounted
  BY <1>1 DEF LifeTold, TableInOrder, BatchLeads, InboxInOrder, ArrivedSeen, Accounted
<1>4. Repeats
  <2>1. ASSUME NEW c \in Chats PROVE SeenBy(c) = {} /\ Len(inbox[c]) = 0 /\ ~Unaware(c)
    BY DEF SeenBy, Unaware
  <2>2. IsFiniteSet({}) /\ Cardinality({}) = 0
    BY FS_EmptySet
  <2>3. losses = 0 /\ crashes = 0
    OBVIOUS
  <2>4. ASSUME NEW c \in Chats
        PROVE  /\ IsFiniteSet(SeenBy(c)) /\ ~Unaware(c)
               /\ Len(inbox[c]) <= Cardinality(SeenBy(c)) + losses + crashes
    <3>1. SeenBy(c) = {} /\ Len(inbox[c]) = 0 /\ ~Unaware(c)
      BY <2>1
    <3>2. IsFiniteSet(SeenBy(c)) /\ Cardinality(SeenBy(c)) = 0
      BY <2>2, <3>1, Zenon
    <3>3. Len(inbox[c]) <= Cardinality(SeenBy(c)) + losses + crashes
      <4>. HIDE DEF Init
      <4>. QED
        BY <2>3, <3>1, <3>2
    <3>. QED
      BY <3>1, <3>2, <3>3
  <2>. QED
    BY <2>4 DEF Repeats
<1>. QED
  BY <1>2, <1>3, <1>4 DEF IInv

LEMMA StutterIInv == IInv /\ UNCHANGED vars => IInv'
<1>. SUFFICES ASSUME IInv, UNCHANGED vars PROVE IInv'
  OBVIOUS
<1>. USE DEF IInv, vars, watches, delivery, bounds
<1>1. /\ Typed' /\ LifeTold' /\ TableInOrder'
      /\ Current' = Current /\ \A c : SeenBy(c)' = SeenBy(c)
  BY DEF Typed, LifeTold, TableInOrder, Rowids, Current, SeenBy
<1>2. BatchLeads' /\ InboxInOrder' /\ Accounted'
  BY DEF BatchLeads, HeadOfLine, InboxInOrder, Accounted, Obsolete, Pending, Rowids
<1>3. ArrivedSeen' /\ \A c : Unaware(c)' => Unaware(c)
  BY <1>1 DEF ArrivedSeen, Unaware, Pending, Rowids
<1>4. Repeats'
  BY <1>1, <1>3 DEF Repeats
<1>. QED
  BY <1>1, <1>2, <1>3, <1>4

LEMMA NextIInv == IInv /\ [Next]_vars => IInv'
  BY WatchingStep, GrownStep, DeliveryStep, WakeStep, StutterIInv DEF Next

THEOREM Inductive == Spec => []IInv
  BY InitIInv, NextIInv, PTL DEF Spec

\* A chat reads the story of a watch in its order (the correlated condition
\* of pending_messages, and rows written in the transaction of their event).
THEOREM StoryCorrect == Spec => []StoryInOrder
<1>1. IInv => StoryInOrder
  <2>. SUFFICES ASSUME IInv, NEW c \in Chats, NEW k \in DOMAIN inbox[c], NEW l \in DOMAIN inbox[c],
                       k < l, Seen(c, k).watch = Seen(c, l).watch
                PROVE  /\ Seen(c, k).kind \in {"end", "result"} => Seen(c, l).kind # "check"
                       /\ Seen(c, k).kind = "result" => Seen(c, l).kind = "result"
    BY DEF StoryInOrder
  <2>1. inbox[c][k] \in Rowids /\ inbox[c][l] \in Rowids /\ inbox[c][k] <= inbox[c][l]
    BY DEF IInv, InboxInOrder
  <2>2. CASE inbox[c][k] = inbox[c][l]
    BY <2>2 DEF Seen
  <2>3. CASE inbox[c][k] < inbox[c][l]
    BY <2>1, <2>3 DEF Seen, IInv, TableInOrder
  <2>4. inbox[c][k] \in Nat /\ inbox[c][l] \in Nat
    BY <2>1, RowidsType DEF IInv
  <2>. QED
    BY <2>1, <2>2, <2>3, <2>4
<1>. QED
  BY <1>1, Inductive, PTL

\* No row leaves the queue without a reason (delivered, delivery_failed and
\* the suppression in tick).
THEOREM AccountedCorrect == Spec => []Accounted
<1>1. IInv => Accounted
  BY DEF IInv
<1>. QED
  BY <1>1, Inductive, PTL

\* A second copy is seen only after a lost reply or a crash.
THEOREM DuplicatesCorrect == Spec => []DuplicatesExplained
<1>1. IInv => DuplicatesExplained
  BY DEF IInv, Repeats, SeenBy, DuplicatesExplained
<1>. QED
  BY <1>1, Inductive, PTL
-----------------------------------------------------------------------------
(* The table and the loop implement Courier. *)

Waiting(c) == {i \in Rowids : Pending(i) /\ outbox[i].chat = c}
Queues == [c \in Chats |-> Waiting(c)]
Abstract == <<Len(outbox), Queues, inbox>>

\* Rows added behind all others are a posting.
LEMMA PostStep ==
  ASSUME IInv, Grown, Typed, inbox' = inbox, Typed'
  PROVE  Contract!Next \/ UNCHANGED Abstract
<1>1. /\ Len(outbox) \in Nat /\ Len(outbox') \in Nat /\ Rowids = 1..Len(outbox)
      /\ Rowids' = 1..Len(outbox') /\ Len(outbox') >= Len(outbox)
  BY DEF Typed, Rowids, Grown
<1>2. \A c \in Chats : /\ Waiting(c) \subseteq Waiting(c)'
                       /\ \A m \in Waiting(c)' \ Waiting(c) : m \in (Len(outbox) + 1)..Len(outbox')
  BY <1>1 DEF Waiting, Grown, Pending
<1>3. CASE Len(outbox') = Len(outbox)
  <2>1. \A c \in Chats : Waiting(c)' = Waiting(c)
    BY <1>1, <1>2, <1>3
  <2>. QED
    BY <1>3, <2>1 DEF Abstract, Queues
<1>4. CASE Len(outbox') > Len(outbox)
  <2>1. Contract!Post
    BY <1>1, <1>2, <1>4 DEF Contract!Post, Waiting
  <2>. QED
    BY <2>1 DEF Contract!Next
<1>. QED
  BY <1>1, <1>3, <1>4

\* The head of the line is the oldest message of its chat.
LEMMA HeadIsOldest ==
  ASSUME IInv, NEW i \in Rowids, HeadOfLine(i), NEW c, c = outbox[i].chat
  PROVE  /\ c \in Chats /\ i \in Queues[c] /\ Contract!Oldest(c) = i
<1>1. i \in Nat /\ c \in Chats /\ i \in Waiting(c) /\ Waiting(c) \subseteq Nat
  BY RowidsType DEF HeadOfLine, Waiting, IInv
<1>2. ASSUME NEW j \in Waiting(c) PROVE i <= j
  <2>1. j \in Nat /\ j \in Rowids /\ Pending(j) /\ outbox[j].chat = c
    BY <1>1 DEF Waiting
  <2>2. ~(j \in 1..(i - 1))
    BY <2>1 DEF HeadOfLine
  <2>3. j >= 1
    BY <2>1 DEF Rowids, IInv, Typed
  <2>. QED
    BY <1>1, <2>1, <2>2, <2>3
<1>3. \A m \in Waiting(c) : (\A n \in Waiting(c) : m <= n) => m = i
  BY <1>1, <1>2
<1>4. (CHOOSE m \in Waiting(c) : \A n \in Waiting(c) : m <= n) = i
  BY <1>1, <1>2, <1>3
<1>. QED
  BY <1>1, <1>4 DEF Contract!Oldest, Queues, Waiting

LEMMA KeptLength == ASSUME Typed, Kept PROVE Len(outbox') = Len(outbox)
<1>1. /\ outbox \in Seq(OutboxRows) /\ outbox' \in Seq(OutboxRows)
      /\ DOMAIN outbox' = DOMAIN outbox
  BY DEF Typed, Kept, Rowids
<1>2. /\ Len(outbox) \in Nat /\ Len(outbox') \in Nat
      /\ DOMAIN outbox = 1..Len(outbox) /\ DOMAIN outbox' = 1..Len(outbox')
  BY <1>1
<1>3. 1..Len(outbox') = 1..Len(outbox)
  BY <1>1, <1>2
<1>4. \A m, n \in Nat : 1..m = 1..n => m = n
  <2>1. ASSUME NEW m \in Nat, NEW n \in Nat, 1..m = 1..n, m < n PROVE FALSE
    <3>1. n \in 1..n /\ n \notin 1..m
      BY <2>1
    <3>. QED
      BY <2>1, <3>1
  <2>2. ASSUME NEW m \in Nat, NEW n \in Nat, 1..m = 1..n PROVE m = n
    <3>1. ~(m < n) /\ ~(n < m)
      BY <2>1, <2>2
    <3>. QED
      BY <3>1
  <2>. QED
    BY <2>2
<1>. QED
  BY <1>2, <1>3, <1>4

\* A row that gets its last status is settled in its turn.
LEMMA SettleStep ==
  ASSUME IInv, Suppress \/ Delivered \/ Refuse
  PROVE  Contract!Next
<1>. USE DEF IInv
<1>1. Current \in Rowids /\ HeadOfLine(Current) /\ inbox' = inbox
  BY CurrentLeast DEF BatchLeads, Typed, Suppress, Delivered, Refuse
<1>2. PICK v \in {"sent", "failed", "suppressed"} : outbox' = [outbox EXCEPT ![Current].status = v]
  BY DEF Suppress, Delivered, Refuse
<1>3. PICK i \in Rowids : i = Current
  BY <1>1
<1>4. /\ outbox'[i].status = v /\ Kept /\ Len(outbox') = Len(outbox)
      /\ \A j \in Rowids : j # i => outbox'[j] = outbox[j]
  BY <1>1, <1>2, <1>3, RowSettled, KeptLength DEF Statuses
<1>5. PICK chat : chat = outbox[i].chat
  OBVIOUS
<1>6. chat \in Chats /\ i \in Queues[chat] /\ Contract!Oldest(chat) = i
  BY <1>1, <1>3, <1>5, HeadIsOldest
<1>7. ASSUME NEW c \in Chats
      PROVE  Waiting(c)' = IF c = chat THEN Waiting(c) \ {i} ELSE Waiting(c)
  <2>1. ASSUME NEW j \in Rowids
        PROVE  (Pending(j)' /\ outbox'[j].chat = c) <=> (Pending(j) /\ outbox[j].chat = c /\ j # i)
    BY <1>4 DEF Pending, Kept
  <2>2. Waiting(c)' = {j \in Rowids : Pending(j) /\ outbox[j].chat = c /\ j # i}
    BY <1>4, <2>1 DEF Waiting, Kept
  <2>3. CASE c = chat
    BY <2>2, <2>3 DEF Waiting
  <2>4. CASE c # chat
    BY <1>5, <2>2, <2>4 DEF Waiting
  <2>. QED
    BY <2>3, <2>4
<1>8. Queues' = [Queues EXCEPT ![chat] = @ \ {i}]
  <2>1. \A c \in Chats : Queues'[c] = IF c = chat THEN Waiting(c) \ {i} ELSE Waiting(c)
    BY <1>7 DEF Queues
  <2>. QED
    BY <1>6, <2>1 DEF Queues
<1>9. Contract!Settle(chat)
  BY <1>1, <1>4, <1>6, <1>8 DEF Contract!Settle, Queues, Waiting
<1>. QED
  BY <1>6, <1>9 DEF Contract!Next

\* A message that arrives is the oldest its chat waits for.
LEMMA HandStep == ASSUME IInv, Arrive PROVE Contract!Next
<1>. USE DEF IInv
<1>1. Current \in Rowids /\ HeadOfLine(Current)
  BY CurrentLeast DEF BatchLeads, Typed, Arrive
<1>2. PICK i \in Rowids : i = Current
  BY <1>1
<1>3. PICK chat : chat = outbox[i].chat
  OBVIOUS
<1>4. outbox' = outbox /\ inbox' = [inbox EXCEPT ![chat] = Append(@, i)]
  BY <1>2, <1>3 DEF Arrive
<1>5. chat \in Chats /\ i \in Queues[chat] /\ Contract!Oldest(chat) = i
  BY <1>1, <1>2, <1>3, HeadIsOldest
<1>6. Queues' = Queues
  BY <1>4 DEF Queues, Waiting, Pending, Rowids
<1>7. Contract!Hand(chat)
  BY <1>4, <1>5, <1>6 DEF Contract!Hand, Queues, Waiting
<1>. QED
  BY <1>5, <1>7 DEF Contract!Next

\* A row that rests, or wakes, keeps its place.
LEMMA RestStep ==
  ASSUME IInv, NEW i \in Rowids, NEW v \in BOOLEAN,
         outbox' = [outbox EXCEPT ![i].resting = v], inbox' = inbox
  PROVE  UNCHANGED Abstract
<1>1. Kept /\ Len(outbox') = Len(outbox) /\ \A j \in Rowids : outbox'[j].status = outbox[j].status
  BY RowRests, KeptLength DEF IInv
<1>2. \A c \in Chats : Waiting(c)' = Waiting(c)
  BY <1>1 DEF Waiting, Pending, Kept
<1>. QED
  BY <1>1, <1>2 DEF Abstract, Queues

LEMMA CourierStep == ASSUME IInv, [Next]_vars PROVE Contract!Next \/ UNCHANGED Abstract
<1>1. CASE Watching
  <2>1. inbox' = inbox /\ Typed' /\ Grown /\ Typed
    BY <1>1, WatchingStep DEF IInv
  <2>. QED
    BY <2>1, PostStep
<1>2. CASE Suppress \/ Delivered \/ Refuse
  BY <1>2, SettleStep
<1>3. CASE Arrive
  BY <1>3, HandStep
<1>4. CASE Fetch \/ Send \/ Crash \/ UNCHANGED vars
  <2>1. outbox' = outbox /\ inbox' = inbox
    BY <1>4 DEF Fetch, Send, Crash, vars
  <2>. QED
    BY <2>1 DEF Abstract, Queues, Waiting, Pending, Rowids
<1>5. CASE Fail
  <2>1. Current \in Rowids
    BY <1>5, CurrentLeast DEF BatchLeads, Typed, Fail, IInv
  <2>. QED
    BY <1>5, <2>1, RestStep DEF Fail, Postpone
<1>6. ASSUME NEW i \in Rowids, Wake(i) PROVE UNCHANGED Abstract
  BY <1>6, RestStep DEF Wake
<1>. QED
  BY <1>1, <1>2, <1>3, <1>4, <1>5, <1>6 DEF Next, Sending

\* Every chat is handed its messages in the order they were posted, the oldest
\* again until it is settled, whatever the network and the process do.
THEOREM Refinement == Spec => ImplementsCourier
<1>1. Init => Contract!Init
  <2>. SUFFICES ASSUME Init PROVE Contract!Init
    OBVIOUS
  <2>1. outbox = <<>> /\ inbox = [c \in Chats |-> <<>>] /\ Rowids = {} /\ Len(outbox) = 0
    BY DEF Init, Rowids
  <2>. QED
    BY <2>1 DEF Contract!Init
<1>2. IInv /\ [Next]_vars => [Contract!Next]_Abstract
  BY CourierStep
<1>. QED
  BY <1>1, <1>2, Inductive, PTL DEF Spec, ImplementsCourier, Contract!Spec, Abstract, Queues, Waiting
=============================================================================
