------------------------------ MODULE Courier ------------------------------
(***************************************************************************)
(* What the bot promises each chat about its messages, whatever happens to *)
(* the process and to the network: they are handed over in the order they  *)
(* were posted, the oldest again until it is known to have arrived or is   *)
(* given up, and none is taken out of its turn.  Messages are numbered as  *)
(* they are posted.  Outbox implements this specification.                 *)
(***************************************************************************)
EXTENDS Naturals, Sequences

CONSTANT Chats

VARIABLES
  posted,       \* number of messages posted so far
  queue,        \* queue[c]: messages not yet settled
  received      \* received[c]: what chat c has seen

Init ==
  /\ posted = 0
  /\ queue = [c \in Chats |-> {}]
  /\ received = [c \in Chats |-> <<>>]

Oldest(c) == CHOOSE m \in queue[c] : \A n \in queue[c] : m <= n

\* Messages are posted behind all others, to several chats at once.
Post ==
  /\ posted' \in Nat /\ posted' > posted
  /\ queue' = [c \in Chats |-> queue'[c]]
  /\ \A c \in Chats : \A m \in queue'[c] \ queue[c] : m \in (posted + 1)..posted'
  /\ \A c \in Chats : queue[c] \subseteq queue'[c]
  /\ UNCHANGED received

Hand(c) ==
  /\ queue[c] # {}
  /\ received' = [received EXCEPT ![c] = Append(@, Oldest(c))]
  /\ UNCHANGED <<posted, queue>>

Settle(c) ==
  /\ queue[c] # {}
  /\ queue' = [queue EXCEPT ![c] = @ \ {Oldest(c)}]
  /\ UNCHANGED <<posted, received>>

Next == Post \/ (\E c \in Chats : Hand(c) \/ Settle(c))

Spec == Init /\ [][Next]_<<posted, queue, received>>
=============================================================================
