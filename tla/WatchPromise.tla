---------------------------- MODULE WatchPromise ----------------------------
(***************************************************************************)
(* What the bot promises about a watch (a price scenario it monitors),     *)
(* with no process, table, thread or crash in sight: a watch is opened     *)
(* when its symbol has no open one, it ends once and in one of three ways, *)
(* and only a watch that ended by its trigger is answered, once.           *)
(* WatchRuntime implements this specification.                             *)
(***************************************************************************)

CONSTANTS
  Watches,      \* identifiers of watches
  SymbolOf      \* the symbol of each watch

VARIABLES
  life,         \* life[w]: where watch w stands
  reply         \* reply[w]: the final analysis sent after w's trigger

Endings == {"triggered", "invalidated", "expired"}
Replies == {"TRADE", "WATCH", "NO_TRADE"}

OpenOn(s) == \E w \in Watches : SymbolOf[w] = s /\ life[w] = "active"

Init ==
  /\ life = [w \in Watches |-> "none"]
  /\ reply = [w \in Watches |-> "none"]

Open(w) ==
  /\ life[w] = "none"
  /\ ~OpenOn(SymbolOf[w])
  /\ life' = [life EXCEPT ![w] = "active"]
  /\ UNCHANGED reply

End(w, how) ==
  /\ life[w] = "active"
  /\ life' = [life EXCEPT ![w] = how]
  /\ UNCHANGED reply

Answer(w, r) ==
  /\ life[w] = "triggered"
  /\ reply[w] = "none"
  /\ reply' = [reply EXCEPT ![w] = r]
  /\ UNCHANGED life

Next ==
  \E w \in Watches :
    \/ Open(w)
    \/ \E how \in Endings : End(w, how)
    \/ \E r \in Replies : Answer(w, r)

Spec == Init /\ [][Next]_<<life, reply>>
=============================================================================
