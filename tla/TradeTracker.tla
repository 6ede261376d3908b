---------------------------- MODULE TradeTracker ----------------------------
(***************************************************************************)
(* The tracking of one signal: a poll reads its row and the time, asks the *)
(* broker for the price and the last closed M5 candle, and from the side   *)
(* of the price the order would be filled or closed at decides whether it  *)
(* was filled, won, lost or expired.  The market is a path of bid prices;  *)
(* the ask is the bid and a spread.  A candle is made of Bar units of time *)
(* and knows of the path only its extremes, and only of the bid.           *)
(*                                                                         *)
(* The path is the ground truth the properties compare the verdict with.   *)
(* Operators whose comment begins with "Slip" are as in WatchRuntime.      *)
(***************************************************************************)
EXTENDS Integers, Sequences, FiniteSets

CONSTANTS
  Prices,       \* bid prices
  Spread,       \* ask minus bid
  Low, Middle, High,  \* the levels: the middle one is the entry
  Kinds,        \* directions and order types considered
  Bar,          \* units of time in one M5 candle
  Lifetimes,    \* from the insert of a signal to its expiration
  MaxTime       \* bound: units of time

ASSUME TrackerAssumption ==
  /\ Prices \subseteq Nat /\ Spread \in Nat
  /\ Low \in Nat /\ Middle \in Nat /\ High \in Nat /\ Low < Middle /\ Middle < High
  /\ Kinds \subseteq [direction : {"BUY", "SELL"}, type : {"LIMIT", "STOP"}]
  /\ Bar \in Nat \ {0} /\ Lifetimes \subseteq Nat /\ MaxTime \in Nat

None == -1      \* a time not set

VARIABLES
  bids,         \* bids[t + 1]: the bid in the unit of time t
  kind,         \* direction and order type of the signal
  trade,        \* its row of trade_tracking
  poll,         \* the poll: idle, or its snapshot of the row and of the time
  looked        \* history: when a poll begun in the life of the order, while it
                \*   was pending, got its price

vars == <<bids, kind, trade, poll, looked>>

clock == Len(bids) - 1
Bid(t) == bids[t + 1]
Ask(t) == Bid(t) + Spread

Idle == [row |-> "none", now |-> None]
Open == {"PENDING", "FILLED"}
Closed == {"WIN", "LOSS", "AMBIGUOUS", "EXPIRED"}

Init ==
  /\ \E b \in Prices : bids = <<b>>
  /\ kind \in Kinds
  /\ trade = [status |-> "none", created |-> None, expires |-> None,
              filled |-> None, closed |-> None]
  /\ poll = Idle /\ looked = {}

Tick ==
  /\ clock < MaxTime
  /\ \E b \in Prices : bids' = Append(bids, b)
  /\ UNCHANGED <<kind, trade, poll, looked>>

\* create_trade_tracking, in the last transaction of the analysis; its expiration
\* lay ahead when the signal was validated.
Track ==
  /\ trade.status = "none"
  /\ \E l \in Lifetimes :
       /\ clock + l <= MaxTime
       /\ trade' = [trade EXCEPT !.status = "PENDING", !.created = clock, !.expires = clock + l]
  /\ UNCHANGED <<bids, kind, poll, looked>>
-----------------------------------------------------------------------------
(* One poll. *)

PollBegin ==
  /\ poll = Idle /\ trade.status \in Open
  /\ poll' = [row |-> trade.status, now |-> clock]
  /\ UNCHANGED <<bids, kind, trade, looked>>

\* The broker does not answer, or the process dies: the row is what is left.
PollFails ==
  /\ poll # Idle
  /\ poll' = Idle
  /\ UNCHANGED <<bids, kind, trade, looked>>

Buying == kind.direction = "BUY"

\* What an order is filled at, and what a position is closed at.
EntrySide(t) == IF Buying THEN Ask(t) ELSE Bid(t)

\* Slip: the position is valued at the price it was opened with.
EntryAsExit(t) == EntrySide(t)

ExitSide(t) == IF Buying THEN Bid(t) ELSE Ask(t)

StopLoss == IF Buying THEN Low ELSE High
TakeProfit == IF Buying THEN High ELSE Low

\* The last candle closed when it is asked for.
Opening == (((clock \div Bar) - 1) * Bar)
Units(open) == open..(open + Bar - 1)
BidsIn(open) == {Bid(t) : t \in Units(open)}

\* Slip: any closed candle is evidence.
AnyCandle == Opening >= 0 /\ Opening + Bar <= poll.now

\* It must lie between what made the row what it is and the time of the poll.
Boundary == IF poll.row = "FILLED" THEN trade.filled ELSE trade.created
Usable ==
  /\ Opening >= 0 /\ Opening >= Boundary /\ Opening + Bar <= poll.now

CandleAtLeast(p) == Usable /\ \E x \in BidsIn(Opening) : x >= p
CandleAtMost(p) == Usable /\ \E x \in BidsIn(Opening) : x <= p

\* Slip: an order past its expiration may still be filled.
NeverPast == FALSE

\* Slip: the time is read again when the broker has answered.
PastByNow == clock >= trade.expires

Past == poll.now >= trade.expires

\* A LIMIT waits for a better price than the market's, a STOP for a worse one.
Reached(price) ==
  IF Buying = (kind.type = "LIMIT") THEN price <= Middle ELSE price >= Middle

\* A bid candle proves a sale at the bid; it cannot prove a purchase.
Filled == Reached(EntrySide(clock)) \/ (~Buying /\ CandleAtMost(Middle) /\ CandleAtLeast(Middle))

HitTarget ==
  IF Buying THEN ExitSide(clock) >= TakeProfit \/ CandleAtLeast(TakeProfit)
            ELSE ExitSide(clock) <= TakeProfit
HitStop ==
  IF Buying THEN ExitSide(clock) <= StopLoss \/ CandleAtMost(StopLoss)
            ELSE ExitSide(clock) >= StopLoss

\* Slip: the time of the fill is not written.
FillUntimed == trade' = [trade EXCEPT !.status = "FILLED"]

Fill == trade' = [trade EXCEPT !.status = "FILLED", !.filled = poll.now]

End(status) == trade' = [trade EXCEPT !.status = status, !.closed = poll.now]

\* _check_one from the broker's answer on; each branch is one UPDATE.
PollAnswered ==
  /\ poll # Idle
  /\ \/ poll.row = "PENDING" /\ Past /\ End("EXPIRED")
     \/ poll.row = "PENDING" /\ ~Past /\ Filled /\ Fill
     \/ poll.row = "PENDING" /\ ~Past /\ ~Filled /\ UNCHANGED trade
     \/ poll.row = "FILLED" /\ HitTarget /\ HitStop /\ End("AMBIGUOUS")
     \/ poll.row = "FILLED" /\ HitTarget /\ ~HitStop /\ End("WIN")
     \/ poll.row = "FILLED" /\ ~HitTarget /\ HitStop /\ End("LOSS")
     \/ poll.row = "FILLED" /\ ~HitTarget /\ ~HitStop /\ UNCHANGED trade
  /\ looked' = IF poll.row = "PENDING" /\ poll.now < trade.expires
               THEN looked \cup {clock} ELSE looked
  /\ poll' = Idle
  /\ UNCHANGED <<bids, kind>>
-----------------------------------------------------------------------------
Next == Tick \/ Track \/ PollBegin \/ PollFails \/ PollAnswered

Spec == Init /\ [][Next]_vars

(* Time passes, the loop polls again, and the broker answers a poll now     *)
(* and then, however often it does not.                                     *)
FairSpec == Spec /\ WF_vars(Tick) /\ WF_vars(PollBegin) /\ SF_vars(PollAnswered)
-----------------------------------------------------------------------------
(* Properties. *)

\* Every status has the times it needs, and in their order.
TypeOK ==
  /\ bids \in Seq(Prices) /\ kind \in Kinds
  /\ poll.row \in {"none"} \cup Open /\ poll.now \in None..clock
  /\ trade.status \in {"none"} \cup Open \cup Closed
  /\ trade.status # "none" => trade.created \in 0..clock /\ trade.expires >= trade.created
  /\ trade.status \in {"FILLED", "WIN", "LOSS", "AMBIGUOUS"} =>
       trade.filled \in trade.created..clock
  /\ trade.status \in Closed <=> trade.closed # None
  /\ trade.status \in {"none", "PENDING", "EXPIRED"} <=> trade.filled = None
  /\ looked \subseteq 0..clock

Since(t) == t..clock

\* A signal counts as filled only if the market really came to its entry, on
\* the side an order is executed at, after the signal existed: an older candle
\* never fills it (RELEASE_FA.md:57).
FillIsReal ==
  trade.status \in {"FILLED", "WIN", "LOSS", "AMBIGUOUS"} =>
    \E t \in Since(trade.created) : Reached(EntrySide(t))

\* WIN and LOSS rest on a price at which the position would have been closed,
\* seen after the fill, never on the candle that filled it.
OutcomeIsReal ==
  LET tp(t) == IF Buying THEN Bid(t) >= High ELSE Ask(t) <= Low
      sl(t) == IF Buying THEN Bid(t) <= Low ELSE Ask(t) >= High
  IN /\ trade.status \in {"WIN", "AMBIGUOUS"} => \E t \in Since(trade.filled) : tp(t)
     /\ trade.status \in {"LOSS", "AMBIGUOUS"} => \E t \in Since(trade.filled) : sl(t)

\* trade_tracker.py: an order expires only if it was never filled.  No poll
\* that was begun in its life and got a price saw the market at its entry.  And
\* what filled it was a price of its life, or the one that such a poll got after
\* the expiration: the time is read before the broker is asked, so that a price
\* may be late by one poll, but by no more.
ExpiryIsReal ==
  /\ trade.status = "EXPIRED" => \A t \in looked : ~Reached(EntrySide(t))
  /\ trade.filled # None =>
       \E t \in Since(trade.created) :
         Reached(EntrySide(t)) /\ (t < trade.expires \/ t \in looked)

\* Every signal leaves PENDING, however often the broker fails: it stops
\* counting against the open risk.
PendingEnds == trade.status = "PENDING" ~> trade.status # "PENDING"
=============================================================================
