---------------------------- MODULE SignalProofs ----------------------------
(***************************************************************************)
(* What holds of tracked signals.  Of one: the verdicts of the tracker are *)
(* true of the market, for every path of prices, every spread, every       *)
(* length of a candle and any number of polls that fail.  Of all: how far  *)
(* the open risk can pass its cap, for every set of signals, every         *)
(* assignment of risks and every schedule.                                 *)
(***************************************************************************)
EXTENDS TradeTracker, OpenRisk, FiniteSetTheorems, TLAPS
-----------------------------------------------------------------------------
(* One signal: TradeTracker. *)

\* The poll's own time lies between what made the row and the clock.
PollTimed ==
  poll.row # "none" =>
    /\ poll.row = trade.status
    /\ trade.created <= poll.now
    /\ poll.row = "FILLED" => trade.filled <= poll.now

\* A signal that was filled, whatever became of it.
Happened == {"FILLED", "WIN", "LOSS", "AMBIGUOUS"}

Rows == [status : {"none"} \cup Open \cup Closed, created : Int, expires : Int,
         filled : Int, closed : Int]

\* The types the steps are proved from, candle and levels included.
Typed ==
  /\ TypeOK
  /\ poll \in [row : {"none"} \cup Open, now : Int]
  /\ trade \in Rows
  /\ clock \in Nat

\* Of a signal that still waits, no poll has seen the entry.
Unseen ==
  /\ trade.status = "none" => looked = {}
  /\ trade.status = "PENDING" => \A t \in looked : ~Reached(EntrySide(t))

IInv ==
  /\ Typed /\ PollTimed /\ Unseen
  /\ FillIsReal /\ OutcomeIsReal /\ ExpiryIsReal
-----------------------------------------------------------------------------
LEMMA ClockStep ==
  ASSUME Typed, Tick
  PROVE  /\ clock' = clock + 1
         /\ bids' \in Seq(Prices)
         /\ \A t \in 0..clock : bids'[t + 1] = bids[t + 1]
<1>1. PICK b \in Prices : bids' = Append(bids, b)
  BY DEF Tick
<1>2. bids \in Seq(Prices) /\ Len(bids) \in Nat /\ Len(bids) >= 1
  BY DEF Typed, TypeOK, clock
<1>3. Len(bids') = Len(bids) + 1 /\ bids' \in Seq(Prices)
  BY <1>1, <1>2
<1>4. ASSUME NEW t \in 0..clock PROVE bids'[t + 1] = bids[t + 1]
  <2>1. t + 1 \in 1..Len(bids)
    BY <1>2 DEF clock
  <2>. QED
    BY <1>1, <1>2, <2>1
<1>. QED
  BY <1>2, <1>3, <1>4 DEF clock

\* A candle that may be used lies between the row's boundary and the poll.
LEMMA CandleInside ==
  ASSUME Typed, Usable, NEW t \in Units(Opening)
  PROVE  t \in Int /\ 0 <= t /\ Boundary <= t /\ t < poll.now
<1>1. Opening \in Int /\ Bar \in Nat /\ Bar > 0
  BY TrackerAssumption DEF Typed, Opening
<1>2. poll.now \in Int /\ Boundary \in Int
  BY DEF Typed, Rows, Boundary
<1>. QED
  BY <1>1, <1>2 DEF Usable, Units

Bought(t) == IF Buying THEN Bid(t) >= High ELSE Ask(t) <= Low
Stopped(t) == IF Buying THEN Bid(t) <= Low ELSE Ask(t) >= High

\* What the poll takes for a fill, a target or a stop happened on the market,
\* at the poll's own moment or inside the candle it may use.
LEMMA Evidence ==
  ASSUME Typed, poll.row # "none", PollTimed
  PROVE  /\ poll.row = "PENDING" /\ Filled =>
              \E t \in Since(trade.created) : Reached(EntrySide(t)) /\ (t = clock \/ t < poll.now)
         /\ poll.row = "FILLED" /\ HitTarget => \E t \in Since(trade.filled) : Bought(t)
         /\ poll.row = "FILLED" /\ HitStop => \E t \in Since(trade.filled) : Stopped(t)
<1>1. /\ clock \in Nat /\ poll.now \in Int /\ poll.now <= clock
      /\ trade.created \in Int /\ trade.filled \in Int
      /\ trade.created <= poll.now /\ (poll.row = "FILLED" => trade.filled <= poll.now)
  BY DEF Typed, TypeOK, Rows, None, PollTimed
<1>2. /\ clock \in Since(trade.created)
      /\ poll.row = "FILLED" => clock \in Since(trade.filled)
  BY <1>1 DEF Since
<1>3. ASSUME Usable, NEW t \in Units(Opening) PROVE t \in Since(Boundary)
  BY <1>1, <1>3, CandleInside DEF Since
<1>4. ASSUME poll.row = "PENDING", Filled
      PROVE  \E t \in Since(trade.created) : Reached(EntrySide(t)) /\ (t = clock \/ t < poll.now)
  <2>1. CASE Reached(EntrySide(clock))
    BY <1>2, <2>1
  <2>2. CASE ~Buying /\ CandleAtMost(Middle) /\ CandleAtLeast(Middle)
    <3>1. PICK t \in Units(Opening), u \in Units(Opening) : Bid(t) <= Middle /\ Bid(u) >= Middle
      BY <2>2 DEF CandleAtMost, CandleAtLeast, BidsIn
    <3>2. t \in Since(trade.created) /\ u \in Since(trade.created) /\ t < poll.now /\ u < poll.now
      BY <1>3, <1>4, <2>2, CandleInside DEF CandleAtMost, Boundary
    <3>. QED
      BY <2>2, <3>1, <3>2 DEF Reached, EntrySide
  <2>. QED
    BY <1>4, <2>1, <2>2 DEF Filled
<1>5. ASSUME poll.row = "FILLED", HitTarget PROVE \E t \in Since(trade.filled) : Bought(t)
  <2>1. CASE (Buying /\ ExitSide(clock) >= TakeProfit) \/ (~Buying /\ ExitSide(clock) <= TakeProfit)
    BY <1>2, <1>5, <2>1 DEF Bought, ExitSide, TakeProfit
  <2>2. CASE Buying /\ CandleAtLeast(TakeProfit)
    <3>1. PICK t \in Units(Opening) : Bid(t) >= High
      BY <2>2 DEF CandleAtLeast, BidsIn, TakeProfit
    <3>2. t \in Since(trade.filled)
      BY <1>3, <1>5, <2>2 DEF CandleAtLeast, Boundary
    <3>. QED
      BY <2>2, <3>1, <3>2 DEF Bought
  <2>. QED
    BY <1>5, <2>1, <2>2 DEF HitTarget
<1>6. ASSUME poll.row = "FILLED", HitStop PROVE \E t \in Since(trade.filled) : Stopped(t)
  <2>1. CASE (Buying /\ ExitSide(clock) <= StopLoss) \/ (~Buying /\ ExitSide(clock) >= StopLoss)
    BY <1>2, <1>6, <2>1 DEF Stopped, ExitSide, StopLoss
  <2>2. CASE Buying /\ CandleAtMost(StopLoss)
    <3>1. PICK t \in Units(Opening) : Bid(t) <= Low
      BY <2>2 DEF CandleAtMost, BidsIn, StopLoss
    <3>2. t \in Since(trade.filled)
      BY <1>3, <1>6, <2>2 DEF CandleAtMost, Boundary
    <3>. QED
      BY <2>2, <3>1, <3>2 DEF Stopped
  <2>. QED
    BY <1>6, <2>1, <2>2 DEF HitStop
<1>. QED
  BY <1>4, <1>5, <1>6
-----------------------------------------------------------------------------
(* One step. *)

LEMMA TypedStep == IInv /\ [Next]_vars => Typed' /\ PollTimed'
<1>. SUFFICES ASSUME IInv, [Next]_vars PROVE Typed' /\ PollTimed'
  OBVIOUS
<1>. USE DEF IInv
<1>1. CASE Tick
  <2>1. clock' = clock + 1 /\ bids' \in Seq(Prices) /\ clock \in Nat
    BY <1>1, ClockStep DEF Typed
  <2>2. UNCHANGED <<kind, trade, poll>>
    BY <1>1 DEF Tick
  <2>3. looked' \subseteq 0..clock'
    BY <1>1, <2>1 DEF Tick, Typed, TypeOK
  <2>. QED
    BY <2>1, <2>2, <2>3 DEF Typed, TypeOK, PollTimed, None, Open, Closed
<1>2. CASE Track
  <2>1. UNCHANGED <<bids, kind, poll, looked>> /\ clock' = clock
    BY <1>2 DEF Track, clock
  <2>2. PICK l \in Lifetimes :
          trade' = [trade EXCEPT !.status = "PENDING", !.created = clock, !.expires = clock + l]
    BY <1>2 DEF Track
  <2>3. l \in Nat /\ trade.status = "none" /\ clock \in Nat
    BY <1>2, TrackerAssumption DEF Track, Typed
  <2>4. /\ trade'.status = "PENDING" /\ trade'.created = clock /\ trade'.expires = clock + l
        /\ trade'.filled = trade.filled /\ trade'.closed = trade.closed /\ trade' \in Rows
    <3>1. trade \in Rows /\ clock \in Int /\ clock + l \in Int
      BY <2>3 DEF Typed
    <3>. QED
      BY <2>2, <3>1 DEF Open, Closed, Rows
  <2>5. trade.filled = None /\ trade.closed = None /\ poll.row = "none"
    BY <2>3 DEF Typed, TypeOK, PollTimed, Open, Closed
  <2>. QED
    BY <2>1, <2>3, <2>4, <2>5 DEF Typed, TypeOK, PollTimed, None, Open, Closed
<1>3. CASE PollBegin
  <2>1. UNCHANGED <<bids, kind, trade, looked>> /\ clock' = clock
    BY <1>3 DEF PollBegin, clock
  <2>. QED
    BY <1>3, <2>1 DEF PollBegin, Typed, TypeOK, PollTimed, None, Open, Closed
<1>4. CASE PollFails
  <2>1. UNCHANGED <<bids, kind, trade, looked>> /\ clock' = clock /\ poll' = Idle
    BY <1>4 DEF PollFails, clock
  <2>. QED
    BY <2>1 DEF Idle, Typed, TypeOK, PollTimed, None, Open, Closed
<1>5. CASE PollAnswered
  <2>1. UNCHANGED <<bids, kind>> /\ clock' = clock /\ poll' = Idle /\ looked' \subseteq 0..clock
    <3>1. clock \in 0..clock /\ looked \subseteq 0..clock
      BY DEF Typed, TypeOK
    <3>2. looked' \subseteq looked \cup {clock}
      BY <1>5 DEF PollAnswered
    <3>. QED
      BY <1>5, <3>1, <3>2 DEF PollAnswered, clock
  <2>2. /\ poll.now \in Int /\ poll.now <= clock /\ clock \in Nat
        /\ poll.row \in Open => poll.row = trade.status /\ trade.created <= poll.now
        /\ poll.row = "FILLED" => trade.filled <= poll.now
    BY DEF Typed, TypeOK, PollTimed, None, Open
  <2>3. \/ poll.row = "PENDING" /\ End("EXPIRED")
        \/ poll.row = "PENDING" /\ Fill
        \/ poll.row = "FILLED" /\ (End("AMBIGUOUS") \/ End("WIN") \/ End("LOSS"))
        \/ UNCHANGED trade
    BY <1>5 DEF PollAnswered
  <2>4. CASE poll.row = "PENDING" /\ End("EXPIRED")
    <3>1. /\ trade'.status = "EXPIRED" /\ trade'.created = trade.created
          /\ trade'.expires = trade.expires /\ trade'.filled = trade.filled
          /\ trade'.closed = poll.now /\ trade' \in Rows
      BY <2>2, <2>4 DEF End, Typed, Open, Closed, Rows
    <3>2. /\ trade.status = "PENDING" /\ trade.created \in 0..clock /\ trade.created <= poll.now
          /\ trade.expires >= trade.created /\ trade.filled = None /\ trade.closed = None
      BY <2>2, <2>4 DEF Typed, TypeOK, Open, Closed
    <3>. QED
      BY <2>1, <2>2, <3>1, <3>2 DEF Idle, Typed, TypeOK, PollTimed, None, Open, Closed
  <2>5. CASE poll.row = "PENDING" /\ Fill
    <3>1. /\ trade'.status = "FILLED" /\ trade'.created = trade.created
          /\ trade'.expires = trade.expires /\ trade'.filled = poll.now
          /\ trade'.closed = trade.closed /\ trade' \in Rows
      BY <2>2, <2>5 DEF Fill, Typed, Open, Closed, Rows
    <3>2. /\ trade.status = "PENDING" /\ trade.created \in 0..clock /\ trade.created <= poll.now
          /\ trade.expires >= trade.created /\ trade.filled = None /\ trade.closed = None
      BY <2>2, <2>5 DEF Typed, TypeOK, Open, Closed
    <3>. QED
      BY <2>1, <2>2, <3>1, <3>2 DEF Idle, Typed, TypeOK, PollTimed, None, Open, Closed
  <2>6. CASE poll.row = "FILLED" /\ (End("AMBIGUOUS") \/ End("WIN") \/ End("LOSS"))
    <3>1. /\ trade'.status \in {"AMBIGUOUS", "WIN", "LOSS"} /\ trade'.created = trade.created
          /\ trade'.expires = trade.expires /\ trade'.filled = trade.filled
          /\ trade'.closed = poll.now /\ trade' \in Rows
      BY <2>2, <2>6 DEF End, Typed, Open, Closed, Rows
    <3>2. /\ trade.status = "FILLED" /\ trade.created \in 0..clock /\ trade.created <= poll.now
          /\ trade.expires >= trade.created /\ trade.filled \in trade.created..clock
      BY <2>2, <2>6 DEF Typed, TypeOK, Open, Closed
    <3>. QED
      BY <2>1, <2>2, <3>1, <3>2 DEF Idle, Typed, TypeOK, PollTimed, None, Open, Closed
  <2>7. CASE UNCHANGED trade
    BY <2>1, <2>7 DEF Idle, Typed, TypeOK, PollTimed, None, Open, Closed
  <2>. QED
    BY <2>3, <2>4, <2>5, <2>6, <2>7
<1>6. CASE UNCHANGED vars
  <2>1. UNCHANGED <<bids, kind, trade, poll, looked>> /\ clock' = clock
    BY <1>6 DEF vars, clock
  <2>. QED
    BY <2>1 DEF Typed, TypeOK, PollTimed
<1>. QED
  BY <1>1, <1>2, <1>3, <1>4, <1>5, <1>6 DEF Next

\* What happened once on the market stays in its past.
LEMMA RealStep == IInv /\ [Next]_vars => FillIsReal' /\ OutcomeIsReal' /\ ExpiryIsReal' /\ Unseen'
<1>. SUFFICES ASSUME IInv, [Next]_vars PROVE FillIsReal' /\ OutcomeIsReal' /\ ExpiryIsReal' /\ Unseen'
  OBVIOUS
<1>. USE DEF IInv
<1>1. CASE Tick
  <2>1. clock' = clock + 1 /\ clock \in Nat /\ \A t \in 0..clock : bids'[t + 1] = bids[t + 1]
    BY <1>1, ClockStep DEF Typed
  <2>2. UNCHANGED <<kind, trade, looked>>
    BY <1>1 DEF Tick
  <2>3. trade.status \in Happened =>
          trade.created \in 0..clock /\ trade.filled \in trade.created..clock
    BY DEF Typed, TypeOK, Happened
  <2>4. ASSUME trade.status \in Happened,
               NEW t \in trade.created..clock
        PROVE  t \in (trade.created..clock)' /\ Bid(t)' = Bid(t)
    BY <2>1, <2>2, <2>3, <2>4 DEF Bid
  <2>5. FillIsReal'
    <3>. SUFFICES ASSUME trade.status \in Happened
                  PROVE  \E t \in (trade.created..clock)' : Reached(EntrySide(t))'
      BY <2>2 DEF FillIsReal, Since, Happened
    <3>1. PICK t \in trade.created..clock : Reached(EntrySide(t))
      BY DEF FillIsReal, Since, Happened
    <3>2. Reached(EntrySide(t))'
      BY <2>2, <2>4, <3>1 DEF Reached, EntrySide, Ask, Buying
    <3>. QED
      BY <2>4, <3>2
  <2>6. OutcomeIsReal'
    <3>1. ASSUME trade.status \in {"WIN", "AMBIGUOUS"}
          PROVE  \E t \in (trade.filled..clock)' : Bought(t)'
      <4>1. PICK t \in trade.filled..clock : Bought(t)
        BY <3>1 DEF OutcomeIsReal, Since, Bought
      <4>2. t \in trade.created..clock /\ t \in (trade.filled..clock)'
        BY <2>1, <2>2, <2>3, <3>1 DEF Happened
      <4>3. Bought(t)'
        BY <2>2, <2>4, <3>1, <4>1, <4>2 DEF Bought, Ask, Buying, Happened
      <4>. QED
        BY <4>2, <4>3
    <3>2. ASSUME trade.status \in {"LOSS", "AMBIGUOUS"}
          PROVE  \E t \in (trade.filled..clock)' : Stopped(t)'
      <4>1. PICK t \in trade.filled..clock : Stopped(t)
        BY <3>2 DEF OutcomeIsReal, Since, Stopped
      <4>2. t \in trade.created..clock /\ t \in (trade.filled..clock)'
        BY <2>1, <2>2, <2>3, <3>2 DEF Happened
      <4>3. Stopped(t)'
        BY <2>2, <2>4, <3>2, <4>1, <4>2 DEF Stopped, Ask, Buying, Happened
      <4>. QED
        BY <4>2, <4>3
    <3>. QED
      BY <2>2, <3>1, <3>2 DEF OutcomeIsReal, Since, Bought, Stopped
  <2>7. ASSUME NEW t \in looked PROVE Reached(EntrySide(t))' <=> Reached(EntrySide(t))
    <3>1. Bid(t)' = Bid(t)
      BY <2>1, <2>7 DEF Typed, TypeOK, Bid
    <3>. QED
      BY <2>2, <3>1 DEF Reached, EntrySide, Ask, Buying
  <2>8. Unseen'
    BY <2>2, <2>7 DEF Unseen
  <2>9. ExpiryIsReal'
    <3>1. trade.filled # None => trade.status \in Happened /\ trade.filled \in trade.created..clock
      BY DEF Typed, TypeOK, Happened, Open, Closed
    <3>2. ASSUME NEW t \in Since(trade.created), trade.filled # None,
                 Reached(EntrySide(t)), t < trade.expires \/ t \in looked
          PROVE  t \in Since(trade.created)' /\ Reached(EntrySide(t))'
      BY <2>2, <2>4, <3>1, <3>2 DEF Since, Reached, EntrySide, Ask, Buying
    <3>. QED
      BY <2>2, <2>7, <3>2 DEF ExpiryIsReal
  <2>. QED
    BY <2>5, <2>6, <2>8, <2>9
<1>2. CASE Track
  <2>1. trade.status = "none" /\ UNCHANGED <<bids, kind>> /\ trade \in Rows
    BY <1>2 DEF Track, Typed
  <2>2. trade'.status = "PENDING" /\ trade'.filled = trade.filled
    BY <1>2, <2>1 DEF Track, Rows
  <2>3. trade'.filled = None /\ looked' = {}
    BY <1>2, <2>1, <2>2 DEF Track, Typed, TypeOK, Unseen
  <2>. QED
    BY <2>2, <2>3 DEF FillIsReal, OutcomeIsReal, ExpiryIsReal, Unseen
<1>3. CASE UNCHANGED <<bids, kind, trade, looked>>
  BY <1>3 DEF FillIsReal, OutcomeIsReal, ExpiryIsReal, Unseen, Since, clock, Reached, EntrySide, Ask, Bid,
              Buying
<1>4. CASE PollAnswered
  <2>1. UNCHANGED <<bids, kind>> /\ poll.row # "none" /\ trade \in Rows
    BY <1>4 DEF PollAnswered, Typed, TypeOK, Idle, PollTimed, Rows
  <2>2. /\ FillIsReal' <=> (trade'.status \in Happened =>
                              \E t \in Since(trade'.created) : Reached(EntrySide(t)))
        /\ OutcomeIsReal' <=>
             /\ trade'.status \in {"WIN", "AMBIGUOUS"} => \E t \in Since(trade'.filled) : Bought(t)
             /\ trade'.status \in {"LOSS", "AMBIGUOUS"} => \E t \in Since(trade'.filled) : Stopped(t)
        /\ ExpiryIsReal' <=>
             /\ trade'.status = "EXPIRED" => \A t \in looked' : ~Reached(EntrySide(t))
             /\ trade'.filled # None =>
                  \E t \in Since(trade'.created) :
                    Reached(EntrySide(t)) /\ (t < trade'.expires \/ t \in looked')
        /\ Unseen' <=>
             /\ trade'.status = "none" => looked' = {}
             /\ trade'.status = "PENDING" => \A t \in looked' : ~Reached(EntrySide(t))
    BY <2>1 DEF ExpiryIsReal, Unseen, FillIsReal, OutcomeIsReal, Since, clock, Reached, EntrySide, Ask, Bid, Buying,
                Bought, Stopped, Happened
  <2>3. /\ poll.row = "PENDING" /\ Filled =>
             \E t \in Since(trade.created) : Reached(EntrySide(t)) /\ (t = clock \/ t < poll.now)
        /\ poll.row = "FILLED" /\ HitTarget => \E t \in Since(trade.filled) : Bought(t)
        /\ poll.row = "FILLED" /\ HitStop => \E t \in Since(trade.filled) : Stopped(t)
        /\ poll.row = trade.status
    BY <2>1, Evidence DEF PollTimed
  <2>l. /\ poll.row = "PENDING" /\ ~Past => looked' = looked \cup {clock}
        /\ ~(poll.row = "PENDING" /\ ~Past) => looked' = looked
    <3>1. poll.now \in Int /\ trade.expires \in Int
      BY DEF Typed, Rows
    <3>. QED
      BY <1>4, <3>1 DEF PollAnswered, Past
  <2>4. CASE poll.row = "PENDING" /\ Past /\ End("EXPIRED")
    <3>1. /\ trade'.status = "EXPIRED" /\ trade'.filled = trade.filled
          /\ trade'.closed = poll.now /\ trade'.expires = trade.expires
      BY <2>1, <2>4 DEF End, Rows
    <3>2. trade.filled = None
      BY <2>3, <2>4 DEF Typed, TypeOK
    <3>3. \A t \in looked' : ~Reached(EntrySide(t))
      BY <2>3, <2>4, <2>l DEF Unseen
    <3>. QED
      BY <2>2, <2>4, <3>1, <3>2, <3>3 DEF Happened
  <2>5. CASE poll.row = "PENDING" /\ ~Past /\ Filled /\ Fill
    <3>1. /\ trade'.status = "FILLED" /\ trade'.created = trade.created
          /\ trade'.filled = poll.now /\ trade'.expires = trade.expires
      BY <2>1, <2>5 DEF Fill, Rows
    <3>2. PICK t \in Since(trade.created) : Reached(EntrySide(t)) /\ (t = clock \/ t < poll.now)
      BY <2>3, <2>5
    <3>3. t < trade.expires \/ t \in looked'
      <4>1. poll.now \in Int /\ trade.expires \in Int /\ trade.created \in Int /\ clock \in Int
        BY DEF Typed, Rows
      <4>. QED
        BY <2>5, <2>l, <3>2, <4>1 DEF Past, Since
    <3>. QED
      BY <2>2, <2>5, <3>1, <3>2, <3>3 DEF Happened
  <2>6. CASE poll.row = "FILLED" /\ (\/ HitTarget /\ HitStop /\ End("AMBIGUOUS")
                                     \/ HitTarget /\ End("WIN")
                                     \/ HitStop /\ End("LOSS"))
    <3>1. /\ trade'.status \in {"AMBIGUOUS", "WIN", "LOSS"} /\ trade'.created = trade.created
          /\ trade'.filled = trade.filled /\ trade'.expires = trade.expires
          /\ trade'.status \in {"AMBIGUOUS", "WIN"} => HitTarget
          /\ trade'.status \in {"AMBIGUOUS", "LOSS"} => HitStop
      BY <2>1, <2>6 DEF End, Rows
    <3>2. \E t \in Since(trade.created) : Reached(EntrySide(t))
      BY <2>3, <2>6 DEF FillIsReal
    <3>3. trade'.filled # None =>
            \E t \in Since(trade'.created) :
              Reached(EntrySide(t)) /\ (t < trade'.expires \/ t \in looked')
      BY <2>6, <2>l, <3>1 DEF ExpiryIsReal
    <3>. QED
      BY <2>2, <2>3, <2>6, <3>1, <3>2, <3>3 DEF Happened
  <2>7. CASE UNCHANGED trade /\ (poll.row = "PENDING" => ~Past /\ ~Filled)
    <3>1. looked \subseteq looked'
      BY <2>l
    <3>2. trade.status = "PENDING" => \A t \in looked' : ~Reached(EntrySide(t))
      BY <2>3, <2>7, <2>l DEF Unseen, Filled
    <3>3. trade.status # "PENDING" => looked' = looked
      BY <2>3, <2>l
    <3>4. /\ trade.status = "EXPIRED" => \A t \in looked : ~Reached(EntrySide(t))
          /\ trade.filled # None =>
               \E t \in Since(trade.created) :
                 Reached(EntrySide(t)) /\ (t < trade.expires \/ t \in looked)
      BY DEF ExpiryIsReal
    <3>5. FillIsReal' /\ OutcomeIsReal'
      BY <2>2, <2>7 DEF FillIsReal, OutcomeIsReal, Happened, Bought, Stopped
    <3>6. ExpiryIsReal'
      BY <2>2, <2>7, <3>1, <3>3, <3>4
    <3>7. Unseen'
      BY <2>2, <2>7, <3>2, <3>3 DEF Unseen
    <3>. QED
      BY <3>5, <3>6, <3>7
  <2>8. \/ poll.row = "PENDING" /\ Past /\ End("EXPIRED")
        \/ poll.row = "PENDING" /\ ~Past /\ Filled /\ Fill
        \/ poll.row = "FILLED" /\ (\/ HitTarget /\ HitStop /\ End("AMBIGUOUS")
                                   \/ HitTarget /\ End("WIN")
                                   \/ HitStop /\ End("LOSS"))
        \/ UNCHANGED trade /\ (poll.row = "PENDING" => ~Past /\ ~Filled)
    BY <1>4 DEF PollAnswered
  <2>. QED
    BY <2>4, <2>5, <2>6, <2>7, <2>8
<1>. QED
  BY <1>1, <1>2, <1>3, <1>4 DEF Next, PollBegin, PollFails, vars
-----------------------------------------------------------------------------
LEMMA InitIInv == Init => IInv
<1>. SUFFICES ASSUME Init PROVE IInv
  OBVIOUS
<1>1. PICK b \in Prices : bids = <<b>>
  BY DEF Init
<1>2. bids \in Seq(Prices) /\ Len(bids) = 1
  BY <1>1
<1>3. clock = 0
  BY <1>2 DEF clock
<1>. QED
  BY <1>2, <1>3
     DEF Init, IInv, Typed, TypeOK, Rows, PollTimed, Unseen, FillIsReal, OutcomeIsReal, ExpiryIsReal,
         None, Idle, Open, Closed

\* Types, the poll's place in time, what no poll has seen yet and the three
\* properties of the verdicts are one inductive invariant.
THEOREM Inductive == Spec => []IInv
<1>1. IInv /\ [Next]_vars => IInv'
  BY TypedStep, RealStep DEF IInv
<1>. QED
  BY InitIInv, <1>1, PTL DEF Spec

\* A fill rests on a price the market had after the signal existed, on the
\* side an order is executed at (_check_one, from the price on).
THEOREM FillCorrect == Spec => []FillIsReal
<1>1. IInv => FillIsReal
  BY DEF IInv
<1>. QED
  BY <1>1, Inductive, PTL

\* WIN and LOSS rest on a price the market had after the fill, on the side a
\* position is closed at, never on the candle that filled it.
THEOREM OutcomeCorrect == Spec => []OutcomeIsReal
<1>1. IInv => OutcomeIsReal
  BY DEF IInv
<1>. QED
  BY <1>1, Inductive, PTL

\* An order expires only if no poll begun in its life saw its entry; one that
\* was filled was so by a price of its life, or by the price that a poll begun
\* in its life got after it, for a poll's time is older than its price.
THEOREM ExpiryCorrect == Spec => []ExpiryIsReal
<1>1. IInv => ExpiryIsReal
  BY DEF IInv
<1>. QED
  BY <1>1, Inductive, PTL
-----------------------------------------------------------------------------
(* The open risk of all: OpenRisk. *)

\* The parts of a set of signals are finitely many.
LEMMA PartsFinite ==
  ASSUME NEW T \in SUBSET Signals
  PROVE  IsFiniteSet(Parts(T)) /\ Cardinality(Parts(T)) \in Nat
<1>1. IsFiniteSet(T)
  BY RiskAssumption, FS_Subset
<1>2. IsFiniteSet(1..MaxRisk)
  BY RiskAssumption, FS_Interval
<1>3. IsFiniteSet(T \X (1..MaxRisk))
  BY <1>1, <1>2, FS_Product
<1>4. Parts(T) \in SUBSET (T \X (1..MaxRisk))
  BY DEF Parts
<1>5. IsFiniteSet(Parts(T))
  BY <1>3, <1>4, FS_Subset
<1>. QED
  BY <1>5, FS_CardinalityType

\* One signal holds as many parts as it risks.
LEMMA PartsOfOne ==
  ASSUME NEW s \in Signals
  PROVE  Cardinality(Parts({s})) = RiskOf[s]
<1>. DEFINE f == [i \in 1..RiskOf[s] |-> <<s, i>>]
<1>1. RiskOf[s] \in Nat /\ RiskOf[s] <= MaxRisk /\ MaxRisk \in Nat
  BY RiskAssumption
<1>2. Parts({s}) = {p \in {s} \X (1..MaxRisk) : p[2] <= RiskOf[s]}
  BY DEF Parts
<1>3. f \in [1..RiskOf[s] -> Parts({s})]
  BY <1>1, <1>2
<1>4. \A i, j \in 1..RiskOf[s] : f[i] = f[j] => i = j
  OBVIOUS
<1>5. \A p \in Parts({s}) : \E i \in 1..RiskOf[s] : f[i] = p
  <2>1. SUFFICES ASSUME NEW p \in Parts({s}) PROVE \E i \in 1..RiskOf[s] : f[i] = p
    OBVIOUS
  <2>2. p = <<s, p[2]>> /\ p[2] \in 1..RiskOf[s]
    BY <1>1, <1>2, <2>1
  <2>. QED
    BY <2>2
<1>6. f \in Bijection(1..RiskOf[s], Parts({s}))
  BY <1>3, <1>4, <1>5 DEF Bijection, Injection, Surjection, IsInjective
<1>7. ExistsBijection(1..RiskOf[s], Parts({s}))
  BY <1>6 DEF ExistsBijection
<1>8. IsFiniteSet(1..RiskOf[s]) /\ Cardinality(1..RiskOf[s]) = RiskOf[s]
  <2>1. IsFiniteSet(1..RiskOf[s])
    BY <1>1, FS_Interval
  <2>2. Cardinality(1..RiskOf[s]) = IF 1 > RiskOf[s] THEN 0 ELSE RiskOf[s] - 1 + 1
    <3>1. 1 \in Int /\ RiskOf[s] \in Int
      BY <1>1
    <3>. QED
      BY <3>1, FS_Interval
  <2>. QED
    BY <1>1, <2>1, <2>2
<1>. QED
  BY <1>7, <1>8, FS_Bijection

\* A new signal adds its own risk to the sum.
LEMMA PartsOfMore ==
  ASSUME NEW T \in SUBSET Signals, NEW s \in Signals, s \notin T
  PROVE  Cardinality(Parts(T \cup {s})) = Cardinality(Parts(T)) + RiskOf[s]
<1>1. Parts(T \cup {s}) = Parts(T) \cup Parts({s})
  BY DEF Parts
<1>2. Parts(T) \cap Parts({s}) = {}
  BY DEF Parts
<1>3. IsFiniteSet(Parts(T)) /\ IsFiniteSet(Parts({s}))
      /\ Cardinality(Parts(T)) \in Nat
  BY PartsFinite
<1>4. Cardinality(Parts(T) \cup Parts({s})) =
        Cardinality(Parts(T)) + Cardinality(Parts({s})) - Cardinality(Parts(T) \cap Parts({s}))
  BY <1>3, FS_Union
<1>5. Cardinality(Parts(T) \cap Parts({s})) = 0
  BY <1>2, FS_EmptySet
<1>6. Cardinality(Parts({s})) = RiskOf[s] /\ RiskOf[s] \in Nat
  BY PartsOfOne, RiskAssumption
<1>7. Cardinality(Parts(T \cup {s})) = Cardinality(Parts(T) \cup Parts({s}))
  BY <1>1
<1>8. Cardinality(Parts(T)) \in Nat
  BY <1>3
<1>. QED
  BY <1>4, <1>5, <1>6, <1>7, <1>8

\* A signal that ends takes nothing into the sum.
LEMMA PartsOfFewer ==
  ASSUME NEW T \in SUBSET Signals, NEW U \in SUBSET T
  PROVE  Cardinality(Parts(U)) <= Cardinality(Parts(T))
<1>1. Parts(U) \in SUBSET Parts(T)
  BY DEF Parts
<1>2. IsFiniteSet(Parts(T))
  BY PartsFinite
<1>. QED
  BY <1>1, <1>2, FS_Subset
-----------------------------------------------------------------------------
(* A desk cleared to insert may find the table grown since it weighed, but   *)
(* only by what the other desk inserted, and of two desks cleared at once    *)
(* the one that weighed last has weighed the table as it is.                 *)

Cleared(d) == stage[d] = "cleared"
Room(d, limit) == OpenRiskAmount + RiskOf[work[d]] <= limit

OvershootInv ==
  /\ OpenRiskAmount <= Cap + MaxRisk
  /\ \A d \in Desks : Cleared(d) => Room(d, Cap + MaxRisk)
  /\ (\A d \in Desks : Cleared(d)) => \E d \in Desks : Room(d, Cap)

\* A desk's signal is new to the table until it is inserted.
Fresh == \A d \in Desks : stage[d] # "idle" => tracked[work[d]] = "none"

\* The two desks hold the locks of two symbols.
Apart ==
  \A d, e \in Desks :
    d # e /\ stage[d] # "idle" /\ stage[e] # "idle" => SymbolOf[work[d]] # SymbolOf[work[e]]

RiskInv == RiskTypeOK /\ Apart /\ Fresh /\ OvershootInv

\* Types and freshness are kept by every step.
LEMMA FreshStep ==
  ASSUME RiskTypeOK, Apart, Fresh, [RiskNext]_riskVars
  PROVE  RiskTypeOK' /\ Apart' /\ Fresh'
<1>. USE RiskAssumption DEF RiskTypeOK, Apart, Fresh, desks
<1>1. ASSUME NEW d \in Desks, NEW s \in Signals, Begin(d, s) PROVE RiskTypeOK' /\ Apart' /\ Fresh'
  BY <1>1 DEF Begin
<1>2. ASSUME NEW d \in Desks, Weigh(d) PROVE RiskTypeOK' /\ Apart' /\ Fresh'
  BY <1>2 DEF Weigh
<1>3. ASSUME NEW d \in Desks, Drop(d) PROVE RiskTypeOK' /\ Apart' /\ Fresh'
  BY <1>3 DEF Drop
<1>4. ASSUME NEW d \in Desks, Insert(d) PROVE RiskTypeOK' /\ Apart' /\ Fresh'
  <2>1. work[d] \in Signals
    BY <1>4 DEF Insert
  <2>2. \A e \in Desks \ {d} : stage[e] # "idle" => work[e] # work[d]
    BY <1>4 DEF Insert
  <2>3. RiskTypeOK' /\ Apart'
    BY <1>4, <2>1 DEF Insert
  <2>4. Fresh'
    BY <1>4, <2>1, <2>2 DEF Insert
  <2>. QED
    BY <2>3, <2>4
<1>5. ASSUME NEW s \in Signals, Close(s) PROVE RiskTypeOK' /\ Apart' /\ Fresh'
  BY <1>5 DEF Close
<1>6. CASE AccountMoves
  BY <1>6 DEF AccountMoves
<1>7. CASE Crash
  BY <1>7 DEF Crash
<1>8. CASE UNCHANGED riskVars
  BY <1>8 DEF riskVars
<1>. QED
  BY <1>1, <1>2, <1>3, <1>4, <1>5, <1>6, <1>7, <1>8 DEF RiskNext, DeskStep

\* What a step does to the sum: nothing, unless a desk inserts its signal or
\* the tracker ends one.
LEMMA AmountStep ==
  ASSUME RiskTypeOK, Fresh
  PROVE  /\ OpenRiskAmount \in Nat
         /\ UNCHANGED tracked => OpenRiskAmount' = OpenRiskAmount
         /\ \A s \in Signals : Close(s) => OpenRiskAmount' \in Nat /\ OpenRiskAmount' <= OpenRiskAmount
         /\ \A d \in Desks : Insert(d) =>
              OpenRiskAmount' = OpenRiskAmount + RiskOf[work[d]]
<1>1. OpenSignals \in SUBSET Signals
  BY DEF OpenSignals
<1>2. OpenRiskAmount \in Nat
  BY <1>1, PartsFinite DEF OpenRiskAmount
<1>3. UNCHANGED tracked => OpenRiskAmount' = OpenRiskAmount
  BY DEF OpenRiskAmount, OpenSignals, Parts
<1>4. ASSUME NEW s \in Signals, Close(s)
      PROVE  OpenRiskAmount' \in Nat /\ OpenRiskAmount' <= OpenRiskAmount
  <2>1. OpenSignals' \in SUBSET OpenSignals
    BY <1>4 DEF OpenSignals, Close, RiskTypeOK
  <2>2. OpenRiskAmount' = Cardinality(Parts(OpenSignals'))
    BY DEF OpenRiskAmount, Parts
  <2>3. Cardinality(Parts(OpenSignals')) \in Nat
    BY <1>1, <2>1, PartsFinite
  <2>. QED
    BY <1>1, <2>1, <2>2, <2>3, PartsOfFewer DEF OpenRiskAmount
<1>5. ASSUME NEW d \in Desks, Insert(d)
      PROVE  OpenRiskAmount' = OpenRiskAmount + RiskOf[work[d]]
  <2>1. work[d] \in Signals /\ work[d] \notin OpenSignals
    BY <1>5 DEF Insert, RiskTypeOK, Fresh, OpenSignals
  <2>2. OpenSignals' = OpenSignals \cup {work[d]}
    BY <1>5, <2>1 DEF Insert, RiskTypeOK, OpenSignals
  <2>3. OpenRiskAmount' = Cardinality(Parts(OpenSignals'))
    BY DEF OpenRiskAmount, Parts
  <2>. QED
    BY <1>1, <2>1, <2>2, <2>3, PartsOfMore DEF OpenRiskAmount
<1>. QED
  BY <1>2, <1>3, <1>4, <1>5

\* The bound is kept by every step.
LEMMA OvershootStep ==
  ASSUME RiskInv, [RiskNext]_riskVars
  PROVE  OvershootInv'
<1>. DEFINE A == OpenRiskAmount
<1>. USE RiskAssumption DEF RiskInv, Cleared, Room, OvershootInv
<1>0. RiskTypeOK' /\ A \in Nat
  BY FreshStep, AmountStep
<1>w. \A d \in Desks : Cleared(d) => work[d] \in Signals /\ RiskOf[work[d]] \in 0..MaxRisk
  BY DEF RiskTypeOK
<1>1. ASSUME UNCHANGED tracked,
             \A d \in Desks : Cleared(d)' => Cleared(d) /\ work'[d] = work[d]
      PROVE  OvershootInv'
  <2>1. A' = A
    BY <1>1, AmountStep
  <2>. QED
    BY <1>1, <2>1
<1>2. ASSUME NEW d \in Desks, Weigh(d) PROVE OvershootInv'
  <2>1. A' = A /\ work' = work
    BY <1>2, AmountStep DEF Weigh
  <2>2. work[d] \in Signals /\ A + RiskOf[work[d]] <= Cap
    BY <1>2 DEF Weigh, Fits, RiskTypeOK
  <2>3. \A e \in Desks \ {d} : Cleared(e)' => Cleared(e)
    BY <1>2 DEF Weigh, RiskTypeOK
  <2>. QED
    BY <1>0, <2>1, <2>2, <2>3
<1>3. ASSUME NEW d \in Desks, Insert(d) PROVE OvershootInv'
  <2>. DEFINE r == RiskOf[work[d]]
  <2>1. A' = A + r /\ r \in 0..MaxRisk /\ A + r <= Cap + MaxRisk
    BY <1>3, <1>w, AmountStep DEF Insert
  <2>2. \A e \in Desks : Cleared(e)' => e # d /\ Cleared(e) /\ work'[e] = work[e]
    BY <1>3 DEF Insert, RiskTypeOK
  <2>3. ASSUME NEW e \in Desks, Cleared(e)' PROVE A' + RiskOf[work'[e]] <= Cap + MaxRisk
    <3>. DEFINE q == RiskOf[work[e]]
    <3>1. e # d /\ Cleared(e) /\ Cleared(d) /\ q \in 0..MaxRisk /\ work'[e] = work[e]
      BY <1>3, <1>w, <2>2, <2>3 DEF Insert
    <3>2. \A f \in Desks : f = d \/ f = e
      BY <3>1 DEF Desks
    <3>3. A + r <= Cap \/ A + q <= Cap
      BY <3>1, <3>2
    <3>. QED
      BY <1>0, <2>1, <3>1, <3>3
  <2>. QED
    BY <2>1, <2>2, <2>3
<1>4. ASSUME NEW s \in Signals, Close(s) PROVE OvershootInv'
  <2>1. A' \in Nat /\ A' <= A
    BY <1>4, AmountStep
  <2>2. stage' = stage /\ work' = work
    BY <1>4 DEF Close, desks
  <2>. QED
    BY <1>0, <1>w, <2>1, <2>2
<1>5. ASSUME NEW d \in Desks, NEW s \in Signals, Begin(d, s) PROVE OvershootInv'
  BY <1>1, <1>5 DEF Begin, RiskTypeOK
<1>6. ASSUME NEW d \in Desks, Drop(d) PROVE OvershootInv'
  BY <1>1, <1>6 DEF Drop, RiskTypeOK
<1>7. CASE AccountMoves
  BY <1>1, <1>7 DEF AccountMoves, desks
<1>8. CASE Crash
  BY <1>1, <1>8 DEF Crash
<1>9. CASE UNCHANGED riskVars
  BY <1>1, <1>9 DEF riskVars, desks
<1>. QED
  BY <1>2, <1>3, <1>4, <1>5, <1>6, <1>7, <1>8, <1>9 DEF RiskNext, DeskStep
-----------------------------------------------------------------------------
\* Types, the locks and the bound are one inductive invariant.
THEOREM RiskInductive == RiskSpec => []RiskInv
<1>1. RiskInit => RiskInv
  <2>1. ASSUME RiskInit PROVE OpenSignals = {} /\ OpenRiskAmount = 0
    <3>1. OpenSignals = {}
      BY <2>1 DEF RiskInit, OpenSignals
    <3>2. Parts(OpenSignals) = {}
      BY <3>1 DEF Parts
    <3>. QED
      BY <3>1, <3>2, FS_EmptySet DEF OpenRiskAmount
  <2>. QED
    BY <2>1, RiskAssumption
       DEF RiskInit, RiskInv, RiskTypeOK, Apart, Fresh, OvershootInv, Cleared, Desks
<1>2. RiskInv /\ [RiskNext]_riskVars => RiskInv'
  BY FreshStep, OvershootStep DEF RiskInv
<1>. QED
  BY <1>1, <1>2, PTL DEF RiskSpec

\* Two analyses at once pass the cap by at most the risk of one signal, however
\* many signals follow one another (the check of _finalize and its insert are
\* two transactions under locks of two symbols).
THEOREM OvershootTheorem == RiskSpec => []OvershootBounded
<1>1. RiskInv => OvershootBounded
  BY DEF RiskInv, OvershootInv, OvershootBounded
<1>. QED
  BY <1>1, RiskInductive, PTL

\* The types, as a consequence.
THEOREM RiskTypes == RiskSpec => []RiskTypeOK
<1>1. RiskInv => RiskTypeOK
  BY DEF RiskInv
<1>. QED
  BY <1>1, RiskInductive, PTL
=============================================================================
