--------------------------- MODULE FirstBotProofs ---------------------------
(***************************************************************************)
(* What holds of the first bot, for every market, every table of watches   *)
(* it may find, every set of answers, any number of failures and of times  *)
(* the process dies, and every interleaving of its two coroutines; what    *)
(* the successor makes of its table; and its rules beside the successor's. *)
(***************************************************************************)
EXTENDS FirstBot, WellFoundedInduction, TLAPS
-----------------------------------------------------------------------------
(* Three releases. *)

\* A trade the release accepts would have been accepted by the two before it:
\* each validator only added to what the one before had asked for.
THEOREM StricterEachTime ==
  ASSUME NEW t, NEW bid, NEW ask, NEW friday, TermsHold(t, bid, ask, friday)
  PROVE  ClaimedTerms(t, bid, ask, friday) /\ FirstTerms(t, bid, ask, friday)
<1>1. ClaimedTerms(t, bid, ask, friday)
  BY DEF TermsHold, ClaimedTerms
<1>2. FirstSideHolds(t, bid, ask)
  BY DEF TermsHold, SideHolds, FirstSideHolds
<1>. QED
  BY <1>1, <1>2 DEF TermsHold, FirstTerms, RiskHolds
-----------------------------------------------------------------------------
(* The volume. *)

Accounts == [balance : Nat, point : Nat, least : Nat, most : Nat]
Terms(t) == t.entry \in Int /\ t.stop \in Int /\ t.risk \in Int

LEMMA LossType ==
  ASSUME NEW t, Terms(t), NEW account \in Accounts
  PROVE  LossOfStep(t, account) \in Nat
<1>1. Gap(t.entry, t.stop) \in Nat /\ account.point \in Nat
  BY DEF Terms, Accounts, Gap, HigherOf, LowerOf
<1>. QED
  BY <1>1 DEF LossOfStep

\* A quotient rounded down, multiplied back.
LEMMA RoundedDown ==
  ASSUME NEW n \in Int, NEW d \in Nat, d > 0
  PROVE  /\ n \div d \in Int
         /\ n - (n \div d) * d = n % d /\ n % d < d /\ n % d \in Nat
  OBVIOUS

LEMMA FirstVolumeType ==
  ASSUME NEW t, Terms(t), NEW account \in Accounts
  PROVE  FirstVolume(t, account) \in Int
<1>. DEFINE d == Whole * LossOfStep(t, account)
            n == account.balance * t.risk
<1>1. d \in Nat /\ n \in Int
  BY LossType DEF Whole, Terms, Accounts
<1>2. CASE LossOfStep(t, account) = 0
  BY <1>2 DEF FirstVolume
<1>3. CASE LossOfStep(t, account) # 0
  <2>1. n \div d \in Int
    BY <1>1, <1>3, LossType, RoundedDown DEF Whole
  <2>2. Rounded(n, d) \in Int
    <3>. HIDE DEF n, d
    <3>. QED
      BY <2>1 DEF Rounded
  <2>. QED
    BY <2>2 DEF FirstVolume
<1>. QED
  BY <1>2, <1>3

\* The first release rounds to the nearest step: a volume it does not refuse can
\* lose more than the trade's risk, and by no more than half of what one step
\* loses (calculate_position_size of the first bot).
THEOREM FirstVolumeOvershoot ==
  ASSUME NEW t, Terms(t), NEW account \in Accounts, FirstVolume(t, account) # 0
  PROVE  2 * FirstVolume(t, account) * LossOfStep(t, account) * Whole
           <= 2 * account.balance * t.risk + LossOfStep(t, account) * Whole
<1>. DEFINE loss == LossOfStep(t, account)
            d == Whole * loss
            n == account.balance * t.risk
            v == FirstVolume(t, account)
            q == n \div d
            r == n % d
<1>1. loss \in Nat /\ d \in Nat /\ n \in Int /\ v \in Int
  BY LossType, FirstVolumeType DEF Whole, Terms, Accounts
<1>2. loss > 0 /\ d > 0
  BY <1>1 DEF FirstVolume, Whole
<1>3. q \in Int /\ n - q * d = r /\ r < d /\ r \in Nat /\ q * d \in Int
  BY <1>1, <1>2, RoundedDown
<1>4. v = q \/ (v = q + 1 /\ 2 * r >= d)
  BY <1>1, <1>3 DEF FirstVolume, Rounded
<1>5. (q + 1) * d = q * d + d
  BY <1>1, <1>3
<1>6. 2 * (v * d) <= 2 * n + d
  <2>. HIDE DEF d, n, q, r, v
  <2>1. CASE v = q
    BY <1>1, <1>3, <2>1
  <2>2. CASE v = q + 1 /\ 2 * r >= d
    BY <1>1, <1>3, <1>5, <2>2
  <2>. QED
    BY <1>4, <2>1, <2>2
<1>7. 2 * v * loss * Whole = 2 * (v * d) /\ loss * Whole = d
  <2>. HIDE DEF v, loss
  <2>. QED
    BY <1>1 DEF Whole
<1>8. 2 * account.balance * t.risk = 2 * n
  <2>1. account.balance \in Nat /\ t.risk \in Int
    BY DEF Terms, Accounts
  <2>. QED
    BY <2>1
<1>. QED
  BY <1>6, <1>7, <1>8
-----------------------------------------------------------------------------
(* The inductive invariant. *)

\* What a coroutine may be doing: the chat's do no candles and free no watch.
Before == {"called", "judging candle", "marking", "locking", "snapshot", "asking"}
Answered == {"parsed", "judging", "tracking"}
Settled == {"settling", "creating", "saving", "keeping"}
Phases == {"idle", "telling", "apologising"} \cup Before \cup Answered \cup Settled

Threads ==
  [pc : Phases, w : Nat, at : Nat, id : Nat, answer : Answers \cup {"none"},
   status : {"none"} \cup Statuses, volume : Int, busy : BOOLEAN]

Scenarios == LegacyScenarios \cup {a.scenario : a \in Answers}

\* The types the steps are proved from.  Once the successor owns the database
\* nothing of the bot runs, and its rows are not looked at.
Typed ==
  /\ price \in Seq(Prices) /\ Len(price) = clock /\ clock \in Nat \ {0}
  /\ release \in {"first", "second"}
  /\ release = "first" => watch \in Seq(RowsOf(Scenarios))
  /\ desk \in [Desks -> Threads]
  /\ told \subseteq Threads
  /\ analyses \in Nat /\ tracked \subseteq 1..analyses
  /\ \A d \in Desks : desk[d].at <= clock /\ desk[d].id <= analyses
-----------------------------------------------------------------------------
(* The watches. *)

\* Only a recheck, or what cut it short, leaves an open row marked.
RowExplained(w) ==
  /\ Open(w) /\ (watch[w].locked \/ watch[w].triggered) => Doing(w) \/ w \in lost
  /\ Open(w) /\ watch[w].locked => watch[w].triggered
  /\ w \in lost /\ Open(w) => watch[w].triggered
  /\ ~Open(w) /\ ~watch[w].triggered => \E c \in cut : c[1] = w

Marked(row) == ~row.closed /\ row.triggered
Free(row) == ~row.closed /\ ~row.triggered /\ ~row.locked

\* The row of the watch the monitor works on, in each phase of its work.
RowHeld(m) ==
  LET w == m.w
      row == watch[m.w]
  IN /\ m.pc # "called"
     /\ IF m.pc = "idle" THEN w = 0 ELSE w \in DOMAIN watch
     /\ m.pc \in {"judging candle", "marking", "keeping"} => Free(row)
     /\ m.pc = "locking" => Marked(row)
     /\ m.pc \in {"snapshot", "asking", "settling"} \cup Answered => Marked(row)
     /\ m.pc = "creating" => row.closed
     /\ m.pc = "saving" => row.closed \/ (m.busy /\ Marked(row))
     /\ m.pc = "telling" => row.closed \/ w \in lost
     /\ m.pc = "apologising" => \E c \in cut : c[1] = w
     /\ m.pc \notin {"idle", "telling"} /\ ~row.closed => w \notin lost

ChatHeld(m) ==
  /\ m.w = 0
  /\ m.pc \notin {"judging candle", "marking", "locking", "keeping", "apologising"}

WatchInv ==
  release = "first" =>
    /\ \A w \in DOMAIN watch : RowExplained(w)
    /\ lost \subseteq DOMAIN watch
    /\ RowHeld(desk["monitor"])
    /\ ChatHeld(desk["chat"])
-----------------------------------------------------------------------------
(* The trades. *)

\* Whether the analysis m has, or had, a row in trade_tracking.
Counted(m) == m.id \in tracked <=> m.status = "TRADE" /\ ~m.busy

\* One analysis on its way.
Handled(m) ==
  /\ m.pc \in {"idle", "apologising"} \cup Before => m.id = 0
  /\ m.pc = "asking" => m.at # 0
  /\ m.pc \in {"idle", "apologising"} \cup Before \cup Answered => ~m.busy
  /\ m.pc \in Answered \cup Settled => m.id # 0 /\ m.at # 0 /\ m.answer \in Answers
  /\ m.pc \in Answered => m.id \notin tracked
  /\ m.pc \in Answered \cup Settled /\ m.status = "TRADE" => m.answer.status = "TRADE"
  /\ m.pc = "tracking" => m.status = "TRADE" /\ Priced(m)
  /\ m.pc \in Settled => Counted(m) /\ (m.id \in tracked => Priced(m))
  /\ m.pc \in {"settling", "creating", "keeping"} => ~m.busy
  /\ m.pc \in {"creating", "keeping"} => m.status = "WATCH"
  /\ m.pc = "telling" /\ m.status = "TRADE" =>
       /\ m.id # 0 /\ m.at # 0 /\ Counted(m) /\ (m.id \in tracked => Priced(m))
       /\ <<m.id, "TRADE">> \in saved

\* One that was told.
Shown(m) ==
  /\ m.status = "TRADE" /\ m.id # 0 /\ m.id <= analyses /\ m.at # 0 /\ m.at <= clock
  /\ Counted(m) /\ (m.id \in tracked => Priced(m))
  /\ <<m.id, "TRADE">> \in saved

\* No two analyses have a number in common.
Numbered ==
  /\ desk["chat"].id # 0 => desk["chat"].id # desk["monitor"].id
  /\ \A d \in Desks : \A m \in told : desk[d].id # m.id

\* What is tracked is stored, on its way there, or was cut short.
TrackedAccounted ==
  \A id \in tracked :
    \/ <<id, "TRADE">> \in saved
    \/ \E c \in cut : c[2] = id
    \/ \E d \in Desks : desk[d].id = id /\ desk[d].pc \in {"settling", "saving"}

TradeInv ==
  /\ \A d \in Desks : Handled(desk[d])
  /\ \A m \in told : Shown(m)
  /\ Numbered
  /\ TrackedAccounted

IInv == Typed /\ WatchInv /\ TradeInv
-----------------------------------------------------------------------------
(* What a step keeps, whose desk it may be. *)

Moves(d, x) == desk' = [desk EXCEPT ![d] = x]

LEMMA Moved ==
  ASSUME Typed, NEW d \in Desks, NEW x \in Threads, Moves(d, x)
  PROVE  /\ desk' \in [Desks -> Threads]
         /\ desk'[d] = x
         /\ \A e \in Desks : e # d => desk'[e] = desk[e]
  BY DEF Typed, Moves

LEMMA TypedFrame ==
  ASSUME Typed, NEW d \in Desks, NEW x \in Threads, Moves(d, x), UNCHANGED market,
         watch' \in Seq(RowsOf(Scenarios)), told' \subseteq Threads,
         analyses' \in Nat, analyses <= analyses', tracked' \subseteq 1..analyses',
         x.at <= clock, x.id <= analyses'
  PROVE  Typed'
<1>1. /\ desk' \in [Desks -> Threads]
      /\ desk'[d] = x
      /\ \A e \in Desks : e # d => desk'[e] = desk[e]
  BY Moved
<1>2. /\ price' \in Seq(Prices) /\ Len(price') = clock' /\ clock' \in Nat \ {0}
      /\ release' \in {"first", "second"}
  BY DEF Typed, market
<1>3. ASSUME NEW e \in Desks PROVE desk'[e].at <= clock' /\ desk'[e].id <= analyses'
  <2>1. CASE e = d
    BY <1>1, <2>1 DEF market
  <2>2. CASE e # d
    <3>1. desk[e] \in Threads /\ desk[e].at <= clock /\ desk[e].id <= analyses
      BY DEF Typed
    <3>2. desk[e].id \in Nat /\ analyses \in Nat
      BY <3>1 DEF Threads, Typed
    <3>. QED
      BY <1>1, <2>2, <3>1, <3>2 DEF market
  <2>. QED
    BY <2>1, <2>2
<1>. QED
  BY <1>1, <1>2, <1>3 DEF Typed

\* A price that was read stays what it was.
LEMMA PricedStays ==
  ASSUME NEW m, NEW x, x.at = m.at, x.answer = m.answer, x.volume = m.volume,
         price' = price, Priced(m)
  PROVE  Priced(x)'
  BY DEF Priced

\* What is known of an analysis holds while nothing is tracked.
LEMMA HandledStays ==
  ASSUME NEW m, Handled(m), price' = price,
         m.id \in tracked' <=> m.id \in tracked, saved \subseteq saved'
  PROVE  Handled(m)'
<1>1. Priced(m) => Priced(m)'
  BY PricedStays
<1>2. Counted(m) => Counted(m)'
  BY DEF Counted
<1>. HIDE DEF Counted
<1>. QED
  BY <1>1, <1>2 DEF Handled

LEMMA HandledMoved ==
  ASSUME NEW m, NEW e \in Desks, desk'[e] = m, Handled(m)'
  PROVE  Handled(desk[e])'
  BY DEF Handled, Counted, Priced

LEMMA ShownStays ==
  ASSUME NEW m, Shown(m), Typed, price' = price, clock' = clock,
         analyses' \in Nat, analyses <= analyses', m \in Threads,
         m.id \in tracked' <=> m.id \in tracked, saved \subseteq saved'
  PROVE  Shown(m)'
<1>1. Priced(m) => Priced(m)'
  BY PricedStays
<1>2. Counted(m) => Counted(m)'
  BY DEF Counted
<1>3. m.id <= analyses => m.id <= analyses'
  BY DEF Threads, Typed
<1>. QED
  BY <1>1, <1>2, <1>3 DEF Shown

\* A step of one desk that neither tracks nor tells.
LEMMA TradeFrame ==
  ASSUME Typed, TradeInv, NEW d \in Desks, NEW x \in Threads, Moves(d, x),
         UNCHANGED market, tracked' = tracked, saved \subseteq saved', told' = told,
         cut \subseteq cut', analyses' \in Nat, analyses <= analyses',
         Handled(x)', x.id \in {0, desk[d].id, analyses + 1},
         desk[d].id \in tracked /\ desk[d].pc \in {"settling", "saving"} =>
           \/ x.id = desk[d].id /\ x.pc \in {"settling", "saving"}
           \/ <<desk[d].id, "TRADE">> \in saved'
           \/ \E c \in cut' : c[2] = desk[d].id
  PROVE  TradeInv'
<1>1. /\ desk'[d] = x
      /\ \A e \in Desks : e # d => desk'[e] = desk[e]
  BY Moved
<1>2. ASSUME NEW e \in Desks PROVE Handled(desk[e])'
  <2>1. CASE e = d
    BY <1>1, <2>1, HandledMoved
  <2>2. CASE e # d
    <3>1. PICK m : m = desk[e]
      OBVIOUS
    <3>2. Handled(m)
      BY <3>1 DEF TradeInv
    <3>3. Handled(m)'
      BY <3>2, HandledStays DEF market
    <3>4. desk'[e] = m
      BY <1>1, <2>2, <3>1
    <3>. QED
      BY <3>3, <3>4, HandledMoved
  <2>. QED
    BY <2>1, <2>2
<1>3. ASSUME NEW m \in told' PROVE Shown(m)'
  <2>1. Shown(m) /\ m \in Threads
    BY DEF TradeInv, Typed
  <2>. QED
    BY <2>1, ShownStays DEF market
<1>4. Numbered'
  <2>1. \A e \in Desks : desk[e].id <= analyses /\ desk[e].id \in Nat /\ analyses \in Nat
    BY DEF Typed, Threads
  <2>2. \A m \in told : m.id <= analyses /\ m.id # 0 /\ m.id \in Nat
    BY DEF TradeInv, Shown, Typed, Threads
  <2>3. ASSUME NEW e \in Desks, NEW m \in told' PROVE desk'[e].id # m.id
    <3>1. desk[e].id # m.id /\ m \in told
      BY DEF TradeInv, Numbered
    <3>. QED
      BY <1>1, <2>1, <2>2, <3>1
  <2>4. desk'["chat"].id # 0 => desk'["chat"].id # desk'["monitor"].id
    <3>1. desk["chat"].id # 0 => desk["chat"].id # desk["monitor"].id
      BY DEF TradeInv, Numbered
    <3>. QED
      BY <1>1, <2>1, <3>1 DEF Desks
  <2>. QED
    BY <2>3, <2>4 DEF Numbered
<1>5. TrackedAccounted'
  <2>. SUFFICES ASSUME NEW id \in tracked
                PROVE  \/ <<id, "TRADE">> \in saved'
                       \/ \E c \in cut' : c[2] = id
                       \/ \E e \in Desks : desk'[e].id = id /\ desk'[e].pc \in {"settling", "saving"}
    BY DEF TrackedAccounted
  <2>1. CASE <<id, "TRADE">> \in saved
    BY <2>1
  <2>2. CASE \E c \in cut : c[2] = id
    BY <2>2
  <2>3. ASSUME NEW e \in Desks, desk[e].id = id, desk[e].pc \in {"settling", "saving"}
        PROVE  \/ <<id, "TRADE">> \in saved'
               \/ \E c \in cut' : c[2] = id
               \/ \E f \in Desks : desk'[f].id = id /\ desk'[f].pc \in {"settling", "saving"}
    BY <1>1, <2>3
  <2>. QED
    BY <2>1, <2>2, <2>3 DEF TradeInv, TrackedAccounted
<1>. QED
  BY <1>2, <1>3, <1>4, <1>5 DEF TradeInv

LEMMA RowMoved ==
  ASSUME NEW m, desk'["monitor"] = m, RowHeld(m)'
  PROVE  RowHeld(desk["monitor"])'
  BY DEF RowHeld, Free, Marked

\* A step of the chat that leaves the table alone.
LEMMA ChatFrame ==
  ASSUME Typed, WatchInv, NEW x \in Threads, Moves("chat", x), ChatHeld(x),
         release' = release, watch' = watch, lost' = lost, cut \subseteq cut'
  PROVE  WatchInv'
<1>1. desk'["chat"] = x /\ desk'["monitor"] = desk["monitor"]
  BY Moved DEF Desks
<1>. SUFFICES ASSUME release = "first" PROVE WatchInv'
  BY DEF WatchInv
<1>2. ASSUME NEW w \in DOMAIN watch PROVE RowExplained(w)'
  <2>1. RowExplained(w)
    BY DEF WatchInv
  <2>2. Open(w)' <=> Open(w)
    BY DEF Open
  <2>3. Doing(w)' <=> Doing(w)
    BY <1>1 DEF Doing
  <2>. QED
    BY <2>1, <2>2, <2>3 DEF RowExplained
<1>3. RowHeld(desk["monitor"])'
  <2>1. PICK m : m = desk["monitor"]
    OBVIOUS
  <2>2. RowHeld(m)
    BY <2>1 DEF WatchInv
  <2>3. RowHeld(m)'
    BY <2>2 DEF RowHeld, Free, Marked
  <2>. QED
    BY <1>1, <2>1, <2>3, RowMoved
<1>4. ChatHeld(desk["chat"])'
  BY <1>1 DEF ChatHeld
<1>5. lost' \subseteq DOMAIN watch'
  BY DEF WatchInv
<1>. QED
  BY <1>2, <1>3, <1>4, <1>5 DEF WatchInv

\* A step of the monitor on the watch w.
LEMMA MonitorFrame ==
  ASSUME Typed, WatchInv, release = "first", NEW x \in Threads, Moves("monitor", x),
         NEW w \in DOMAIN watch, DOMAIN watch' = DOMAIN watch,
         \A u \in DOMAIN watch : u # w => watch'[u] = watch[u] /\ ~Doing(u),
         lost \subseteq lost', lost' \subseteq lost \cup {w}, cut \subseteq cut',
         RowExplained(w)', RowHeld(x)'
  PROVE  WatchInv'
<1>1. desk'["monitor"] = x /\ desk'["chat"] = desk["chat"]
  BY Moved DEF Desks
<1>2. ASSUME NEW u \in DOMAIN watch PROVE RowExplained(u)'
  <2>1. CASE u = w
    BY <2>1
  <2>2. CASE u # w
    <3>1. RowExplained(u)
      BY DEF WatchInv
    <3>2. ~Doing(u) /\ watch'[u] = watch[u]
      BY <2>2
    <3>3. Open(u)' <=> Open(u)
      BY <3>2 DEF Open
    <3>. QED
      BY <2>2, <3>1, <3>2, <3>3 DEF RowExplained
  <2>. QED
    BY <2>1, <2>2
<1>3. RowHeld(desk["monitor"])'
  BY <1>1, RowMoved
<1>4. ChatHeld(desk["chat"])'
  BY <1>1 DEF ChatHeld, WatchInv
<1>5. lost' \subseteq DOMAIN watch'
  BY DEF WatchInv
<1>. QED
  BY <1>2, <1>3, <1>4, <1>5 DEF WatchInv

\* What the monitor works on is a row of the table, and the only one.
LEMMA MonitorRow ==
  ASSUME Typed, WatchInv, release = "first", NEW m, m = desk["monitor"], m.pc # "idle"
  PROVE  /\ m \in Threads /\ m.w \in DOMAIN watch /\ watch[m.w] \in RowsOf(Scenarios)
         /\ RowHeld(m) /\ RowExplained(m.w)
         /\ \A u \in DOMAIN watch : u # m.w => ~Doing(u)
<1>1. m \in Threads /\ RowHeld(m)
  BY DEF Typed, Desks, WatchInv
<1>2. m.w \in DOMAIN watch
  BY <1>1 DEF RowHeld
<1>3. watch[m.w] \in RowsOf(Scenarios)
  BY <1>2 DEF Typed
<1>4. \A u \in DOMAIN watch : u # m.w => ~Doing(u)
  BY DEF Doing
<1>5. RowExplained(m.w)
  BY <1>2 DEF WatchInv
<1>. QED
  BY <1>1, <1>2, <1>3, <1>4, <1>5

\* update_watch_flags changes the flags of its row.
LEMMA FlagsRow ==
  ASSUME Typed, release = "first", NEW w \in DOMAIN watch,
         NEW l \in BOOLEAN, NEW t \in BOOLEAN, NEW c \in BOOLEAN, Flags(w, l, t, c)
  PROVE  /\ watch' \in Seq(RowsOf(Scenarios)) /\ DOMAIN watch' = DOMAIN watch
         /\ watch'[w].locked = l /\ watch'[w].triggered = t /\ watch'[w].closed = c
         /\ \A u \in DOMAIN watch : u # w => watch'[u] = watch[u]
<1>. DEFINE r == [watch[w] EXCEPT !.locked = l, !.triggered = t, !.closed = c]
<1>1. watch[w] \in RowsOf(Scenarios) /\ watch \in Seq(RowsOf(Scenarios))
  BY DEF Typed
<1>2. r \in RowsOf(Scenarios) /\ r.locked = l /\ r.triggered = t /\ r.closed = c
  BY <1>1 DEF RowsOf
<1>3. watch' = [watch EXCEPT ![w] = r]
  BY <1>1 DEF Flags, RowsOf
<1>. HIDE DEF r
<1>4. watch' \in Seq(RowsOf(Scenarios)) /\ DOMAIN watch' = DOMAIN watch
  BY <1>1, <1>2, <1>3
<1>5. watch'[w] = r /\ \A u \in DOMAIN watch : u # w => watch'[u] = watch[u]
  BY <1>1, <1>3
<1>. QED
  BY <1>2, <1>4, <1>5
-----------------------------------------------------------------------------
(* Steps that change only what one desk is doing. *)

LEMMA IdleHeld ==
  /\ Idle \in Threads /\ Idle.w = 0 /\ Idle.at = 0 /\ Idle.id = 0 /\ Idle.pc = "idle"
  /\ Handled(Idle) /\ RowHeld(Idle) /\ ChatHeld(Idle)
  /\ Handled(Idle)' /\ RowHeld(Idle)'
<1>1. Idle \in Threads
  BY DEF Idle, Threads, Phases, Statuses
<1>2. Handled(Idle) /\ Handled(Idle)'
  BY DEF Idle, Handled, Before, Answered, Settled
<1>3. RowHeld(Idle) /\ RowHeld(Idle)' /\ ChatHeld(Idle)
  BY DEF Idle, RowHeld, ChatHeld, Answered
<1>. QED
  BY <1>1, <1>2, <1>3 DEF Idle

LEMMA QuietStep ==
  ASSUME IInv, release = "first", NEW d \in Desks, NEW m, m = desk[d],
         m.pc \notin {"settling", "saving"}, d = "monitor" => m.pc # "idle",
         UNCHANGED <<market, tables, history>>, analyses' \in Nat, analyses <= analyses',
         NEW x \in Threads, Moves(d, x), x.w = m.w, x.at <= clock,
         x.id = m.id \/ (x.id = analyses + 1 /\ analyses' = analyses + 1),
         Handled(x), d = "chat" => ChatHeld(x), d = "monitor" => RowHeld(x)
  PROVE  IInv'
<1>. USE DEF market, tables, history
<1>1. /\ Typed /\ WatchInv /\ TradeInv
      /\ m \in Threads /\ m.at <= clock /\ m.id <= analyses
  BY DEF IInv, Typed
<1>2. /\ m.id \in Nat /\ analyses \in Nat
      /\ x.id <= analyses' /\ x.id \in {0, desk[d].id, analyses + 1}
  BY <1>1 DEF Typed, Threads
<1>3. Typed'
  <2>1. watch' \in Seq(RowsOf(Scenarios)) /\ told' \subseteq Threads
    BY <1>1 DEF Typed
  <2>2. tracked' \subseteq 1..analyses'
    BY <1>1 DEF Typed
  <2>. QED
    BY <1>1, <1>2, <2>1, <2>2, TypedFrame
<1>4. TradeInv'
  <2>1. Handled(x)'
    BY HandledStays
  <2>. QED
    BY <1>1, <1>2, <2>1, TradeFrame
<1>5. WatchInv'
  <2>1. CASE d = "chat"
    BY <1>1, <2>1, ChatFrame
  <2>2. CASE d = "monitor"
    <3>1. /\ m.w \in DOMAIN watch /\ RowExplained(m.w)
          /\ \A u \in DOMAIN watch : u # m.w => ~Doing(u)
      BY <1>1, <2>2, MonitorRow
    <3>2. RowHeld(x)'
      BY <2>2 DEF RowHeld, Free, Marked
    <3>3. RowExplained(m.w)'
      <4>1. desk'["monitor"] = x
        BY <1>1, <2>2, Moved
      <4>2. PICK w : w = m.w
        OBVIOUS
      <4>3. Doing(w)'
        BY <4>1, <4>2 DEF Doing
      <4>4. RowExplained(w)
        BY <3>1, <4>2
      <4>5. RowExplained(w)'
        BY <4>3, <4>4 DEF RowExplained, Open
      <4>. QED
        BY <4>2, <4>5
    <3>. QED
      BY <1>1, <2>2, <3>1, <3>2, <3>3, MonitorFrame
  <2>. QED
    BY <2>1, <2>2 DEF Desks
<1>. QED
  BY <1>3, <1>4, <1>5 DEF IInv

LEMMA DeskHeld ==
  ASSUME IInv, release = "first", NEW d \in Desks, NEW m, m = desk[d]
  PROVE  /\ m \in Threads /\ m.at <= clock /\ m.id <= analyses /\ Handled(m)
         /\ m.id \in Nat /\ m.at \in Nat /\ clock \in Nat \ {0} /\ analyses \in Nat
         /\ d = "chat" => ChatHeld(m)
         /\ d = "monitor" => RowHeld(m)
<1>1. m \in Threads /\ m.at <= clock /\ m.id <= analyses /\ clock \in Nat \ {0} /\ analyses \in Nat
  BY DEF IInv, Typed
<1>2. Handled(m)
  BY DEF IInv, TradeInv
<1>3. (d = "chat" => ChatHeld(m)) /\ (d = "monitor" => RowHeld(m))
  BY DEF IInv, WatchInv
<1>. QED
  BY <1>1, <1>2, <1>3 DEF Threads

LEMMA ChatStarts ==
  ASSUME IInv, Command \/ Begin
  PROVE  IInv'
<1>1. PICK m : m = desk["chat"]
  OBVIOUS
<1>2. PICK x : x = [m EXCEPT !.pc = IF Command THEN "called" ELSE "snapshot"]
  OBVIOUS
<1>3. /\ release = "first" /\ Moves("chat", x) /\ m.pc \in {"idle", "called"}
      /\ UNCHANGED <<market, tables, history>> /\ analyses' = analyses
  BY <1>1, <1>2 DEF Command, Begin, At, Go, Moves, bounds
<1>4. /\ m \in Threads /\ m.at <= clock /\ Handled(m) /\ ChatHeld(m) /\ analyses \in Nat
  BY <1>1, <1>3, DeskHeld DEF Desks
<1>5. x \in Threads /\ x.w = m.w /\ x.id = m.id /\ x.at = m.at
  BY <1>2, <1>4 DEF Threads, Phases, Before
<1>6. Handled(x) /\ ChatHeld(x)
  BY <1>2, <1>3, <1>4 DEF Handled, ChatHeld, Threads, Before, Answered, Settled
<1>. QED
  BY <1>1, <1>3, <1>4, <1>5, <1>6, QuietStep DEF Desks

LEMMA TakeSnapshotStep ==
  ASSUME IInv, NEW d \in Desks, TakeSnapshot(d)
  PROVE  IInv'
<1>1. PICK m : m = desk[d]
  OBVIOUS
<1>2. PICK x : x = IF d = "chat" /\ \E w \in DOMAIN watch : Open(w)
                   THEN [m EXCEPT !.pc = "telling", !.status = "WATCH"]
                   ELSE [m EXCEPT !.pc = "asking", !.at = clock]
  OBVIOUS
<1>3. release = "first" /\ m.pc = "snapshot"
  BY <1>1 DEF TakeSnapshot, At
<1>4. /\ m \in Threads /\ m.at <= clock /\ Handled(m) /\ clock \in Nat \ {0} /\ analyses \in Nat
      /\ d = "chat" => ChatHeld(m)
      /\ d = "monitor" => RowHeld(m)
  BY <1>1, <1>3, DeskHeld
<1>5. Moves(d, x) /\ UNCHANGED <<market, tables, history>> /\ analyses' = analyses
  BY <1>1, <1>2 DEF TakeSnapshot, Moves, bounds
<1>6. x \in Threads
  BY <1>2, <1>4 DEF Threads, Phases, Before, Statuses
<1>7. /\ x.w = m.w /\ x.id = m.id /\ x.at <= clock /\ x.busy = m.busy
      /\ \/ x.pc = "telling" /\ x.status = "WATCH"
         \/ x.pc = "asking" /\ x.at = clock
  BY <1>2, <1>4 DEF Threads
<1>8. Handled(x)
  BY <1>3, <1>4, <1>6, <1>7 DEF Handled, Before, Answered, Settled
<1>9. d = "chat" => ChatHeld(x)
  BY <1>4, <1>7 DEF ChatHeld
<1>10. d = "monitor" => RowHeld(x)
  <2>1. d = "monitor" => x.pc = "asking"
    BY <1>2, <1>4 DEF Threads
  <2>. QED
    BY <1>3, <1>4, <1>7, <2>1 DEF RowHeld, Answered
<1>. QED
  BY <1>1, <1>3, <1>4, <1>5, <1>6, <1>7, <1>8, <1>9, <1>10, QuietStep

LEMMA AnswerStep ==
  ASSUME IInv, NEW d \in Desks, Answer(d)
  PROVE  IInv'
<1>1. PICK m : m = desk[d]
  OBVIOUS
<1>2. PICK a \in Answers :
        desk' = [desk EXCEPT ![d].pc = "parsed", ![d].id = analyses + 1, ![d].answer = a,
                             ![d].status = ParsedStatus(a)]
  BY DEF Answer
<1>3. PICK x : x = [m EXCEPT !.pc = "parsed", !.id = analyses + 1, !.answer = a,
                             !.status = ParsedStatus(a)]
  OBVIOUS
<1>4. release = "first" /\ m.pc = "asking"
  BY <1>1 DEF Answer, At
<1>5. /\ m \in Threads /\ m.at <= clock /\ Handled(m) /\ clock \in Nat \ {0} /\ analyses \in Nat
      /\ d = "chat" => ChatHeld(m)
      /\ d = "monitor" => RowHeld(m)
  BY <1>1, <1>4, DeskHeld
<1>6. Moves(d, x) /\ UNCHANGED <<market, tables, history>> /\ analyses' = analyses + 1
  BY <1>1, <1>2, <1>3 DEF Answer, Moves
<1>7. ParsedStatus(a) \in Statuses /\ (ParsedStatus(a) = "TRADE" => a.status = "TRADE")
  BY FirstBotAssumption DEF ParsedStatus, Statuses
<1>8. /\ x \in Threads /\ x.w = m.w /\ x.id = analyses + 1 /\ x.at = m.at
      /\ x.busy = m.busy /\ x.pc = "parsed" /\ x.answer = a /\ x.status = ParsedStatus(a)
  <2>1. PICK i, s : i = analyses + 1 /\ s = ParsedStatus(a)
    OBVIOUS
  <2>2. /\ i \in Nat /\ s \in {"none"} \cup Statuses /\ "parsed" \in Phases
        /\ a \in Answers \cup {"none"}
    BY <1>5, <1>7, <2>1 DEF Phases, Answered
  <2>3. x = [m EXCEPT !.pc = "parsed", !.id = i, !.answer = a, !.status = s]
    BY <1>3, <2>1
  <2>4. x \in Threads
    BY <1>5, <2>2, <2>3 DEF Threads
  <2>. QED
    BY <1>3, <1>5, <2>4 DEF Threads
<1>9. Handled(x)
  <2>1. analyses + 1 \notin tracked
    BY <1>5 DEF IInv, Typed
  <2>. QED
    BY <1>4, <1>5, <1>7, <1>8, <2>1 DEF Handled, Before, Answered, Settled
<1>10. d = "chat" => ChatHeld(x)
  BY <1>5, <1>8 DEF ChatHeld
<1>11. d = "monitor" => RowHeld(x)
  BY <1>4, <1>5, <1>8 DEF RowHeld, Answered
<1>. QED
  BY <1>1, <1>4, <1>5, <1>6, <1>8, <1>9, <1>10, <1>11, QuietStep

LEMMA AccountStep ==
  ASSUME IInv, NEW d \in Desks, AccountBusy(d) \/ AccountFree(d)
  PROVE  IInv'
<1>1. PICK m : m = desk[d]
  OBVIOUS
<1>2. PICK x : \/ AccountBusy(d) /\ x = [m EXCEPT !.pc = "saving", !.busy = TRUE]
               \/ AccountFree(d) /\ x = [m EXCEPT !.pc = "judging"]
  OBVIOUS
<1>3. release = "first" /\ m.pc = "parsed"
  BY <1>1 DEF AccountBusy, AccountFree, At
<1>4. /\ m \in Threads /\ m.at <= clock /\ Handled(m) /\ clock \in Nat \ {0} /\ analyses \in Nat
      /\ d = "chat" => ChatHeld(m)
      /\ d = "monitor" => RowHeld(m)
  BY <1>1, <1>3, DeskHeld
<1>5. Moves(d, x) /\ UNCHANGED <<market, tables, history>> /\ analyses' = analyses
  BY <1>1, <1>2 DEF AccountBusy, AccountFree, Go, Moves, bounds
<1>6. /\ x \in Threads /\ x.w = m.w /\ x.id = m.id /\ x.at = m.at
      /\ x.answer = m.answer /\ x.status = m.status
      /\ \/ x.pc = "saving" /\ x.busy
         \/ x.pc = "judging" /\ x.busy = m.busy
  <2>1. x \in Threads
    BY <1>2, <1>4 DEF Threads, Phases, Answered, Settled
  <2>. QED
    BY <1>2, <1>4, <2>1 DEF Threads
<1>7. Handled(x)
  BY <1>3, <1>4, <1>6 DEF Handled, Counted, Before, Answered, Settled
<1>8. d = "chat" => ChatHeld(x)
  BY <1>4, <1>6 DEF ChatHeld
<1>9. d = "monitor" => RowHeld(x)
  BY <1>3, <1>4, <1>6 DEF RowHeld, Answered
<1>. QED
  BY <1>1, <1>3, <1>4, <1>5, <1>6, <1>7, <1>8, <1>9, QuietStep

LEMMA JudgeStep ==
  ASSUME IInv, NEW d \in Desks, Judge(d)
  PROVE  IInv'
<1>1. PICK m : m = desk[d]
  OBVIOUS
<1>2. release = "first" /\ m.pc = "judging"
  BY <1>1 DEF Judge, At
<1>3. /\ m \in Threads /\ m.at <= clock /\ Handled(m) /\ clock \in Nat \ {0} /\ analyses \in Nat
      /\ d = "chat" => ChatHeld(m)
      /\ d = "monitor" => RowHeld(m)
  BY <1>1, <1>2, DeskHeld
<1>4. /\ m.id # 0 /\ m.at # 0 /\ ~m.busy /\ m.answer \in Answers /\ m.id \notin tracked
      /\ m.status = "TRADE" => m.answer.status = "TRADE"
  BY <1>2, <1>3 DEF Handled, Answered
<1>5. \E x \in Threads :
        /\ Moves(d, x) /\ x.w = m.w /\ x.id = m.id /\ x.at = m.at /\ x.busy = m.busy
        /\ x.answer = m.answer
        /\ \/ x.pc = "settling" /\ x.status # "TRADE"
           \/ x.pc = "tracking" /\ x.status = "TRADE" /\ Priced(x) /\ x.status = m.status
  <2>1. CASE m.status # "TRADE"
    <3>1. PICK x : x = [m EXCEPT !.pc = "settling"]
      OBVIOUS
    <3>2. Moves(d, x)
      BY <1>1, <2>1, <3>1 DEF Judge, Go, Moves
    <3>3. /\ x \in Threads /\ x.w = m.w /\ x.id = m.id /\ x.at = m.at /\ x.busy = m.busy
          /\ x.answer = m.answer /\ x.pc = "settling" /\ x.status = m.status
      BY <1>3, <3>1 DEF Threads, Phases, Settled
    <3>. QED
      BY <2>1, <3>2, <3>3
  <2>2. CASE m.status = "TRADE"
    <3>. DEFINE bid == price[m.at]
    <3>1. PICK friday \in BOOLEAN :
            desk' = IF FirstTerms(m.answer, bid, bid + 1, friday)
                    THEN [desk EXCEPT ![d].pc = "tracking",
                                      ![d].volume = FirstVolume(m.answer, Account)]
                    ELSE [desk EXCEPT ![d].pc = "settling", ![d].status = "NO_TRADE"]
      BY <1>1, <2>2 DEF Judge
    <3>2. CASE ~FirstTerms(m.answer, bid, bid + 1, friday)
      <4>1. PICK x : x = [m EXCEPT !.pc = "settling", !.status = "NO_TRADE"]
        OBVIOUS
      <4>2. Moves(d, x)
        BY <1>1, <3>1, <3>2, <4>1 DEF Moves
      <4>3. /\ x \in Threads /\ x.w = m.w /\ x.id = m.id /\ x.at = m.at /\ x.busy = m.busy
            /\ x.answer = m.answer /\ x.pc = "settling" /\ x.status = "NO_TRADE"
        BY <1>3, <4>1 DEF Threads, Phases, Settled, Statuses
      <4>. QED
        BY <4>2, <4>3
    <3>3. CASE FirstTerms(m.answer, bid, bid + 1, friday)
      <4>1. PICK v : v = FirstVolume(m.answer, Account)
        OBVIOUS
      <4>2. PICK x : x = [m EXCEPT !.pc = "tracking", !.volume = v]
        OBVIOUS
      <4>3. Moves(d, x)
        BY <1>1, <3>1, <3>3, <4>1, <4>2 DEF Moves
      <4>4. Terms(m.answer) /\ Account \in Accounts
        BY <1>4, <2>2, FirstBotAssumption DEF Terms, Accounts
      <4>5. v \in Int
        BY <4>1, <4>4, FirstVolumeType
      <4>6. /\ x \in Threads /\ x.w = m.w /\ x.id = m.id /\ x.at = m.at /\ x.busy = m.busy
            /\ x.answer = m.answer /\ x.pc = "tracking" /\ x.status = m.status /\ x.volume = v
        BY <1>3, <4>2, <4>5 DEF Threads, Phases, Answered
      <4>7. v # 0 =>
              2 * v * LossOfStep(m.answer, Account) * Whole
                <= 2 * Account.balance * m.answer.risk + LossOfStep(m.answer, Account) * Whole
        BY <4>1, <4>4, FirstVolumeOvershoot
      <4>8. Priced(x)
        BY <3>3, <4>6, <4>7 DEF Priced
      <4>. QED
        BY <2>2, <4>3, <4>6, <4>8
    <3>. QED
      BY <3>2, <3>3
  <2>. QED
    BY <2>1, <2>2
<1>6. PICK x \in Threads :
        /\ Moves(d, x) /\ x.w = m.w /\ x.id = m.id /\ x.at = m.at /\ x.busy = m.busy
        /\ x.answer = m.answer
        /\ \/ x.pc = "settling" /\ x.status # "TRADE"
           \/ x.pc = "tracking" /\ x.status = "TRADE" /\ Priced(x) /\ x.status = m.status
  BY <1>5
<1>7. Handled(x)
  BY <1>4, <1>6 DEF Handled, Counted, Before, Answered, Settled
<1>8. d = "chat" => ChatHeld(x)
  BY <1>3, <1>6 DEF ChatHeld
<1>9. d = "monitor" => RowHeld(x)
  BY <1>2, <1>3, <1>6 DEF RowHeld, Answered
<1>10. UNCHANGED <<market, tables, history>> /\ analyses' = analyses
  BY DEF Judge, bounds
<1>. QED
  BY <1>1, <1>2, <1>3, <1>6, <1>7, <1>8, <1>9, <1>10, QuietStep
-----------------------------------------------------------------------------
(* Steps of the monitor on a row, and of the chat beside the table. *)

LEMMA MonitorStep ==
  ASSUME IInv, release = "first", NEW m, m = desk["monitor"], NEW w \in DOMAIN watch,
         m.pc = "idle" \/ m.w = w,
         NEW x \in Threads, Moves("monitor", x), x.at <= clock, x.id \in {0, m.id},
         UNCHANGED <<market, tracked, told, analyses>>, saved \subseteq saved',
         watch' \in Seq(RowsOf(Scenarios)), DOMAIN watch' = DOMAIN watch,
         \A u \in DOMAIN watch : u # w => watch'[u] = watch[u],
         lost \subseteq lost', lost' \subseteq lost \cup {w}, cut \subseteq cut',
         Handled(x)', RowHeld(x)', RowExplained(w)',
         m.id \in tracked /\ m.pc \in {"settling", "saving"} =>
           \/ x.id = m.id /\ x.pc \in {"settling", "saving"}
           \/ <<m.id, "TRADE">> \in saved'
           \/ \E c \in cut' : c[2] = m.id
  PROVE  IInv'
<1>1. Typed /\ WatchInv /\ TradeInv
  BY DEF IInv
<1>2. /\ m \in Threads /\ m.id <= analyses /\ m.id \in Nat /\ analyses \in Nat /\ RowHeld(m)
      /\ "monitor" \in Desks
  BY DeskHeld DEF Desks
<1>3. Typed'
  <2>1. x.id <= analyses'
    BY <1>2
  <2>2. told' \subseteq Threads /\ tracked' \subseteq 1..analyses'
    BY <1>1 DEF Typed
  <2>. QED
    BY <1>1, <1>2, <2>1, <2>2, TypedFrame
<1>4. TradeInv'
  BY <1>1, <1>2, TradeFrame
<1>5. WatchInv'
  <2>1. \A u \in DOMAIN watch : u # w => ~Doing(u)
    <3>1. m.pc = "idle" => m.w = 0
      BY <1>2 DEF RowHeld
    <3>2. 0 \notin DOMAIN watch
      BY <1>1 DEF Typed
    <3>. QED
      BY <3>1, <3>2 DEF Doing
  <2>. QED
    BY <1>1, <2>1, MonitorFrame
<1>. QED
  BY <1>3, <1>4, <1>5 DEF IInv

LEMMA ChatStep ==
  ASSUME IInv, release = "first", NEW m, m = desk["chat"],
         NEW x \in Threads, Moves("chat", x), x.at <= clock, x.id \in {0, m.id},
         UNCHANGED <<market, watch, tracked, told, lost, analyses>>, saved \subseteq saved',
         cut \subseteq cut', Handled(x)', ChatHeld(x),
         m.id \in tracked /\ m.pc \in {"settling", "saving"} =>
           \/ x.id = m.id /\ x.pc \in {"settling", "saving"}
           \/ <<m.id, "TRADE">> \in saved'
           \/ \E c \in cut' : c[2] = m.id
  PROVE  IInv'
<1>1. Typed /\ WatchInv /\ TradeInv
  BY DEF IInv
<1>2. /\ m \in Threads /\ m.id <= analyses /\ m.id \in Nat /\ analyses \in Nat
      /\ "chat" \in Desks
  BY DeskHeld DEF Desks
<1>3. Typed'
  <2>1. x.id <= analyses'
    BY <1>2
  <2>2. /\ told' \subseteq Threads /\ tracked' \subseteq 1..analyses'
        /\ watch' \in Seq(RowsOf(Scenarios))
    BY <1>1 DEF Typed
  <2>. QED
    BY <1>1, <1>2, <2>1, <2>2, TypedFrame
<1>4. TradeInv'
  BY <1>1, <1>2, TradeFrame
<1>5. WatchInv'
  BY <1>1, ChatFrame DEF market
<1>. QED
  BY <1>3, <1>4, <1>5 DEF IInv

\* A watch that is looked at is not among those given up.
LEMMA WatchedKept ==
  ASSUME IInv, release = "first", NEW w \in DOMAIN watch, Watched(w)
  PROVE  w \notin lost
  BY DEF IInv, WatchInv, RowExplained, Watched

LEMMA CandleType == ASSUME Typed PROVE Candle(clock) \in Nat
<1>1. PICK n, d : n = clock - 1 /\ d = Length["M5"]
  OBVIOUS
<1>2. n \in Nat /\ d \in Nat /\ d > 0 /\ clock = n + 1
  BY <1>1, FirstBotAssumption DEF Typed, Frames
<1>3. n \div d \in Nat /\ n - (n % d) = (n \div d) * d /\ n % d \in Nat
  BY <1>2
<1>4. (n \div d) * d \in Nat
  BY <1>2, <1>3
<1>5. (n + 1) - (n % d) \in Nat
  BY <1>2, <1>3, <1>4
<1>. QED
  BY <1>1, <1>2, <1>5 DEF Candle

LEMMA FindStep ==
  ASSUME IInv, NEW w \in DOMAIN watch, FindExpired(w) \/ TakeCandle(w)
  PROVE  IInv'
<1>1. PICK m : m = desk["monitor"]
  OBVIOUS
<1>2. /\ release = "first" /\ m.pc = "idle" /\ Watched(w)
      /\ UNCHANGED <<market, tracked, saved, told, lost, cut, analyses>>
  BY <1>1 DEF FindExpired, TakeCandle, At, tables, history, bounds
<1>3. /\ m \in Threads /\ m.at <= clock /\ m.id <= analyses /\ Handled(m) /\ RowHeld(m)
      /\ clock \in Nat \ {0} /\ Typed
  BY <1>1, <1>2, DeskHeld DEF Desks, IInv
<1>4. PICK x : x = IF FindExpired(w) THEN [m EXCEPT !.pc = "marking", !.w = w]
                   ELSE [m EXCEPT !.pc = "judging candle", !.w = w, !.at = clock]
  OBVIOUS
<1>5. Moves("monitor", x)
  BY <1>1, <1>4 DEF Moves, FindExpired, TakeCandle
<1>6. /\ x \in Threads /\ x.w = w /\ x.id = m.id /\ x.at <= clock /\ x.busy = m.busy
      /\ x.pc \in {"marking", "judging candle"}
  <2>1. w \in Nat
    BY <1>2, <1>3 DEF Typed
  <2>2. x \in Threads
    BY <1>3, <1>4, <2>1 DEF Threads, Phases, Before
  <2>. QED
    BY <1>3, <1>4, <2>2 DEF Threads
<1>7. /\ watch' \in Seq(RowsOf(Scenarios)) /\ DOMAIN watch' = DOMAIN watch
      /\ \A u \in DOMAIN watch : u # w => watch'[u] = watch[u]
      /\ watch'[w].closed = watch[w].closed /\ watch'[w].locked = watch[w].locked
      /\ watch'[w].triggered = watch[w].triggered
  <2>1. watch \in Seq(RowsOf(Scenarios)) /\ watch[w] \in RowsOf(Scenarios)
    BY <1>2, <1>3 DEF Typed
  <2>2. CASE watch' = watch
    BY <2>1, <2>2
  <2>3. CASE watch' = [watch EXCEPT ![w].checked = Candle(clock)]
    <3>1. PICK r : r = [watch[w] EXCEPT !.checked = Candle(clock)]
      OBVIOUS
    <3>2. /\ r \in RowsOf(Scenarios) /\ r.closed = watch[w].closed
          /\ r.locked = watch[w].locked /\ r.triggered = watch[w].triggered
      BY <1>3, <2>1, <3>1, CandleType DEF RowsOf
    <3>3. watch' = [watch EXCEPT ![w] = r]
      BY <2>1, <2>3, <3>1 DEF RowsOf
    <3>. QED
      BY <2>1, <3>2, <3>3
  <2>. QED
    BY <2>2, <2>3 DEF FindExpired, TakeCandle, tables
<1>8. Handled(x)'
  <2>1. Handled(x)
    BY <1>2, <1>3, <1>6 DEF Handled, Before, Answered, Settled
  <2>. QED
    BY <1>2, <2>1, HandledStays DEF market
<1>9. RowHeld(x)'
  <2>1. w \notin lost
    BY <1>2, WatchedKept
  <2>. QED
    BY <1>2, <1>6, <1>7, <2>1 DEF RowHeld, Free, Watched, Open, Answered
<1>10. RowExplained(w)'
  <2>1. desk'["monitor"] = x
    BY <1>3, <1>5, <1>6, Moved DEF Desks
  <2>2. RowExplained(w)
    BY <1>2 DEF IInv, WatchInv
  <2>. QED
    BY <1>2, <1>6, <1>7, <2>1, <2>2 DEF RowExplained, Open, Doing
<1>. QED
  BY <1>1, <1>2, <1>5, <1>6, <1>7, <1>8, <1>9, <1>10, MonitorStep

\* The monitor lets its row go: free, closed, or marked and given up.
LEMMA LeaveStep ==
  ASSUME IInv, release = "first", NEW m, m = desk["monitor"], m.pc # "idle", Leave("monitor"),
         NEW w, w = m.w,
         UNCHANGED <<market, tracked, told, analyses>>, saved \subseteq saved',
         watch' \in Seq(RowsOf(Scenarios)), DOMAIN watch' = DOMAIN watch,
         \A u \in DOMAIN watch : u # w => watch'[u] = watch[u],
         lost \subseteq lost', lost' \subseteq lost \cup {w}, cut \subseteq cut',
         m.pc \notin {"settling", "saving"},
         \/ Free(watch[w])' /\ w \notin lost'
         \/ Marked(watch[w])' /\ w \in lost'
         \/ watch'[w].closed /\ (watch'[w].triggered \/ \E c \in cut' : c[1] = w)
  PROVE  IInv'
<1>1. m.w \in DOMAIN watch /\ w \in Nat /\ w # 0 /\ Typed
  BY MonitorRow DEF IInv, Typed
<1>2. Moves("monitor", Idle)
  BY DEF Leave, Moves
<1>3. desk'["monitor"] = Idle
  BY <1>1, <1>2, IdleHeld, Moved DEF Desks
<1>4. RowExplained(w)'
  BY <1>1, <1>3, IdleHeld DEF RowExplained, Open, Doing, Free, Marked
<1>5. Idle.at <= clock
  BY <1>1, IdleHeld DEF Typed
<1>. QED
  BY <1>1, <1>2, <1>4, <1>5, IdleHeld, MonitorStep

LEMMA JudgeCandleStep == ASSUME IInv, JudgeCandle PROVE IInv'
<1>1. PICK m, w : m = desk["monitor"] /\ w = m.w
  OBVIOUS
<1>2. /\ release = "first" /\ m.pc = "judging candle" /\ UNCHANGED <<market, tables, history>>
      /\ analyses' = analyses
  BY <1>1 DEF JudgeCandle, At, bounds
<1>3. /\ m \in Threads /\ m.at <= clock /\ Handled(m) /\ RowHeld(m) /\ analyses \in Nat
      /\ clock \in Nat \ {0} /\ Typed
  BY <1>1, <1>2, DeskHeld DEF Desks, IInv
<1>4. CASE Leave("monitor")
  <2>1. Free(watch[w]) /\ w \in DOMAIN watch /\ w \notin lost
    BY <1>1, <1>2, <1>3 DEF RowHeld, Free
  <2>2. Free(watch[w])'
    BY <1>2, <2>1 DEF Free, tables
  <2>3. watch' \in Seq(RowsOf(Scenarios))
    BY <1>2, <1>3 DEF Typed, tables
  <2>. QED
    BY <1>1, <1>2, <1>4, <2>1, <2>2, <2>3, LeaveStep DEF tables, history
<1>5. CASE desk' = [desk EXCEPT !["monitor"].pc = "marking", !["monitor"].at = 0]
  <2>1. PICK x : x = [m EXCEPT !.pc = "marking", !.at = 0]
    OBVIOUS
  <2>2. Moves("monitor", x)
    BY <1>1, <1>5, <2>1 DEF Moves
  <2>3. x \in Threads
    BY <1>3, <2>1 DEF Threads, Phases, Before
  <2>4. x.w = m.w /\ x.id = m.id /\ x.at <= clock /\ x.busy = m.busy /\ x.pc = "marking"
    BY <1>3, <2>1 DEF Threads
  <2>5. Handled(x)
    BY <1>2, <1>3, <2>4 DEF Handled, Before, Answered, Settled
  <2>6. RowHeld(x)
    BY <1>2, <1>3, <2>4 DEF RowHeld, Answered
  <2>7. analyses' \in Nat /\ analyses <= analyses'
    <3>1. analyses \in Nat /\ analyses' = analyses
      BY <1>2, <1>3
    <3>. QED
      BY <3>1
  <2>. QED
    BY <1>1, <1>2, <2>2, <2>3, <2>4, <2>5, <2>6, <2>7, QuietStep DEF Desks
<1>. QED
  BY <1>4, <1>5 DEF JudgeCandle

LEMMA MarkStep == ASSUME IInv, Mark \/ Lock PROVE IInv'
<1>1. PICK m, w, c, t, l :
        /\ m = desk["monitor"] /\ w = m.w /\ c = watch[w].closed
        /\ l = (IF Mark THEN watch[w].locked ELSE TRUE)
        /\ t = (IF Mark THEN TRUE ELSE watch[w].triggered)
  OBVIOUS
<1>2. /\ release = "first" /\ m.pc \in {"marking", "locking"}
      /\ m.pc = "marking" <=> Mark
      /\ Flags(w, l, t, c)
      /\ UNCHANGED <<market, tracked, saved, told, lost, cut, analyses>>
  BY <1>1 DEF Mark, Lock, At, history, bounds
<1>3. /\ m \in Threads /\ m.at <= clock /\ Handled(m) /\ RowHeld(m) /\ Typed
      /\ w \in DOMAIN watch /\ watch[w] \in RowsOf(Scenarios)
  BY <1>1, <1>2, DeskHeld, MonitorRow DEF Desks, IInv
<1>4. l \in BOOLEAN /\ t \in BOOLEAN /\ c \in BOOLEAN
  BY <1>1, <1>3 DEF RowsOf
<1>5. /\ watch' \in Seq(RowsOf(Scenarios)) /\ DOMAIN watch' = DOMAIN watch
      /\ watch'[w].locked = l /\ watch'[w].triggered = t /\ watch'[w].closed = c
      /\ \A u \in DOMAIN watch : u # w => watch'[u] = watch[u]
  BY <1>2, <1>3, <1>4, FlagsRow
<1>6. t /\ ~c /\ w \notin lost
  BY <1>1, <1>2, <1>3 DEF RowHeld, Free, Marked
<1>7. PICK x : x = [m EXCEPT !.pc = IF Mark THEN "locking" ELSE "snapshot"]
  OBVIOUS
<1>8. Moves("monitor", x)
  BY <1>1, <1>7 DEF Mark, Lock, Go, Moves
<1>9. x \in Threads
  BY <1>3, <1>7 DEF Threads, Phases, Before
<1>10. /\ x.w = w /\ x.id = m.id /\ x.at <= clock /\ x.busy = m.busy
       /\ x.pc \in {"locking", "snapshot"}
  BY <1>1, <1>3, <1>7 DEF Threads
<1>11. Handled(x)'
  <2>1. Handled(x)
    BY <1>2, <1>3, <1>10 DEF Handled, Before, Answered, Settled
  <2>. QED
    BY <1>2, <2>1, HandledStays DEF market
<1>12. RowHeld(x)'
  BY <1>2, <1>3, <1>5, <1>6, <1>10 DEF RowHeld, Marked, Answered
<1>13. RowExplained(w)'
  <2>1. desk'["monitor"] = x
    BY <1>3, <1>8, <1>9, Moved DEF Desks
  <2>. QED
    BY <1>5, <1>6, <1>10, <2>1 DEF RowExplained, Open, Doing
<1>. QED
  BY <1>1, <1>2, <1>3, <1>5, <1>8, <1>9, <1>10, <1>11, <1>12, <1>13, MonitorStep

LEMMA TickFailsStep == ASSUME IInv, TickFails PROVE IInv'
<1>1. PICK m, w : m = desk["monitor"] /\ w = m.w
  OBVIOUS
<1>2. /\ release = "first" /\ m.pc \in {"judging candle", "marking", "locking"}
      /\ lost' = (IF m.pc = "locking" THEN lost \cup {w} ELSE lost)
      /\ Leave("monitor") /\ UNCHANGED <<market, tables, told, cut, analyses>>
  BY <1>1 DEF TickFails, At
<1>3. RowHeld(m) /\ w \in DOMAIN watch /\ watch' \in Seq(RowsOf(Scenarios))
  BY <1>1, <1>2, DeskHeld, MonitorRow DEF Desks, IInv, Typed, tables
<1>4. \/ Free(watch[w])' /\ w \notin lost'
      \/ Marked(watch[w])' /\ w \in lost'
  <2>1. CASE m.pc = "locking"
    <3>1. Marked(watch[w])
      BY <1>1, <1>3, <2>1 DEF RowHeld
    <3>. QED
      BY <1>2, <2>1, <3>1 DEF Marked, tables
  <2>2. CASE m.pc # "locking"
    <3>1. Free(watch[w]) /\ w \notin lost
      BY <1>1, <1>2, <1>3, <2>2 DEF RowHeld, Free
    <3>. QED
      BY <1>2, <2>2, <3>1 DEF Free, tables
  <2>. QED
    BY <2>1, <2>2
<1>. QED
  BY <1>1, <1>2, <1>3, <1>4, LeaveStep DEF tables

LEMMA ApologyStep == ASSUME IInv, Apologise \/ ApologyFails PROVE IInv'
<1>1. PICK m, w : m = desk["monitor"] /\ w = m.w
  OBVIOUS
<1>2. /\ release = "first" /\ m.pc = "apologising" /\ Leave("monitor")
      /\ UNCHANGED <<market, tracked, saved, told, cut, analyses>>
  BY <1>1 DEF Apologise, ApologyFails, At, tables, history, bounds
<1>3. /\ RowHeld(m) /\ RowExplained(w) /\ w \in DOMAIN watch /\ Typed
      /\ watch[w] \in RowsOf(Scenarios)
  BY <1>1, <1>2, DeskHeld, MonitorRow DEF Desks, IInv
<1>4. /\ \E c \in cut : c[1] = w
      /\ ~watch[w].closed => w \notin lost
  BY <1>1, <1>2, <1>3 DEF RowHeld
<1>5. CASE Apologise
  <2>1. PICK c : c = watch[w].closed
    OBVIOUS
  <2>2. Flags(w, FALSE, FALSE, c) /\ lost' = lost /\ c \in BOOLEAN
    BY <1>1, <1>3, <1>5, <2>1 DEF Apologise, Reset, history, RowsOf
  <2>3. /\ watch' \in Seq(RowsOf(Scenarios)) /\ DOMAIN watch' = DOMAIN watch
        /\ watch'[w].locked = FALSE /\ watch'[w].triggered = FALSE /\ watch'[w].closed = c
        /\ \A u \in DOMAIN watch : u # w => watch'[u] = watch[u]
    BY <1>2, <1>3, <2>2, FlagsRow
  <2>4. \/ Free(watch[w])' /\ w \notin lost'
        \/ watch'[w].closed /\ (watch'[w].triggered \/ \E e \in cut' : e[1] = w)
    BY <1>2, <1>4, <2>1, <2>2, <2>3 DEF Free
  <2>. QED
    BY <1>1, <1>2, <2>2, <2>3, <2>4, LeaveStep
<1>6. CASE ApologyFails
  <2>1. watch' = watch /\ lost' = lost \cup {u \in {w} : watch[u].triggered}
    BY <1>1, <1>6 DEF ApologyFails, tables
  <2>2. CASE watch[w].closed
    BY <1>1, <1>2, <1>3, <1>4, <2>1, <2>2, LeaveStep DEF Typed
  <2>3. CASE ~watch[w].closed /\ watch[w].triggered
    <3>1. Marked(watch[w])' /\ w \in lost'
      BY <2>1, <2>3 DEF Marked
    <3>. QED
      BY <1>1, <1>2, <1>3, <2>1, <3>1, LeaveStep DEF Typed
  <2>4. CASE ~watch[w].closed /\ ~watch[w].triggered
    <3>1. Free(watch[w])' /\ w \notin lost'
      BY <1>3, <1>4, <2>1, <2>4 DEF Free, RowExplained, Open
    <3>. QED
      BY <1>1, <1>2, <1>3, <2>1, <3>1, LeaveStep DEF Typed
  <2>. QED
    BY <2>2, <2>3, <2>4
<1>. QED
  BY <1>5, <1>6
-----------------------------------------------------------------------------
(* Steps of the analysis that write. *)

LEMMA MarketClosedStep == ASSUME IInv, NEW d \in Desks, MarketClosed(d) PROVE IInv'
<1>1. PICK m : m = desk[d]
  OBVIOUS
<1>2. /\ release = "first" /\ m.pc = "snapshot"
      /\ UNCHANGED <<market, tracked, told, lost, cut, analyses>>
  BY <1>1 DEF MarketClosed, At, history, bounds
<1>3. /\ m \in Threads /\ m.at <= clock /\ Handled(m) /\ Typed
      /\ d = "chat" => ChatHeld(m)
      /\ d = "monitor" => RowHeld(m)
  BY <1>1, <1>2, DeskHeld DEF IInv
<1>4. CASE d = "chat"
  <2>1. PICK x : x = [m EXCEPT !.pc = "telling", !.status = "NO_TRADE"]
    OBVIOUS
  <2>2. Moves("chat", x) /\ watch' = watch /\ saved \subseteq saved'
    BY <1>1, <1>4, <2>1 DEF MarketClosed, Moves
  <2>3. x \in Threads
    BY <1>3, <2>1 DEF Threads, Phases, Statuses
  <2>4. /\ x.w = m.w /\ x.id = m.id /\ x.at = m.at /\ x.pc = "telling"
        /\ x.status = "NO_TRADE"
    BY <1>3, <2>1 DEF Threads
  <2>5. Handled(x)'
    BY <2>4 DEF Handled, Before, Answered, Settled
  <2>6. ChatHeld(x)
    BY <1>3, <1>4, <2>4 DEF ChatHeld
  <2>. QED
    BY <1>1, <1>2, <1>3, <1>4, <2>2, <2>3, <2>4, <2>5, <2>6, ChatStep
<1>5. CASE d = "monitor"
  <2>1. PICK w : w = m.w
    OBVIOUS
  <2>2. PICK c : c = watch[w].closed
    OBVIOUS
  <2>3. /\ Flags(w, FALSE, FALSE, c) /\ Leave("monitor") /\ saved' = saved
    BY <1>1, <1>5, <2>1, <2>2 DEF MarketClosed, Reset
  <2>4. w \in DOMAIN watch /\ watch[w] \in RowsOf(Scenarios)
    BY <1>1, <1>2, <1>5, <2>1, MonitorRow DEF IInv
  <2>5. w \notin lost /\ ~c /\ c \in BOOLEAN
    BY <1>2, <1>3, <1>5, <2>1, <2>2, <2>4 DEF RowHeld, Marked, RowsOf
  <2>6. /\ watch' \in Seq(RowsOf(Scenarios)) /\ DOMAIN watch' = DOMAIN watch
        /\ watch'[w].locked = FALSE /\ watch'[w].triggered = FALSE /\ watch'[w].closed = c
        /\ \A u \in DOMAIN watch : u # w => watch'[u] = watch[u]
    BY <1>2, <1>3, <2>3, <2>4, <2>5, FlagsRow
  <2>7. Free(watch[w])' /\ w \notin lost'
    BY <1>2, <2>5, <2>6 DEF Free
  <2>. QED
    BY <1>1, <1>2, <1>5, <2>1, <2>3, <2>6, <2>7, LeaveStep
<1>. QED
  BY <1>4, <1>5 DEF Desks

LEMMA SettleStep == ASSUME IInv, NEW d \in Desks, Settle(d) PROVE IInv'
<1>1. PICK m : m = desk[d]
  OBVIOUS
<1>2. /\ release = "first" /\ m.pc = "settling"
      /\ UNCHANGED <<market, tracked, saved, told, lost, cut, analyses>>
  BY <1>1 DEF Settle, At, history, bounds
<1>3. /\ m \in Threads /\ m.at <= clock /\ Handled(m) /\ Typed
      /\ d = "chat" => ChatHeld(m)
      /\ d = "monitor" => RowHeld(m)
  BY <1>1, <1>2, DeskHeld DEF IInv
<1>4. PICK pc \in {"keeping", "creating", "saving"} :
        /\ Go(d, pc)
        /\ pc \in {"keeping", "creating"} <=> m.status = "WATCH"
        /\ pc = "keeping" => d = "monitor" /\ Reset(m.w)
        /\ d = "monitor" /\ pc # "keeping" => Flags(m.w, FALSE, watch[m.w].triggered, TRUE)
        /\ d = "chat" => watch' = watch
  BY <1>1 DEF Settle
<1>5. PICK x : x = [m EXCEPT !.pc = pc]
  OBVIOUS
<1>6. Moves(d, x)
  BY <1>1, <1>4, <1>5 DEF Go, Moves
<1>7. x \in Threads
  BY <1>3, <1>5 DEF Threads, Phases, Settled
<1>8. /\ x.w = m.w /\ x.id = m.id /\ x.at = m.at /\ x.pc = pc /\ x.busy = m.busy
      /\ x.status = m.status /\ x.answer = m.answer /\ x.volume = m.volume
  BY <1>3, <1>5 DEF Threads
<1>9. Handled(x)'
  <2>1. Priced(m) => Priced(x)
    BY <1>8 DEF Priced
  <2>2. Handled(x)
    BY <1>2, <1>3, <1>4, <1>8, <2>1 DEF Handled, Counted, Before, Answered, Settled
  <2>. QED
    BY <1>2, <2>2, HandledStays DEF market
<1>10. m.id \in tracked => x.id = m.id /\ x.pc \in {"settling", "saving"}
  BY <1>2, <1>3, <1>4, <1>8 DEF Handled, Counted, Settled
<1>11. CASE d = "chat"
  <2>1. ChatHeld(x)
    BY <1>3, <1>4, <1>8, <1>11 DEF ChatHeld
  <2>. QED
    BY <1>1, <1>2, <1>3, <1>4, <1>6, <1>7, <1>8, <1>9, <1>10, <1>11, <2>1, ChatStep
<1>12. CASE d = "monitor"
  <2>1. PICK w : w = m.w
    OBVIOUS
  <2>2. w \in DOMAIN watch /\ watch[w] \in RowsOf(Scenarios)
    BY <1>1, <1>2, <1>12, <2>1, MonitorRow DEF IInv
  <2>3. watch[w].triggered /\ ~watch[w].closed /\ w \notin lost
    BY <1>2, <1>3, <1>12, <2>1 DEF RowHeld, Marked
  <2>4. PICK t, c : t = (pc # "keeping") /\ c = (pc # "keeping")
    OBVIOUS
  <2>5. Flags(w, FALSE, t, c)
    <3>1. watch[w].triggered = TRUE /\ watch[w].closed = FALSE
      BY <2>2, <2>3 DEF RowsOf
    <3>2. CASE pc = "keeping"
      BY <1>4, <2>1, <2>4, <3>1, <3>2 DEF Reset
    <3>3. CASE pc # "keeping"
      BY <1>4, <1>12, <2>1, <2>4, <3>1, <3>3
    <3>. QED
      BY <3>2, <3>3
  <2>6. /\ watch' \in Seq(RowsOf(Scenarios)) /\ DOMAIN watch' = DOMAIN watch
        /\ watch'[w].locked = FALSE /\ watch'[w].triggered = t /\ watch'[w].closed = c
        /\ \A u \in DOMAIN watch : u # w => watch'[u] = watch[u]
    BY <1>2, <1>3, <2>2, <2>4, <2>5, FlagsRow
  <2>7. RowHeld(x)'
    BY <1>2, <1>4, <1>8, <2>1, <2>2, <2>3, <2>4, <2>6 DEF RowHeld, Free, Answered
  <2>8. RowExplained(w)'
    <3>1. desk'["monitor"] = x
      BY <1>3, <1>6, <1>7, <1>12, Moved
    <3>. QED
      BY <1>2, <2>3, <2>4, <2>6, <3>1 DEF RowExplained, Open
  <2>. QED
    BY <1>1, <1>2, <1>3, <1>6, <1>7, <1>8, <1>9, <1>10, <1>12, <2>1, <2>2, <2>6, <2>7, <2>8,
       MonitorStep
<1>. QED
  BY <1>11, <1>12 DEF Desks

LEMMA SaveStep == ASSUME IInv, NEW d \in Desks, Save(d) PROVE IInv'
<1>1. PICK m : m = desk[d]
  OBVIOUS
<1>2. /\ release = "first" /\ m.pc \in {"saving", "keeping"}
      /\ saved' = saved \cup {<<m.id, m.status>>}
      /\ IF m.pc = "keeping" THEN Leave(d) ELSE Go(d, "telling")
      /\ lost' = (IF d = "monitor" /\ m.busy THEN lost \cup {m.w} ELSE lost)
      /\ UNCHANGED <<market, watch, tracked, told, cut, analyses>>
  BY <1>1 DEF Save, At, bounds
<1>3. /\ m \in Threads /\ m.at <= clock /\ Handled(m) /\ Typed
      /\ d = "chat" => ChatHeld(m)
      /\ d = "monitor" => RowHeld(m)
  BY <1>1, <1>2, DeskHeld DEF IInv
<1>4. watch' \in Seq(RowsOf(Scenarios)) /\ saved \subseteq saved'
  BY <1>2, <1>3 DEF Typed
<1>5. CASE m.pc = "keeping"
  <2>1. d = "monitor"
    BY <1>3, <1>5 DEF Desks, ChatHeld
  <2>2. PICK w : w = m.w
    OBVIOUS
  <2>3. Free(watch[w]) /\ w \notin lost /\ ~m.busy
    BY <1>3, <1>5, <2>1, <2>2 DEF RowHeld, Free, Handled
  <2>4. Free(watch[w])' /\ w \notin lost' /\ lost' = lost
    BY <1>2, <2>3 DEF Free
  <2>. QED
    BY <1>1, <1>2, <1>4, <1>5, <2>1, <2>2, <2>4, LeaveStep
<1>6. CASE m.pc = "saving"
  <2>1. PICK x : x = [m EXCEPT !.pc = "telling"]
    OBVIOUS
  <2>2. Moves(d, x)
    BY <1>1, <1>2, <1>6, <2>1 DEF Go, Moves
  <2>3. x \in Threads
    BY <1>3, <2>1 DEF Threads, Phases
  <2>4. /\ x.w = m.w /\ x.id = m.id /\ x.at = m.at /\ x.pc = "telling" /\ x.busy = m.busy
        /\ x.status = m.status /\ x.answer = m.answer /\ x.volume = m.volume
    BY <1>3, <2>1 DEF Threads
  <2>5. /\ m.id # 0 /\ m.at # 0 /\ Counted(m)
        /\ m.id \in tracked => Priced(m)
    BY <1>3, <1>6 DEF Handled, Settled
  <2>6. Handled(x)'
    <3>1. Priced(m) => Priced(x)'
      BY <1>2, <2>4, PricedStays DEF market
    <3>2. Counted(x)'
      BY <1>2, <2>4, <2>5 DEF Counted
    <3>. QED
      BY <1>2, <2>4, <2>5, <3>1, <3>2 DEF Handled, Before, Answered, Settled
  <2>7. m.id \in tracked => <<m.id, "TRADE">> \in saved'
    BY <1>2, <2>5 DEF Counted
  <2>8. CASE d = "chat"
    <3>1. ChatHeld(x)
      BY <1>3, <2>4, <2>8 DEF ChatHeld
    <3>. QED
      BY <1>1, <1>2, <1>3, <1>4, <2>2, <2>3, <2>4, <2>6, <2>7, <2>8, <3>1, ChatStep
  <2>9. CASE d = "monitor"
    <3>1. PICK w : w = m.w
      OBVIOUS
    <3>2. w \in DOMAIN watch /\ RowExplained(w)
      BY <1>1, <1>2, <2>9, <3>1, MonitorRow DEF IInv
    <3>3. watch[w].closed \/ (m.busy /\ Marked(watch[w]))
      BY <1>3, <1>6, <2>9, <3>1 DEF RowHeld
    <3>4. RowHeld(x)'
      BY <1>2, <2>4, <2>9, <3>1, <3>2, <3>3 DEF RowHeld, Marked, Answered
    <3>5. RowExplained(w)'
      <4>1. desk'["monitor"] = x
        BY <1>3, <2>2, <2>3, <2>9, Moved
      <4>. QED
        BY <1>2, <2>4, <3>1, <3>2, <3>3, <4>1 DEF RowExplained, Open, Doing, Marked
    <3>. QED
      BY <1>1, <1>2, <1>3, <1>4, <2>2, <2>3, <2>4, <2>6, <2>7, <2>9, <3>1, <3>2, <3>4, <3>5,
         MonitorStep
  <2>. QED
    BY <2>8, <2>9 DEF Desks
<1>. QED
  BY <1>2, <1>5, <1>6

LEMMA FailsStep == ASSUME IInv, NEW d \in Desks, Fails(d) PROVE IInv'
<1>1. PICK m : m = desk[d]
  OBVIOUS
<1>2. /\ release = "first"
      /\ m.pc \in {"snapshot", "asking", "judging", "tracking", "settling", "creating",
                   "saving", "keeping"}
      /\ cut' = cut \cup {<<m.w, m.id>>}
      /\ UNCHANGED <<market, tables, told, lost, analyses>>
  BY <1>1 DEF Fails, At
<1>3. /\ m \in Threads /\ m.at <= clock /\ m.id <= analyses /\ Handled(m) /\ Typed
      /\ d = "chat" => ChatHeld(m)
      /\ d = "monitor" => RowHeld(m)
      /\ clock \in Nat
  BY <1>1, <1>2, DeskHeld DEF IInv
<1>4. \E c \in cut' : c[1] = m.w /\ c[2] = m.id
  <2>1. PICK c : c = <<m.w, m.id>>
    OBVIOUS
  <2>2. c \in cut' /\ c[1] = m.w /\ c[2] = m.id
    BY <1>2, <2>1
  <2>. QED
    BY <2>2
<1>5. CASE d = "chat"
  <2>1. Moves("chat", Idle)
    BY <1>5 DEF Fails, Leave, Moves
  <2>2. Idle.at <= clock
    BY <1>3, IdleHeld
  <2>. QED
    BY <1>1, <1>2, <1>4, <1>5, <2>1, <2>2, IdleHeld, ChatStep DEF tables
<1>6. CASE d = "monitor"
  <2>1. PICK w : w = m.w
    OBVIOUS
  <2>2. PICK x : x = [Idle EXCEPT !.pc = "apologising", !.w = w]
    OBVIOUS
  <2>3. w \in DOMAIN watch /\ RowExplained(w) /\ w \in Nat
    BY <1>1, <1>2, <1>3, <1>6, <2>1, MonitorRow DEF IInv, Threads
  <2>4. Moves("monitor", x)
    BY <1>1, <1>6, <2>1, <2>2 DEF Fails, Moves
  <2>5. /\ x \in Threads /\ x.w = w /\ x.id = 0 /\ x.at = 0 /\ x.pc = "apologising" /\ ~x.busy
    BY <2>2, <2>3, IdleHeld DEF Idle, Threads, Phases, Statuses
  <2>6. Handled(x)'
    BY <2>5 DEF Handled, Before, Answered, Settled
  <2>7. RowHeld(x)'
    <3>1. ~watch[w].closed => w \notin lost
      BY <1>2, <1>3, <1>6, <2>1 DEF RowHeld
    <3>. QED
      BY <1>2, <1>4, <2>1, <2>3, <2>5, <3>1 DEF RowHeld, Answered, tables
  <2>8. RowExplained(w)'
    <3>1. desk'["monitor"] = x
      BY <1>3, <1>6, <2>4, <2>5, Moved
    <3>. QED
      BY <1>2, <2>3, <2>5, <3>1 DEF RowExplained, Open, Doing, tables
  <2>9. watch' \in Seq(RowsOf(Scenarios)) /\ x.at <= clock
    BY <1>2, <1>3, <2>5 DEF Typed, tables
  <2>. QED
    BY <1>1, <1>2, <1>4, <1>6, <2>1, <2>3, <2>4, <2>5, <2>6, <2>7, <2>8, <2>9,
       MonitorStep DEF tables
<1>. QED
  BY <1>5, <1>6 DEF Desks

LEMMA CreateStep == ASSUME IInv, NEW d \in Desks, Create(d) PROVE IInv'
<1>1. PICK m, n : m = desk[d] /\ n = Len(watch)
  OBVIOUS
<1>2. /\ release = "first" /\ m.pc = "creating"
      /\ watch' = Append(watch, NewWatch(m.answer.scenario))
      /\ UNCHANGED <<market, tracked, saved, told, lost, cut, analyses>>
  BY <1>1 DEF Create, At, history, bounds
<1>3. /\ m \in Threads /\ m.at <= clock /\ m.id <= analyses /\ Handled(m) /\ Typed
      /\ WatchInv /\ TradeInv /\ analyses \in Nat /\ clock \in Nat
      /\ d = "chat" => ChatHeld(m)
      /\ d = "monitor" => RowHeld(m)
  BY <1>1, <1>2, DeskHeld DEF IInv
<1>4. PICK x : x = [m EXCEPT !.pc = "saving"]
  OBVIOUS
<1>5. Moves(d, x)
  BY <1>1, <1>4 DEF Create, Go, Moves
<1>6. x \in Threads
  BY <1>3, <1>4 DEF Threads, Phases, Settled
<1>7. /\ x.w = m.w /\ x.id = m.id /\ x.at = m.at /\ x.pc = "saving" /\ x.busy = m.busy
      /\ x.status = m.status /\ x.answer = m.answer /\ x.volume = m.volume
  BY <1>3, <1>4 DEF Threads
<1>8. m.answer \in Answers /\ m.status = "WATCH" /\ Counted(m) /\ m.id # 0 /\ m.at # 0
  BY <1>2, <1>3 DEF Handled, Settled
<1>9. PICK r : r = NewWatch(m.answer.scenario)
  OBVIOUS
<1>10. r \in RowsOf(Scenarios) /\ ~r.closed /\ ~r.locked /\ ~r.triggered
  BY <1>3, <1>8, <1>9 DEF NewWatch, RowsOf, Scenarios
<1>11. watch \in Seq(RowsOf(Scenarios)) /\ n \in Nat /\ DOMAIN watch = 1..n
  BY <1>1, <1>2, <1>3 DEF Typed
<1>12. /\ watch' \in Seq(RowsOf(Scenarios)) /\ DOMAIN watch' = 1..(n + 1)
       /\ watch'[n + 1] = r
       /\ \A w \in DOMAIN watch : watch'[w] = watch[w]
  BY <1>1, <1>2, <1>9, <1>10, <1>11
<1>13. /\ desk'[d] = x
       /\ \A e \in Desks : e # d => desk'[e] = desk[e]
  BY <1>3, <1>5, <1>6, Moved
<1>14. Typed'
  <2>1. told' \subseteq Threads /\ tracked' \subseteq 1..analyses'
    BY <1>2, <1>3 DEF Typed
  <2>2. analyses' \in Nat /\ analyses <= analyses' /\ x.at <= clock /\ x.id <= analyses'
    <3>1. analyses' = analyses /\ analyses \in Nat
      BY <1>2, <1>3
    <3>. QED
      BY <1>3, <1>7, <3>1
  <2>. QED
    BY <1>2, <1>3, <1>5, <1>6, <1>12, <2>1, <2>2, TypedFrame
<1>15. TradeInv'
  <2>1. Handled(x)
    BY <1>7, <1>8 DEF Handled, Counted, Before, Answered, Settled
  <2>2. Handled(x)'
    BY <1>2, <2>1, HandledStays DEF market
  <2>3. analyses' \in Nat /\ analyses <= analyses'
    <3>1. analyses' = analyses /\ analyses \in Nat
      BY <1>2, <1>3
    <3>. QED
      BY <3>1
  <2>. QED
    BY <1>1, <1>2, <1>3, <1>5, <1>6, <1>7, <2>2, <2>3, TradeFrame
<1>16. WatchInv'
  <2>1. desk'["monitor"].w = desk["monitor"].w
    BY <1>1, <1>7, <1>13 DEF Desks
  <2>2. lost \subseteq DOMAIN watch /\ DOMAIN watch \subseteq DOMAIN watch'
    BY <1>2, <1>3, <1>11, <1>12 DEF WatchInv
  <2>3. ASSUME NEW w \in DOMAIN watch' PROVE RowExplained(w)'
    <3>1. CASE w \in DOMAIN watch
      <4>1. RowExplained(w)
        BY <1>2, <1>3, <3>1 DEF WatchInv
      <4>2. watch'[w] = watch[w]
        BY <1>12, <3>1
      <4>. QED
        BY <1>2, <2>1, <4>1, <4>2 DEF RowExplained, Open, Doing
    <3>2. CASE w \notin DOMAIN watch
      <4>1. w = n + 1
        BY <1>11, <1>12, <3>2
      <4>2. w \notin lost'
        BY <1>2, <2>2, <3>2
      <4>. QED
        BY <1>10, <1>12, <4>1, <4>2 DEF RowExplained, Open
    <3>. QED
      BY <3>1, <3>2
  <2>4. RowHeld(desk["monitor"])'
    <3>1. CASE d = "monitor"
      <4>1. watch[m.w].closed /\ m.w \in DOMAIN watch
        BY <1>2, <1>3, <3>1 DEF RowHeld
      <4>2. RowHeld(x)'
        BY <1>2, <1>7, <1>12, <2>2, <4>1 DEF RowHeld, Answered
      <4>. QED
        BY <1>13, <3>1, <4>2, RowMoved
    <3>2. CASE d = "chat"
      <4>1. PICK k : k = desk["monitor"]
        OBVIOUS
      <4>2. RowHeld(k)
        BY <1>2, <1>3, <4>1 DEF WatchInv
      <4>3. CASE k.pc = "idle"
        <5>1. RowHeld(k)'
          BY <4>2, <4>3 DEF RowHeld, Answered
        <5>. QED
          BY <1>13, <3>2, <4>1, <5>1, RowMoved DEF Desks
      <4>4. CASE k.pc # "idle"
        <5>1. k.w \in DOMAIN watch
          BY <4>2, <4>4 DEF RowHeld
        <5>2. k.w \in DOMAIN watch' /\ watch'[k.w] = watch[k.w]
          BY <1>12, <2>2, <5>1
        <5>3. RowHeld(k)'
          BY <1>2, <4>2, <4>4, <5>1, <5>2 DEF RowHeld, Free, Marked
        <5>. QED
          BY <1>13, <3>2, <4>1, <5>3, RowMoved DEF Desks
      <4>. QED
        BY <4>3, <4>4
    <3>. QED
      BY <3>1, <3>2 DEF Desks
  <2>5. ChatHeld(desk["chat"])'
    <3>1. CASE d = "chat"
      BY <1>3, <1>7, <1>13, <3>1 DEF ChatHeld
    <3>2. CASE d = "monitor"
      BY <1>2, <1>3, <1>13, <3>2 DEF WatchInv, ChatHeld, Desks
    <3>. QED
      BY <3>1, <3>2 DEF Desks
  <2>6. lost' \subseteq DOMAIN watch'
    BY <1>2, <2>2
  <2>. QED
    BY <2>3, <2>4, <2>5, <2>6 DEF WatchInv
<1>. QED
  BY <1>14, <1>15, <1>16 DEF IInv

\* The watches, when a desk goes on and no row changes.
LEMMA WatchStays ==
  ASSUME Typed, WatchInv, release = "first", NEW d \in Desks, NEW m, m = desk[d],
         m \in Threads, d = "monitor" => m.pc # "idle",
         NEW x \in Threads, Moves(d, x), UNCHANGED <<release, watch, lost, cut>>,
         d = "chat" => ChatHeld(x), d = "monitor" => RowHeld(x),
         \/ x.w = m.w
         \/ watch[m.w].closed \/ m.w \in lost
  PROVE  WatchInv'
<1>1. CASE d = "chat"
  BY <1>1, ChatFrame
<1>2. CASE d = "monitor"
  <2>1. PICK w : w = m.w
    OBVIOUS
  <2>2. /\ w \in DOMAIN watch /\ RowExplained(w)
        /\ \A u \in DOMAIN watch : u # w => ~Doing(u)
    BY <1>2, <2>1, MonitorRow
  <2>3. RowHeld(x)'
    BY <1>2 DEF RowHeld, Free, Marked
  <2>4. RowExplained(w)'
    <3>1. desk'["monitor"] = x
      BY <1>2, Moved
    <3>. QED
      BY <2>1, <2>2, <3>1 DEF RowExplained, Open, Doing
  <2>. QED
    BY <1>2, <2>2, <2>3, <2>4, MonitorFrame
<1>. QED
  BY <1>1, <1>2 DEF Desks

LEMMA TrackStep == ASSUME IInv, NEW d \in Desks, Track(d) PROVE IInv'
<1>1. PICK m : m = desk[d]
  OBVIOUS
<1>2. /\ release = "first" /\ m.pc = "tracking" /\ tracked' = tracked \cup {m.id}
      /\ UNCHANGED <<market, watch, saved, told, lost, cut, analyses>>
  BY <1>1 DEF Track, At, history, bounds
<1>3. /\ m \in Threads /\ m.at <= clock /\ m.id <= analyses /\ Handled(m) /\ Typed
      /\ WatchInv /\ TradeInv /\ analyses \in Nat /\ clock \in Nat /\ m.id \in Nat
      /\ d = "chat" => ChatHeld(m)
      /\ d = "monitor" => RowHeld(m)
  BY <1>1, <1>2, DeskHeld DEF IInv
<1>4. PICK x : x = [m EXCEPT !.pc = "settling"]
  OBVIOUS
<1>5. Moves(d, x)
  BY <1>1, <1>4 DEF Track, Go, Moves
<1>6. x \in Threads
  BY <1>3, <1>4 DEF Threads, Phases, Settled
<1>7. /\ x.w = m.w /\ x.id = m.id /\ x.at = m.at /\ x.pc = "settling" /\ x.busy = m.busy
      /\ x.status = m.status /\ x.answer = m.answer /\ x.volume = m.volume
  BY <1>3, <1>4 DEF Threads
<1>8. /\ m.answer \in Answers /\ m.status = "TRADE" /\ m.answer.status = "TRADE" /\ Priced(m)
      /\ ~m.busy /\ m.id # 0 /\ m.at # 0
  BY <1>2, <1>3 DEF Handled, Answered
<1>9. /\ desk'[d] = x
      /\ \A e \in Desks : e # d => desk'[e] = desk[e]
  BY <1>3, <1>5, <1>6, Moved
<1>10. analyses' = analyses /\ analyses \in Nat /\ tracked' \subseteq 1..analyses'
  <2>1. m.id \in 1..analyses
    BY <1>3, <1>8
  <2>. QED
    BY <1>2, <1>3, <2>1 DEF Typed
<1>11. Typed'
  <2>1. /\ watch' \in Seq(RowsOf(Scenarios)) /\ told' \subseteq Threads
        /\ analyses <= analyses' /\ x.at <= clock /\ x.id <= analyses'
    BY <1>2, <1>3, <1>7, <1>10 DEF Typed
  <2>. QED
    BY <1>2, <1>3, <1>5, <1>6, <1>10, <2>1, TypedFrame
<1>12. WatchInv'
  <2>1. d = "chat" => ChatHeld(x)
    BY <1>3, <1>7 DEF ChatHeld
  <2>2. d = "monitor" => RowHeld(x)
    BY <1>2, <1>3, <1>7 DEF RowHeld, Answered
  <2>. QED
    BY <1>1, <1>2, <1>3, <1>5, <1>6, <1>7, <2>1, <2>2, WatchStays DEF market
<1>13. \A e \in Desks : e # d => desk[e].id # m.id
  BY <1>1, <1>3, <1>8 DEF TradeInv, Numbered, Desks
<1>14. \A k \in told : k.id # m.id
  BY <1>1, <1>3 DEF TradeInv, Numbered
<1>15. TradeInv'
  <2>1. ASSUME NEW e \in Desks PROVE Handled(desk[e])'
    <3>1. CASE e = d
      <4>1. Priced(x)'
        BY <1>2, <1>7, <1>8, PricedStays DEF market
      <4>2. Handled(x)'
        BY <1>2, <1>7, <1>8, <4>1 DEF Handled, Counted, Before, Answered, Settled
      <4>. QED
        BY <1>9, <3>1, <4>2, HandledMoved
    <3>2. CASE e # d
      <4>1. PICK k : k = desk[e]
        OBVIOUS
      <4>2. Handled(k) /\ k.id # m.id
        BY <1>3, <1>13, <3>2, <4>1 DEF TradeInv
      <4>3. Handled(k)'
        BY <1>2, <4>2, HandledStays DEF market
      <4>. QED
        BY <1>9, <3>2, <4>1, <4>3, HandledMoved
    <3>. QED
      BY <3>1, <3>2
  <2>2. ASSUME NEW k \in told' PROVE Shown(k)'
    <3>1. k \in told /\ Shown(k) /\ k \in Threads /\ k.id # m.id
      BY <1>2, <1>3, <1>14 DEF TradeInv, Typed
    <3>2. clock' = clock /\ price' = price
      BY <1>2 DEF market
    <3>3. k.id \in tracked' <=> k.id \in tracked
      BY <1>2, <3>1
    <3>4. Priced(k) => Priced(k)'
      BY <3>2, PricedStays
    <3>. QED
      BY <1>2, <3>1, <3>2, <3>3, <3>4 DEF Shown, Counted
  <2>3. Numbered'
    <3>1. \A e \in Desks : desk'[e].id = desk[e].id
      BY <1>1, <1>7, <1>9
    <3>. QED
      BY <1>2, <1>3, <3>1 DEF TradeInv, Numbered, Desks
  <2>4. TrackedAccounted'
    <3>. SUFFICES ASSUME NEW id \in tracked'
                  PROVE  \/ <<id, "TRADE">> \in saved
                         \/ \E c \in cut : c[2] = id
                         \/ \E e \in Desks : desk'[e].id = id /\ desk'[e].pc \in {"settling", "saving"}
      BY <1>2 DEF TrackedAccounted
    <3>1. CASE id = m.id
      BY <1>7, <1>9, <3>1
    <3>2. CASE id # m.id
      <4>1. id \in tracked
        BY <1>2, <3>2
      <4>2. ASSUME NEW e \in Desks, desk[e].id = id, desk[e].pc \in {"settling", "saving"}
            PROVE  desk'[e].id = id /\ desk'[e].pc \in {"settling", "saving"}
        BY <1>1, <1>9, <3>2, <4>2
      <4>. QED
        BY <1>3, <4>1, <4>2 DEF TradeInv, TrackedAccounted
    <3>. QED
      BY <3>1, <3>2
  <2>. QED
    BY <2>1, <2>2, <2>3, <2>4 DEF TradeInv
<1>. QED
  BY <1>11, <1>12, <1>15 DEF IInv

LEMMA TellStep == ASSUME IInv, NEW d \in Desks, TellResult(d) PROVE IInv'
<1>1. PICK m : m = desk[d]
  OBVIOUS
<1>2. /\ release = "first" /\ m.pc = "telling" /\ Moves(d, Idle)
      /\ told' = (IF m.status = "TRADE" THEN told \cup {m} ELSE told)
      /\ UNCHANGED <<market, tables, lost, cut, analyses>>
  BY <1>1 DEF TellResult, At, Leave, Moves, bounds
<1>3. /\ m \in Threads /\ m.at <= clock /\ m.id <= analyses /\ Handled(m) /\ Typed
      /\ WatchInv /\ TradeInv /\ analyses \in Nat /\ clock \in Nat
      /\ d = "chat" => ChatHeld(m)
      /\ d = "monitor" => RowHeld(m)
  BY <1>1, <1>2, DeskHeld DEF IInv
<1>4. /\ desk'[d] = Idle
      /\ \A e \in Desks : e # d => desk'[e] = desk[e]
  BY <1>2, <1>3, IdleHeld, Moved
<1>5. m.status = "TRADE" =>
        /\ m.id # 0 /\ m.at # 0 /\ Counted(m) /\ <<m.id, "TRADE">> \in saved
        /\ m.id \in tracked => Priced(m)
  BY <1>2, <1>3 DEF Handled
<1>6. Typed'
  <2>1. /\ watch' \in Seq(RowsOf(Scenarios)) /\ told' \subseteq Threads
        /\ tracked' \subseteq 1..analyses'
    BY <1>2, <1>3 DEF Typed, tables
  <2>2. analyses' \in Nat /\ analyses <= analyses' /\ Idle.at <= clock /\ Idle.id <= analyses'
    <3>1. analyses' = analyses /\ analyses \in Nat
      BY <1>2, <1>3
    <3>. QED
      BY <1>3, <3>1, IdleHeld
  <2>. QED
    BY <1>2, <1>3, <2>1, <2>2, IdleHeld, TypedFrame
<1>7. WatchInv'
  <2>1. d = "monitor" => watch[m.w].closed \/ m.w \in lost
    BY <1>2, <1>3 DEF RowHeld
  <2>2. d = "chat" => Idle.w = m.w
    BY <1>3, IdleHeld DEF ChatHeld
  <2>3. Idle.w = m.w \/ watch[m.w].closed \/ m.w \in lost
    BY <2>1, <2>2 DEF Desks
  <2>. QED
    BY <1>1, <1>2, <1>3, <2>3, IdleHeld, WatchStays DEF market, tables
<1>8. TradeInv'
  <2>1. ASSUME NEW e \in Desks PROVE Handled(desk[e])'
    <3>1. CASE e = d
      BY <1>4, <3>1, IdleHeld, HandledMoved
    <3>2. CASE e # d
      <4>1. PICK k : k = desk[e]
        OBVIOUS
      <4>2. Handled(k)
        BY <1>3, <4>1 DEF TradeInv
      <4>3. Handled(k)'
        BY <1>2, <4>2, HandledStays DEF market, tables
      <4>. QED
        BY <1>4, <3>2, <4>1, <4>3, HandledMoved
    <3>. QED
      BY <3>1, <3>2
  <2>2. ASSUME NEW k \in told' PROVE Shown(k)'
    <3>1. Shown(k) /\ k \in Threads
      <4>1. CASE k \in told
        BY <1>3, <4>1 DEF TradeInv, Typed
      <4>2. CASE k = m /\ m.status = "TRADE"
        BY <1>3, <1>5, <4>2 DEF Shown
      <4>. QED
        BY <1>2, <4>1, <4>2
    <3>2. analyses' \in Nat /\ analyses <= analyses'
      <4>1. analyses' = analyses /\ analyses \in Nat
        BY <1>2, <1>3
      <4>. QED
        BY <4>1
    <3>. QED
      BY <1>2, <1>3, <3>1, <3>2, ShownStays DEF market, tables
  <2>3. Numbered'
    <3>1. ASSUME NEW e \in Desks, NEW k \in told' PROVE desk'[e].id # k.id
      <4>1. CASE k \in told
        <5>1. desk[e].id # k.id /\ k.id # 0
          BY <1>3, <4>1 DEF TradeInv, Numbered, Shown
        <5>. QED
          BY <1>4, <5>1, IdleHeld
      <4>2. CASE k = m /\ m.status = "TRADE"
        <5>1. e # d => desk[e].id # m.id
          BY <1>1, <1>3, <1>5, <4>2 DEF TradeInv, Numbered, Desks
        <5>. QED
          BY <1>4, <1>5, <4>2, <5>1, IdleHeld
      <4>. QED
        BY <1>2, <4>1, <4>2
    <3>2. desk'["chat"].id # 0 => desk'["chat"].id # desk'["monitor"].id
      BY <1>3, <1>4, IdleHeld DEF TradeInv, Numbered, Desks
    <3>. QED
      BY <3>1, <3>2 DEF Numbered
  <2>4. TrackedAccounted'
    <3>. SUFFICES ASSUME NEW id \in tracked
                  PROVE  \/ <<id, "TRADE">> \in saved
                         \/ \E c \in cut : c[2] = id
                         \/ \E e \in Desks : desk'[e].id = id /\ desk'[e].pc \in {"settling", "saving"}
      BY <1>2 DEF TrackedAccounted, tables
    <3>1. ASSUME NEW e \in Desks, desk[e].id = id, desk[e].pc \in {"settling", "saving"}
          PROVE  desk'[e].id = id /\ desk'[e].pc \in {"settling", "saving"}
      BY <1>1, <1>2, <1>4, <3>1
    <3>. QED
      BY <1>3, <3>1 DEF TradeInv, TrackedAccounted
  <2>. QED
    BY <2>1, <2>2, <2>3, <2>4 DEF TradeInv
<1>. QED
  BY <1>6, <1>7, <1>8 DEF IInv
-----------------------------------------------------------------------------
(* The market, and the end of the process. *)

LEMMA TickStep == ASSUME IInv, Tick PROVE IInv'
<1>1. /\ release = "first" /\ clock' = clock + 1
      /\ UNCHANGED <<release, tables, desk, history, analyses>>
  BY DEF Tick, bounds
<1>2. PICK p \in Prices : price' = Append(price, p)
  BY DEF Tick
<1>3. /\ Typed /\ WatchInv /\ TradeInv
      /\ price \in Seq(Prices) /\ clock \in Nat \ {0} /\ Len(price) = clock
  BY DEF IInv, Typed
<1>4. /\ price' \in Seq(Prices) /\ Len(price') = clock'
      /\ \A i \in 1..clock : price'[i] = price[i]
  BY <1>1, <1>2, <1>3
<1>5. Typed'
  <2>1. ASSUME NEW d \in Desks PROVE desk[d].at <= clock + 1
    <3>1. desk[d].at \in Nat /\ desk[d].at <= clock
      BY <1>3 DEF Typed, Threads
    <3>. QED
      BY <1>3, <3>1
  <2>. QED
    BY <1>1, <1>3, <1>4, <2>1 DEF Typed, tables, history
<1>6. WatchInv'
  <2>1. ASSUME NEW w \in DOMAIN watch PROVE RowExplained(w)'
    <3>1. RowExplained(w)
      BY <1>1, <1>3 DEF WatchInv
    <3>. QED
      BY <1>1, <3>1 DEF RowExplained, Open, Doing, tables, history
  <2>2. RowHeld(desk["monitor"])'
    BY <1>1, <1>3 DEF WatchInv, RowHeld, Free, Marked, tables, history
  <2>. QED
    BY <1>1, <1>3, <2>1, <2>2 DEF WatchInv, ChatHeld, tables, history
<1>7. ASSUME NEW m \in Threads, m.at # 0, m.at <= clock PROVE Priced(m) => Priced(m)'
  <2>1. m.at \in 1..clock
    BY <1>3, <1>7 DEF Threads
  <2>2. price'[m.at] = price[m.at]
    BY <1>4, <2>1
  <2>. QED
    BY <2>2 DEF Priced
<1>8. TradeInv'
  <2>1. ASSUME NEW d \in Desks PROVE Handled(desk[d])'
    <3>1. PICK m : m = desk[d]
      OBVIOUS
    <3>2. Handled(m) /\ m \in Threads /\ m.at <= clock
      BY <1>3, <3>1 DEF TradeInv, Typed
    <3>3. Counted(m)' <=> Counted(m)
      BY <1>1 DEF Counted, tables
    <3>4. m.at # 0 /\ Priced(m) => Priced(m)'
      BY <1>7, <3>2
    <3>5. Handled(m)'
      BY <1>1, <3>2, <3>3, <3>4 DEF Handled, tables, Answered
    <3>. QED
      BY <1>1, <3>1, <3>5, HandledMoved
  <2>2. ASSUME NEW m \in told' PROVE Shown(m)'
    <3>1. m \in Threads /\ Shown(m)
      BY <1>1, <1>3 DEF history, TradeInv, Typed
    <3>2. Priced(m) => Priced(m)'
      BY <1>7, <3>1 DEF Shown
    <3>3. m.at <= clock'
      BY <1>1, <1>3, <3>1 DEF Shown, Threads
    <3>. QED
      BY <1>1, <3>1, <3>2, <3>3 DEF Shown, Counted, tables
  <2>3. Numbered' /\ TrackedAccounted'
    BY <1>1, <1>3 DEF TradeInv, Numbered, TrackedAccounted, tables, history
  <2>. QED
    BY <2>1, <2>2, <2>3 DEF TradeInv
<1>. QED
  BY <1>5, <1>6, <1>8 DEF IInv

\* Whatever the desks were doing was cut short.
LEMMA DiesStep ==
  ASSUME IInv, Dies, UNCHANGED <<clock, price, tracked, saved, told, analyses>>,
         release' \in {"first", "second"}, release = "first",
         release' = "first" => watch' = watch
  PROVE  IInv'
<1>1. Typed /\ WatchInv /\ TradeInv
  BY DEF IInv
<1>2. /\ desk' \in [Desks -> Threads]
      /\ \A d \in Desks : desk'[d] = Idle
  BY IdleHeld DEF Dies
<1>3. Typed'
  <2>1. ASSUME NEW d \in Desks PROVE desk'[d].at <= clock' /\ desk'[d].id <= analyses'
    BY <1>1, <1>2, IdleHeld DEF Typed
  <2>. QED
    BY <1>1, <1>2, <2>1 DEF Typed
<1>4. \A d \in Desks : desk[d].pc # "idle" =>
        \E c \in cut' : c[1] = desk[d].w /\ c[2] = desk[d].id
  <2>. SUFFICES ASSUME NEW d \in Desks, desk[d].pc # "idle"
                PROVE  \E c \in cut' : c[1] = desk[d].w /\ c[2] = desk[d].id
    OBVIOUS
  <2>1. PICK c : c = <<desk[d].w, desk[d].id>>
    OBVIOUS
  <2>2. c \in cut' /\ c[1] = desk[d].w /\ c[2] = desk[d].id
    BY <2>1 DEF Dies
  <2>. QED
    BY <2>2
<1>5. TradeInv'
  <2>1. ASSUME NEW d \in Desks PROVE Handled(desk[d])'
    BY <1>2, IdleHeld, HandledMoved
  <2>2. ASSUME NEW m \in told' PROVE Shown(m)'
    <3>1. Shown(m)
      BY <1>1 DEF TradeInv
    <3>. QED
      BY <3>1 DEF Shown, Counted, Priced
  <2>3. Numbered'
    <3>1. \A m \in told : m.id # 0
      BY <1>1 DEF TradeInv, Shown
    <3>. QED
      BY <1>2, <3>1, IdleHeld DEF Numbered, Desks
  <2>4. TrackedAccounted'
    <3>. SUFFICES ASSUME NEW id \in tracked
                  PROVE  \/ <<id, "TRADE">> \in saved
                         \/ \E c \in cut' : c[2] = id
      BY DEF TrackedAccounted
    <3>1. CASE <<id, "TRADE">> \in saved
      BY <3>1
    <3>2. CASE \E c \in cut : c[2] = id
      BY <3>2 DEF Dies
    <3>3. ASSUME NEW d \in Desks, desk[d].id = id, desk[d].pc \in {"settling", "saving"}
          PROVE  \E c \in cut' : c[2] = id
      BY <1>4, <3>3
    <3>. QED
      BY <1>1, <3>1, <3>2, <3>3 DEF TradeInv, TrackedAccounted
  <2>. QED
    BY <2>1, <2>2, <2>3, <2>4 DEF TradeInv
<1>6. ASSUME release' = "first" PROVE WatchInv'
  <2>1. watch' = watch /\ lost' = lost \cup {w \in DOMAIN watch : Doing(w) /\ watch[w].triggered}
    BY <1>6 DEF Dies
  <2>2. ASSUME NEW w \in DOMAIN watch PROVE RowExplained(w)'
    <3>1. RowExplained(w)
      BY <1>1 DEF WatchInv
    <3>2. w \in lost' <=> w \in lost \/ (Doing(w) /\ watch[w].triggered)
      BY <2>1
    <3>3. cut \subseteq cut'
      BY DEF Dies
    <3>. QED
      BY <2>1, <3>1, <3>2, <3>3 DEF RowExplained, Open
  <2>3. RowHeld(desk["monitor"])'
    BY <1>2, IdleHeld, RowMoved DEF Desks
  <2>4. ChatHeld(desk["chat"])'
    BY <1>2, IdleHeld DEF ChatHeld, Desks
  <2>. QED
    BY <1>1, <2>1, <2>2, <2>3, <2>4 DEF WatchInv
<1>7. WatchInv'
  BY <1>6 DEF WatchInv
<1>. QED
  BY <1>3, <1>5, <1>7 DEF IInv

LEMMA EndStep == ASSUME IInv, Crash \/ Upgrade PROVE IInv'
<1>1. CASE Crash
  BY <1>1, DiesStep DEF Crash, market, tables
<1>2. CASE Upgrade
  BY <1>2, DiesStep DEF Upgrade, bounds
<1>. QED
  BY <1>1, <1>2
-----------------------------------------------------------------------------
(* The invariant. *)

\* The tables the bot may find are of the right types, and say themselves what
\* an earlier run lost and cut short.
LEMMA InitHolds == Init => IInv
<1>. SUFFICES ASSUME Init PROVE IInv
  OBVIOUS
<1>1. /\ clock = 1 /\ release = "first" /\ watch \in Legacy /\ tracked = {} /\ saved = {}
      /\ desk = [d \in Desks |-> Idle] /\ told = {} /\ analyses = 0
  BY DEF Init
<1>2. PICK p \in Prices : price = <<p>>
  BY DEF Init
<1>3. /\ watch \in Seq(RowsOf(LegacyScenarios))
      /\ \A w \in DOMAIN watch : ~watch[w].closed /\ watch[w].locked => watch[w].triggered
  BY <1>1, FirstBotAssumption
<1>4. watch \in Seq(RowsOf(Scenarios))
  <2>1. RowsOf(LegacyScenarios) \subseteq RowsOf(Scenarios)
    BY DEF RowsOf, Scenarios
  <2>2. PICK n \in Nat : DOMAIN watch = 1..n /\ watch \in [1..n -> RowsOf(LegacyScenarios)]
    BY <1>3
  <2>3. watch \in [1..n -> RowsOf(Scenarios)]
    BY <2>1, <2>2
  <2>. QED
    BY <2>3
<1>5. Typed
  BY <1>1, <1>2, <1>4, IdleHeld DEF Typed
<1>6. WatchInv
  <2>1. ASSUME NEW w \in DOMAIN watch PROVE RowExplained(w)
    <3>1. w \in lost <=> ~watch[w].closed /\ watch[w].triggered
      BY DEF Init
    <3>2. ~Open(w) /\ ~watch[w].triggered => \E c \in cut : c[1] = w
      <4>. SUFFICES ASSUME watch[w].closed, ~watch[w].triggered
                    PROVE  \E c \in cut : c[1] = w
        BY DEF Open
      <4>1. PICK c : c = <<w, 0>>
        OBVIOUS
      <4>2. c \in cut /\ c[1] = w
        BY <4>1 DEF Init
      <4>. QED
        BY <4>2
    <3>. QED
      BY <1>3, <3>1, <3>2 DEF RowExplained, Open
  <2>2. lost \subseteq DOMAIN watch
    BY DEF Init
  <2>. QED
    BY <1>1, <2>1, <2>2, IdleHeld DEF WatchInv, Desks
<1>7. TradeInv
  <2>1. \A d \in Desks : Handled(desk[d])
    BY <1>1, IdleHeld
  <2>2. Numbered
    BY <1>1, IdleHeld DEF Numbered, Desks
  <2>. QED
    BY <1>1, <2>1, <2>2 DEF TradeInv, TrackedAccounted
<1>. QED
  BY <1>5, <1>6, <1>7 DEF IInv

LEMMA StutterStep == ASSUME IInv, UNCHANGED vars PROVE IInv'
<1>. USE DEF vars, market, tables, history, bounds
<1>1. Typed'
  BY DEF IInv, Typed
<1>2. WatchInv'
  BY DEF IInv, WatchInv, RowExplained, RowHeld, ChatHeld, Open, Doing, Free, Marked
<1>3. TradeInv'
  <2>1. ASSUME NEW d \in Desks PROVE Handled(desk[d])'
    BY DEF IInv, TradeInv, Handled, Counted, Priced
  <2>2. ASSUME NEW m \in told' PROVE Shown(m)'
    BY DEF IInv, TradeInv, Shown, Counted, Priced
  <2>3. Numbered' /\ TrackedAccounted'
    BY DEF IInv, TradeInv, Numbered, TrackedAccounted
  <2>. QED
    BY <2>1, <2>2, <2>3 DEF TradeInv
<1>. QED
  BY <1>1, <1>2, <1>3 DEF IInv

LEMMA NextStep == IInv /\ [Next]_vars => IInv'
<1>. SUFFICES ASSUME IInv, [Next]_vars PROVE IInv'
  OBVIOUS
<1>1. CASE Tick
  BY <1>1, TickStep
<1>2. CASE Command \/ Begin
  BY <1>2, ChatStarts
<1>3. ASSUME NEW w \in DOMAIN watch, FindExpired(w) \/ TakeCandle(w) PROVE IInv'
  BY <1>3, FindStep
<1>4. CASE JudgeCandle
  BY <1>4, JudgeCandleStep
<1>5. CASE Mark \/ Lock
  BY <1>5, MarkStep
<1>6. CASE TickFails
  BY <1>6, TickFailsStep
<1>7. ASSUME NEW d \in Desks,
             \/ MarketClosed(d) \/ TakeSnapshot(d) \/ Answer(d) \/ AccountBusy(d)
             \/ AccountFree(d) \/ Judge(d)
      PROVE  IInv'
  BY <1>7, MarketClosedStep, TakeSnapshotStep, AnswerStep, AccountStep, JudgeStep
<1>8. ASSUME NEW d \in Desks,
             \/ Track(d) \/ Settle(d) \/ Create(d) \/ Save(d) \/ TellResult(d) \/ Fails(d)
      PROVE  IInv'
  BY <1>8, TrackStep, SettleStep, CreateStep, SaveStep, TellStep, FailsStep
<1>9. CASE Apologise \/ ApologyFails
  BY <1>9, ApologyStep
<1>10. CASE Crash \/ Upgrade
  BY <1>10, EndStep
<1>11. CASE UNCHANGED vars
  BY <1>11, StutterStep
<1>. QED
  BY <1>1, <1>2, <1>3, <1>4, <1>5, <1>6, <1>7, <1>8, <1>9, <1>10, <1>11 DEF Next

\* The rows, the desks and the analyses are always as they were described.
THEOREM Inductive == Spec => []IInv
  BY InitHolds, NextStep, PTL DEF Spec
-----------------------------------------------------------------------------
(* The properties. *)

\* A watch that is open and locked or marked is being rechecked or was given
\* up, after the account was found busy, a crash, or a write that failed
\* (StuckExplained; monitor_loop.py promises that no passing error disables it).
THEOREM StuckCorrect == Spec => []StuckExplained
<1>1. IInv => StuckExplained
  BY DEF IInv, WatchInv, RowExplained, StuckExplained
<1>. QED
  BY <1>1, Inductive, PTL

\* A TRADE that is shown was stored, and is tracked unless the account was
\* busy; it met the terms, and its volume passes its risk by half a step at
\* most; what is tracked is stored unless it was cut short (TradesAccounted).
THEOREM TradesCorrect == Spec => []TradesAccounted
<1>1. IInv => TradesAccounted
  <2>. SUFFICES ASSUME IInv PROVE TradesAccounted
    OBVIOUS
  <2>1. ASSUME NEW m \in told
        PROVE  /\ <<m.id, "TRADE">> \in saved
               /\ m.busy <=> m.id \notin tracked
               /\ ~m.busy => Priced(m)
    <3>1. Shown(m) /\ m.busy \in BOOLEAN
      BY DEF IInv, TradeInv, Typed, Threads
    <3>. QED
      BY <3>1 DEF Shown, Counted
  <2>2. TrackedAccounted
    BY DEF IInv, TradeInv
  <2>. QED
    BY <2>1, <2>2 DEF TradesAccounted, TrackedAccounted
<1>. QED
  BY <1>1, Inductive, PTL
-----------------------------------------------------------------------------
(* The upgrade. *)

\* Of some rows of a table, one is the newest.
LEMMA Newest ==
  ASSUME NEW n \in Nat, NEW S \in SUBSET (1..n), S # {}
  PROVE  \E v \in S : \A u \in S : u <= v
<1>. DEFINE T == {n - v : v \in S}
            R == OpToRel(<, Nat)
<1>1. T \subseteq Nat /\ T # {}
  <2>1. ASSUME NEW v \in S PROVE n - v \in Nat
    OBVIOUS
  <2>. QED
    BY <2>1
<1>2. IsWellFoundedOn(R, Nat)
  BY NatLessThanWellFounded
<1>3. \A x, y \in Nat : y < x => <<y, x>> \in R
  BY DEF OpToRel
<1>. HIDE DEF T, R
<1>4. \E k \in T : \A j \in T : <<j, k>> \notin R
  BY <1>1, <1>2, WFMin
<1>5. \E k \in T : \A j \in T : ~ (j < k)
  BY <1>1, <1>3, <1>4
<1>6. PICK v \in S : \A j \in T : ~ (j < n - v)
  BY <1>5 DEF T
<1>7. \A u \in S : ~ (n - u < n - v)
  BY <1>6 DEF T
<1>8. \A u \in S : u <= v
  BY <1>7
<1>. QED
  BY <1>8

\* A row the upgrade ends.
LEMMA EndedRow ==
  ASSUME NEW scenarios, NEW row \in RowsOf(scenarios), NEW status
  PROVE  /\ Ended(row, status).closed = TRUE /\ Ended(row, status).status = status
         /\ Ended(row, status).triggered = row.triggered
  BY DEF Ended, RowsOf

\* What becomes of each row: marked rows end as triggered, and of the free ones
\* the newest goes on.
Superseded(rows, w) ==
  \E v \in DOMAIN rows : w < v /\ ~rows[v].closed /\ ~rows[v].triggered

LEMMA UpgradedRow ==
  ASSUME NEW scenarios, NEW rows \in Seq(RowsOf(scenarios)), NEW w \in DOMAIN rows
  PROVE  /\ rows[w].triggered =>
              Upgraded(rows)[w].closed /\ Upgraded(rows)[w].status = "TRIGGERED"
         /\ ~rows[w].triggered /\ ~rows[w].closed /\ Superseded(rows, w) =>
              Upgraded(rows)[w].closed /\ Upgraded(rows)[w].status = "INVALIDATED"
         /\ ~rows[w].triggered /\ (rows[w].closed \/ ~Superseded(rows, w)) =>
              Upgraded(rows)[w] = rows[w]
         /\ Upgraded(rows)[w].triggered = rows[w].triggered
<1>. DEFINE next == Upgraded(rows)[w]
<1>1. rows[w] \in RowsOf(scenarios) /\ rows[w].status = "none"
  <2>1. rows[w] \in RowsOf(scenarios)
    OBVIOUS
  <2>. QED
    BY <2>1 DEF RowsOf
<1>2. next = IF rows[w].triggered THEN Ended(rows[w], "TRIGGERED")
             ELSE IF ~rows[w].closed /\ Superseded(rows, w) THEN Ended(rows[w], "INVALIDATED")
             ELSE rows[w]
  BY <1>1 DEF Upgraded, Superseded
<1>. HIDE DEF next
<1>3. CASE rows[w].triggered
  <2>1. next.closed /\ next.status = "TRIGGERED" /\ next.triggered = rows[w].triggered
    BY <1>1, <1>2, <1>3, EndedRow
  <2>. QED
    BY <1>3, <2>1 DEF next
<1>4. CASE ~rows[w].triggered /\ ~rows[w].closed /\ Superseded(rows, w)
  <2>1. next.closed /\ next.status = "INVALIDATED" /\ next.triggered = rows[w].triggered
    BY <1>1, <1>2, <1>4, EndedRow
  <2>. QED
    BY <1>4, <2>1 DEF next
<1>5. CASE ~rows[w].triggered /\ (rows[w].closed \/ ~Superseded(rows, w))
  <2>1. next = rows[w]
    BY <1>2, <1>5
  <2>. QED
    BY <1>5, <2>1 DEF next
<1>. QED
  BY <1>3, <1>4, <1>5

\* Only the upgrade gives the database to the successor.
LEMMA ReleaseChanges == ASSUME [Next]_vars, release # release' PROVE Upgrade
<1>1. ~Tick /\ ~Command /\ ~Begin /\ ~JudgeCandle /\ ~Mark /\ ~Lock /\ ~TickFails
  BY DEF Tick, Command, Begin, JudgeCandle, Mark, Lock, TickFails, market
<1>2. ~ \E w \in DOMAIN watch : FindExpired(w) \/ TakeCandle(w)
  BY DEF FindExpired, TakeCandle, market
<1>3. ~ \E d \in Desks :
          \/ MarketClosed(d) \/ TakeSnapshot(d) \/ Answer(d) \/ AccountBusy(d)
          \/ AccountFree(d) \/ Judge(d)
  BY DEF MarketClosed, TakeSnapshot, Answer, AccountBusy, AccountFree, Judge, market
<1>4. ~ \E d \in Desks :
          \/ Track(d) \/ Settle(d) \/ Create(d) \/ Save(d) \/ TellResult(d) \/ Fails(d)
  BY DEF Track, Settle, Create, Save, TellResult, Fails, market
<1>5. ~Apologise /\ ~ApologyFails /\ ~Crash
  BY DEF Apologise, ApologyFails, Crash, market
<1>6. vars' # vars
  BY DEF vars, market
<1>. QED
  BY <1>1, <1>2, <1>3, <1>4, <1>5, <1>6 DEF Next

LEMMA UpgradeHolds ==
  ASSUME IInv, Upgrade
  PROVE  /\ DOMAIN watch' = DOMAIN watch
         /\ Upgraded(watch') = watch'
         /\ \A v, w \in DOMAIN watch : ~watch'[v].closed /\ ~watch'[w].closed => v = w
         /\ \A w \in DOMAIN watch :
              /\ Open(w) /\ w \in lost => watch'[w].status = "TRIGGERED"
              /\ Watched(w) => \E v \in DOMAIN watch : w <= v /\ Watched(v) /\ ~watch'[v].closed
              /\ ~Open(w) => watch'[w].closed
              /\ watch'[w].closed /\ watch'[w].status = "none" => \E c \in cut : c[1] = w
<1>1. /\ release = "first" /\ watch' = Upgraded(watch)
      /\ watch \in Seq(RowsOf(Scenarios)) /\ \A w \in DOMAIN watch : RowExplained(w)
  BY DEF Upgrade, IInv, Typed, WatchInv
<1>2. DOMAIN watch' = DOMAIN watch
  BY <1>1 DEF Upgraded
<1>3. ASSUME NEW w \in DOMAIN watch
      PROVE  /\ watch[w] \in RowsOf(Scenarios) /\ watch[w].status = "none"
             /\ watch[w].triggered => watch'[w].closed /\ watch'[w].status = "TRIGGERED"
             /\ ~watch[w].triggered /\ ~watch[w].closed /\ Superseded(watch, w) =>
                  watch'[w].closed /\ watch'[w].status = "INVALIDATED"
             /\ ~watch[w].triggered /\ (watch[w].closed \/ ~Superseded(watch, w)) =>
                  watch'[w] = watch[w]
             /\ watch'[w].triggered = watch[w].triggered
  <2>1. watch[w] \in RowsOf(Scenarios)
    BY <1>1
  <2>2. watch[w].status = "none"
    BY <2>1 DEF RowsOf
  <2>. QED
    BY <1>1, <2>1, <2>2, UpgradedRow
<1>4. ASSUME NEW w \in DOMAIN watch, ~watch'[w].closed
      PROVE  ~watch[w].triggered /\ ~watch[w].closed /\ ~Superseded(watch, w) /\ w \in Nat
  BY <1>1, <1>3, <1>4
<1>5. ASSUME NEW v \in DOMAIN watch, NEW w \in DOMAIN watch,
             ~watch'[v].closed, ~watch'[w].closed
      PROVE  v = w
  <2>1. ~ (v < w) /\ ~ (w < v)
    BY <1>4, <1>5 DEF Superseded
  <2>2. v \in Nat /\ w \in Nat
    BY <1>4, <1>5
  <2>. QED
    BY <2>1, <2>2
<1>6. Upgraded(watch') = watch'
  <2>1. ASSUME NEW w \in DOMAIN watch PROVE Upgraded(watch')[w] = watch'[w]
    <3>1. Upgraded(watch')[w] =
            IF watch'[w].triggered /\ (~watch'[w].closed \/ watch'[w].status = "none")
            THEN Ended(watch'[w], "TRIGGERED")
            ELSE IF ~watch'[w].closed
                    /\ \E v \in DOMAIN watch' : w < v /\ ~watch'[v].closed /\ ~watch'[v].triggered
            THEN Ended(watch'[w], "INVALIDATED")
            ELSE watch'[w]
      BY <1>2 DEF Upgraded
    <3>2. ~ (watch'[w].triggered /\ (~watch'[w].closed \/ watch'[w].status = "none"))
      BY <1>3
    <3>3. ~ (~watch'[w].closed
             /\ \E v \in DOMAIN watch' : w < v /\ ~watch'[v].closed /\ ~watch'[v].triggered)
      <4>. SUFFICES ASSUME ~watch'[w].closed, NEW v \in DOMAIN watch, w < v, ~watch'[v].closed
                    PROVE  FALSE
        BY <1>2
      <4>1. v = w /\ w \in Nat
        BY <1>4, <1>5
      <4>. QED
        BY <4>1
    <3>. QED
      BY <3>1, <3>2, <3>3
  <2>2. \E n \in Nat : DOMAIN watch = 1..n
    BY <1>1
  <2>3. DOMAIN Upgraded(watch') = DOMAIN watch'
    BY DEF Upgraded
  <2>4. Upgraded(watch') = [w \in DOMAIN watch' |-> Upgraded(watch')[w]]
    BY DEF Upgraded
  <2>5. watch' = [w \in DOMAIN watch' |-> watch'[w]]
    BY <1>1 DEF Upgraded
  <2>. QED
    BY <1>2, <2>1, <2>4, <2>5
<1>7. ASSUME NEW w \in DOMAIN watch
      PROVE  /\ Open(w) /\ w \in lost => watch'[w].status = "TRIGGERED"
             /\ ~Open(w) => watch'[w].closed
             /\ watch'[w].closed /\ watch'[w].status = "none" => \E c \in cut : c[1] = w
  <2>1. RowExplained(w)
    BY <1>1
  <2>2. Open(w) /\ w \in lost => watch'[w].status = "TRIGGERED"
    BY <1>3, <2>1 DEF RowExplained
  <2>3. ~Open(w) => watch'[w].closed
    BY <1>3 DEF Open
  <2>4. watch'[w].closed /\ watch'[w].status = "none" => \E c \in cut : c[1] = w
    BY <1>3, <2>1 DEF RowExplained, Open
  <2>. QED
    BY <2>2, <2>3, <2>4
<1>8. ASSUME NEW w \in DOMAIN watch, Watched(w)
      PROVE  \E v \in DOMAIN watch : w <= v /\ Watched(v) /\ ~watch'[v].closed
  <2>. DEFINE S == {v \in DOMAIN watch : ~watch[v].closed /\ ~watch[v].triggered}
  <2>1. PICK n \in Nat : DOMAIN watch = 1..n
    BY <1>1
  <2>2. S \in SUBSET (1..n) /\ w \in S
    BY <1>8, <2>1 DEF Watched, Open
  <2>3. PICK v \in S : \A u \in S : u <= v
    <3>. HIDE DEF S
    <3>. QED
      BY <2>2, Newest
  <2>4. w <= v /\ v \in DOMAIN watch
    BY <2>2, <2>3
  <2>5. ~Superseded(watch, v)
    BY <2>1, <2>3 DEF Superseded
  <2>6. ~watch'[v].closed
    BY <1>3, <2>3, <2>4, <2>5
  <2>7. Watched(v)
    <3>1. RowExplained(v)
      BY <1>1, <2>4
    <3>. QED
      BY <2>3, <3>1 DEF Watched, Open, RowExplained
  <2>. QED
    BY <2>4, <2>6, <2>7
<1>. QED
  BY <1>2, <1>5, <1>6, <1>7, <1>8

\* The upgrade leaves at most one open watch, the newest that was looked at;
\* the stuck ones have ended as triggered; nothing is opened again; and a second
\* start finds nothing to mend (UpgradeRepairs, init_db of the successor).
THEOREM UpgradeCorrect == Spec => UpgradeRepairs
<1>1. IInv /\ [Next]_vars =>
        [release # release' =>
           /\ DOMAIN watch' = DOMAIN watch
           /\ Upgraded(watch') = watch'
           /\ \A v, w \in DOMAIN watch : ~watch'[v].closed /\ ~watch'[w].closed => v = w
           /\ \A w \in DOMAIN watch :
                /\ Open(w) /\ w \in lost => watch'[w].status = "TRIGGERED"
                /\ Watched(w) => \E v \in DOMAIN watch : w <= v /\ Watched(v) /\ ~watch'[v].closed
                /\ ~Open(w) => watch'[w].closed
                /\ watch'[w].closed /\ watch'[w].status = "none" => \E c \in cut : c[1] = w]_vars
  BY ReleaseChanges, UpgradeHolds
<1>. QED
  BY <1>1, Inductive, PTL DEF Spec, UpgradeRepairs
=============================================================================
