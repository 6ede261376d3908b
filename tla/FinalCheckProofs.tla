-------------------------- MODULE FinalCheckProofs --------------------------
(***************************************************************************)
(* What a TRADE or a WATCH that is stored still holds, for any lengths of  *)
(* candles, prices, answers, accounts and delays of the model.             *)
(***************************************************************************)
EXTENDS FinalCheck, Integers, TLAPS

\* A symbol's account, and an answer, as far as the volume needs them.
Accounts == [balance : Nat, point : Nat, least : Nat, most : Nat]

Terms(t) ==
  /\ t.entry \in Nat /\ t.stop \in Nat /\ t.risk \in Nat
-----------------------------------------------------------------------------
(* Conditions. *)

\* No close meets both the trigger and the invalidation of a scenario that
\* parses, so that the order in which check_trigger compares them never
\* decides (parse_conditions, lines 84 to 86).
THEOREM NeverBoth ==
  ASSUME NEW s, Parses(s),
         s.zone.numbers \in Seq(Nat), s.invalidation.numbers \in Seq(Nat),
         NEW close \in Nat, Matches(TriggerOf(s), close)
  PROVE  ~Matches(InvalidOf(s), close)
<1>. DEFINE n == s.zone.numbers
            m == s.invalidation.numbers[1]
<1>1. /\ m \in Nat /\ n # <<>> /\ n \in Seq(Nat) /\ Len(n) \in {1, 2}
      /\ n[1] \in Nat /\ (Len(n) = 2 => n[2] \in Nat)
  <2>1. n # <<>> /\ Len(n) <= 2 /\ Len(s.invalidation.numbers) = 1
    BY DEF Parses, HasLevels
  <2>2. Len(n) \in Nat /\ Len(n) # 0
    BY <2>1
  <2>3. m \in Nat
    BY <2>1
  <2>4. n[1] \in Nat /\ (Len(n) = 2 => n[2] \in Nat)
    BY <2>2
  <2>5. \A k \in Nat : k # 0 /\ k <= 2 => k \in {1, 2}
    OBVIOUS
  <2>6. Len(n) \in {1, 2}
    BY <2>1, <2>2, <2>5
  <2>7. n \in Seq(Nat)
    OBVIOUS
  <2>. QED
    BY <2>1, <2>3, <2>4, <2>6, <2>7
<1>2. CASE s.direction = "BUY"
  <2>1. m < TriggerOf(s).level
    BY <1>2 DEF Parses, Ordered, InvalidOf
  <2>2. TriggerOf(s).level \in Nat /\ close >= TriggerOf(s).level
    BY <1>1, <1>2 DEF Matches, TriggerOf, LowerOf, HigherOf
  <2>. QED
    BY <1>1, <1>2, <2>1, <2>2 DEF Matches, InvalidOf
<1>3. CASE s.direction = "SELL"
  <2>1. m > TriggerOf(s).upper
    BY <1>3 DEF Parses, Ordered, InvalidOf
  <2>2. TriggerOf(s).upper \in Nat /\ close <= TriggerOf(s).upper
    BY <1>1, <1>3 DEF Matches, TriggerOf, LowerOf, HigherOf
  <2>. QED
    BY <1>1, <1>3, <2>1, <2>2 DEF Matches, InvalidOf
<1>. QED
  BY <1>2, <1>3 DEF Parses, Directions
-----------------------------------------------------------------------------
(* Volumes. *)

LEMMA GapType == ASSUME NEW a \in Nat, NEW b \in Nat PROVE Gap(a, b) \in Nat
  BY DEF Gap, HigherOf, LowerOf

LEMMA LossType ==
  ASSUME NEW t, Terms(t), NEW account \in Accounts
  PROVE  LossOfStep(t, account) \in Nat
<1>1. Gap(t.entry, t.stop) \in Nat /\ account.point \in Nat
  BY GapType DEF Terms, Accounts
<1>. QED
  BY <1>1 DEF LossOfStep

\* A quotient rounded down, multiplied back.
LEMMA RoundedDown ==
  ASSUME NEW n \in Nat, NEW d \in Nat, d > 0
  PROVE  /\ n \div d \in Nat
         /\ (n \div d) * d <= n
         /\ n - (n \div d) * d = n % d /\ n % d < d /\ n % d \in Nat
  OBVIOUS

LEMMA Smaller ==
  ASSUME NEW a \in Nat, NEW b \in Nat, NEW d \in Nat, a <= b
  PROVE  a * d <= b * d
  OBVIOUS

LEMMA VolumeType ==
  ASSUME NEW t, Terms(t), NEW account \in Accounts
  PROVE  Volume(t, account) \in Nat
<1>. DEFINE d == Whole * LossOfStep(t, account)
            n == account.balance * t.risk
<1>1. d \in Nat /\ n \in Nat /\ account.most \in Nat
  BY LossType DEF Whole, Terms, Accounts
<1>2. CASE LossOfStep(t, account) = 0
  BY <1>2 DEF Volume
<1>3. CASE LossOfStep(t, account) # 0
  <2>1. n \div d \in Nat
    BY <1>1, <1>3, LossType, RoundedDown DEF Whole
  <2>. QED
    BY <1>1, <2>1 DEF Volume, AffordableSteps, LowerOf
<1>. QED
  BY <1>2, <1>3

\* The volume the release computes loses at its stop no more than the risk the
\* trade was given (calculate_position_size rounds down and refuses).
THEOREM VolumeWithinRisk ==
  ASSUME NEW t, Terms(t), NEW account \in Accounts
  PROVE  WithinRisk(t, account, Volume(t, account))
<1>. DEFINE loss == LossOfStep(t, account)
            d == Whole * loss
            n == account.balance * t.risk
            v == Volume(t, account)
<1>1. loss \in Nat /\ d \in Nat /\ n \in Nat /\ account.most \in Nat
  BY LossType DEF Whole, Terms, Accounts
<1>2. CASE v = 0
  <2>1. v * loss * Whole = 0
    BY <1>1, <1>2 DEF Whole
  <2>. QED
    BY <1>1, <2>1 DEF WithinRisk
<1>3. CASE v # 0
  <2>1. loss > 0 /\ d > 0
    BY <1>1, <1>3 DEF Volume, Whole
  <2>2. n \div d \in Nat /\ (n \div d) * d <= n
    BY <1>1, <2>1, RoundedDown
  <2>3. v \in Nat /\ v <= n \div d
    BY <1>1, <1>3, <2>2 DEF Volume, AffordableSteps, LowerOf
  <2>4. v * d <= (n \div d) * d
    BY <1>1, <2>2, <2>3, Smaller
  <2>5. v * loss * Whole = v * d
    BY <1>1, <2>3 DEF Whole
  <2>6. (n \div d) * d \in Nat /\ v * d \in Nat
    BY <1>1, <2>2, <2>3
  <2>7. v * loss * Whole <= n
    BY <1>1, <2>2, <2>4, <2>5, <2>6
  <2>. QED
    BY <2>7 DEF WithinRisk
<1>. QED
  BY <1>2, <1>3

\* An accepted trade of the release loses at its stop no more than the hard cap
\* of the balance (validate_trade_result, then calculate_position_size).
THEOREM LossWithinHardCap ==
  ASSUME NEW t, Terms(t), NEW account \in Accounts, NEW friday \in BOOLEAN,
         NEW bid \in Nat, NEW ask \in Nat, TermsHold(t, bid, ask, friday)
  PROVE  Volume(t, account) * LossOfStep(t, account) * Whole <= account.balance * HardCap
<1>. DEFINE loss == Volume(t, account) * LossOfStep(t, account) * Whole
<1>1. loss <= account.balance * t.risk
  BY VolumeWithinRisk DEF WithinRisk
<1>2. t.risk \in Nat /\ HardCap \in Nat /\ account.balance \in Nat /\ t.risk <= HardCap
  BY TradeRulesAssumption DEF TermsHold, RiskHolds, Terms, Accounts
<1>3. t.risk * account.balance <= HardCap * account.balance
  BY <1>2, Smaller
<1>4. Volume(t, account) \in Nat
  BY VolumeType
<1>5. loss \in Nat
  BY <1>4, LossType DEF Whole
<1>. QED
  BY <1>1, <1>2, <1>3, <1>5
-----------------------------------------------------------------------------
(* The checks. *)

Typed ==
  /\ clock \in Nat /\ price \in Seq(Prices) /\ Len(price) = clock \div Length["M5"]
  /\ past \in Pasts /\ answer \in Answers
  /\ status \in Statuses
  /\ snap \in Int /\ snap <= clock
  /\ fresh \in Int /\ freshAt \in Nat /\ baselineAt \in Nat

\* At time `at` a snapshot that knew the market up to `known` showed a last
\* candle that was young enough and had not invalidated the scenario.
Stood(s, known, at) ==
  LET invalid == InvalidOf(s)
      last == LastClosed(invalid.timeframe, known)
  IN /\ invalid.timeframe \in Frames
     /\ known <= at /\ at <= clock
     /\ last > 0 /\ at - last <= Length[invalid.timeframe] + Grace
     /\ ~Matches(invalid, CloseAt(last))

\* The second snapshot showed the candles of the first, young enough.
Unchanged == \A f \in Frames :
  /\ LastClosed(f, fresh) = LastClosed(f, snap)
  /\ freshAt - LastClosed(f, fresh) <= Length[f] + Grace

SameDirection == HasParent => answer.direction = past.scenario.direction

SoundTrade ==
  /\ Unchanged /\ SameDirection
  /\ HasParent => freshAt < past.scenario.expires /\ Stood(past.scenario, fresh, freshAt)
  /\ WithinRisk(answer, Account, steps)
  /\ steps * LossOfStep(answer, Account) * Whole <= Account.balance * HardCap

\* A candle between the two analyses undid the closed watch.
Undone ==
  /\ Parses(past.scenario)
  /\ \E t \in past.closedAt + 1 .. snap :
       /\ t % Length[InvalidOf(past.scenario).timeframe] = 0
       /\ Matches(InvalidOf(past.scenario), CloseAt(t))

Differs ==
  past.kind = "previous" =>
    \/ answer.scenario.direction # past.scenario.direction
    \/ \E f \in Bars : ClosedBetween(f, past.parentAt, snap + 1) # {}
    \/ Undone

Trading == pc = "capping" \/ (pc = "committing" /\ status = "TRADE") \/ outcome = "TRADE"
Creating == (pc = "committing" /\ status = "WATCH") \/ outcome = "WATCH"

IInv ==
  /\ Typed
  /\ outcome # "none" <=> pc = "done"
  /\ pc = "checking" => SameDirection
  /\ Trading => SoundTrade
  /\ pc \in {"comparing", "registering"} => status = "WATCH" /\ ~HasParent
  /\ pc = "registering" \/ Creating => ~HasParent /\ Differs
  /\ Creating => \E known \in Int : Stood(answer.scenario, known, baselineAt)
  /\ outcome = "WATCH" => outcomeAt < answer.scenario.expires
-----------------------------------------------------------------------------
(* Candles. *)

LEMMA Lengths ==
  /\ \A f \in Frames : Length[f] \in Nat /\ Length[f] > 0 /\ Length[f] >= Length["M5"]
  /\ Length["M5"] \in Nat /\ Length["M5"] > 0 /\ "M5" \in Frames
  /\ Grace \in Nat /\ Grace < Length["M5"]
<1>1. /\ \A f \in Frames : Length[f] \in Nat /\ Length[f] > 0 /\ Length[f] % Length["M5"] = 0
      /\ "M5" \in Frames /\ Grace \in Nat /\ Grace < Length["M5"]
  BY FinalCheckAssumption DEF Frames
<1>2. ASSUME NEW m \in Nat, NEW n \in Nat, m > 0, n > 0, n % m = 0 PROVE n >= m
  <2>1. n < m => n % m = n
    BY <1>2
  <2>. QED
    BY <1>2, <2>1
<1>. QED
  BY <1>1, <1>2

LEMMA Division ==
  ASSUME NEW n \in Int, NEW d \in Nat, d > 0
  PROVE  /\ n \div d \in Int /\ n % d \in Nat /\ n % d < d
         /\ n - (n % d) = (n \div d) * d
  OBVIOUS

\* Of two multiples the greater is greater by one length at least.
LEMMA NextMultiple ==
  ASSUME NEW p \in Int, NEW q \in Int, NEW d \in Nat, d > 0, p * d < q * d
  PROVE  p * d + d <= q * d
<1>1. p < q
  <2>1. ASSUME q <= p PROVE q * d <= p * d
    BY <2>1
  <2>. QED
    BY <2>1
<1>2. p + 1 <= q
  BY <1>1
<1>3. (p + 1) * d <= q * d
  BY <1>2
<1>4. (p + 1) * d = p * d + d
  OBVIOUS
<1>. QED
  BY <1>3, <1>4

LEMMA ClosedType ==
  ASSUME NEW f \in Frames, NEW t \in Int
  PROVE  /\ LastClosed(f, t) \in Int /\ LastClosed(f, t) <= t /\ LastClosed(f, t) + Length[f] > t
         /\ LastClosed(f, t) = (t \div Length[f]) * Length[f] /\ t \div Length[f] \in Int
<1>1. Length[f] \in Nat /\ Length[f] > 0
  BY Lengths
<1>. QED
  BY <1>1, Division DEF LastClosed

\* The candle that closes after the last one of `known`.
LEMMA NextClose ==
  ASSUME NEW f \in Frames, NEW known \in Int, NEW t \in Int,
         t % Length[f] = 0, t > LastClosed(f, known)
  PROVE  t >= LastClosed(f, known) + Length[f]
<1>1. Length[f] \in Nat /\ Length[f] > 0
  BY Lengths
<1>2. t = (t \div Length[f]) * Length[f] /\ t \div Length[f] \in Int
  BY <1>1, Division
<1>3. /\ LastClosed(f, known) = (known \div Length[f]) * Length[f]
      /\ known \div Length[f] \in Int /\ LastClosed(f, known) \in Int
  BY ClosedType
<1>4. (known \div Length[f]) * Length[f] + Length[f] <= (t \div Length[f]) * Length[f]
  BY <1>1, <1>2, <1>3, NextMultiple
<1>. QED
  BY <1>1, <1>2, <1>3, <1>4

LEMMA ClosedMultiple ==
  ASSUME NEW f \in Frames, NEW t \in Int
  PROVE  LastClosed(f, t) % Length[f] = 0
<1>1. Length[f] \in Nat /\ Length[f] > 0
  BY Lengths
<1>2. LastClosed(f, t) = (t \div Length[f]) * Length[f] /\ t \div Length[f] \in Int
  BY ClosedType
<1>3. \A q \in Int, d \in Nat : d > 0 => (q * d) % d = 0
  OBVIOUS
<1>. QED
  BY <1>1, <1>2, <1>3

\* A candle that closed by now has its price.
LEMMA Priced ==
  ASSUME Typed, NEW f \in Frames, NEW t \in Int, t > 0, t <= clock, t % Length[f] = 0
  PROVE  t \div Length["M5"] \in DOMAIN price
<1>. DEFINE m == Length["M5"]
<1>1. Length[f] \in Nat /\ Length[f] > 0 /\ m \in Nat /\ m > 0 /\ Length[f] >= m /\ clock \in Nat
  BY Lengths DEF Typed
<1>2. t >= Length[f]
  <2>1. t < Length[f] => t % Length[f] = t
    BY <1>1
  <2>. QED
    BY <1>1, <2>1
<1>3. t >= m
  BY <1>1, <1>2
<1>. HIDE DEF m
<1>4. t \div m \in Int /\ clock \div m \in Int
  BY <1>1
<1>5. t \div m >= 1 /\ t \div m <= clock \div m
  BY <1>1, <1>3
<1>. QED
  BY <1>4, <1>5 DEF Typed, m
-----------------------------------------------------------------------------
(* What a snapshot showed, and what comes of it. *)

LEMMA StoodMeans ==
  ASSUME Typed, NEW s, NEW known \in Int, NEW at \in Nat, Stood(s, known, at)
  PROVE  LET invalid == InvalidOf(s)
             last == LastClosed(invalid.timeframe, at)
         IN last < at - Grace => ~Matches(invalid, CloseAt(last))
<1>. DEFINE f == InvalidOf(s).timeframe
            shown == LastClosed(f, known)
            last == LastClosed(f, at)
<1>1. /\ f \in Frames /\ known <= at /\ at - shown <= Length[f] + Grace
      /\ ~Matches(InvalidOf(s), CloseAt(shown))
  BY DEF Stood
<1>2. /\ Length[f] \in Nat /\ Length[f] > 0 /\ Grace \in Nat
      /\ shown \in Int /\ shown <= known /\ last \in Int /\ last + Length[f] > at
      /\ last % Length[f] = 0 /\ shown % Length[f] = 0
  <2>1. Length[f] \in Nat /\ Length[f] > 0 /\ Grace \in Nat
    BY <1>1, Lengths
  <2>2. shown \in Int /\ shown <= known /\ shown % Length[f] = 0
    BY <1>1, ClosedType, ClosedMultiple
  <2>3. at \in Int
    OBVIOUS
  <2>4. last \in Int /\ last + Length[f] > at /\ last % Length[f] = 0
    BY <1>1, <2>3, ClosedType, ClosedMultiple
  <2>. QED
    BY <2>1, <2>2, <2>4
<1>3. last > shown => last >= shown + Length[f]
  BY <1>1, <1>2, NextClose
<1>4. last < shown => shown >= last + Length[f]
  <2>1. f \in Frames /\ at \in Int /\ shown \in Int /\ shown % Length[f] = 0
    BY <1>1, <1>2
  <2>2. shown > LastClosed(f, at) => shown >= LastClosed(f, at) + Length[f]
    BY <2>1, NextClose
  <2>. QED
    BY <1>2, <2>1, <2>2
<1>. HIDE DEF shown, last
<1>5. last < at - Grace => last = shown
  BY <1>1, <1>2, <1>3, <1>4
<1>. QED
  BY <1>1, <1>5 DEF shown, last

\* Prices are only added.
Extended ==
  /\ clock' >= clock /\ \A i \in DOMAIN price : price'[i] = price[i]

LEMMA StoodStays ==
  ASSUME Typed, Typed', Extended, NEW s, NEW known \in Int, NEW at \in Nat, Stood(s, known, at)
  PROVE  Stood(s, known, at)'
<1>. DEFINE f == InvalidOf(s).timeframe
            shown == LastClosed(f, known)
<1>1. f \in Frames /\ known <= at /\ at <= clock /\ shown > 0
  BY DEF Stood
<1>2. shown \in Int /\ shown <= known /\ shown % Length[f] = 0 /\ clock \in Nat /\ clock' \in Nat
  BY <1>1, ClosedType, ClosedMultiple DEF Typed
<1>3. shown \div Length["M5"] \in DOMAIN price
  BY <1>1, <1>2, Priced
<1>4. CloseAt(shown)' = CloseAt(shown)
  BY <1>3 DEF Extended, CloseAt, LastClosed
<1>5. at <= clock'
  BY <1>1, <1>2 DEF Extended
<1>. QED
  BY <1>4, <1>5 DEF Stood, LastClosed, Matches

LEMMA ParsedFrame ==
  ASSUME NEW s, Parses(s) PROVE InvalidOf(s).timeframe \in Frames
<1>1. \A fs : NamesOneFrame(fs) => FrameIn(fs) \in Frames
  BY DEF NamesOneFrame, FrameIn, Frames
<1>. QED
  BY <1>1 DEF InvalidOf, Parses

LEMMA DiffersStays ==
  ASSUME Typed, Typed', Extended, UNCHANGED <<past, answer, snap>>, Differs
  PROVE  Differs'
<1>1. ASSUME Undone PROVE Undone'
  <2>1. PICK t \in past.closedAt + 1 .. snap :
          /\ t % Length[InvalidOf(past.scenario).timeframe] = 0
          /\ Matches(InvalidOf(past.scenario), CloseAt(t))
    BY <1>1 DEF Undone
  <2>2. InvalidOf(past.scenario).timeframe \in Frames
    BY <1>1, ParsedFrame DEF Undone
  <2>3. past.closedAt \in Nat
    <3>1. \A p \in Pasts : p.closedAt \in Nat
      BY FinalCheckAssumption
    <3>. QED
      BY <3>1 DEF Typed
  <2>4. t \in Int /\ t > 0 /\ t <= clock
    BY <2>1, <2>3 DEF Typed
  <2>5. t \div Length["M5"] \in DOMAIN price
    BY <2>1, <2>2, <2>4, Priced
  <2>6. CloseAt(t)' = CloseAt(t)
    BY <2>5 DEF Extended, CloseAt
  <2>. QED
    BY <1>1, <2>1, <2>6 DEF Undone
<1>. QED
  BY <1>1 DEF Differs, ClosedBetween

LEMMA SoundStays ==
  ASSUME Typed, Typed', Extended,
         UNCHANGED <<past, answer, snap, fresh, freshAt, steps>>, SoundTrade
  PROVE  SoundTrade'
<1>1. Unchanged' /\ SameDirection'
  BY DEF SoundTrade, Unchanged, SameDirection, LastClosed, HasParent
<1>2. HasParent => Stood(past.scenario, fresh, freshAt)'
  BY StoodStays DEF SoundTrade, Typed
<1>3. HasParent' => freshAt' < past'.scenario.expires /\ Stood(past.scenario, fresh, freshAt)'
  BY <1>2 DEF SoundTrade, HasParent
<1>. QED
  BY <1>1, <1>3 DEF SoundTrade

\* Time passes.
LEMMA TickTyped == ASSUME Typed, Tick PROVE Typed' /\ Extended
<1>. DEFINE m == Length["M5"]
<1>1. m \in Nat /\ m > 0
  BY Lengths
<1>2. /\ clock \in Nat /\ clock' = clock + 1 /\ price \in Seq(Prices)
      /\ UNCHANGED <<past, snap, answer, status, fresh, freshAt, baselineAt>>
  BY DEF Typed, Tick, trade
<1>. HIDE DEF m
<1>3. clock' \div m = IF clock' % m = 0 THEN (clock \div m) + 1 ELSE clock \div m
  <2>. DEFINE q == clock \div m  r == clock % m
  <2>1. q \in Int /\ r \in Nat /\ r < m /\ clock = q * m + r
    BY <1>1, <1>2, Division
  <2>2. \A a \in Int, b \in Nat : b < m => (a * m + b) \div m = a /\ (a * m + b) % m = b
    BY <1>1
  <2>. HIDE DEF q, r
  <2>5. q * m \in Int
    BY <1>1, <2>1
  <2>3. CASE r + 1 < m
    <3>1. clock' = q * m + (r + 1)
      <4>. DEFINE k == q * m
      <4>1. k \in Int /\ clock = k + r /\ clock' = clock + 1 /\ r \in Nat
        BY <1>2, <2>1, <2>5
      <4>. HIDE DEF k
      <4>2. clock' = k + (r + 1)
        BY <4>1
      <4>. QED
        BY <4>2 DEF k
    <3>2. r + 1 \in Nat /\ r + 1 # 0
      BY <2>1
    <3>3. clock' \div m = q /\ clock' % m = r + 1
      BY <2>1, <2>2, <2>3, <3>1, <3>2
    <3>. QED
      BY <3>2, <3>3 DEF q
  <2>4. CASE r + 1 = m
    <3>1. clock' = (q + 1) * m + 0
      BY <1>1, <1>2, <2>1, <2>4
    <3>2. clock' \div m = q + 1 /\ clock' % m = 0
      <4>1. q + 1 \in Int /\ 0 \in Nat /\ 0 < m
        BY <1>1, <2>1
      <4>. QED
        BY <2>2, <3>1, <4>1
    <3>. QED
      BY <3>2 DEF q
  <2>. QED
    BY <1>1, <2>1, <2>3, <2>4
<1>4. CASE clock' % m = 0
  <2>1. PICK p \in Prices : price' = Append(price, p)
    BY <1>4 DEF Tick, m
  <2>. QED
    BY <1>2, <1>3, <1>4, <2>1 DEF Typed, Extended, m
<1>5. CASE clock' % m # 0
  <2>1. price' = price
    BY <1>5 DEF Tick, m
  <2>. QED
    BY <1>2, <1>3, <1>5, <2>1 DEF Typed, Extended, m
<1>. QED
  BY <1>4, <1>5

LEMMA BornStays ==
  ASSUME Typed, Typed', Extended, UNCHANGED <<answer, baselineAt>>,
         NEW known \in Int, Stood(answer.scenario, known, baselineAt)
  PROVE  Stood(answer.scenario, known, baselineAt)'
<1>1. baselineAt \in Nat
  BY DEF Typed
<1>. QED
  BY <1>1, StoodStays

LEMMA TickStep == IInv /\ Tick => IInv'
<1>. SUFFICES ASSUME IInv, Tick PROVE IInv'
  OBVIOUS
<1>1. Typed /\ Typed' /\ Extended
  BY TickTyped DEF IInv
<1>2. UNCHANGED <<past, pc, snap, answer, status, fresh, freshAt, steps, baselineAt, outcome, outcomeAt>>
  BY DEF Tick, trade
<1>3. SameDirection' <=> SameDirection
  BY <1>2 DEF SameDirection, HasParent
<1>4. Trading' => SoundTrade'
  BY <1>1, <1>2, SoundStays DEF IInv, Trading
<1>5. Differs => Differs'
  BY <1>1, <1>2, DiffersStays
<1>6. ASSUME Creating' PROVE (\E known \in Int : Stood(answer.scenario, known, baselineAt))'
  <2>1. PICK known \in Int : Stood(answer.scenario, known, baselineAt)
    BY <1>2, <1>6 DEF IInv, Creating
  <2>2. Stood(answer.scenario, known, baselineAt)'
    BY <1>1, <1>2, <2>1, BornStays
  <2>. QED
    BY <2>2
<1>. QED
  BY <1>1, <1>2, <1>3, <1>4, <1>5, <1>6 DEF IInv, Creating, HasParent
-----------------------------------------------------------------------------
(* The steps of the analysis. *)

\* While the market stands still.
LEMMA StillTyped ==
  ASSUME Typed, UNCHANGED <<market, past, answer>>, status' \in Statuses,
         snap' \in Int, snap' <= clock, fresh' \in Int, freshAt' \in Nat, baselineAt' \in Nat
  PROVE  Typed' /\ Extended
<1>1. UNCHANGED <<clock, price, past, answer>>
  BY DEF market
<1>. QED
  BY <1>1 DEF Typed, Extended

\* A step that stores neither a TRADE nor a WATCH and promises none.
LEMMA Harmless ==
  ASSUME Typed', pc' \in {"begin", "snapshot", "asking", "answered", "done"},
         outcome' \in {"none", "NO_TRADE", "failed"}, outcome' # "none" <=> pc' = "done"
  PROVE  IInv'
  BY DEF IInv, Trading, Creating

LEMMA EarlySteps ==
  IInv /\ (\/ FirstAccount \/ TakeSnapshot \/ FromCache \/ Describe
           \/ TransientFailure \/ PermanentFailure \/ Decision) => IInv'
<1>. SUFFICES ASSUME IInv,
                     \/ FirstAccount \/ TakeSnapshot \/ FromCache \/ Describe
                     \/ TransientFailure \/ PermanentFailure \/ Decision
              PROVE  IInv'
  OBVIOUS
<1>1. Typed /\ (outcome = "none" <=> pc # "done")
  BY DEF IInv
<1>2. /\ clock \in Nat /\ status \in Statuses
      /\ snap \in Int /\ snap <= clock /\ fresh \in Int /\ freshAt \in Nat /\ baselineAt \in Nat
  BY <1>1 DEF Typed
<1>3. CASE FirstAccount
  <2>1. Typed'
    BY <1>1, <1>2, <1>3, StillTyped DEF FirstAccount, trade
  <2>. QED
    BY <1>1, <1>3, <2>1, Harmless DEF FirstAccount, Return, Stay
<1>4. CASE TakeSnapshot
  <2>1. snap' \in Int /\ snap' <= clock
    <3>1. CASE \E age \in QuoteAges : snap' = Known(age)
      <4>1. PICK age \in QuoteAges : snap' = Known(age)
        BY <3>1
      <4>2. age \in Int /\ age >= 0
        BY Lengths DEF QuoteAges
      <4>. QED
        BY <1>2, <4>1, <4>2 DEF Known
    <3>2. CASE snap' = snap
      BY <1>2, <3>2
    <3>. QED
      BY <1>4, <3>1, <3>2 DEF TakeSnapshot
  <2>2. Typed'
    BY <1>1, <1>2, <1>4, <2>1, StillTyped DEF TakeSnapshot, trade
  <2>. QED
    BY <1>1, <1>4, <2>2, Harmless DEF TakeSnapshot, Return, Raise, Stay
<1>5. CASE FromCache
  <2>1. Typed'
    BY <1>1, <1>2, <1>5, StillTyped DEF FromCache, trade
  <2>. QED
    BY <1>1, <1>5, <2>1, Harmless DEF FromCache
<1>6. CASE Describe
  <2>1. Typed'
    BY <1>1, <1>2, <1>6, StillTyped DEF Describe, trade
  <2>. QED
    BY <1>1, <1>6, <2>1, Harmless DEF Describe
<1>7. CASE TransientFailure
  <2>1. Typed'
    BY <1>1, <1>2, <1>7, StillTyped DEF TransientFailure, trade
  <2>. QED
    BY <1>1, <1>7, <2>1, Harmless DEF TransientFailure, Retry, Return, Raise, Stay
<1>8. CASE PermanentFailure
  <2>1. Typed'
    BY <1>1, <1>2, <1>8, StillTyped DEF PermanentFailure, trade
  <2>. QED
    BY <1>1, <1>8, <2>1, Harmless DEF PermanentFailure, Return, Raise
<1>9. CASE Decision
  <2>1. Parsed(answer) \in Statuses
    BY DEF Parsed, Statuses
  <2>2. Typed'
    BY <1>1, <1>2, <1>9, <2>1, StillTyped DEF Decision, trade
  <2>. QED
    BY <1>1, <1>9, <2>2, Harmless DEF Decision
<1>. QED
  BY <1>3, <1>4, <1>5, <1>6, <1>7, <1>8, <1>9

LEMMA SecondAccountStep == IInv /\ SecondAccount => IInv'
<1>. SUFFICES ASSUME IInv, SecondAccount PROVE IInv'
  OBVIOUS
<1>1. Typed /\ pc = "answered" /\ outcome = "none"
  BY DEF IInv, SecondAccount
<1>2. UNCHANGED <<market, past, answer, snap, fresh, freshAt, baselineAt>>
  BY DEF SecondAccount, trade
<1>3. status' \in Statuses
  BY <1>1 DEF SecondAccount, Typed, Statuses
<1>4. Typed'
  BY <1>1, <1>2, <1>3, StillTyped DEF Typed
<1>5. CASE Return("NO_TRADE")
  BY <1>4, <1>5, Harmless DEF Return
<1>6. CASE /\ status' = IF HasParent /\ Contradicts(answer) THEN "NO_TRADE" ELSE status
           /\ pc' = CASE status' = "TRADE" -> "checking"
                      [] status' = "WATCH" -> "comparing"
                      [] OTHER -> "committing"
           /\ Stay
  <2>1. outcome' = "none"
    BY <1>1, <1>6 DEF Stay
  <2>2. CASE status' = "TRADE"
    <3>1. pc' = "checking"
      BY <1>6, <2>2
    <3>2. SameDirection'
      BY <1>2, <1>6, <2>2 DEF SameDirection, Contradicts, HasParent
    <3>. QED
      BY <1>4, <2>1, <3>1, <3>2 DEF IInv, Trading, Creating
  <2>3. CASE status' = "WATCH"
    <3>1. pc' = "comparing"
      BY <1>6, <2>3
    <3>2. ~HasParent'
      BY <1>2, <1>6, <2>3 DEF Contradicts, HasParent
    <3>. QED
      BY <1>4, <2>1, <2>3, <3>1, <3>2 DEF IInv, Trading, Creating
  <2>4. CASE status' = "NO_TRADE"
    <3>1. pc' = "committing"
      BY <1>6, <2>4
    <3>. QED
      BY <1>4, <2>1, <2>4, <3>1 DEF IInv, Trading, Creating
  <2>. QED
    BY <1>3, <2>2, <2>3, <2>4 DEF Statuses
<1>. QED
  BY <1>5, <1>6 DEF SecondAccount

\* What the second snapshot shows of an accepted trade.
LEMMA AcceptedSound ==
  ASSUME IInv, pc = "checking", UNCHANGED <<market, past, answer, snap>>,
         NEW age \in QuoteAges, NEW bid \in Prices, NEW friday \in BOOLEAN,
         fresh' = Known(age), freshAt' = clock, steps' = Volume(answer, Account),
         Accepted(fresh', bid, friday)
  PROVE  SoundTrade'
<1>1. UNCHANGED <<clock, price, past, answer, snap>>
  BY DEF market
<1>2. Typed /\ SameDirection
  BY DEF IInv
<1>3. age \in Int /\ age >= 0
  BY Lengths DEF QuoteAges
<1>4. fresh' \in Int /\ fresh' <= clock /\ clock \in Nat
  BY <1>2, <1>3 DEF Typed, Known
<1>5. Unchanged'
  BY <1>1 DEF Accepted, FreshEnough, Changed, Unchanged, LastClosed
<1>6. SameDirection'
  BY <1>1, <1>2 DEF SameDirection, HasParent
<1>7. ASSUME HasParent'
      PROVE  freshAt' < past'.scenario.expires /\ Stood(past.scenario, fresh, freshAt)'
  <2>. DEFINE invalid == InvalidOf(past.scenario)
              last == LastClosed(invalid.timeframe, fresh')
  <2>1. HasParent /\ ParentStands(fresh')
    BY <1>1, <1>7 DEF Accepted, HasParent
  <2>2. invalid.timeframe \in Frames
    <3>1. \A p \in Pasts : p.kind = "parent" => Parses(p.scenario)
      BY FinalCheckAssumption
    <3>. QED
      BY <1>2, <2>1, <3>1, ParsedFrame DEF Typed, HasParent
  <2>3. last > 0 /\ clock - last <= Length[invalid.timeframe] + Grace
    BY <2>2 DEF Accepted, FreshEnough
  <2>4. ~Matches(invalid, CloseAt(last))
    BY <2>1 DEF ParentStands
  <2>5. ~Matches(invalid, price'[last \div Length["M5"]])
    BY <1>1, <2>4 DEF CloseAt
  <2>6. clock <= clock /\ clock < past.scenario.expires
    BY <1>4, <2>1 DEF ParentStands
  <2>. QED
    BY <1>1, <1>4, <2>2, <2>3, <2>5, <2>6 DEF Stood, CloseAt, LastClosed
<1>8. Terms(answer) /\ Account \in Accounts /\ bid \in Nat /\ bid + 1 \in Nat
  <2>1. \A a \in Answers : a.entry \in Nat /\ a.stop \in Nat /\ a.risk \in Nat
    BY FinalCheckAssumption
  <2>2. Account \in Accounts /\ Prices \subseteq Nat
    BY FinalCheckAssumption DEF Accounts
  <2>. QED
    BY <1>2, <2>1, <2>2 DEF Typed, Terms
<1>9. WithinRisk(answer, Account, steps)'
  BY <1>1, <1>8, VolumeWithinRisk DEF WithinRisk, LossOfStep
<1>10. TermsHold(answer, bid, bid + 1, friday)
  BY DEF Accepted
<1>11. steps' * LossOfStep(answer', Account) * Whole <= Account.balance * HardCap
  BY <1>1, <1>8, <1>10, LossWithinHardCap
<1>. QED
  BY <1>5, <1>6, <1>7, <1>9, <1>11 DEF SoundTrade

LEMMA CheckTradeStep == IInv /\ CheckTrade => IInv'
<1>. SUFFICES ASSUME IInv, CheckTrade PROVE IInv'
  OBVIOUS
<1>1. Typed /\ pc = "checking" /\ outcome = "none"
  BY DEF IInv, CheckTrade
<1>2. UNCHANGED <<market, past, answer, snap, baselineAt>>
  BY DEF CheckTrade
<1>3. CASE Raise /\ UNCHANGED <<status, trade>>
  <2>1. Typed'
    BY <1>1, <1>2, <1>3, StillTyped DEF Typed, trade
  <2>. QED
    BY <1>3, <2>1, Harmless DEF Raise, Return
<1>4. ASSUME NEW age \in QuoteAges, NEW bid \in Prices, NEW friday \in BOOLEAN,
             fresh' = Known(age), freshAt' = clock, steps' = Volume(answer, Account),
             IF Accepted(fresh', bid, friday) /\ steps' > 0
             THEN pc' = "capping" /\ UNCHANGED status
             ELSE pc' = "committing" /\ status' = "NO_TRADE",
             Stay
      PROVE  IInv'
  <2>1. fresh' \in Int /\ freshAt' \in Nat /\ status' \in Statuses
    <3>1. age \in Int
      BY Lengths DEF QuoteAges
    <3>. QED
      BY <1>1, <1>4, <3>1 DEF Typed, Known, Statuses
  <2>2. Typed' /\ outcome' = "none"
    BY <1>1, <1>2, <1>4, <2>1, StillTyped DEF Typed, Stay
  <2>3. CASE Accepted(fresh', bid, friday) /\ steps' > 0
    <3>1. pc' = "capping"
      BY <1>4, <2>3
    <3>2. SoundTrade'
      BY <1>1, <1>2, <1>4, <2>3, AcceptedSound
    <3>. QED
      BY <2>2, <3>1, <3>2 DEF IInv, Creating
  <2>4. CASE ~(Accepted(fresh', bid, friday) /\ steps' > 0)
    <3>1. pc' = "committing" /\ status' = "NO_TRADE"
      BY <1>4, <2>4
    <3>. QED
      BY <2>2, <3>1 DEF IInv, Trading, Creating
  <2>. QED
    BY <2>3, <2>4
<1>. QED
  BY <1>3, <1>4 DEF CheckTrade

LEMMA CheckCapStep == IInv /\ CheckCap => IInv'
<1>. SUFFICES ASSUME IInv, CheckCap PROVE IInv'
  OBVIOUS
<1>1. Typed /\ pc = "capping" /\ outcome = "none" /\ SoundTrade
  BY DEF IInv, CheckCap, Trading
<1>2. UNCHANGED <<market, past, answer, snap, fresh, freshAt, steps, baselineAt>>
  BY DEF CheckCap, trade
<1>3. status' \in Statuses
  BY <1>1 DEF CheckCap, Typed, Statuses
<1>4. Typed' /\ Extended
  BY <1>1, <1>2, <1>3, StillTyped DEF Typed
<1>5. CASE Raise
  BY <1>4, <1>5, Harmless DEF Raise, Return
<1>6. CASE status' \in {"TRADE", "NO_TRADE"} /\ pc' = "committing" /\ Stay
  <2>1. SoundTrade'
    BY <1>1, <1>2, <1>4, SoundStays
  <2>. QED
    BY <1>1, <1>4, <1>6, <2>1 DEF IInv, Creating, Stay
<1>. QED
  BY <1>5, <1>6 DEF CheckCap

\* What is a new scenario differs in one of three ways.
LEMMA NewDiffers ==
  ASSUME Typed, past.kind = "previous" => NewScenario(answer.scenario)
  PROVE  Differs
<1>. SUFFICES ASSUME past.kind = "previous", NewScenario(answer.scenario),
                     past.scenario.direction = answer.scenario.direction
              PROVE  (\E f \in Bars : ClosedBetween(f, past.parentAt, snap + 1) # {}) \/ Undone
  BY DEF Differs
<1>1. past.parentAt \in Nat /\ past.closedAt \in Nat /\ snap \in Int
  <2>1. \A p \in Pasts : p.parentAt \in Nat /\ p.closedAt \in Nat
    BY FinalCheckAssumption
  <2>. QED
    BY <2>1 DEF Typed
<1>2. CASE Parses(past.scenario) /\ Reset
  <2>. DEFINE f == InvalidOf(past.scenario).timeframe
  <2>1. f \in Frames
    BY <1>2, ParsedFrame
  <2>2. PICK t \in 1 .. (LastClosed(f, snap) - 1) :
          t % Length[f] = 0 /\ t > past.closedAt /\ Matches(InvalidOf(past.scenario), CloseAt(t))
    BY <1>2 DEF Reset
  <2>3. LastClosed(f, snap) \in Int /\ LastClosed(f, snap) <= snap
    BY <1>1, <2>1, ClosedType
  <2>4. t \in past.closedAt + 1 .. snap
    BY <1>1, <2>2, <2>3
  <2>. QED
    BY <1>2, <2>2, <2>4 DEF Undone
<1>3. CASE RangeBroken
  <2>1. PICK f \in Bars : LastClosed(f, snap) > LastClosed(f, past.parentAt)
    BY <1>3 DEF RangeBroken
  <2>2. f \in Frames
    BY DEF Bars, Frames
  <2>. DEFINE t == LastClosed(f, snap)
  <2>3. t \in Int /\ t <= snap /\ t % Length[f] = 0
    BY <1>1, <2>2, ClosedType, ClosedMultiple
  <2>4. LastClosed(f, past.parentAt) \in Int /\ LastClosed(f, past.parentAt) + Length[f] > past.parentAt
    BY <1>1, <2>2, ClosedType
  <2>5. t >= LastClosed(f, past.parentAt) + Length[f] /\ Length[f] \in Nat
    BY <1>1, <2>1, <2>2, <2>3, NextClose, Lengths
  <2>. HIDE DEF t
  <2>6. t \in past.parentAt + 1 .. (snap + 1) - 1
    BY <1>1, <2>3, <2>4, <2>5
  <2>. QED
    BY <2>3, <2>6 DEF ClosedBetween
<1>. QED
  BY <1>2, <1>3 DEF NewScenario

LEMMA CompareStep == IInv /\ Compare => IInv'
<1>. SUFFICES ASSUME IInv, Compare PROVE IInv'
  OBVIOUS
<1>1. Typed /\ pc = "comparing" /\ outcome = "none" /\ status = "WATCH" /\ ~HasParent
  BY DEF IInv, Compare
<1>2. UNCHANGED <<market, past, answer, snap, fresh, freshAt, baselineAt, outcome>>
  BY DEF Compare, trade
<1>3. status' \in Statuses
  BY <1>1 DEF Compare, Typed, Statuses
<1>4. Typed' /\ Extended
  BY <1>1, <1>2, <1>3, StillTyped DEF Typed
<1>5. CASE status' = "NO_TRADE" /\ pc' = "committing"
  BY <1>1, <1>2, <1>4, <1>5 DEF IInv, Trading, Creating
<1>6. CASE /\ ~(past.kind = "previous" /\ ~NewScenario(answer.scenario))
           /\ pc' = "registering" /\ UNCHANGED status
  <2>1. Differs
    BY <1>1, <1>6, NewDiffers
  <2>2. Differs'
    BY <1>1, <1>2, <1>4, <2>1, DiffersStays
  <2>. QED
    BY <1>1, <1>2, <1>4, <1>6, <2>2 DEF IInv, Trading, Creating, HasParent
<1>. QED
  BY <1>5, <1>6 DEF Compare

LEMMA RegisterStep == IInv /\ Register => IInv'
<1>. SUFFICES ASSUME IInv, Register PROVE IInv'
  OBVIOUS
<1>1. Typed /\ pc = "registering" /\ outcome = "none" /\ ~HasParent /\ Differs
  BY DEF IInv, Register
<1>2. UNCHANGED <<market, past, answer, snap, fresh, freshAt>>
  BY DEF Register, trade
<1>3. clock \in Nat /\ UNCHANGED <<clock, price>>
  BY <1>1, <1>2 DEF Typed, market
<1>4. CASE Raise /\ UNCHANGED <<status, baselineAt>>
  <2>1. Typed'
    BY <1>1, <1>2, <1>4, StillTyped DEF Typed
  <2>. QED
    BY <1>4, <2>1, Harmless DEF Raise, Return
<1>5. ASSUME NEW age \in QuoteAges, baselineAt' = clock,
             status' = IF BaselineStands(Known(age)) THEN "WATCH" ELSE "NO_TRADE",
             pc' = "committing", Stay
      PROVE  IInv'
  <2>1. status' \in Statuses
    BY <1>5 DEF Statuses
  <2>2. Typed' /\ Extended /\ outcome' = "none"
    BY <1>1, <1>2, <1>3, <1>5, <2>1, StillTyped DEF Typed, Stay
  <2>3. ~HasParent' /\ Differs'
    BY <1>1, <1>2, <2>2, DiffersStays DEF HasParent
  <2>4. ASSUME status' = "WATCH"
        PROVE  (\E known \in Int : Stood(answer.scenario, known, baselineAt))'
    <3>. DEFINE invalid == InvalidOf(answer.scenario)
                known == Known(age)
                last == LastClosed(invalid.timeframe, known)
    <3>1. BaselineStands(known)
      BY <1>5, <2>4
    <3>2. age \in Int /\ age >= 0
      BY Lengths DEF QuoteAges
    <3>3. known \in Int /\ known <= clock /\ clock <= clock
      BY <1>3, <3>2 DEF Known
    <3>4. invalid.timeframe \in Frames
      BY <3>1, ParsedFrame DEF BaselineStands, CreationAllowed
    <3>5. /\ last > 0 /\ clock - last <= Length[invalid.timeframe] + Grace
          /\ ~Matches(invalid, CloseAt(last))
      BY <3>1 DEF BaselineStands, CreationAllowed
    <3>6. Stood(answer.scenario, known, clock)
      BY <3>3, <3>4, <3>5 DEF Stood
    <3>. HIDE DEF known
    <3>7. PICK k \in Int : Stood(answer.scenario, k, clock)
      BY <3>3, <3>6
    <3>8. Stood(answer.scenario, k, baselineAt)'
      BY <1>2, <1>3, <1>5, <3>7 DEF Stood, CloseAt, LastClosed
    <3>. QED
      BY <3>8
  <2>5. CASE status' = "WATCH"
    BY <1>5, <2>2, <2>3, <2>4, <2>5 DEF IInv, Trading, Creating
  <2>6. CASE status' = "NO_TRADE"
    BY <1>5, <2>2, <2>6 DEF IInv, Trading, Creating
  <2>. QED
    BY <1>5, <2>5, <2>6
<1>. QED
  BY <1>4, <1>5 DEF Register

LEMMA CommitStep == IInv /\ Commit => IInv'
<1>. SUFFICES ASSUME IInv, Commit PROVE IInv'
  OBVIOUS
<1>1. Typed /\ pc = "committing" /\ status \in Statuses
  BY DEF IInv, Commit, Typed
<1>2. UNCHANGED <<market, past, answer, snap, status, fresh, freshAt, steps, baselineAt>>
  BY DEF Commit, trade
<1>3. Typed' /\ Extended
  BY <1>1, <1>2, StillTyped DEF Typed
<1>4. CASE Raise
  BY <1>3, <1>4, Harmless DEF Raise, Return
<1>5. CASE Return(status) /\ ~(status = "WATCH" /\ answer.scenario.expires <= clock)
  <2>1. pc' = "done" /\ outcome' = status /\ outcomeAt' = clock
    BY <1>5 DEF Return
  <2>2. CASE status = "TRADE"
    <3>1. SoundTrade'
      BY <1>1, <1>2, <1>3, <2>2, SoundStays DEF IInv, Trading
    <3>. QED
      BY <1>2, <1>3, <2>1, <2>2, <3>1 DEF IInv, Creating
  <2>3. CASE status = "WATCH"
    <3>1. ~HasParent /\ Differs /\ \E known \in Int : Stood(answer.scenario, known, baselineAt)
      BY <1>1, <2>3 DEF IInv, Creating
    <3>2. ~HasParent' /\ Differs'
      BY <1>1, <1>2, <1>3, <3>1, DiffersStays DEF HasParent
    <3>3. (\E known \in Int : Stood(answer.scenario, known, baselineAt))'
      <4>1. PICK known \in Int : Stood(answer.scenario, known, baselineAt)
        BY <3>1
      <4>2. Stood(answer.scenario, known, baselineAt)'
        BY <1>1, <1>2, <1>3, <4>1, BornStays
      <4>. QED
        BY <4>2
    <3>4. outcomeAt' < answer'.scenario.expires
      <4>1. \A a \in Answers : a.scenario.expires \in Nat
        BY FinalCheckAssumption
      <4>. QED
        BY <1>1, <1>2, <1>5, <2>1, <2>3, <4>1 DEF Typed
    <3>. QED
      BY <1>2, <1>3, <2>1, <2>3, <3>2, <3>3, <3>4 DEF IInv, Trading
  <2>4. CASE status = "NO_TRADE"
    BY <1>3, <2>1, <2>4, Harmless
  <2>. QED
    BY <1>1, <2>2, <2>3, <2>4 DEF Statuses
<1>. QED
  BY <1>4, <1>5 DEF Commit
-----------------------------------------------------------------------------
(* The theorems. *)

LEMMA InitIInv == Init => IInv
<1>. SUFFICES ASSUME Init PROVE IInv
  OBVIOUS
<1>1. price \in Seq(Prices) /\ Len(price) = clock \div Length["M5"]
  <2>1. \A h \in Histories : h \in Seq(Prices) /\ Len(h) = StartAt \div Length["M5"]
    BY FinalCheckAssumption
  <2>. QED
    BY <2>1 DEF Init
<1>2. Typed
  <2>1. StartAt \in Nat
    BY FinalCheckAssumption
  <2>. QED
    BY <1>1, <2>1 DEF Init, Typed, Statuses
<1>. QED
  BY <1>2 DEF Init, IInv, Trading, Creating

LEMMA StutterStep == IInv /\ UNCHANGED vars => IInv'
<1>. SUFFICES ASSUME IInv, UNCHANGED vars PROVE IInv'
  OBVIOUS
<1>1. UNCHANGED <<clock, price, past, pc, snap, answer, status, fresh, freshAt, steps,
                  baselineAt, outcome, outcomeAt>>
  BY DEF vars, market, trade
<1>. QED
  BY <1>1 DEF IInv, Typed, Trading, Creating, SoundTrade, Unchanged, SameDirection, Stood,
       Differs, Undone, ClosedBetween, HasParent, LastClosed, CloseAt

\* What the analysis has established at each step, for any lengths of candles,
\* prices, answers, accounts and delays, is never lost while the market moves.
THEOREM Established == Spec => []IInv
<1>1. IInv /\ [Next]_vars => IInv'
  BY TickStep, EarlySteps, SecondAccountStep, CheckTradeStep, CheckCapStep, CompareStep,
     RegisterStep, CommitStep, StutterStep DEF Next
<1>. QED
  BY <1>1, InitIInv, PTL DEF Spec

\* A TRADE that is stored still stands in the market it is shown to, however
\* long the model took, and can lose no more than its risk and the hard cap.
THEOREM TradeStands == Spec => []TradeStillStands
<1>1. IInv => TradeStillStands
  <2>. SUFFICES ASSUME IInv, outcome = "TRADE" PROVE TradeStillStands
    BY DEF TradeStillStands
  <2>1. Typed /\ SoundTrade
    BY DEF IInv, Trading
  <2>2. ASSUME NEW f \in Frames, NEW t \in ClosedBetween(f, snap, freshAt - Grace) PROVE FALSE
    <3>1. /\ Length[f] \in Nat /\ Length[f] > 0 /\ Grace \in Nat
          /\ snap \in Int /\ freshAt \in Nat
      BY <2>1, Lengths DEF Typed
    <3>2. /\ LastClosed(f, snap) \in Int /\ LastClosed(f, snap) <= snap
          /\ freshAt - LastClosed(f, snap) <= Length[f] + Grace
      BY <2>1, <3>1, ClosedType DEF SoundTrade, Unchanged
    <3>3. t \in Int /\ t > snap /\ t < freshAt - Grace /\ t % Length[f] = 0
      BY <3>1 DEF ClosedBetween
    <3>4. t >= LastClosed(f, snap) + Length[f]
      BY <3>1, <3>2, <3>3, NextClose
    <3>. QED
      BY <3>1, <3>2, <3>3, <3>4
  <2>3. ASSUME HasParent
        PROVE  LET invalid == InvalidOf(past.scenario)
                   last == LastClosed(invalid.timeframe, freshAt)
               IN last < freshAt - Grace => ~Matches(invalid, CloseAt(last))
    <3>1. fresh \in Int /\ freshAt \in Nat /\ Stood(past.scenario, fresh, freshAt)
      BY <2>1, <2>3 DEF Typed, SoundTrade
    <3>. QED
      BY <2>1, <3>1, StoodMeans
  <2>. QED
    BY <2>1, <2>2, <2>3 DEF TradeStillStands, SoundTrade, SameDirection
<1>. QED
  BY <1>1, Established, PTL

\* A watch that is stored had time left and had not been invalidated by the
\* last candle before it was registered, although the model saw older ones.
THEOREM WatchBornStanding == Spec => []BornStanding
<1>1. IInv => BornStanding
  <2>. SUFFICES ASSUME IInv, outcome = "WATCH" PROVE BornStanding
    BY DEF BornStanding
  <2>1. Typed /\ baselineAt \in Nat /\ ~HasParent /\ outcomeAt < answer.scenario.expires
    BY DEF IInv, Creating, Typed
  <2>2. PICK known \in Int : Stood(answer.scenario, known, baselineAt)
    BY DEF IInv, Creating
  <2>3. LET invalid == InvalidOf(answer.scenario)
            last == LastClosed(invalid.timeframe, baselineAt)
        IN last < baselineAt - Grace => ~Matches(invalid, CloseAt(last))
    BY <2>1, <2>2, StoodMeans
  <2>. QED
    BY <2>1, <2>3 DEF BornStanding
<1>. QED
  BY <1>1, Established, PTL

\* A watch comes back in the same direction, before a longer candle has closed,
\* only after a candle had invalidated the one that was closed.
THEOREM NoRepeat == Spec => []NotARepeat
<1>1. IInv => NotARepeat
  BY DEF IInv, Creating, Differs, Undone, NotARepeat
<1>. QED
  BY <1>1, Established, PTL
=============================================================================
