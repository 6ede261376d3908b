----------------------------- MODULE OlderRules -----------------------------
(***************************************************************************)
(* The rules of the two releases that came before the one the other        *)
(* modules describe: "First" is the bot at the root of the repository,     *)
(* "Claimed" the one of gpt/v3, whose monitor claims each candle.  Texts   *)
(* and trades are those of Conditions and TradeRules; the words of a       *)
(* trigger's kind are "close" and "zone".                                  *)
(***************************************************************************)
EXTENDS TradeRules

CONSTANT DigitsOf   \* the digits in the name of each timeframe, as a price

ASSUME OlderRulesAssumption == DigitsOf \in [Frames -> Nat]
-----------------------------------------------------------------------------
(* Texts. *)

\* Every number in the text is a level, the one in "M5" too; a text names at
\* most one timeframe, and names it after its levels.
ClaimedLevels(text) ==
  text.numbers \o (IF text.frames = {} THEN <<>> ELSE <<DigitsOf[FrameIn(text.frames)]>>)

\* What the parser of gpt/v3 asks of a WATCH: a number in the zone and in the
\* invalidation, and a kind of trigger it knows.
ClaimedParses(s) ==
  /\ s.direction \in Directions
  /\ ClaimedLevels(s.zone) # <<>>
  /\ ClaimedLevels(s.invalidation) # <<>>
  /\ s.kind.timed \/ s.kind.words # {}

\* The first parser asks for a direction.
FirstParses(s) == s.direction \in Directions

\* The last number decides; a word of direction overrules the scenario's own.
Overrules(text, direction) ==
  IF "above" \in text.words THEN "SELL"
  ELSE IF "below" \in text.words THEN "BUY" ELSE direction

ClaimedInvalidates(s, close) ==
  LET levels == ClaimedLevels(s.invalidation)
      level == levels[Len(levels)]
  IN /\ levels # <<>>
     /\ IF Overrules(s.invalidation, s.direction) = "BUY" THEN close <= level ELSE close >= level

Crosses(direction, close, level) ==
  \/ direction = "BUY" /\ close > level
  \/ direction = "SELL" /\ close < level

Between(close, a, b) == LowerOf(a, b) <= close /\ close <= HigherOf(a, b)

\* Two numbers make a zone, whatever they were meant to be.
ReadAsZone(s) == Len(ClaimedLevels(s.zone)) >= 2 /\
  ("zone" \in s.kind.words \/ Len(ClaimedLevels(s.zone)) = 2)

ReadsM15(s) == ~ReadAsZone(s) /\ "close" \in s.kind.words /\ "M15" \in s.kind.frames

\* Levels, in order of size, are alike one by one.
ClaimedAlike(old, new) ==
  /\ old # <<>> /\ Len(old) = Len(new)
  /\ \E p \in [DOMAIN old -> DOMAIN new] :
       /\ {p[i] : i \in DOMAIN old} = DOMAIN new
       /\ \A i \in DOMAIN old : Alike(old[i], new[p[i]])

CanonicalKind(s) ==
  << IF "close" \in s.kind.words THEN "close"
     ELSE IF "zone" \in s.kind.words THEN "zone"
     ELSE IF s.kind.timed THEN "time" ELSE "level",
     IF "M15" \in s.kind.frames THEN "M15" ELSE IF "M5" \in s.kind.frames THEN "M5" ELSE "" >>

\* is_materially_same_scenario of gpt/v3.
ClaimedSame(old, new) ==
  /\ old.direction = new.direction
  /\ CanonicalKind(old) = CanonicalKind(new)
  /\ ClaimedAlike(ClaimedLevels(old.zone), ClaimedLevels(new.zone))
  /\ ClaimedAlike(ClaimedLevels(old.invalidation), ClaimedLevels(new.invalidation))
-----------------------------------------------------------------------------
(* Trades. *)

\* validate_trade_result of gpt/v3, as far as the answer and the quote decide.
ClaimedTerms(t, bid, ask, friday) ==
  /\ SideHolds(t, bid, ask)
  /\ LevelsHold(t)
  /\ 0 < t.ratio /\ RatioHolds(t)
  /\ RiskHolds(t, friday)
  /\ t.grade \in TradeGrades
  /\ t.complete

\* The first validator compares an order with the quote only when the order
\* is of the trade's direction, and takes the ratio as it is told.
FirstSideHolds(t, bid, ask) ==
  /\ t.direction = "BUY" /\ t.order = "BUY_LIMIT" => t.entry < ask
  /\ t.direction = "BUY" /\ t.order = "BUY_STOP" => t.entry > ask
  /\ t.direction = "SELL" /\ t.order = "SELL_LIMIT" => t.entry > bid
  /\ t.direction = "SELL" /\ t.order = "SELL_STOP" => t.entry < bid

FirstTerms(t, bid, ask, friday) ==
  /\ FirstSideHolds(t, bid, ask)
  /\ LevelsHold(t)
  /\ 0 < t.ratio
  /\ t.risk <= RiskCapOf(t.grade, friday) /\ t.risk <= HardCap
  /\ t.grade \in TradeGrades
  /\ t.complete

\* round() of Python: to the nearest whole number, from halfway to the even one.
Rounded(n, d) ==
  LET q == n \div d
      r == n % d
  IN IF 2 * r > d \/ (2 * r = d /\ q % 2 = 1) THEN q + 1 ELSE q

\* The first release rounds to the nearest step and knows no largest volume.
FirstVolume(t, account) ==
  IF account.balance = 0 \/ account.least = 0 \/ LossOfStep(t, account) = 0 THEN 0
  ELSE LET steps == Rounded(account.balance * t.risk, Whole * LossOfStep(t, account))
       IN IF steps < account.least THEN 0 ELSE steps
=============================================================================
