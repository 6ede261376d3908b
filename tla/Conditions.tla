----------------------------- MODULE Conditions -----------------------------
(***************************************************************************)
(* The price conditions of a watch: what the bot accepts of a model's      *)
(* words, the numeric conditions it makes of them, and what a closed       *)
(* candle does to them.                                                    *)
(*                                                                         *)
(* A text is known by what the parser finds in it:                         *)
(*   frames   the timeframes it names, supported or not                    *)
(*   numbers  the levels in it, in order; none when it is malformed        *)
(*   words    the words of direction it uses, "above" and "below"          *)
(*   timed    whether it speaks of a time or of the watch's own end        *)
(* A scenario is a direction, the texts of its trigger's kind, of its zone *)
(* and of its invalidation, and the time it expires.  Prices are naturals: *)
(* the code compares decimals exactly, without a tolerance.                *)
(***************************************************************************)
EXTENDS Naturals, Sequences, FiniteSets

CONSTANT SameWithin   \* two levels are alike when they differ by less than
                      \* one part in SameWithin (the code: ten thousand)

ASSUME ConditionsAssumption == SameWithin \in Nat

Frames == {"M5", "M15", "H1"}
Directions == {"BUY", "SELL"}

LowerOf(a, b) == IF a <= b THEN a ELSE b
HigherOf(a, b) == IF a <= b THEN b ELSE a
-----------------------------------------------------------------------------
(* Texts. *)

NamesOneFrame(frames) == frames \subseteq Frames /\ Cardinality(frames) <= 1
FrameIn(frames) == IF frames = {} THEN "M5" ELSE CHOOSE f \in Frames : f \in frames

HasLevels(text) ==
  text.numbers # <<>> /\ \A i \in DOMAIN text.numbers : text.numbers[i] > 0
-----------------------------------------------------------------------------
(* Conditions.  A single level is its own upper bound. *)

Matches(c, close) ==
  \/ c.operator = "GT" /\ close > c.level
  \/ c.operator = "LT" /\ close < c.level
  \/ c.operator = "LE" /\ close <= c.level
  \/ c.operator = "GE" /\ close >= c.level
  \/ c.operator = "ZONE" /\ c.level <= close /\ close <= c.upper

TriggerOf(s) ==
  LET n == s.zone.numbers
      frame == FrameIn(s.kind.frames \cup s.zone.frames)
  IN IF Len(n) = 1
     THEN [timeframe |-> frame, operator |-> IF s.direction = "BUY" THEN "GT" ELSE "LT",
           level |-> n[1], upper |-> n[1]]
     ELSE [timeframe |-> frame, operator |-> "ZONE",
           level |-> LowerOf(n[1], n[2]), upper |-> HigherOf(n[1], n[2])]

InvalidOf(s) ==
  [timeframe |-> FrameIn(s.invalidation.frames),
   operator |-> IF s.direction = "BUY" THEN "LE" ELSE "GE",
   level |-> s.invalidation.numbers[1], upper |-> s.invalidation.numbers[1]]

\* A buy is invalidated below its trigger, a sell above it.
Ordered(s) ==
  IF s.direction = "BUY" THEN InvalidOf(s).level < TriggerOf(s).level
                         ELSE InvalidOf(s).level > TriggerOf(s).upper

\* What parse_conditions accepts; everything else raises.
Parses(s) ==
  /\ s.direction \in Directions
  /\ ~s.kind.timed
  /\ HasLevels(s.zone) /\ Len(s.zone.numbers) <= 2
  /\ NamesOneFrame(s.kind.frames \cup s.zone.frames)
  /\ HasLevels(s.invalidation) /\ Len(s.invalidation.numbers) = 1
  /\ (IF s.direction = "BUY" THEN "above" ELSE "below") \notin s.invalidation.words
  /\ NamesOneFrame(s.invalidation.frames)
  /\ Ordered(s)
-----------------------------------------------------------------------------
(* Two scenarios that differ in nothing that matters. *)

Gap(a, b) == HigherOf(a, b) - LowerOf(a, b)
Alike(a, b) == Gap(a, b) * SameWithin <= a

AlikeConditions(c, d) ==
  /\ c.timeframe = d.timeframe /\ c.operator = d.operator
  /\ Alike(c.level, d.level) /\ Alike(c.upper, d.upper)

\* A scenario that no longer parses counts as the same.
SameScenario(old, new) ==
  Parses(old) /\ Parses(new) =>
    /\ old.direction = new.direction
    /\ AlikeConditions(TriggerOf(old), TriggerOf(new))
    /\ AlikeConditions(InvalidOf(old), InvalidOf(new))

\* validate_before_creation: the words parse, the scenario has time left, and
\* the last closed candle, whose close is given, has not invalidated it.
CreationAllowed(s, close, now) ==
  /\ Parses(s)
  /\ s.expires > now
  /\ ~Matches(InvalidOf(s), close)
=============================================================================
