----------------------------- MODULE TradeRules -----------------------------
(***************************************************************************)
(* What a TRADE answer must satisfy before it may be shown, and the volume *)
(* it is given.  Prices are naturals in points; a risk is in hundredths of *)
(* a percent of the balance, so Whole of them are the balance itself; a    *)
(* ratio is in hundredths; a volume is counted in lot steps.  The code     *)
(* computes with floats and allows 1e-12 and 1e-8 for their rounding; the  *)
(* exact quotients stand here.                                             *)
(***************************************************************************)
EXTENDS Conditions

CONSTANTS
  GradeCap,     \* highest risk of a trade of each grade
  FridayCap,    \* the same on a Friday
  HardCap,      \* and never more than this
  OpenCap       \* highest risk of all that is open

Whole == 10000
Grades == {"A+", "A", "A-", "B+", "B", "C", "none"}
TradeGrades == {"A+", "A"}
WatchGrades == {"A-", "B+"}
Orders == {"BUY_LIMIT", "BUY_STOP", "SELL_LIMIT", "SELL_STOP"}

ASSUME TradeRulesAssumption ==
  /\ GradeCap \in [Grades -> Nat]
  /\ FridayCap \in Nat /\ HardCap \in Nat /\ OpenCap \in Nat
-----------------------------------------------------------------------------
(* The order, the levels and the ratio. *)

\* The order is of the trade's direction and on its own side of the market.
SideHolds(t, bid, ask) ==
  \/ t.direction = "BUY" /\ t.order = "BUY_LIMIT" /\ t.entry < ask
  \/ t.direction = "BUY" /\ t.order = "BUY_STOP" /\ t.entry > ask
  \/ t.direction = "SELL" /\ t.order = "SELL_LIMIT" /\ t.entry > bid
  \/ t.direction = "SELL" /\ t.order = "SELL_STOP" /\ t.entry < bid

LevelsHold(t) ==
  \/ t.direction = "BUY" /\ t.stop < t.entry /\ t.entry < t.target
  \/ t.direction = "SELL" /\ t.target < t.entry /\ t.entry < t.stop

\* math.isclose(claimed, computed, rel_tol=0.03, abs_tol=0.03), both sides
\* multiplied by the distance of the stop.
RatioHolds(t) ==
  LET claimed == t.ratio * Gap(t.entry, t.stop)
      computed == 100 * Gap(t.target, t.entry)
  IN 100 * Gap(claimed, computed)
       <= HigherOf(3 * HigherOf(claimed, computed), 300 * Gap(t.entry, t.stop))

RiskCapOf(grade, friday) == IF friday THEN FridayCap ELSE GradeCap[grade]

RiskHolds(t, friday) ==
  /\ t.risk > 0
  /\ t.risk <= RiskCapOf(t.grade, friday) /\ t.risk <= HardCap

\* validate_trade_result, as far as the answer and the quote decide it.
TermsHold(t, bid, ask, friday) ==
  /\ 0 < bid /\ bid <= ask
  /\ 0 < t.entry /\ 0 < t.stop /\ 0 < t.target /\ 0 < t.ratio
  /\ SideHolds(t, bid, ask)
  /\ LevelsHold(t)
  /\ RatioHolds(t)
  /\ RiskHolds(t, friday)
  /\ t.grade \in TradeGrades
  /\ t.complete
-----------------------------------------------------------------------------
(* The volume.  0 stands for a refusal with a warning. *)

\* Loss of one lot step when the stop is hit; 0 when the broker does not say.
LossOfStep(t, account) == Gap(t.entry, t.stop) * account.point

\* Slip: rounded to the nearest step instead of down.
NearestSteps(t, account) ==
  (account.balance * t.risk + (Whole * LossOfStep(t, account)) \div 2)
    \div (Whole * LossOfStep(t, account))

\* The whole steps the permitted loss pays for.
AffordableSteps(t, account) ==
  (account.balance * t.risk) \div (Whole * LossOfStep(t, account))

\* calculate_position_size: never more than the broker's largest volume
\* (0: none), and a refusal rather than its smallest.
Volume(t, account) ==
  IF account.balance = 0 \/ account.least = 0 \/ LossOfStep(t, account) = 0 THEN 0
  ELSE LET steps == IF account.most = 0 THEN AffordableSteps(t, account)
                    ELSE LowerOf(AffordableSteps(t, account), account.most)
       IN IF steps < account.least THEN 0 ELSE steps

\* The loss of the volume at the stop is within the trade's own risk.
WithinRisk(t, account, steps) ==
  steps * LossOfStep(t, account) * Whole <= account.balance * t.risk

\* The risk of everything open and of the new trade against the cap.
CapAllows(openRisk, t, account) ==
  openRisk * Whole + account.balance * t.risk <= account.balance * OpenCap
=============================================================================
