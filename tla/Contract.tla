------------------------------ MODULE Contract ------------------------------
(***************************************************************************)
(* The futures contract and its arithmetic, as the backtest uses them:     *)
(* the functions of lnm_sdk::trade_util and of its Price type.  They are   *)
(* constants, with what the proofs need of them assumed; an instance gives *)
(* them values.  Prices are multiples of the exchange's tick, amounts are  *)
(* satoshis, percentages are whole numbers.                                *)
(***************************************************************************)
EXTENDS Integers

CONSTANTS
  Bottom,                  \* Price::MIN
  Top,                     \* Price::MAX
  Pl(_, _, _, _),          \* estimate_pl: side, quantity, entry price, exit price
  EntryFor(_, _, _, _),    \* its inverse: side, quantity, exit price, profit
  OrderFee(_, _),          \* evaluate_order_fee: quantity, price
  FundingFee(_, _, _)      \* side, quantity, rate of a settlement: positive is a cost

Buy == "Buy"
Sell == "Sell"
Sides == {Buy, Sell}
Prices == Bottom .. Top
NoPrice == 0               \* no stoploss, no takeprofit, no entry

ASSUME PriceAssumption ==
  /\ Bottom \in Nat /\ Top \in Nat
  /\ NoPrice < Bottom /\ Bottom < Top

\* Quantities and rates are bounded here only so that TLC can evaluate the assumption.
CONSTANTS
  Quantities,              \* quantities of orders, and of positions they add up to
  Rates                    \* rates of the settlements

ASSUME QuantityAssumption == Quantities \subseteq Nat \ {0} /\ Rates \subseteq Int
ASSUME PlAssumption ==
  \A s \in Sides, q \in Quantities, p, x \in Prices : Pl(s, q, p, x) \in Int
ASSUME FeeAssumption ==
  \A q \in Quantities, p \in Prices : OrderFee(q, p) \in Nat
ASSUME FundingAssumption ==
  \A s \in Sides, q \in Quantities, r \in Rates : FundingFee(s, q, r) \in Int

Higher(p, q) == IF p >= q THEN p ELSE q
Lower(p, q) == IF p <= q THEN p ELSE q

\* Price::bounded.
Bounded(p) == IF p \in Prices THEN p ELSE IF p < Bottom THEN Bottom ELSE Top

\* Price::round, round_up and round_down of n / d; apply_gain and apply_discount.
Round(n, d) == (2 * n + d) \div (2 * d)
RoundUp(n, d) == (n + d - 1) \div d
RoundDown(n, d) == n \div d
ApplyGain(p, perc) == Round(p * (100 + perc), 100)
ApplyDiscount(p, perc) == Round(p * (100 - perc), 100)
=============================================================================
