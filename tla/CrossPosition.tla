---------------------------- MODULE CrossPosition ----------------------------
(***************************************************************************)
(* The cross-margin account of the backtest: SimulatedCrossPosition in     *)
(* trade/backtest/executor/models.rs and the estimates of                  *)
(* CrossPositionCore in trade/core.rs.  Operators on a record              *)
(* [margin, leverage, side, quantity, entry, fees, funding, pl];           *)
(* CrossExposure::Neutral is quantity 0.                                   *)
(***************************************************************************)
EXTENDS Contract

CONSTANTS
  Leverages,               \* the leverages that are asked for
  MinLeverage,             \* CrossLeverage::MIN
  AggregateEntry(_, _, _, _),    \* aggregate_cross_entry_price: two quantities and prices
  InitialMargin(_, _, _),        \* running_margin: quantity, entry price, leverage
  CrossMaintenance(_, _),        \* maintenance_margin: quantity, entry price
  CrossLiquidation(_, _, _, _),  \* side, quantity, entry price, margin
  CollateralFor(_, _, _, _)      \* Margin::est_from_liquidation_price: side, quantity, price, liquidation

ASSUME LeverageAssumption == Leverages \subseteq Nat \ {0} /\ MinLeverage \in Nat \ {0}
\* What one order trades that takes an account from one exposure to another.
Sizes ==
  Quantities \cup {q + r : q, r \in Quantities} \cup {n \in {q - r : q, r \in Quantities} : n > 0}

ASSUME OrderAssumption ==
  \A n \in Sizes, p, x \in Prices :
    OrderFee(n, p) \in Nat /\ \A s \in Sides : Pl(s, n, p, x) \in Int
ASSUME EntryAssumption ==
  \A q, r \in Quantities, p, x \in Prices :
    /\ \A n \in Sizes : AggregateEntry(q, p, n, x) \in Prices
    /\ \A s \in Sides : EntryFor(s, q, x, Pl(s, r, p, x)) \in Prices
ASSUME ReserveAssumption ==
  \A q \in Quantities, p \in Prices :
    /\ CrossMaintenance(q, p) \in Nat
    /\ \A l \in Leverages \cup {MinLeverage} : InitialMargin(q, p, l) \in Nat

\* What the estimates of the collateral take from est_from_liquidation_price: an exposure that is
\* worth that much at the market, besides its maintenance margin, is liquidated at the price it was
\* asked for or farther from the market.  A theorem that needs it says so; `margins` bounds it
\* for TLC.
CollateralSuffices(margins) ==
  \A s \in Sides, q \in Quantities, market, liq \in Prices :
    (IF s = Buy THEN liq < market ELSE liq > market) =>
      /\ CollateralFor(s, q, market, liq) \in Nat
      /\ \A entry \in Prices : \A m \in margins :
           /\ m > CrossMaintenance(q, entry)
           /\ m - CrossMaintenance(q, entry) + Pl(s, q, entry, market) >= CollateralFor(s, q, market, liq)
           => IF s = Buy THEN Bounded(CrossLiquidation(s, q, entry, m)) <= liq
              ELSE Bounded(CrossLiquidation(s, q, entry, m)) >= liq

Positions ==
  [margin: Nat, leverage: Leverages \cup {MinLeverage}, side: Sides,
   quantity: Quantities \cup {0}, entry: Prices \cup {NoPrice},
   fees: Nat, funding: Int, pl: Int]

Initial == [margin |-> 0, leverage |-> MinLeverage, side |-> Buy, quantity |-> 0,
            entry |-> NoPrice, fees |-> 0, funding |-> 0, pl |-> 0]

Neutral(x) == x.quantity = 0
Running(x) == IF Neutral(x) THEN 0 ELSE InitialMargin(x.quantity, x.entry, x.leverage)
Maintenance(x) == IF Neutral(x) THEN 0 ELSE CrossMaintenance(x.quantity, x.entry)
LiquidationPrice(x) == Bounded(CrossLiquidation(x.side, x.quantity, x.entry, x.margin))

\* CrossExposure::new accepts running + maintenance + 1 and more.
Valid(x) == ~Neutral(x) => x.margin > Running(x) + Maintenance(x)

EstRunningPl(x, market) == IF Neutral(x) THEN 0 ELSE Pl(x.side, x.quantity, x.entry, market)

EstNetValue(x, market) == Higher(0, x.margin + EstRunningPl(x, market))

\* apply_amount_to_margin: what the margin cannot pay is dropped.
ApplyAmount(margin, amount) == Higher(0, margin + amount)

EstFreeMargin(x, market) ==
  LET loss == Higher(0, - EstRunningPl(x, market))
      excess == ApplyAmount(loss, - Running(x))
  IN ApplyAmount(x.margin, - (Running(x) + Maintenance(x) + excess))

IsCoherent(x, market) ==
  ~Neutral(x) =>
    /\ IF x.side = Buy THEN market > LiquidationPrice(x) ELSE market < LiquidationPrice(x)
    /\ EstFreeMargin(x, market) > 0

CrossLiquidated(x, low, high) ==
  /\ ~Neutral(x)
  /\ IF x.side = Buy THEN low <= LiquidationPrice(x) ELSE high >= LiquidationPrice(x)

Close(x, price) ==
  LET fee == OrderFee(x.quantity, price)
      pl == EstRunningPl(x, price)
  IN IF Neutral(x) THEN x
     ELSE [x EXCEPT !.margin = ApplyAmount(@, pl - fee), !.fees = @ + fee, !.pl = @ + pl,
                    !.side = Buy, !.quantity = 0, !.entry = NoPrice]

\* A settlement; the position is given up when it does not survive the fee.
SettledCross(x, market, rate) ==
  LET fee == FundingFee(x.side, x.quantity, rate)
      kept == [x EXCEPT !.margin = ApplyAmount(@, - fee), !.funding = @ + fee]
      given == LET c == Close(x, market)
               IN [c EXCEPT !.margin = ApplyAmount(@, - fee), !.funding = @ + fee]
  IN CASE Neutral(x) -> x
       [] ~Neutral(x) /\ \/ fee > 0 /\ fee >= EstFreeMargin(x, market)
                         \/ ~Valid(kept) \/ ~IsCoherent(kept, market) -> given
       [] OTHER -> kept

-----------------------------------------------------------------------------
(* with_market_order: the position after an order, which is refused unless it is Valid. *)

Filled(x, side, q, entry, margin, fee, pl) ==
  [x EXCEPT !.side = side, !.quantity = q, !.entry = entry, !.margin = margin,
            !.fees = @ + fee, !.pl = @ + pl]

\* From flat, or more of the same side.
Increased(x, market, side, q) ==
  LET fee == OrderFee(q, market)
      entry == IF Neutral(x) THEN market
               ELSE AggregateEntry(x.quantity, x.entry, q, market)
  IN Filled(x, side, x.quantity + q, entry, ApplyAmount(x.margin, - fee), fee, 0)

\* Mutant for the runs: a reversal does not book the profit that it pays into the margin.
ReversedUnbooked(x, market, side, q) ==
  LET fee == OrderFee(q, market)
      pl == EstRunningPl(x, market)
  IN Filled(x, side, q - x.quantity, market,
            ApplyAmount(ApplyAmount(x.margin, - fee), pl), fee, 0)

\* More than the position on the other side: its profit is booked, the rest is new.
Reversed(x, market, side, q) ==
  LET fee == OrderFee(q, market)
      pl == EstRunningPl(x, market)
  IN Filled(x, side, q - x.quantity, market,
            ApplyAmount(ApplyAmount(x.margin, - fee), pl), fee, pl)

\* Mutant for the runs: the rest carries the loss of the part that is sold, not the whole loss.
ReducedPart(x, market, q) ==
  LET fee == OrderFee(q, market)
      pl == Pl(x.side, q, x.entry, market)
      paid == ApplyAmount(x.margin, - fee)
      rest == x.quantity - q
  IN IF pl >= 0 THEN Filled(x, x.side, rest, x.entry, ApplyAmount(paid, pl), fee, pl)
     ELSE Filled(x, x.side, rest, EntryFor(x.side, rest, market, pl), paid, fee, 0)

\* Less than the position: a profit is booked, a loss goes into the entry of the rest.
Reduced(x, market, q) ==
  LET fee == OrderFee(q, market)
      pl == Pl(x.side, q, x.entry, market)
      paid == ApplyAmount(x.margin, - fee)
      rest == x.quantity - q
      carried == EntryFor(x.side, rest, market, EstRunningPl(x, market))
  IN IF pl >= 0 THEN Filled(x, x.side, rest, x.entry, ApplyAmount(paid, pl), fee, pl)
     ELSE Filled(x, x.side, rest, carried, paid, fee, 0)

MarketOrder(x, market, side, q) ==
  CASE Neutral(x) \/ x.side = side -> Increased(x, market, side, q)
    [] ~Neutral(x) /\ x.side # side /\ q = x.quantity -> Close(x, market)
    [] ~Neutral(x) /\ x.side # side /\ q > x.quantity -> Reversed(x, market, side, q)
    [] ~Neutral(x) /\ x.side # side /\ q < x.quantity -> Reduced(x, market, q)

-----------------------------------------------------------------------------
(* The estimates that operators plan with: one order that turns x into `side`, `q`. *)

Signed(side, q) == IF side = Buy THEN q ELSE - q
Delta(x, side, q) == Signed(side, q) - Signed(x.side, x.quantity)
Size(d) == IF d < 0 THEN - d ELSE d

EstEntryPrice(x, side, q, market) ==
  CASE Neutral(x) \/ x.side # side -> market
    [] ~Neutral(x) /\ x.side = side /\ q > x.quantity ->
         AggregateEntry(x.quantity, x.entry, q - x.quantity, market)
    [] ~Neutral(x) /\ x.side = side /\ q = x.quantity -> x.entry
    [] ~Neutral(x) /\ x.side = side /\ q < x.quantity ->
         IF Pl(side, x.quantity - q, x.entry, market) >= 0 THEN x.entry
         ELSE EntryFor(side, q, market, EstRunningPl(x, market))

EstMargin(x, side, q, market) ==
  CASE Neutral(x) \/ (x.side = side /\ q >= x.quantity) -> x.margin
    [] ~Neutral(x) /\ x.side # side -> x.margin + EstRunningPl(x, market)
    [] ~Neutral(x) /\ x.side = side /\ q < x.quantity ->
         x.margin + Higher(0, Pl(side, x.quantity - q, x.entry, market))

EstFee(x, side, q, market) ==
  IF Delta(x, side, q) = 0 THEN 0 ELSE OrderFee(Size(Delta(x, side, q)), market)

\* What to deposit, or to withdraw when it is negative, before the order that turns x into
\* `side`, `q`, so that this is liquidated at `liquidation`: the larger of what that takes and of
\* what makes the position Valid at all.
EstCollateralDiff(x, side, q, market, liquidation) ==
  LET entry == EstEntryPrice(x, side, q, market)
      margin == EstMargin(x, side, q, market) - EstFee(x, side, q, market)
      value == margin + Pl(side, q, entry, market)
      minimum == InitialMargin(q, entry, x.leverage) + CrossMaintenance(q, entry) + 1
      target == CollateralFor(side, q, market, liquidation) + CrossMaintenance(q, entry)
  IN Higher(target - value, minimum - margin)

\* For the position as it is.
EstCollateralDiffForLiquidation(x, market, liquidation) ==
  EstCollateralDiff(x, x.side, x.quantity, market, liquidation)

\* What trading has added to the margin, as the account's own totals have it.
Accounted(x) == x.pl - x.fees - x.funding
=============================================================================
