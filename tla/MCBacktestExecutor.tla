------------------------- MODULE MCBacktestExecutor -------------------------
(***************************************************************************)
(* A linear contract with a fee of one satoshi per unit: the profit is the *)
(* quantity times the price move.  The exchange's contract is inverse; the *)
(* executor only needs that profit and liquidation move with the price.    *)
(***************************************************************************)
EXTENDS BacktestExecutor

Toward(side, d) == IF side = Buy THEN d ELSE - d

MCPl(side, q, p, x) == q * Toward(side, x - p)
MCBookedPl(side, q, p, x) == MCPl(side, q, p, x)
MCSlack(q, p) == q \div 2
MCEntryFor(side, q, x, profit) == Bounded(x - Toward(side, Round(profit, q)))
MCOrderFee(q, p) == q
MCFundingFee(side, q, rate) == Toward(side, q * rate)
MCLiquidation(side, q, p, m) == Bounded(p - Toward(side, m \div q))
MCMinMargin(q, p) == RoundUp(q * p, 10)
MCMaxMargin(q, p) == q * p
MCAggregateEntry(q, p, r, x) == Round(q * p + r * x, q + r)
MCInitialMargin(q, p, leverage) == RoundUp(q * p, leverage)
MCCrossMaintenance(q, p) == q
MCCrossLiquidation(side, q, p, m) == p - Toward(side, (m - q) \div q)
MCCollateralFor(side, q, p, liquidation) == q * Toward(side, p - liquidation)

Candle(l, h, c) == [low |-> l, high |-> h, close |-> c]
MCCandles == {Candle(19, 23, 21), Candle(15, 20, 17), Candle(12, 23, 15), Candle(19, 30, 28)}

Order(side, q, m, sl, tp, tsl) ==
  [side |-> side, quantity |-> q, margin |-> m, stoploss |-> sl, takeprofit |-> tp, tsl |-> tsl]
MCOrders ==
  {Order(Buy, 1, 6, NoPrice, 26, NoTrail), Order(Buy, 1, 6, NoPrice, NoPrice, 20),
   Order(Sell, 1, 6, NoPrice, NoPrice, 20), Order(Sell, 2, 12, 22, 14, NoTrail)}
MCQuantities == {1, 2}
MCRates == {-1, 4}
MCAmounts == {3}
MCTransfers == {9}
MCLeverages == {5}

\* The linear contract has what CollateralTheorem asks of one, for some margins of this size.
ASSUME MCCollateralAssumption == CollateralSuffices({4, 13, 25, 60})
=============================================================================
