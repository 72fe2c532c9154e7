---------------------------- MODULE IsolatedTrade ----------------------------
(***************************************************************************)
(* One isolated-margin trade as the backtest keeps it                      *)
(* (trade/backtest/executor/models.rs) and the rules for its stops         *)
(* (trade/core.rs).  Operators only: BacktestExecutor holds the state.     *)
(***************************************************************************)
EXTENDS Contract

CONSTANTS
  Step,                    \* config.trailing_stoploss_step_size, in percent
  Liquidation(_, _, _, _), \* side, quantity, price, margin
  MinMargin(_, _),         \* Margin::calculate at Leverage::MAX: quantity, price
  MaxMargin(_, _),         \* and at Leverage::MIN
  BookedPl(_, _, _, _),    \* estimate_pl to the nearest satoshi, of which Pl is the floor
  Slack(_, _)              \* what rounding to a price can be worth: quantity, that price

NoTrail == 0               \* the stop of the trade, if it has one, does not trail

ASSUME StepAssumption == Step \in 1 .. 99
ASSUME MarginAssumption ==
  \A q \in Quantities, p \in Prices :
    {MinMargin(q, p), MaxMargin(q, p)} \subseteq Nat \ {0} /\ MinMargin(q, p) <= MaxMargin(q, p)
ASSUME LiquidationAssumption ==
  \A s \in Sides, q \in Quantities, p \in Prices :
    \A m \in MinMargin(q, p) .. MaxMargin(q, p) :
      /\ Liquidation(s, q, p, m) \in Prices
      /\ \A n \in m .. MaxMargin(q, p) :      \* more margin moves it away from the entry
           IF s = Buy THEN Liquidation(s, q, p, n) <= Liquidation(s, q, p, m)
           ELSE Liquidation(s, q, p, n) >= Liquidation(s, q, p, m)

\* An entry price that leaves a part of a profit, and so cashes in the rest, is a price, and so
\* stands for both parts only to within what its rounding is worth.
ASSUME RoundingAssumption ==
  \A s \in Sides, q \in Quantities, p, x \in Prices :
    /\ BookedPl(s, q, p, x) \in Int /\ BookedPl(s, q, p, p) = 0 /\ Slack(q, p) \in Nat
    /\ \A n \in 1 .. Pl(s, q, p, x) :
         LET e == EntryFor(s, q, x, Pl(s, q, p, x) - n)
             About(m, exact) == m - exact \in - Slack(q, e) .. Slack(q, e)
         IN e \in Prices /\ About(BookedPl(s, q, p, e), n) /\ About(Pl(s, q, e, x), Pl(s, q, p, x) - n)

\* IsolatedOrderRequest: a builder refuses a stop on the wrong side of the takeprofit, if the
\* stop is a fixed price.
FixedRiskOrdered(o) ==
  o.tsl = NoTrail /\ o.stoploss # NoPrice /\ o.takeprofit # NoPrice =>
    IF o.side = Buy THEN o.stoploss < o.takeprofit ELSE o.stoploss > o.takeprofit

Requests ==
  {o \in [side: Sides, quantity: Quantities, margin: 1 .. Top, stoploss: Prices \cup {NoPrice},
          takeprofit: Prices \cup {NoPrice}, tsl: 0 .. 99] : FixedRiskOrdered(o)}

Trades ==
  [side: Sides, quantity: Quantities, margin: Nat, price: Prices, liquidation: Prices,
   stoploss: Prices \cup {NoPrice}, takeprofit: Prices \cup {NoPrice},
   tsl: 0 .. 99, openingFee: Nat, closingFee: Nat]

-----------------------------------------------------------------------------
(* When a trade has to be looked at, and what a candle does to its stop. *)

StopOrLiquidation(t) == IF t.stoploss # NoPrice THEN t.stoploss ELSE t.liquidation

StopReached(t, low, high) ==
  IF t.side = Buy THEN low <= StopOrLiquidation(t) ELSE high >= StopOrLiquidation(t)

ProfitReached(t, low, high) ==
  /\ t.takeprofit # NoPrice
  /\ IF t.side = Buy THEN high >= t.takeprofit ELSE low <= t.takeprofit

LiquidationReached(t, low, high) ==
  IF t.side = Buy THEN low <= t.liquidation ELSE high >= t.liquidation

\* A trailing trade that has lost its stop: next_stoploss_update_trigger returns an error.
Stopless(t) == t.tsl # NoTrail /\ t.stoploss = NoPrice

InitialStop(side, tsl, market) ==
  IF side = Buy THEN ApplyDiscount(market, tsl) ELSE ApplyGain(market, tsl)

NextStoplossUpdateTrigger(t) ==
  IF t.side = Buy
  THEN RoundUp(ApplyGain(t.stoploss, Step) * 100, 100 - t.tsl)
  ELSE RoundDown(ApplyDiscount(t.stoploss, Step) * 100, 100 + t.tsl)

\* eval_trigger_bounds: nothing happens to t strictly between min and max.
Bounds(t) ==
  IF t.side = Buy
  THEN [min |-> StopOrLiquidation(t),
        max |-> Lower(IF t.takeprofit # NoPrice THEN t.takeprofit ELSE Top,
                      IF t.tsl # NoTrail THEN NextStoplossUpdateTrigger(t) ELSE Top)]
  ELSE [min |-> Higher(IF t.takeprofit # NoPrice THEN t.takeprofit ELSE Bottom,
                       IF t.tsl # NoTrail THEN NextStoplossUpdateTrigger(t) ELSE Bottom),
        max |-> StopOrLiquidation(t)]

\* PriceTrigger: without a trade no price reaches it, update takes the tighter bounds.
NotSet == [min |-> NoPrice, max |-> Top + 1]
UpdateReplaces(trigger, t) == Bounds(t)   \* mutant for the runs: only the newest trade counts
Update(trigger, t) ==
  [min |-> Higher(Bounds(t).min, trigger.min), max |-> Lower(Bounds(t).max, trigger.max)]
WasReached(trigger, price) == price <= trigger.min \/ price >= trigger.max

\* Mutant for the runs: the far ends of the candle are taken for the near ones.
TrailedStopSwapped(t, low, high, close) ==
  LET up == ApplyDiscount(low, t.tsl)
      down == ApplyGain(high, t.tsl)
  IN CASE t.tsl = NoTrail -> NoPrice
       [] t.tsl # NoTrail /\ t.side = Buy ->
            IF high >= NextStoplossUpdateTrigger(t) /\ up < close THEN up ELSE NoPrice
       [] t.tsl # NoTrail /\ t.side = Sell ->
            IF low <= NextStoplossUpdateTrigger(t) /\ down > close THEN down ELSE NoPrice

\* The stop that a candle moves a trailing trade to, or NoPrice when it leaves it.
TrailedStop(t, low, high, close) ==
  LET up == ApplyDiscount(high, t.tsl)
      down == ApplyGain(low, t.tsl)
  IN CASE t.tsl = NoTrail -> NoPrice
       [] t.tsl # NoTrail /\ t.side = Buy ->
            IF high >= NextStoplossUpdateTrigger(t) /\ up < close THEN up ELSE NoPrice
       [] t.tsl # NoTrail /\ t.side = Sell ->
            IF low <= NextStoplossUpdateTrigger(t) /\ down > close THEN down ELSE NoPrice

\* The same decision in the live session, which knows a range of prices and no close: a stop
\* that rounding leaves where it is is not sent again.
NewStoplossOnRange(t, low, high) ==
  LET stop == IF t.side = Buy THEN ApplyDiscount(high, t.tsl) ELSE ApplyGain(low, t.tsl)
      reached == IF t.side = Buy THEN high >= NextStoplossUpdateTrigger(t)
                 ELSE low <= NextStoplossUpdateTrigger(t)
  IN IF t.tsl # NoTrail /\ reached /\ stop # t.stoploss THEN stop ELSE NoPrice

-----------------------------------------------------------------------------
(* A trade from its order to its close. *)

\* trade_util::evaluate_open_trade_params; the closing fee is reserved at the liquidation price.
Opened(side, q, margin, market, sl, tp, tsl) ==
  LET liq == Liquidation(side, q, market, margin)
  IN [side |-> side, quantity |-> q, margin |-> margin, price |-> market,
      liquidation |-> liq, stoploss |-> sl, takeprofit |-> tp, tsl |-> tsl,
      openingFee |-> OrderFee(q, market), closingFee |-> OrderFee(q, liq)]

\* The leverage of a margin is allowed.
MarginValid(q, p, m) == MinMargin(q, p) <= m /\ m <= MaxMargin(q, p)

\* What it accepts: each price on its side of the entry, the stop before the liquidation.
OrderValid(t) ==
  LET Before(p, q) == IF t.side = Buy THEN p < q ELSE p > q
  IN /\ MarginValid(t.quantity, t.price, t.margin)
     /\ t.stoploss # NoPrice => Before(t.liquidation, t.stoploss) /\ Before(t.stoploss, t.price)
     /\ t.takeprofit # NoPrice => Before(t.price, t.takeprofit)

\* trade_util::evaluate_new_stoploss, of which only the liquidation can refuse a trailed stop.
NewStopValid(t, sl) == IF t.side = Buy THEN sl > t.liquidation ELSE sl < t.liquidation

WithMargin(t, price, margin) ==
  [t EXCEPT !.price = price, !.margin = margin,
            !.liquidation = Liquidation(t.side, t.quantity, price, margin)]

\* A cost that leaves no margin, or too little for the largest leverage.
FundingBreaks(t, rate) ==
  LET fee == FundingFee(t.side, t.quantity, rate)
  IN /\ fee > 0
     /\ \/ t.margin <= fee
        \/ t.margin - fee < MinMargin(t.quantity, t.price)

WithFunding(t, rate) ==
  LET fee == FundingFee(t.side, t.quantity, rate)
  IN IF fee <= 0 THEN t ELSE WithMargin(t, t.price, t.margin - fee)

MaintenanceMargin(t) == t.openingFee + t.closingFee
EstPl(t, price) == Pl(t.side, t.quantity, t.price, price)
ProceedsUnreserved(t, price) ==           \* mutant for the runs: the reserve is not given back
  t.margin - OrderFee(t.quantity, price) + EstPl(t, price)
Proceeds(t, price) ==
  t.margin + MaintenanceMargin(t) - OrderFee(t.quantity, price) + EstPl(t, price)

\* Profit is cashed in first, by moving the entry price toward the market, then margin.
CashedProfit(t, market, amount) == Lower(amount, Higher(0, EstPl(t, market)))

\* trade_util::evaluate_cash_in: a stop that the new liquidation has passed is dropped.
CashedIn(t, market, amount) ==
  LET profit == CashedProfit(t, market, amount)
      p == IF profit = 0 THEN t.price
           ELSE EntryFor(t.side, t.quantity, market, EstPl(t, market) - profit)
      u == WithMargin(t, p, t.margin - (amount - profit))
  IN [u EXCEPT !.stoploss = IF NewStopValid(u, @) THEN @ ELSE NoPrice]

-----------------------------------------------------------------------------
(* The estimates that operators plan with, and that the live executor holds them to. *)

EstMaxAdditionalMargin(t) == Higher(0, MaxMargin(t.quantity, t.price) - t.margin)

EstMaxCashIn(t, market) ==
  Higher(0, EstPl(t, market)) + Higher(0, t.margin - MinMargin(t.quantity, t.price))
=============================================================================
