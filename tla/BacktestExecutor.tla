-------------------------- MODULE BacktestExecutor --------------------------
(***************************************************************************)
(* SimulatedTradeExecutor (trade/backtest/executor/mod.rs): the exchange   *)
(* of a backtest.  The engine gives it candles and funding settlements,    *)
(* the operator of the backtest gives it orders; its mutex makes each of   *)
(* them one step.  A call that returns an error leaves the state alone and *)
(* is no step here, but for a candle or a settlement, whose error ends the *)
(* backtest.                                                               *)
(* Times are left to BacktestEngine.                                       *)
(***************************************************************************)
EXTENDS IsolatedTrade, CrossPosition, FiniteSets, Functions, FiniteSetsExt

CONSTANTS
  StartBalance, StartPrice,
  Candles,        \* the candles that may come: records low, high, close
  Orders,         \* isolated orders: side, quantity, margin, stoploss, takeprofit, tsl
  Amounts,        \* of added margin and of cash-ins
  Transfers,      \* amounts of deposits and withdrawals
  MaxRunning,     \* config.trade_max_running_qtd
  MaxTrades,      \* bound: isolated trades of a behaviour
  MaxCalls        \* bound: calls of a behaviour

ASSUME BacktestAssumption ==
  /\ StartBalance \in Nat /\ StartPrice \in Prices
  /\ Candles \subseteq {c \in [low: Prices, high: Prices, close: Prices] :
                          c.low <= c.close /\ c.close <= c.high}
  /\ Orders \subseteq Requests
  /\ Amounts \cup Transfers \subseteq Nat \ {0}
  /\ {MaxRunning, MaxTrades, MaxCalls} \subseteq Nat

VARIABLES
  market,         \* market_price
  balance,        \* free satoshis, of neither a trade nor the cross account
  trigger,        \* PriceTrigger: the prices at which some running trade needs a look
  running,        \* running_map: the trades by their number
  closed,         \* closed_history: the numbers of the closed trades
  fundingFees, realizedPl, closedFees,   \* totals over isolated trades
  cross,          \* cross_position
  failed,         \* a candle or a settlement returned an error, which ends the backtest
  calls,          \* successful calls so far, a bound
  moved,          \* ghost: trades cashed in since trigger was last built from all trades
  crossIn         \* ghost: deposits to the cross account less withdrawals

totals == <<fundingFees, realizedPl, closedFees>>
vars == <<market, balance, trigger, running, closed, totals, cross, failed, calls, moved,
          crossIn>>

\* The trigger that a loop over these trades builds.
TriggerOf(trades) ==
  IF DOMAIN trades = {} THEN NotSet
  ELSE [min |-> Max({Bounds(trades[i]).min : i \in DOMAIN trades}),
        max |-> Min({Bounds(trades[i]).max : i \in DOMAIN trades})]

\* Of the sums, Conserved says what they are.
TypeOK ==
  /\ market \in Prices
  /\ trigger \in [min: Int, max: Int]
  /\ DOMAIN running \cup closed \subseteq 1 .. MaxTrades
  /\ DOMAIN running \cap closed = {}
  /\ \A i \in DOMAIN running : running[i] \in Trades
  /\ cross \in Positions /\ Valid(cross)
  /\ failed \in BOOLEAN /\ calls \in 0 .. MaxCalls
  /\ moved \subseteq DOMAIN running /\ crossIn \in Int

Init ==
  /\ market = StartPrice /\ balance = StartBalance
  /\ trigger = NotSet /\ running = <<>> /\ closed = {}
  /\ fundingFees = 0 /\ realizedPl = 0 /\ closedFees = 0
  /\ cross = Initial /\ failed = FALSE /\ calls = 0 /\ moved = {} /\ crossIn = 0

\* A call on the executor while the backtest runs.
Call == ~failed /\ calls < MaxCalls /\ calls' = calls + 1

\* RunningTradesMap::add.
Added(trades, id, t) == [i \in DOMAIN trades \cup {id} |-> IF i = id THEN t ELSE trades[i]]

-----------------------------------------------------------------------------
(* Closing trades, and rebuilding map and trigger from those that stay. *)

\* Sums over trades that close, trade i at price[i].
ProceedsOf(trades, gone, price) == SumFunction([i \in gone |-> Proceeds(trades[i], price[i])])
ProfitOf(trades, gone, price) == SumFunction([i \in gone |-> EstPl(trades[i], price[i])])
FeesOf(trades, gone, price) ==
  SumFunction([i \in gone |-> trades[i].openingFee + OrderFee(trades[i].quantity, price[i])])

\* The trades `gone` close; the rest of `trades` keeps running.
Settle(trades, gone, price) ==
  /\ running' = Restrict(trades, DOMAIN trades \ gone)
  /\ trigger' = TriggerOf(running')
  /\ closed' = closed \cup gone
  /\ realizedPl' = realizedPl + ProfitOf(trades, gone, price)
  /\ closedFees' = closedFees + FeesOf(trades, gone, price)
  /\ moved' = {}

-----------------------------------------------------------------------------
(* What the engine calls. *)

\* The low of the candle is tested before its high: when it reaches both ends of a trade, a
\* long closes at its stop and a short at its takeprofit.
ClosingPrice(t, c) ==
  IF IF t.side = Buy THEN StopReached(t, c.low, c.high) ELSE ~ProfitReached(t, c.low, c.high)
  THEN StopOrLiquidation(t) ELSE t.takeprofit

CandleStops(c) == {i \in DOMAIN running : StopReached(running[i], c.low, c.high)}  \* mutant
CandleCloses(c) ==
  {i \in DOMAIN running : \/ StopReached(running[i], c.low, c.high)
                          \/ ProfitReached(running[i], c.low, c.high)}

NewStop(i, c) == TrailedStop(running[i], c.low, c.high, c.close)

\* Its error ends the loop over the trades: the backtest is over, the rest is not looked at.
StopRefused(c) ==
  \E i \in DOMAIN running \ CandleCloses(c) :
    \/ Stopless(running[i])
    \/ NewStop(i, c) # NoPrice /\ ~NewStopValid(running[i], NewStop(i, c))

Trailed(c) ==
  [i \in DOMAIN running |->
     IF i \in CandleCloses(c) \/ NewStop(i, c) = NoPrice THEN running[i]
     ELSE [running[i] EXCEPT !.stoploss = NewStop(i, c)]]

CandleUpdate(c) ==
  /\ Call
  /\ IF ~ (WasReached(trigger, c.low) \/ WasReached(trigger, c.high))
     THEN /\ market' = c.close
          /\ cross' = IF CrossLiquidated(cross, c.low, c.high)
                      THEN Close(cross, LiquidationPrice(cross)) ELSE cross
          /\ UNCHANGED <<balance, trigger, running, closed, totals, failed, moved>>
     ELSE IF StopRefused(c)
     THEN /\ failed' = TRUE
          /\ UNCHANGED <<market, balance, trigger, running, closed, totals, cross, moved>>
     ELSE LET price == [i \in CandleCloses(c) |-> ClosingPrice(running[i], c)]
          IN /\ market' = c.close
             /\ cross' = IF CrossLiquidated(cross, c.low, c.high)
                         THEN Close(cross, LiquidationPrice(cross)) ELSE cross
             /\ Settle(Trailed(c), CandleCloses(c), price)
             /\ balance' = balance + ProceedsOf(running, CandleCloses(c), price)
             /\ UNCHANGED <<fundingFees, failed>>
  /\ UNCHANGED crossIn

Fee(i, rate) == FundingFee(running[i].side, running[i].quantity, rate)
FundingOf(S, rate) == SumFunction([i \in S |-> Fee(i, rate)])

\* Costs come out of a trade's margin, revenue goes to the balance; a trade that the cost
\* breaks is closed at the market and the balance pays.  The trigger cannot be built from a trade
\* that has lost its trailing stop.
ApplyFundingSettlement(rate) ==
  LET broken == {i \in DOMAIN running : FundingBreaks(running[i], rate)}
      price == [i \in broken |-> market]
      paid == [i \in DOMAIN running |->
                 IF i \in broken THEN running[i] ELSE WithFunding(running[i], rate)]
      onBalance == {i \in DOMAIN running : i \in broken \/ Fee(i, rate) < 0}
  IN /\ Call
     /\ IF DOMAIN running = {} /\ Neutral(cross)
        THEN UNCHANGED <<balance, trigger, running, closed, totals, cross, failed, moved>>
        ELSE IF \E i \in DOMAIN running \ broken : Stopless(running[i])
        THEN /\ failed' = TRUE
             /\ UNCHANGED <<balance, trigger, running, closed, totals, cross, moved>>
        ELSE /\ Settle(paid, broken, price)
             /\ fundingFees' = fundingFees + FundingOf(DOMAIN running, rate)
             /\ balance' = balance + ProceedsOf(running, broken, price) - FundingOf(onBalance, rate)
             /\ cross' = SettledCross(cross, market, rate)
             /\ UNCHANGED failed
     /\ UNCHANGED <<market, crossIn>>

-----------------------------------------------------------------------------
(* What the operator of the backtest calls: isolated trades. *)

\* The fee is charged with the margins, but only the margins are compared to the balance.
CreateRunning(o) ==
  LET stop == IF o.tsl # NoTrail THEN InitialStop(o.side, o.tsl, market) ELSE o.stoploss
      t == Opened(o.side, o.quantity, o.margin, market, stop, o.takeprofit, o.tsl)
      id == Cardinality(DOMAIN running \cup closed) + 1
  IN /\ Call /\ id <= MaxTrades
     /\ o.tsl # NoTrail => Step <= o.tsl /\ stop \in Prices
     /\ OrderValid(t)
     /\ t.margin + MaintenanceMargin(t) <= balance
     /\ Cardinality(DOMAIN running) < MaxRunning
     /\ balance' = balance - t.margin - MaintenanceMargin(t) - t.openingFee
     /\ trigger' = Update(trigger, t)
     /\ running' = Added(running, id, t)
     /\ UNCHANGED <<market, closed, totals, cross, failed, moved, crossIn>>

AddMargin(id, amount) ==
  LET t == running[id]
  IN /\ Call /\ amount <= balance /\ id \in DOMAIN running
     /\ MarginValid(t.quantity, t.price, t.margin + amount)
     /\ running' = [running EXCEPT ![id] = WithMargin(t, t.price, t.margin + amount)]
     /\ balance' = balance - amount
     /\ UNCHANGED <<market, trigger, closed, totals, cross, failed, moved, crossIn>>

\* The balance gets the amount, the books the profit that the rounded price stands for; the
\* trigger is not built anew, and the trailing percentage stays with a trade that loses its stop.
CashIn(id, amount) ==
  LET t == running[id]
      u == CashedIn(t, market, amount)
  IN /\ Call /\ id \in DOMAIN running
     /\ amount - CashedProfit(t, market, amount) < t.margin
     /\ MarginValid(u.quantity, u.price, u.margin)
     /\ running' = [running EXCEPT ![id] = u]
     /\ realizedPl' = realizedPl + BookedPl(t.side, t.quantity, t.price, u.price)
     /\ balance' = balance + amount
     /\ moved' = moved \cup {id}
     /\ UNCHANGED <<market, trigger, closed, fundingFees, closedFees, cross, failed,
                    crossIn>>

\* Close::Single, Close::Side and Close::All.
CloseRunning(ids) ==
  LET price == [i \in ids |-> market]
  IN /\ Call
     /\ \A i \in DOMAIN running \ ids : ~Stopless(running[i])
     /\ Settle(running, ids, price)
     /\ balance' = balance + ProceedsOf(running, ids, price)
     /\ UNCHANGED <<market, fundingFees, cross, failed, crossIn>>

IsolatedOrderClose(id) == CloseRunning({id} \cap DOMAIN running)
IsolatedOrderCloseSide(side) == CloseRunning({i \in DOMAIN running : running[i].side = side})
IsolatedOrderCloseAll == CloseRunning(DOMAIN running)

-----------------------------------------------------------------------------
(* What the operator of the backtest calls: the cross account. *)

isolated == <<market, trigger, running, closed, totals, failed, moved>>

CrossDeposit(amount) ==
  LET x == [cross EXCEPT !.margin = @ + amount]
  IN /\ Call /\ amount <= balance
     /\ Valid(x) /\ IsCoherent(x, market)
     /\ balance' = balance - amount /\ cross' = x
     /\ crossIn' = crossIn + amount
     /\ UNCHANGED isolated

CrossWithdraw(amount) ==
  LET free == EstFreeMargin(cross, market)
      x == [cross EXCEPT !.margin = @ - amount]
  IN /\ Call
     /\ amount <= free
     /\ ~Neutral(cross) => amount # free
     /\ Valid(x) /\ IsCoherent(x, market)
     /\ balance' = balance + amount /\ cross' = x
     /\ crossIn' = crossIn - amount
     /\ UNCHANGED isolated

CrossSetLeverage(leverage) ==
  LET x == [cross EXCEPT !.leverage = leverage]
  IN /\ Call
     /\ Valid(x) /\ IsCoherent(x, market)
     /\ cross' = x
     /\ UNCHANGED <<isolated, balance, crossIn>>

CrossOrder(side, q) ==
  LET x == MarketOrder(cross, market, side, q)
  IN /\ Call
     /\ Valid(x) /\ x.quantity \in Quantities \cup {0}
     /\ cross' = x
     /\ UNCHANGED <<isolated, balance, crossIn>>

CrossOrderClosePosition ==
  /\ Call /\ ~Neutral(cross)
  /\ cross' = Close(cross, market)
  /\ UNCHANGED <<isolated, balance, crossIn>>

EngineCalls ==
  \/ \E c \in Candles : CandleUpdate(c)
  \/ \E rate \in Rates : ApplyFundingSettlement(rate)

\* TradeExecutor; its provided methods only build the requests of isolated and cross orders.
OperatorCalls ==
  \/ \E o \in Orders : CreateRunning(o)
  \/ \E id \in DOMAIN running, amount \in Amounts : AddMargin(id, amount) \/ CashIn(id, amount)
  \/ \E id \in DOMAIN running : IsolatedOrderClose(id)
  \/ \E side \in Sides : IsolatedOrderCloseSide(side)
  \/ IsolatedOrderCloseAll
  \/ \E amount \in Transfers : CrossDeposit(amount) \/ CrossWithdraw(amount)
  \/ \E leverage \in Leverages : CrossSetLeverage(leverage)
  \/ \E side \in Sides, q \in Quantities : CrossOrder(side, q)
  \/ CrossOrderClosePosition

Next == EngineCalls \/ OperatorCalls

Spec == Init /\ [][Next]_vars

-----------------------------------------------------------------------------
(* What TradingState reports (trade/core.rs). *)

RunningOf(side) == {i \in DOMAIN running : running[i].side = side}
RunningSideMargin(side) ==
  SumFunction([i \in RunningOf(side) |-> running[i].margin + MaintenanceMargin(running[i])])
RunningMargin == RunningSideMargin(Buy) + RunningSideMargin(Sell)
RunningPl == SumFunction([i \in DOMAIN running |-> EstPl(running[i], market)])
Fees == closedFees + SumFunction([i \in DOMAIN running |-> running[i].openingFee])

\* Amounts in u64: what is negative is 0, and so is what a loss takes below it.
TotalNetValue ==
  Higher(0, Higher(0, balance) + RunningMargin + RunningPl) + EstNetValue(cross, market)

-----------------------------------------------------------------------------
(* Properties. *)

\* No satoshi appears or vanishes: whatever was opened, cashed in, settled, stopped out or
\* closed, in whatever order, the free balance and the margins are the start balance plus the
\* realized profit, less the fees, the funding and what the cross account was given.  Only a
\* cash-in of profit moves that, by no more than rounding the new entry price is worth
\* (executor/tests.rs:894 and 1016 allow for it); and the net value that is reported moves no
\* farther, as long as the balance is not below zero: cashing in makes nothing and costs nothing.
Missing ==
  balance + RunningMargin - (StartBalance + realizedPl - Fees - fundingFees - crossIn)
Conserved ==
  /\ Missing = 0
  /\ [][LET Rounding(id) == Slack(running[id].quantity, running'[id].price)
             Near(a, b, slack) == a - b \in - slack .. slack
             Cashed(id) == \E amount \in Amounts : CashIn(id, amount)
         IN /\ Missing' # Missing =>
                 \E id \in DOMAIN running : Cashed(id) /\ Near(Missing', Missing, Rounding(id))
            /\ \A id \in DOMAIN running :
                 Cashed(id) /\ balance >= 0 => Near(TotalNetValue', TotalNetValue, Rounding(id))]_vars

\* The one price test that a candle makes before it looks at the trades misses none of them: at
\* every price at which a running trade must be closed or its stop moved, trigger is reached
\* (except for trades cashed in since it was built: cash_in does not build it anew).
TriggerCovers ==
  \A i \in DOMAIN running \ moved :
    Bounds(running[i]).min <= trigger.min /\ trigger.max <= Bounds(running[i]).max

\* After a candle no trade is running whose stop, or whose takeprofit, its range reached; and
\* the account is not in cross exposure whose liquidation it reached.
RangeIsHonoured ==
  [][\A c \in Candles : CandleUpdate(c) /\ ~failed' =>
       /\ \A i \in DOMAIN running' \ moved :
            ~StopReached(running[i], c.low, c.high) /\ ~ProfitReached(running[i], c.low, c.high)
       /\ CrossLiquidated(cross, c.low, c.high) => Neutral(cross')]_vars

\* A stop stays, trails in the favourable direction, whatever the rounding does, and to where the
\* live session would move it on the same range of prices, or is dropped by a cash-in whose
\* liquidation has passed it.
StopMoves(i) ==
  LET before == running[i].stoploss
      after == running'[i].stoploss
  IN \/ after = before
     \/ /\ running[i].tsl # NoTrail /\ after # NoPrice
        /\ NewStopValid([running[i] EXCEPT !.liquidation = before], after)
        /\ \E c \in Candles : after = NewStoplossOnRange(running[i], c.low, c.high)
     \/ /\ after = NoPrice /\ ~NewStopValid(running'[i], before)
        /\ \E amount \in Amounts : CashIn(i, amount)
StopsTrail == \A i \in DOMAIN running \cap DOMAIN running' : StopMoves(i)

\* A candle or a settlement fails only over a trailing trade that has lost its stop so, or a
\* candle over one whose liquidation funding has moved past its stop.
FailsOverStop ==
  failed' # failed =>
    \E i \in DOMAIN running :
      \/ Stopless(running[i]) /\ i \in moved
      \/ /\ running[i].tsl # NoTrail /\ ~NewStopValid(running[i], running[i].stoploss)
         /\ \E c \in Candles : CandleUpdate(c)

\* Both, of every step.
TrailsForward == [][StopsTrail /\ FailsOverStop]_vars

\* The satoshis of the cross account: what went in, its profit, fees and funding.  A loss that
\* the margin cannot pay is dropped, but only when the position is gone and nothing is left but
\* what a settlement pays, or when a reversal owes a fee larger than the margin it has.
Dropped == cross.margin - (crossIn + Accounted(cross))
CrossAccounted ==
  [][Dropped' # Dropped =>
       /\ Dropped' > Dropped
       /\ Neutral(cross') => cross'.margin = Higher(0, cross.funding - cross'.funding)
       /\ ~Neutral(cross') => cross'.fees - cross.fees > cross.margin]_vars

\* What the estimates of the cross account promise an operator is what its market order then
\* does: the same entry price, margin and fee, as long as the margin can pay for it.
OrderEstimated ==
  \A side \in Sides, q \in Quantities :
    LET d == Delta(cross, side, q)
        x == MarketOrder(cross, market, IF d > 0 THEN Buy ELSE Sell, Size(d))
        fee == EstFee(cross, side, q, market)
        margin == EstMargin(cross, side, q, market)
    IN d # 0 /\ fee <= Lower(cross.margin, margin) =>
         /\ x.side = side /\ x.quantity = q
         /\ x.entry = EstEntryPrice(cross, side, q, market)
         /\ x.margin = margin - fee
         /\ x.fees = cross.fees + fee

\* After the deposit or the withdrawal that is estimated for a liquidation, the order leaves a
\* valid position, liquidated there, or farther from the market when only more is valid.
CollateralEstimated ==
  \A side \in Sides, q \in Quantities, c \in Candles :
    LET liq == IF side = Buy THEN c.low ELSE c.high
        d == Delta(cross, side, q)
        diff == IF d = 0 THEN EstCollateralDiffForLiquidation(cross, market, liq)
                ELSE EstCollateralDiff(cross, side, q, market, liq)
        given == [cross EXCEPT !.margin = @ + diff]
        x == IF d = 0 THEN given ELSE MarketOrder(given, market, IF d > 0 THEN Buy ELSE Sell, Size(d))
        paid == EstFee(cross, side, q, market) <= Lower(given.margin, EstMargin(given, side, q, market))
    IN IF side = Buy
       THEN liq < market /\ paid => Valid(x) /\ LiquidationPrice(x) <= liq
       ELSE liq > market /\ paid => Valid(x) /\ LiquidationPrice(x) >= liq

\* The limits on added margin and on cash-ins, to which the live executor holds an operator and
\* the simulated one does not, are what the trade itself accepts (with a profit to cash in, its
\* entry price moves and the limit is an estimate).
LimitsAgree ==
  \A i \in DOMAIN running :
    LET t == running[i]
        after(amount) == MarginValid(t.quantity, t.price, t.margin + amount)
        more == EstMaxAdditionalMargin(t)
        less == EstMaxCashIn(t, market)
    IN /\ after(more) /\ ~after(more + 1)
       /\ EstPl(t, market) <= 0 => after(- less) /\ ~after(- less - 1)

EstimatesAgree == OrderEstimated /\ CollateralEstimated /\ LimitsAgree

\* Contradicted by the code: the doc of apply_funding_settlement leaves a liquidation that
\* funding moved across the market to the next candle, "which will liquidate the trade through
\* the normal price-trigger mechanism".
LiquidationIsHonoured ==
  [][\A c \in Candles : CandleUpdate(c) /\ ~failed' =>
       \A i \in DOMAIN running' \ moved : ~LiquidationReached(running[i], c.low, c.high)]_vars
=============================================================================
