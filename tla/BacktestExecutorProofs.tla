----------------------- MODULE BacktestExecutorProofs -----------------------
(***************************************************************************)
(* What the simulated exchange of a backtest promises about its trades and *)
(* its cross account, for any contract, prices, orders and candles.        *)
(***************************************************************************)
EXTENDS BacktestExecutor, SetLemmas, TLAPS

-----------------------------------------------------------------------------
(* One trade: its types, and that its bounds are where it needs a look.    *)

\* The leverage of its margin is allowed, and its liquidation is the one that margin gives.
Sound(t) ==
  /\ t \in Trades
  /\ MarginValid(t.quantity, t.price, t.margin)
  /\ t.liquidation = Liquidation(t.side, t.quantity, t.price, t.margin)

LEMMA PricesAre == Prices \subseteq Nat /\ NoPrice \notin Prices /\ NoPrice \in Nat /\ Top \in Nat /\ Bottom \in Nat
BY PriceAssumption DEF Prices, NoPrice

LEMMA FieldsAre ==
  ASSUME NEW t \in Trades
  PROVE  /\ t.stoploss \in Int /\ t.takeprofit \in Int /\ t.liquidation \in Int
         /\ t.tsl \in 0 .. 99 /\ t.side \in Sides
<1>1. /\ t.stoploss \in Prices \cup {NoPrice} /\ t.takeprofit \in Prices \cup {NoPrice}
      /\ t.liquidation \in Prices /\ t.tsl \in 0 .. 99 /\ t.side \in Sides
  BY DEF Trades
<1>2. \A p \in Prices \cup {NoPrice} : p \in Int
  BY PricesAre
<1> QED
  BY <1>1, <1>2

LEMMA TriggersAreInt ==
  ASSUME NEW t \in Trades
  PROVE  NextStoplossUpdateTrigger(t) \in Int
<1>1. ASSUME NEW n \in Int, NEW d \in Int, d > 0
      PROVE  n \div d \in Int
  BY <1>1
<1>2. ASSUME NEW p \in Int
      PROVE  ApplyGain(p, Step) \in Int /\ ApplyDiscount(p, Step) \in Int
  <2>1. Step \in Int
    BY StepAssumption
  <2>2. p * (100 + Step) \in Int /\ p * (100 - Step) \in Int
    BY <2>1
  <2> DEFINE a == p * (100 + Step)
             b == p * (100 - Step)
  <2> HIDE DEF a, b
  <2>3. Round(a, 100) \in Int /\ Round(b, 100) \in Int
    BY <2>2 DEF Round, a, b
  <2> QED
    BY <2>3 DEF ApplyGain, ApplyDiscount, a, b
<1>3. t.stoploss \in Int /\ t.tsl \in 0 .. 99
  BY FieldsAre
<1>4. 100 - t.tsl \in Int /\ 100 - t.tsl > 0 /\ 100 + t.tsl \in Int /\ 100 + t.tsl > 0
  BY <1>3
<1>5. /\ ApplyGain(t.stoploss, Step) * 100 + (100 - t.tsl) - 1 \in Int
      /\ ApplyDiscount(t.stoploss, Step) * 100 \in Int
  BY <1>2, <1>3, <1>4
<1>6. /\ RoundUp(ApplyGain(t.stoploss, Step) * 100, 100 - t.tsl) \in Int
      /\ RoundDown(ApplyDiscount(t.stoploss, Step) * 100, 100 + t.tsl) \in Int
  BY <1>1, <1>4, <1>5 DEF RoundUp, RoundDown
<1> QED
  BY <1>6 DEF NextStoplossUpdateTrigger

LEMMA BoundsAre ==
  ASSUME NEW t \in Trades
  PROVE  Bounds(t) \in [min: Int, max: Int]
<1>1. t.stoploss \in Int /\ t.takeprofit \in Int /\ t.liquidation \in Int
  BY FieldsAre
<1> QED
  BY <1>1, TriggersAreInt, PricesAre DEF Bounds, StopOrLiquidation, Higher, Lower

\* Strictly between its bounds a candle does nothing to a trade.
LEMMA BoundsReach ==
  ASSUME NEW t \in Trades, NEW low \in Prices, NEW high \in Prices, NEW r \in [min: Int, max: Int],
         Bounds(t).min <= r.min, r.max <= Bounds(t).max,
         ~WasReached(r, low), ~WasReached(r, high)
  PROVE  ~StopReached(t, low, high) /\ ~ProfitReached(t, low, high)
<1>1. /\ t.stoploss \in Int /\ t.takeprofit \in Int /\ t.liquidation \in Int
      /\ NextStoplossUpdateTrigger(t) \in Int /\ low \in Int /\ high \in Int /\ r.min \in Int /\ r.max \in Int
      /\ Top \in Int /\ Bottom \in Int
  BY PricesAre, TriggersAreInt, FieldsAre
<1>2. r.min < low /\ r.min < high /\ low < r.max /\ high < r.max
  BY <1>1 DEF WasReached
<1>3. CASE t.side = Buy
  <2>1. /\ StopOrLiquidation(t) <= r.min
        /\ t.takeprofit # NoPrice => r.max <= t.takeprofit
    BY <1>1, <1>3 DEF Bounds, Lower, StopOrLiquidation
  <2> QED
    BY <1>1, <1>2, <1>3, <2>1 DEF StopReached, ProfitReached, StopOrLiquidation
<1>4. CASE t.side # Buy
  <2>1. /\ r.max <= StopOrLiquidation(t)
        /\ t.takeprofit # NoPrice => t.takeprofit <= r.min
    BY <1>1, <1>4 DEF Bounds, Higher, StopOrLiquidation
  <2> QED
    BY <1>1, <1>2, <1>4, <2>1 DEF StopReached, ProfitReached, StopOrLiquidation
<1> QED
  BY <1>3, <1>4

\* The trigger that a loop builds covers every trade of the loop.
LEMMA TriggerOfIs ==
  ASSUME NEW trades, IsFiniteSet(DOMAIN trades), \A i \in DOMAIN trades : trades[i] \in Trades
  PROVE  /\ TriggerOf(trades) \in [min: Int, max: Int]
         /\ \A i \in DOMAIN trades :
              /\ Bounds(trades[i]).min <= TriggerOf(trades).min
              /\ TriggerOf(trades).max <= Bounds(trades[i]).max
<1>1. CASE DOMAIN trades = {}
  BY <1>1, PricesAre DEF TriggerOf, NotSet
<1>2. CASE DOMAIN trades # {}
  <2> DEFINE D == DOMAIN trades
             lo == [i \in D |-> Bounds(trades[i]).min]
             hi == [i \in D |-> Bounds(trades[i]).max]
             Lo == {Bounds(trades[i]).min : i \in D}
             Hi == {Bounds(trades[i]).max : i \in D}
  <2>1. \A i \in D : Bounds(trades[i]).min \in Int /\ Bounds(trades[i]).max \in Int
    BY BoundsAre
  <2>2. Lo \in SUBSET Int /\ Hi \in SUBSET Int /\ Lo # {} /\ Hi # {}
    BY <1>2, <2>1
  <2>3. /\ DOMAIN lo = D /\ {lo[i] : i \in D} = Lo
        /\ DOMAIN hi = D /\ {hi[i] : i \in D} = Hi
    OBVIOUS
  <2>4. \A i \in D : Bounds(trades[i]).min \in Lo /\ Bounds(trades[i]).max \in Hi
    OBVIOUS
  <2>5. TriggerOf(trades) = [min |-> Max(Lo), max |-> Min(Hi)]
    BY <1>2 DEF TriggerOf
  <2> HIDE DEF lo, hi, Lo, Hi
  <2>6. IsFiniteSet(Lo) /\ IsFiniteSet(Hi)
    BY <2>3, ImageIsFinite
  <2>7. Max(Lo) \in Int /\ \A x \in Lo : x <= Max(Lo)
    BY <2>2, <2>6, MaxIs
  <2>8. Min(Hi) \in Int /\ \A x \in Hi : Min(Hi) <= x
    BY <2>2, <2>6, MinIs
  <2> QED
    BY <2>4, <2>5, <2>7, <2>8
<1> QED
  BY <1>1, <1>2

-----------------------------------------------------------------------------
(* The cross position: what an operation on it may lose.                   *)

Whole(x) == x \in Positions /\ Valid(x) /\ (~Neutral(x) => x.entry \in Prices)

\* What y has more than x without having earned it: a loss that was not paid.
Forgiven(x, y) == (y.margin - Accounted(y)) - (x.margin - Accounted(x))

\* A loss is forgiven only as CrossAccounted allows.
Fair(x, y) ==
  Forgiven(x, y) # 0 =>
    /\ Forgiven(x, y) > 0
    /\ Neutral(y) => y.margin = Higher(0, x.funding - y.funding)
    /\ ~Neutral(y) => y.fees - x.fees > x.margin

LEMMA SidesAre ==
  ASSUME NEW x \in Positions
  PROVE  /\ x.margin \in Nat /\ x.fees \in Nat /\ x.funding \in Int /\ x.pl \in Int
         /\ x.side \in Sides /\ x.quantity \in Quantities \cup {0} /\ x.quantity \in Nat
         /\ x.leverage \in Leverages \cup {MinLeverage}
         /\ x.entry \in Prices \cup {NoPrice}
<1>1. /\ x.margin \in Nat /\ x.fees \in Nat /\ x.funding \in Int /\ x.pl \in Int
      /\ x.side \in Sides /\ x.quantity \in Quantities \cup {0}
      /\ x.leverage \in Leverages \cup {MinLeverage}
      /\ x.entry \in Prices \cup {NoPrice}
  BY DEF Positions
<1>2. \A q \in Quantities \cup {0} : q \in Nat
  BY QuantityAssumption
<1> QED
  BY <1>1, <1>2

\* What a position is closed with is paid by its margin, as far as that goes.
LEMMA CloseIs ==
  ASSUME NEW x \in Positions, ~Neutral(x), x.entry \in Prices, NEW p \in Prices
  PROVE  /\ Close(x, p) \in Positions /\ Neutral(Close(x, p)) /\ Close(x, p).funding = x.funding
         /\ \E gain \in Int :
              /\ Close(x, p).margin = Higher(0, x.margin + gain)
              /\ Accounted(Close(x, p)) = Accounted(x) + gain
<1> DEFINE fee == OrderFee(x.quantity, p)
           pl == EstRunningPl(x, p)
           margin == ApplyAmount(x.margin, pl - fee)
           c == Close(x, p)
<1>1. x.quantity \in Quantities /\ x.side \in Sides
  BY SidesAre DEF Neutral
<1>2. fee \in Nat /\ pl \in Int
  BY <1>1, FeeAssumption, PlAssumption DEF EstRunningPl
<1>3. margin = Higher(0, x.margin + (pl - fee)) /\ margin \in Nat
  BY <1>2, SidesAre DEF ApplyAmount, Higher
<1>4. c = [x EXCEPT !.margin = margin, !.fees = @ + fee, !.pl = @ + pl,
                    !.side = Buy, !.quantity = 0, !.entry = NoPrice]
  BY DEF Close
<1> HIDE DEF fee, pl, margin, c
<1>5. x.fees + fee \in Nat /\ x.pl + pl \in Int
  BY <1>2, SidesAre
<1>6. c \in Positions
  BY <1>3, <1>4, <1>5 DEF Positions, Sides
<1>7. /\ c.quantity = 0 /\ c.funding = x.funding /\ c.margin = margin
      /\ c.fees = x.fees + fee /\ c.pl = x.pl + pl
  BY <1>4 DEF Positions
<1>8. Accounted(c) = Accounted(x) + (pl - fee) /\ pl - fee \in Int
  BY <1>2, <1>7, SidesAre DEF Accounted
<1> QED
  BY <1>3, <1>6, <1>7, <1>8 DEF Neutral, c

LEMMA ClosedIsFair ==
  ASSUME NEW x, Whole(x), ~Neutral(x), NEW p \in Prices
  PROVE  Whole(Close(x, p)) /\ Fair(x, Close(x, p)) /\ Neutral(Close(x, p))
<1> DEFINE c == Close(x, p)
<1>1. /\ x \in Positions /\ c \in Positions /\ Neutral(c) /\ c.funding = x.funding
  BY CloseIs DEF Whole
<1>2. PICK gain \in Int : c.margin = Higher(0, x.margin + gain) /\ Accounted(c) = Accounted(x) + gain
  BY CloseIs DEF Whole
<1> HIDE DEF c
<1>3. Accounted(x) \in Int /\ x.margin \in Nat /\ x.funding \in Int
  BY <1>1, SidesAre DEF Accounted
<1>4. Forgiven(x, c) # 0 => c.margin = 0 /\ Forgiven(x, c) > 0
  BY <1>2, <1>3 DEF Forgiven, Higher
<1>5. Higher(0, x.funding - c.funding) = 0
  BY <1>1, <1>3 DEF Higher
<1>6. Fair(x, c)
  BY <1>1, <1>4, <1>5 DEF Fair
<1>7. Whole(c)
  BY <1>1 DEF Whole, Valid
<1> QED
  BY <1>1, <1>6, <1>7 DEF c

\* What an exposure has to keep is not negative.
LEMMA ReservesAre ==
  ASSUME NEW x \in Positions, ~Neutral(x), x.entry \in Prices
  PROVE  Running(x) \in Nat /\ Maintenance(x) \in Nat
<1>1. x.quantity \in Quantities /\ x.leverage \in Leverages \cup {MinLeverage}
  BY SidesAre DEF Neutral
<1> QED
  BY <1>1, ReserveAssumption DEF Running, Maintenance

LEMMA SettledIsFair ==
  ASSUME NEW x, Whole(x), NEW price \in Prices, NEW rate \in Rates
  PROVE  Whole(SettledCross(x, price, rate)) /\ Fair(x, SettledCross(x, price, rate))
<1> DEFINE fee == FundingFee(x.side, x.quantity, rate)
           kept == [x EXCEPT !.margin = ApplyAmount(@, - fee), !.funding = @ + fee]
           c == Close(x, price)
           given == [c EXCEPT !.margin = ApplyAmount(@, - fee), !.funding = @ + fee]
           y == SettledCross(x, price, rate)
<1>1. x \in Positions /\ Valid(x)
  BY DEF Whole
<1>2. CASE Neutral(x)
  <2>1. y = x
    BY <1>2 DEF SettledCross
  <2>2. Forgiven(x, x) = 0
    BY <1>1, SidesAre DEF Forgiven, Accounted
  <2> QED
    BY <2>1, <2>2 DEF Fair
<1>3. CASE ~Neutral(x)
  <2>1. x.entry \in Prices /\ x.quantity \in Quantities /\ x.side \in Sides
    BY <1>1, <1>3, SidesAre DEF Whole, Neutral
  <2>2. fee \in Int
    BY <2>1, FundingAssumption
  <2>3. c \in Positions /\ Neutral(c) /\ c.funding = x.funding
    BY <1>1, <1>3, <2>1, CloseIs
  <2>4. PICK gain \in Int : c.margin = Higher(0, x.margin + gain) /\ Accounted(c) = Accounted(x) + gain
    BY <1>1, <1>3, <2>1, CloseIs
  <2>5. y = given \/ (y = kept /\ Valid(kept))
    BY <1>3 DEF SettledCross
  <2> HIDE DEF fee, c, y
  <2>6. ASSUME NEW z \in Positions
        PROVE  LET w == [z EXCEPT !.margin = ApplyAmount(@, - fee), !.funding = @ + fee]
               IN  /\ w \in Positions /\ w.funding = z.funding + fee /\ w.quantity = z.quantity
                   /\ w.margin = Higher(0, z.margin - fee) /\ w.entry = z.entry
                   /\ Accounted(w) = Accounted(z) - fee
                   /\ Running(w) = Running(z) /\ Maintenance(w) = Maintenance(z)
    <3> DEFINE m == ApplyAmount(z.margin, - fee)
               f == z.funding + fee
               w == [z EXCEPT !.margin = m, !.funding = f]
    <3>1. m = Higher(0, z.margin - fee) /\ m \in Nat /\ f \in Int
      BY <2>2, SidesAre DEF ApplyAmount, Higher
    <3> HIDE DEF m, f
    <3>2. w \in Positions
      BY <3>1 DEF Positions
    <3>3. /\ w.margin = m /\ w.funding = f /\ w.quantity = z.quantity /\ w.entry = z.entry
          /\ w.fees = z.fees /\ w.pl = z.pl /\ w.leverage = z.leverage
      BY DEF Positions
    <3>4. Accounted(w) = Accounted(z) - fee
      BY <3>3, <2>2, SidesAre DEF Accounted, f
    <3>5. Running(w) = Running(z) /\ Maintenance(w) = Maintenance(z)
      BY <3>3 DEF Running, Maintenance, Neutral
    <3> QED
      BY <3>1, <3>2, <3>3, <3>4, <3>5 DEF m, f
  <2>7. Accounted(x) \in Int /\ x.margin \in Nat /\ x.funding \in Int
    BY <1>1, SidesAre DEF Accounted
  <2>8. CASE y = given
    <3>1. /\ given \in Positions /\ given.funding = x.funding + fee /\ given.quantity = 0
          /\ given.margin = Higher(0, Higher(0, x.margin + gain) - fee)
          /\ Accounted(given) = Accounted(x) + gain - fee
      <4>1. /\ given \in Positions /\ given.funding = c.funding + fee
            /\ given.quantity = c.quantity /\ given.margin = Higher(0, c.margin - fee)
            /\ Accounted(given) = Accounted(c) - fee
        BY <2>3, <2>6
      <4> HIDE DEF given
      <4> QED
        <5>1. c.quantity = 0 /\ c.funding = x.funding
          BY <2>3 DEF Neutral
        <5>2. c.margin = Higher(0, x.margin + gain) /\ Accounted(c) = Accounted(x) + gain
          BY <2>4
        <5> QED
          BY <2>2, <2>7, <4>1, <5>1, <5>2
    <3> HIDE DEF given
    <3>2. Forgiven(x, given) # 0 =>
            Forgiven(x, given) > 0 /\ given.margin = Higher(0, x.funding - given.funding)
      BY <2>2, <2>7, <3>1 DEF Forgiven, Higher
    <3>3. Fair(x, given)
      BY <3>1, <3>2 DEF Fair, Neutral
    <3>4. Whole(given)
      BY <3>1 DEF Whole, Valid, Neutral
    <3> QED
      BY <2>8, <3>3, <3>4 DEF y
  <2>9. CASE y = kept /\ Valid(kept)
    <3>1. /\ kept \in Positions /\ kept.quantity = x.quantity /\ kept.entry = x.entry
          /\ kept.margin = Higher(0, x.margin - fee)
          /\ Accounted(kept) = Accounted(x) - fee
          /\ Running(kept) = Running(x) /\ Maintenance(kept) = Maintenance(x)
      BY <1>1, <2>6
    <3> HIDE DEF kept
    <3>2. Running(x) \in Nat /\ Maintenance(x) \in Nat
      BY <1>1, <1>3, <2>1, ReservesAre
    <3>3. ~Neutral(kept) /\ kept.margin > Running(x) + Maintenance(x)
      BY <1>3, <2>9, <3>1 DEF Valid, Neutral
    <3>4. kept.margin = x.margin - fee
      BY <2>2, <2>7, <3>1, <3>2, <3>3 DEF Higher
    <3>5. Forgiven(x, kept) = 0
      BY <2>2, <2>7, <3>1, <3>4 DEF Forgiven
    <3>6. Fair(x, kept) /\ Whole(kept)
      BY <2>1, <2>9, <3>1, <3>5 DEF Fair, Whole
    <3> QED
      BY <2>9, <3>6 DEF y
  <2> QED
    BY <2>5, <2>8, <2>9
<1> QED
  BY <1>2, <1>3

\* The same of an order, which is refused when what it leaves is not valid.
LEMMA FilledIs ==
  ASSUME NEW x \in Positions, NEW side \in Sides, NEW q \in Quantities, NEW entry \in Prices,
         NEW margin \in Nat, NEW fee \in Nat, NEW pl \in Int
  PROVE  LET y == Filled(x, side, q, entry, margin, fee, pl)
         IN  /\ y \in Positions /\ ~Neutral(y) /\ y.entry \in Prices
             /\ y.margin = margin /\ y.fees = x.fees + fee
             /\ Accounted(y) = Accounted(x) + pl - fee
<1> DEFINE f == x.fees + fee
           g == x.pl + pl
           y == [x EXCEPT !.side = side, !.quantity = q, !.entry = entry, !.margin = margin,
                          !.fees = f, !.pl = g]
<1>1. f \in Nat /\ g \in Int
  BY SidesAre
<1>2. Filled(x, side, q, entry, margin, fee, pl) = y
  BY DEF Filled
<1> HIDE DEF f, g
<1>3. y \in Positions
  BY <1>1 DEF Positions
<1>4. /\ y.quantity = q /\ y.entry = entry /\ y.margin = margin /\ y.fees = f /\ y.pl = g
      /\ y.funding = x.funding
  BY DEF Positions
<1>5. ~Neutral(y)
  BY <1>4, QuantityAssumption DEF Neutral
<1>6. Accounted(y) = Accounted(x) + pl - fee
  BY <1>4, SidesAre DEF Accounted, f, g
<1> QED
  BY <1>2, <1>3, <1>4, <1>5, <1>6 DEF f

\* A position that an order leaves open: its margin pays the fee first, then a loss, and what
\* it could not pay of the loss would leave it invalid.
LEMMA FilledIsFair ==
  ASSUME NEW x, Whole(x), NEW side \in Sides, NEW q \in Quantities, NEW entry \in Prices,
         NEW fee \in Nat, NEW pl \in Int, NEW margin,
         margin = ApplyAmount(ApplyAmount(x.margin, - fee), pl),
         Valid(Filled(x, side, q, entry, margin, fee, pl))
  PROVE  LET y == Filled(x, side, q, entry, margin, fee, pl)
         IN  Whole(y) /\ Fair(x, y) /\ ~Neutral(y)
<1> DEFINE y == Filled(x, side, q, entry, margin, fee, pl)
           paid == Higher(0, x.margin - fee)
<1>1. x \in Positions /\ x.margin \in Nat /\ x.fees \in Nat /\ Accounted(x) \in Int
  BY SidesAre DEF Whole, Accounted
<1>2. paid \in Nat /\ margin = Higher(0, paid + pl) /\ margin \in Nat
  BY <1>1 DEF ApplyAmount, Higher
<1>3. /\ y \in Positions /\ ~Neutral(y) /\ y.entry \in Prices
      /\ y.margin = margin /\ y.fees = x.fees + fee
      /\ Accounted(y) = Accounted(x) + pl - fee
  <2>1. x \in Positions /\ margin \in Nat
    BY <1>1, <1>2
  <2> HIDE DEF paid
  <2> QED
    BY ONLY <2>1, FilledIs, side \in Sides, q \in Quantities, entry \in Prices, fee \in Nat,
            pl \in Int
<1>4. Valid(y)
  OBVIOUS
<1> HIDE DEF y
<1>5. Running(y) \in Nat /\ Maintenance(y) \in Nat
  BY <1>3, ReservesAre
<1>6. margin > 0
  BY <1>2, <1>3, <1>4, <1>5 DEF Valid
<1>7. margin = paid + pl
  BY <1>2, <1>6 DEF Higher
<1>8. Forgiven(x, y) = paid - (x.margin - fee)
  BY <1>1, <1>2, <1>3, <1>7 DEF Forgiven
<1>9. Fair(x, y)
  BY <1>1, <1>3, <1>8 DEF Fair, Higher
<1>10. Whole(y)
  BY <1>3, <1>4 DEF Whole
<1> QED
  BY <1>3, <1>9, <1>10 DEF y

LEMMA OrderIsFair ==
  ASSUME NEW x, Whole(x), NEW price \in Prices, NEW side \in Sides, NEW q \in Quantities,
         Valid(MarketOrder(x, price, side, q)),
         MarketOrder(x, price, side, q).quantity \in Quantities \cup {0}
  PROVE  Whole(MarketOrder(x, price, side, q)) /\ Fair(x, MarketOrder(x, price, side, q))
<1> DEFINE y == MarketOrder(x, price, side, q)
           fee == OrderFee(q, price)
           paid == ApplyAmount(x.margin, - fee)
<1> SUFFICES Whole(y) /\ Fair(x, y)
  OBVIOUS
<1>1. /\ x \in Positions /\ x.margin \in Nat /\ x.side \in Sides /\ x.quantity \in Nat
      /\ q \in Nat /\ q > 0 /\ fee \in Nat /\ 0 \in Int
  BY SidesAre, QuantityAssumption, FeeAssumption DEF Whole
<1>2. paid \in Nat /\ ApplyAmount(paid, 0) = paid
  BY <1>1 DEF ApplyAmount, Higher
<1>3. ~Neutral(x) => x.quantity \in Quantities /\ x.entry \in Prices
  BY <1>1, SidesAre DEF Whole, Neutral
<1>4. ASSUME NEW s \in Sides, NEW r \in Nat, r > 0, NEW e \in Prices, NEW m, NEW pl \in Int,
             m = ApplyAmount(paid, pl), y = Filled(x, s, r, e, m, fee, pl)
      PROVE  Whole(y) /\ Fair(x, y)
  <2>1. r \in Quantities
    <3>1. Filled(x, s, r, e, m, fee, pl).quantity = r
      BY <1>1 DEF Filled, Positions
    <3>2. y.quantity \in Quantities \cup {0}
      OBVIOUS
    <3> HIDE DEF y
    <3> QED
      BY <1>4, <3>1, <3>2
  <2>2. Valid(Filled(x, s, r, e, m, fee, pl))
    BY <1>4
  <2> QED
    BY <1>1, <1>4, <2>1, <2>2, FilledIsFair
<1>5. CASE Neutral(x) \/ x.side = side
  <2> DEFINE entry == IF Neutral(x) THEN price ELSE AggregateEntry(x.quantity, x.entry, q, price)
  <2>1. entry \in Prices
    <3>1. q \in Sizes
      BY DEF Sizes
    <3> QED
      BY <1>3, <3>1, EntryAssumption
  <2>2. y = Filled(x, side, x.quantity + q, entry, paid, fee, 0)
    BY <1>5 DEF MarketOrder, Increased
  <2>3. x.quantity + q \in Nat /\ x.quantity + q > 0
    BY <1>1
  <2> HIDE DEF y, entry, paid, fee
  <2> QED
    BY <1>1, <1>2, <1>4, <2>1, <2>2, <2>3
<1>6. CASE ~(Neutral(x) \/ x.side = side) /\ q = x.quantity
  <2>1. y = Close(x, price)
    BY <1>1, <1>6 DEF MarketOrder
  <2> QED
    BY <1>6, <2>1, ClosedIsFair
<1>7. CASE ~(Neutral(x) \/ x.side = side) /\ q > x.quantity
  <2> DEFINE pl == EstRunningPl(x, price)
  <2>1. pl \in Int
    BY <1>1, <1>3, <1>7, PlAssumption DEF EstRunningPl
  <2>2. y = Filled(x, side, q - x.quantity, price, ApplyAmount(paid, pl), fee, pl)
    BY <1>1, <1>7 DEF MarketOrder, Reversed
  <2>3. q - x.quantity \in Nat /\ q - x.quantity > 0
    BY <1>1, <1>7
  <2> HIDE DEF y, pl, paid, fee
  <2> QED
    BY <1>4, <2>1, <2>2, <2>3
<1>8. CASE ~(Neutral(x) \/ x.side = side) /\ q < x.quantity
  <2> DEFINE pl == Pl(x.side, q, x.entry, price)
             rest == x.quantity - q
             carried == EntryFor(x.side, rest, price, EstRunningPl(x, price))
  <2>1. pl \in Int
    BY <1>1, <1>3, <1>8, PlAssumption
  <2>2. rest \in Nat /\ rest > 0
    BY <1>1, <1>8
  <2>3. y = IF pl >= 0 THEN Filled(x, x.side, rest, x.entry, ApplyAmount(paid, pl), fee, pl)
            ELSE Filled(x, x.side, rest, carried, paid, fee, 0)
    BY <1>1, <1>8 DEF MarketOrder, Reduced
  <2>4. CASE pl >= 0
    <3>1. y = Filled(x, x.side, rest, x.entry, ApplyAmount(paid, pl), fee, pl)
      BY <2>3, <2>4
    <3> HIDE DEF y, pl, paid, fee, rest
    <3> QED
      BY <1>1, <1>3, <1>4, <1>8, <2>1, <2>2, <3>1
  <2>5. CASE ~(pl >= 0)
    <3>1. y = Filled(x, x.side, rest, carried, paid, fee, 0)
      BY <2>3, <2>5
    <3>2. rest \in Quantities
      <4>1. Filled(x, x.side, rest, carried, paid, fee, 0).quantity = rest
        BY <1>1 DEF Filled, Positions
      <4>2. y.quantity \in Quantities \cup {0}
        OBVIOUS
      <4> HIDE DEF y
      <4> QED
        BY <2>2, <3>1, <4>1, <4>2
    <3>3. carried \in Prices
      BY <1>1, <1>3, <1>8, <3>2, EntryAssumption DEF EstRunningPl
    <3> HIDE DEF y, pl, paid, fee, rest, carried
    <3> QED
      BY <1>1, <1>2, <1>4, <2>2, <3>1, <3>3
  <2> QED
    BY <2>4, <2>5
<1> QED
  BY <1>1, <1>5, <1>6, <1>7, <1>8

-----------------------------------------------------------------------------
(* The invariant.                                                          *)

\* Trades are numbered as they come, those that run are sound, and trigger covers them; a
\* trailing trade has its stop, unless it was cashed in since trigger was built.
Isolated ==
  /\ trigger \in [min: Int, max: Int]
  /\ \E n \in 0 .. MaxTrades : DOMAIN running \cup closed = 1 .. n
  /\ DOMAIN running \cap closed = {}
  /\ \A i \in DOMAIN running : Sound(running[i])
  /\ moved \subseteq DOMAIN running
  /\ \A i \in DOMAIN running : Stopless(running[i]) => i \in moved
  /\ TriggerCovers

Account ==
  /\ market \in Prices /\ failed \in BOOLEAN /\ calls \in 0 .. MaxCalls
  /\ crossIn \in Int /\ Whole(cross)

Inv == Isolated /\ Account

LEMMA InvTypes == Inv => TypeOK
<1> SUFFICES ASSUME Inv PROVE TypeOK
  OBVIOUS
<1>1. PICK n \in 0 .. MaxTrades : DOMAIN running \cup closed = 1 .. n
  BY DEF Inv, Isolated
<1>2. 1 .. n \subseteq 1 .. MaxTrades
  BY BacktestAssumption
<1> QED
  BY <1>1, <1>2 DEF Inv, Isolated, Account, TypeOK, Sound, Whole

LEMMA RunningIsFinite ==
  ASSUME Isolated
  PROVE  IsFiniteSet(DOMAIN running) /\ IsFiniteSet(DOMAIN running \cup closed)
<1>1. PICK n \in 0 .. MaxTrades : DOMAIN running \cup closed = 1 .. n
  BY DEF Isolated
<1>2. IsFiniteSet(1 .. n)
  BY BacktestAssumption, FS_Interval
<1>3. DOMAIN running \in SUBSET (1 .. n)
  BY <1>1
<1> QED
  BY <1>1, <1>2, <1>3, FS_Subset

LEMMA InitInv == Init => Inv
<1> SUFFICES ASSUME Init PROVE Inv
  OBVIOUS
<1>1. DOMAIN running = {} /\ closed = {} /\ moved = {}
  BY DEF Init
<1>2. DOMAIN running \cup closed = 1 .. 0 /\ 0 \in 0 .. MaxTrades
  BY <1>1, BacktestAssumption
<1>3. trigger \in [min: Int, max: Int]
  BY PricesAre DEF Init, NotSet
<1>4. Isolated
  BY <1>1, <1>2, <1>3 DEF Isolated, TriggerCovers
<1>5. Initial \in Positions /\ Neutral(Initial)
  BY LeverageAssumption DEF Initial, Positions, Neutral, Sides
<1>6. Account
  <2>1. market \in Prices /\ calls \in 0 .. MaxCalls /\ crossIn \in Int
    BY BacktestAssumption DEF Init
  <2>2. failed \in BOOLEAN /\ Whole(cross)
    BY <1>5 DEF Init, Whole, Valid
  <2> QED
    BY <2>1, <2>2 DEF Account
<1> QED
  BY <1>4, <1>6 DEF Inv

LEMMA IsolatedKept ==
  ASSUME Isolated, UNCHANGED <<trigger, running, closed, moved>>
  PROVE  Isolated'
BY DEF Isolated, TriggerCovers

\* After a loop over sound trades, those that are left are sound and covered, whatever moved.
LEMMA SettleIs ==
  ASSUME Isolated, NEW trades, DOMAIN trades = DOMAIN running,
         \A i \in DOMAIN trades : Sound(trades[i]),
         NEW gone \in SUBSET DOMAIN trades, NEW price, Settle(trades, gone, price),
         \A i \in DOMAIN trades \ gone : ~Stopless(trades[i])
  PROVE  Isolated'
<1>1. /\ running' = [i \in DOMAIN trades \ gone |-> trades[i]]
      /\ trigger' = TriggerOf(running') /\ closed' = closed \cup gone /\ moved' = {}
  BY DEF Settle, Restrict
<1>2. DOMAIN running' = DOMAIN running \ gone /\ \A i \in DOMAIN running' : running'[i] = trades[i]
  BY <1>1
<1>3. IsFiniteSet(DOMAIN running')
  <2>1. DOMAIN running' \in SUBSET DOMAIN running
    BY <1>2
  <2> QED
    BY <2>1, RunningIsFinite, FS_Subset
<1>4. \A i \in DOMAIN running' : Sound(running'[i]) /\ running'[i] \in Trades
  BY <1>2 DEF Sound
<1> DEFINE after == running'
<1>5. /\ TriggerOf(after) \in [min: Int, max: Int]
      /\ \A i \in DOMAIN after :
           /\ Bounds(after[i]).min <= TriggerOf(after).min
           /\ TriggerOf(after).max <= Bounds(after[i]).max
  <2>1. IsFiniteSet(DOMAIN after) /\ \A i \in DOMAIN after : after[i] \in Trades
    BY <1>3, <1>4
  <2> HIDE DEF after
  <2> QED
    BY <2>1, TriggerOfIs
<1>6. TriggerCovers'
  BY <1>1, <1>5 DEF TriggerCovers
<1>7. DOMAIN running' \cup closed' = DOMAIN running \cup closed /\ DOMAIN running' \cap closed' = {}
  BY <1>1, <1>2 DEF Isolated
<1> QED
  BY <1>1, <1>4, <1>5, <1>6, <1>7 DEF Isolated

LEMMA CandlesAre ==
  ASSUME NEW c \in Candles
  PROVE  c.low \in Prices /\ c.high \in Prices /\ c.close \in Prices
BY BacktestAssumption

\* A stop that the liquidation and the close of the candle accept lies between them.
LEMMA TrailedStopIs ==
  ASSUME NEW t \in Trades, NEW low \in Prices, NEW high \in Prices, NEW close \in Prices,
         TrailedStop(t, low, high, close) # NoPrice,
         NewStopValid(t, TrailedStop(t, low, high, close))
  PROVE  TrailedStop(t, low, high, close) \in Prices
<1> DEFINE up == ApplyDiscount(high, t.tsl)
           down == ApplyGain(low, t.tsl)
           stop == TrailedStop(t, low, high, close)
<1>1. up \in Int /\ down \in Int
  <2>1. high \in Int /\ low \in Int /\ t.tsl \in Int
    BY PricesAre, FieldsAre
  <2> DEFINE a == high * (100 - t.tsl)
             b == low * (100 + t.tsl)
  <2>2. a \in Int /\ b \in Int
    BY <2>1
  <2>3. up = Round(a, 100) /\ down = Round(b, 100)
    BY DEF ApplyDiscount, ApplyGain
  <2> HIDE DEF a, b, up, down
  <2> QED
    BY <2>2, <2>3 DEF Round
<1>2. \/ t.side = Buy /\ stop = up /\ up < close
      \/ t.side = Sell /\ stop = down /\ down > close
  BY FieldsAre DEF TrailedStop, Sides
<1>3. /\ Bottom \in Int /\ Top \in Int /\ close \in Int /\ Bottom <= close /\ close <= Top
      /\ t.liquidation \in Int /\ Bottom <= t.liquidation /\ t.liquidation <= Top
  <2>1. close \in Prices /\ t.liquidation \in Prices
    BY DEF Trades
  <2> QED
    BY <2>1, PriceAssumption DEF Prices
<1>4. NewStopValid(t, stop) /\ Buy # Sell
  BY DEF Buy, Sell
<1> HIDE DEF up, down, stop
<1>5. stop \in Int /\ Bottom <= stop /\ stop <= Top
  BY <1>1, <1>2, <1>3, <1>4 DEF NewStopValid
<1>6. stop \in Prices
  BY <1>3, <1>5 DEF Prices
<1> QED
  BY <1>6 DEF stop

LEMMA TrailedIs ==
  ASSUME Inv, NEW c \in Candles, ~StopRefused(c)
  PROVE  /\ DOMAIN Trailed(c) = DOMAIN running
         /\ \A i \in DOMAIN Trailed(c) : Sound(Trailed(c)[i])
         /\ \A i \in DOMAIN Trailed(c) \ CandleCloses(c) : ~Stopless(Trailed(c)[i])
<1>1. DOMAIN Trailed(c) = DOMAIN running
  BY DEF Trailed
<1>2. ASSUME NEW i \in DOMAIN running PROVE Sound(Trailed(c)[i])
  <2>1. Sound(running[i]) /\ running[i] \in Trades
    BY DEF Inv, Isolated, Sound
  <2>2. CASE i \in CandleCloses(c) \/ NewStop(i, c) = NoPrice
    BY <2>1, <2>2 DEF Trailed
  <2>3. CASE ~(i \in CandleCloses(c) \/ NewStop(i, c) = NoPrice)
    <3> DEFINE stop == NewStop(i, c)
    <3>1. Trailed(c)[i] = [running[i] EXCEPT !.stoploss = stop]
      BY <2>3 DEF Trailed
    <3>2. stop # NoPrice /\ NewStopValid(running[i], stop)
      BY <2>3 DEF StopRefused
    <3>3. stop \in Prices
      BY <2>1, <3>2, CandlesAre, TrailedStopIs DEF NewStop
    <3> HIDE DEF stop
    <3> DEFINE u == [running[i] EXCEPT !.stoploss = stop]
    <3>4. u \in Trades
      BY <2>1, <3>3 DEF Trades
    <3>5. /\ u.quantity = running[i].quantity /\ u.price = running[i].price
          /\ u.margin = running[i].margin /\ u.side = running[i].side
          /\ u.liquidation = running[i].liquidation
      BY <2>1 DEF Trades
    <3> QED
      BY <2>1, <3>1, <3>4, <3>5 DEF Sound
  <2> QED
    BY <2>2, <2>3
<1>3. ASSUME NEW i \in DOMAIN running \ CandleCloses(c) PROVE ~Stopless(Trailed(c)[i])
  <2>1. ~Stopless(running[i]) /\ running[i] \in Trades
    BY <1>3 DEF StopRefused, Inv, Isolated, Sound
  <2>2. \/ Trailed(c)[i] = running[i]
        \/ NewStop(i, c) # NoPrice /\ Trailed(c)[i] = [running[i] EXCEPT !.stoploss = NewStop(i, c)]
    BY <1>3 DEF Trailed
  <2> QED
    BY <2>1, <2>2 DEF Stopless, Trades
<1> QED
  BY <1>1, <1>2, <1>3

\* A margin whose leverage is allowed keeps a trade sound.
LEMMA WithMarginIs ==
  ASSUME NEW t \in Trades, NEW p \in Prices, NEW m \in Int, MarginValid(t.quantity, p, m)
  PROVE  Sound(WithMargin(t, p, m))
<1> DEFINE liq == Liquidation(t.side, t.quantity, p, m)
           u == [t EXCEPT !.price = p, !.margin = m, !.liquidation = liq]
<1>1. t.quantity \in Quantities /\ t.side \in Sides
  BY DEF Trades
<1>2. MinMargin(t.quantity, p) \in Nat /\ MaxMargin(t.quantity, p) \in Nat
  BY <1>1, MarginAssumption
<1>3. m \in MinMargin(t.quantity, p) .. MaxMargin(t.quantity, p) /\ m \in Nat
  BY <1>2 DEF MarginValid
<1>4. liq \in Prices
  BY <1>1, <1>3, LiquidationAssumption
<1>5. WithMargin(t, p, m) = u
  BY DEF WithMargin
<1> HIDE DEF liq
<1>6. u \in Trades
  BY <1>3, <1>4 DEF Trades
<1>7. u.quantity = t.quantity /\ u.side = t.side /\ u.price = p /\ u.margin = m /\ u.liquidation = liq
  BY DEF Trades
<1> QED
  BY <1>5, <1>6, <1>7 DEF Sound, liq

\* More margin leaves the bounds of a trade no tighter.
LEMMA AddedMarginIs ==
  ASSUME NEW t, Sound(t), NEW m \in Int, t.margin <= m, MarginValid(t.quantity, t.price, m)
  PROVE  LET u == WithMargin(t, t.price, m)
         IN  Bounds(u).min <= Bounds(t).min /\ Bounds(t).max <= Bounds(u).max
<1> DEFINE u == WithMargin(t, t.price, m)
           liq == Liquidation(t.side, t.quantity, t.price, m)
<1>1. /\ t \in Trades /\ t.quantity \in Quantities /\ t.side \in Sides /\ t.price \in Prices
      /\ t.margin \in Nat
  BY DEF Sound, Trades
<1>2. /\ u.side = t.side /\ u.stoploss = t.stoploss /\ u.takeprofit = t.takeprofit
      /\ u.tsl = t.tsl /\ u.liquidation = liq
  BY <1>1 DEF WithMargin, Trades
<1>3. Sound(u) /\ u \in Trades
  BY <1>1, WithMarginIs DEF Sound
<1>4. /\ u.liquidation \in Int /\ t.liquidation \in Int /\ t.stoploss \in Int /\ t.takeprofit \in Int
      /\ NextStoplossUpdateTrigger(t) \in Int /\ Top \in Int /\ Bottom \in Int
  BY <1>1, <1>3, FieldsAre, TriggersAreInt, PricesAre
<1>5. NextStoplossUpdateTrigger(u) = NextStoplossUpdateTrigger(t)
  BY <1>2 DEF NextStoplossUpdateTrigger
<1>6. IF t.side = Buy THEN u.liquidation <= t.liquidation ELSE u.liquidation >= t.liquidation
  <2>1. MinMargin(t.quantity, t.price) \in Nat /\ MaxMargin(t.quantity, t.price) \in Nat
    BY <1>1, MarginAssumption
  <2>2. /\ t.margin \in MinMargin(t.quantity, t.price) .. MaxMargin(t.quantity, t.price)
        /\ m \in t.margin .. MaxMargin(t.quantity, t.price)
    BY <1>1, <2>1 DEF Sound, MarginValid
  <2>3. t.liquidation = Liquidation(t.side, t.quantity, t.price, t.margin)
    BY DEF Sound
  <2> HIDE DEF u
  <2> QED
    BY <1>1, <1>2, <2>2, <2>3, LiquidationAssumption
<1> HIDE DEF u, liq
<1>7. Bounds(u).min <= Bounds(t).min /\ Bounds(t).max <= Bounds(u).max
  <2>1. CASE t.side = Buy
    <3>1. /\ Bounds(t).min = StopOrLiquidation(t) /\ Bounds(u).min = StopOrLiquidation(u)
          /\ Bounds(u).max = Bounds(t).max
      BY <1>2, <1>5, <2>1 DEF Bounds
    <3>2. Bounds(t).max \in Int
      BY <1>1, BoundsAre
    <3> QED
      BY <1>2, <1>4, <1>6, <2>1, <3>1, <3>2 DEF StopOrLiquidation
  <2>2. CASE t.side # Buy
    <3>1. /\ Bounds(t).max = StopOrLiquidation(t) /\ Bounds(u).max = StopOrLiquidation(u)
          /\ Bounds(u).min = Bounds(t).min
      BY <1>2, <1>5, <2>2 DEF Bounds
    <3>2. Bounds(t).min \in Int
      BY <1>1, BoundsAre
    <3> QED
      BY <1>2, <1>4, <1>6, <2>2, <3>1, <3>2 DEF StopOrLiquidation
  <2> QED
    BY <2>1, <2>2
<1> QED
  BY <1>7 DEF u

-----------------------------------------------------------------------------
(* Every call keeps the invariant, and drops a loss only as it may.        *)

\* What CrossAccounted says of a step.
FairlyDropped ==
  Dropped' # Dropped =>
    /\ Dropped' > Dropped
    /\ Neutral(cross') => cross'.margin = Higher(0, cross.funding - cross'.funding)
    /\ ~Neutral(cross') => cross'.fees - cross.fees > cross.margin

LEMMA CallIs ==
  ASSUME Account, Call
  PROVE  calls' \in 0 .. MaxCalls
BY BacktestAssumption DEF Account, Call

LEMMA SameIsFair ==
  ASSUME NEW x \in Positions
  PROVE  Fair(x, x)
BY SidesAre DEF Fair, Forgiven, Accounted

\* A step that moves nothing into or out of the account.
LEMMA FairIsFairlyDropped ==
  ASSUME Account, Whole(cross'), Fair(cross, cross'), crossIn' = crossIn
  PROVE  FairlyDropped
<1>1. /\ cross.margin \in Int /\ Accounted(cross) \in Int /\ crossIn \in Int
  BY SidesAre DEF Account, Whole, Accounted
<1>2. cross'.margin \in Int /\ Accounted(cross') \in Int
  <2> DEFINE y == cross'
  <2>1. y \in Positions
    BY DEF Whole
  <2> HIDE DEF y
  <2>2. y.margin \in Int /\ Accounted(y) \in Int
    BY <2>1, SidesAre DEF Accounted
  <2> QED
    BY <2>2 DEF y
<1>3. Dropped' = cross'.margin - (crossIn' + Accounted(cross'))
  BY DEF Dropped, Accounted
<1>4. Dropped' - Dropped = Forgiven(cross, cross') /\ Dropped' \in Int /\ Dropped \in Int
  BY <1>1, <1>2, <1>3 DEF Dropped, Forgiven
<1>5. Dropped' # Dropped => Forgiven(cross, cross') # 0
  BY <1>4
<1>6. Forgiven(cross, cross') > 0 => Dropped' > Dropped
  BY <1>4
<1> QED
  BY <1>5, <1>6 DEF FairlyDropped, Fair

LEMMA CrossSame ==
  ASSUME Account, cross' = cross, crossIn' = crossIn
  PROVE  Whole(cross') /\ FairlyDropped
<1>1. Whole(cross') /\ Fair(cross, cross')
  BY SameIsFair DEF Account, Whole
<1> QED
  BY <1>1, FairIsFairlyDropped

LEMMA CrossGiven ==
  ASSUME Account, NEW d \in Int, cross.margin + d >= 0, crossIn' = crossIn + d,
         cross' = [cross EXCEPT !.margin = cross.margin + d], Valid(cross')
  PROVE  Whole(cross') /\ FairlyDropped /\ crossIn' \in Int
<1>1. cross \in Positions /\ cross.margin \in Nat /\ crossIn \in Int /\ Accounted(cross) \in Int
  BY SidesAre DEF Account, Whole, Accounted
<1> DEFINE m == cross.margin + d
<1>2. m \in Nat
  BY <1>1
<1>3. /\ cross'.margin = m /\ cross'.quantity = cross.quantity /\ cross'.entry = cross.entry
      /\ cross'.fees = cross.fees /\ cross'.pl = cross.pl /\ cross'.funding = cross.funding
  BY <1>1 DEF Positions
<1>4. cross' \in Positions
  <2> HIDE DEF m
  <2> QED
    BY <1>1, <1>2 DEF Positions, m
<1>5. Whole(cross')
  BY <1>3, <1>4 DEF Account, Whole, Neutral
<1>6. Accounted(cross') = Accounted(cross)
  BY <1>3 DEF Accounted
<1>7. Dropped' = m - (crossIn + d + Accounted(cross))
  BY <1>3, <1>6 DEF Dropped, Accounted
<1>8. Dropped' = Dropped
  BY <1>1, <1>7 DEF Dropped
<1> QED
  BY <1>1, <1>5, <1>8 DEF FairlyDropped

\* The free margin is part of the margin.
LEMMA FreeIs ==
  ASSUME NEW x, Whole(x), NEW p \in Prices
  PROVE  EstFreeMargin(x, p) \in Int /\ EstFreeMargin(x, p) <= x.margin
<1> DEFINE loss == Higher(0, - EstRunningPl(x, p))
           excess == ApplyAmount(loss, - Running(x))
           kept == Running(x) + Maintenance(x) + excess
<1>1. x \in Positions /\ x.margin \in Nat
  BY SidesAre DEF Whole
<1>2. Running(x) \in Nat /\ Maintenance(x) \in Nat
  BY <1>1, ReservesAre DEF Whole, Running, Maintenance
<1>3. EstRunningPl(x, p) \in Int
  <2>1. CASE Neutral(x)
    BY <2>1 DEF EstRunningPl
  <2>2. CASE ~Neutral(x)
    <3>1. x.side \in Sides /\ x.quantity \in Quantities /\ x.entry \in Prices
      BY <1>1, <2>2, SidesAre DEF Whole, Neutral
    <3> QED
      BY <2>2, <3>1, PlAssumption DEF EstRunningPl
  <2> QED
    BY <2>1, <2>2
<1>4. loss \in Nat
  BY <1>3 DEF Higher
<1> HIDE DEF loss
<1>5. excess \in Nat
  BY <1>2, <1>4 DEF Higher, ApplyAmount
<1> HIDE DEF excess
<1>6. kept \in Nat
  BY <1>2, <1>5
<1>7. EstFreeMargin(x, p) = ApplyAmount(x.margin, - kept)
  BY DEF EstFreeMargin, excess, loss
<1> HIDE DEF kept
<1> QED
  BY <1>1, <1>6, <1>7 DEF ApplyAmount, Higher

LEMMA LiquidationIsPrice ==
  ASSUME NEW x
  PROVE  LiquidationPrice(x) \in Prices
<1> DEFINE p == CrossLiquidation(x.side, x.quantity, x.entry, x.margin)
<1>1. LiquidationPrice(x) = Bounded(p)
  BY DEF LiquidationPrice
<1> HIDE DEF p
<1>2. Bottom \in Prices /\ Top \in Prices
  BY PriceAssumption DEF Prices
<1> QED
  BY <1>1, <1>2 DEF Bounded

\* What a candle does to the account, and what it must have found in the trades.
LEMMA CandleStep ==
  ASSUME Inv, NEW c \in Candles, CandleUpdate(c)
  PROVE  /\ Inv' /\ FairlyDropped
         /\ ~failed' =>
              /\ \A i \in DOMAIN running' \ moved :
                   ~StopReached(running[i], c.low, c.high) /\ ~ProfitReached(running[i], c.low, c.high)
              /\ CrossLiquidated(cross, c.low, c.high) => Neutral(cross')
<1> DEFINE Liquidated == CrossLiquidated(cross, c.low, c.high)
           after == IF Liquidated THEN Close(cross, LiquidationPrice(cross)) ELSE cross
           quiet == ~(WasReached(trigger, c.low) \/ WasReached(trigger, c.high))
<1>1. /\ Isolated /\ Account /\ Whole(cross) /\ crossIn \in Int /\ crossIn' = crossIn
      /\ calls' \in 0 .. MaxCalls /\ c.close \in Prices /\ c.low \in Prices /\ c.high \in Prices
  BY CallIs, CandlesAre DEF Inv, Account, CandleUpdate
<1>2. Whole(after) /\ Fair(cross, after) /\ (Liquidated => Neutral(after))
  <2>1. CASE Liquidated
    <3>1. ~Neutral(cross)
      BY <2>1 DEF CrossLiquidated
    <3> QED
      BY <1>1, <2>1, <3>1, LiquidationIsPrice, ClosedIsFair
  <2>2. CASE ~Liquidated
    BY <1>1, <2>2, SameIsFair DEF Whole
  <2> QED
    BY <2>1, <2>2
<1>3. CASE quiet
  <2>1. /\ market' = c.close /\ cross' = after
        /\ UNCHANGED <<trigger, running, closed, failed, moved>>
    BY <1>3 DEF CandleUpdate
  <2> HIDE DEF after, Liquidated
  <2>2. Isolated'
    BY <1>1, <2>1, IsolatedKept
  <2>3. Account' /\ FairlyDropped
    BY <1>1, <1>2, <2>1, FairIsFairlyDropped DEF Account
  <2>4. ASSUME NEW i \in DOMAIN running' \ moved
        PROVE  ~StopReached(running[i], c.low, c.high) /\ ~ProfitReached(running[i], c.low, c.high)
    <3>1. /\ running[i] \in Trades /\ trigger \in [min: Int, max: Int]
          /\ Bounds(running[i]).min <= trigger.min /\ trigger.max <= Bounds(running[i]).max
      BY <1>1, <2>1, <2>4 DEF Isolated, Sound, TriggerCovers
    <3> QED
      BY <1>1, <1>3, <3>1, BoundsReach
  <2>5. Liquidated => Neutral(cross')
    BY <1>2, <2>1
  <2> QED
    BY <2>2, <2>3, <2>4, <2>5 DEF Inv, Liquidated
<1>4. CASE ~quiet /\ StopRefused(c)
  <2>1. /\ failed' = TRUE /\ market' = market /\ cross' = cross
        /\ UNCHANGED <<trigger, running, closed, moved>>
    BY <1>4 DEF CandleUpdate
  <2>2. Isolated'
    BY <1>1, <2>1, IsolatedKept
  <2>3. Whole(cross') /\ FairlyDropped
    BY <1>1, <2>1, CrossSame
  <2>4. Account'
    BY <1>1, <2>1, <2>3 DEF Account
  <2> QED
    BY <2>1, <2>2, <2>3, <2>4 DEF Inv
<1>5. CASE ~quiet /\ ~StopRefused(c)
  <2> DEFINE price == [i \in CandleCloses(c) |-> ClosingPrice(running[i], c)]
  <2>1. /\ market' = c.close /\ cross' = after /\ failed' = failed
        /\ Settle(Trailed(c), CandleCloses(c), price)
    BY <1>5 DEF CandleUpdate
  <2> HIDE DEF after, Liquidated, price
  <2>2. /\ DOMAIN Trailed(c) = DOMAIN running /\ \A i \in DOMAIN Trailed(c) : Sound(Trailed(c)[i])
        /\ \A i \in DOMAIN Trailed(c) \ CandleCloses(c) : ~Stopless(Trailed(c)[i])
        /\ CandleCloses(c) \in SUBSET DOMAIN Trailed(c)
    BY <1>5, TrailedIs DEF CandleCloses
  <2>3. Isolated'
    BY <1>1, <2>1, <2>2, SettleIs
  <2>4. Account' /\ FairlyDropped
    BY <1>1, <1>2, <2>1, FairIsFairlyDropped DEF Account
  <2>5. DOMAIN running' = DOMAIN running \ CandleCloses(c)
    BY <2>1, <2>2 DEF Settle, Restrict
  <2>6. ASSUME NEW i \in DOMAIN running' \ moved
        PROVE  ~StopReached(running[i], c.low, c.high) /\ ~ProfitReached(running[i], c.low, c.high)
    BY <2>5, <2>6 DEF CandleCloses
  <2>7. Liquidated => Neutral(cross')
    BY <1>2, <2>1
  <2> QED
    BY <2>3, <2>4, <2>6, <2>7 DEF Inv, Liquidated
<1> QED
  BY <1>3, <1>4, <1>5

LEMMA FundingStep ==
  ASSUME Inv, NEW rate \in Rates, ApplyFundingSettlement(rate)
  PROVE  Inv' /\ FairlyDropped
<1> DEFINE broken == {i \in DOMAIN running : FundingBreaks(running[i], rate)}
           price == [i \in broken |-> market]
           paid == [i \in DOMAIN running |->
                      IF i \in broken THEN running[i] ELSE WithFunding(running[i], rate)]
<1>1. /\ Isolated /\ Account /\ Whole(cross) /\ market \in Prices /\ crossIn' = crossIn
      /\ calls' \in 0 .. MaxCalls /\ market' = market
  BY CallIs DEF Inv, Account, ApplyFundingSettlement
<1>2. CASE DOMAIN running = {} /\ Neutral(cross)
  <2>1. UNCHANGED <<trigger, running, closed, moved, cross, failed>>
    BY <1>2 DEF ApplyFundingSettlement
  <2>2. Isolated'
    BY <1>1, <2>1, IsolatedKept
  <2>3. Whole(cross') /\ FairlyDropped
    BY <1>1, <2>1, CrossSame
  <2> QED
    BY <1>1, <2>1, <2>2, <2>3 DEF Inv, Account
<1> DEFINE refused == \E i \in DOMAIN running \ broken : Stopless(running[i])
<1>4. CASE ~(DOMAIN running = {} /\ Neutral(cross)) /\ refused
  <2>1. failed' = TRUE /\ UNCHANGED <<trigger, running, closed, moved, cross>>
    BY <1>4 DEF ApplyFundingSettlement
  <2>2. Isolated'
    BY <1>1, <2>1, IsolatedKept
  <2>3. Whole(cross') /\ FairlyDropped
    BY <1>1, <2>1, CrossSame
  <2> QED
    BY <1>1, <2>1, <2>2, <2>3 DEF Inv, Account
<1>3. CASE ~(DOMAIN running = {} /\ Neutral(cross)) /\ ~refused
  <2>1. /\ Settle(paid, broken, price) /\ cross' = SettledCross(cross, market, rate)
        /\ failed' = failed
    BY <1>3 DEF ApplyFundingSettlement
  <2>2. ASSUME NEW i \in DOMAIN running PROVE Sound(paid[i])
    <3> DEFINE t == running[i]
               fee == FundingFee(t.side, t.quantity, rate)
    <3>1. Sound(t) /\ t \in Trades /\ t.side \in Sides /\ t.quantity \in Quantities
          /\ t.price \in Prices /\ t.margin \in Nat /\ MarginValid(t.quantity, t.price, t.margin)
      BY <1>1 DEF Isolated, Sound, Trades
    <3>2. paid[i] = IF i \in broken THEN t ELSE WithFunding(t, rate)
      OBVIOUS
    <3>3. fee \in Int
      BY <3>1, FundingAssumption
    <3>4. CASE i \in broken \/ fee <= 0
      BY <3>1, <3>2, <3>4 DEF WithFunding
    <3>5. CASE i \notin broken /\ ~(fee <= 0)
      <4>1. paid[i] = WithMargin(t, t.price, t.margin - fee)
        BY <3>2, <3>5 DEF WithFunding
      <4>2. fee > 0
        BY <3>3, <3>5
      <4>3. ~(t.margin <= fee) /\ ~(t.margin - fee < MinMargin(t.quantity, t.price))
        BY <3>5, <4>2 DEF FundingBreaks
      <4>4. MinMargin(t.quantity, t.price) \in Nat /\ MaxMargin(t.quantity, t.price) \in Nat
        BY <3>1, MarginAssumption
      <4> HIDE DEF t, fee, paid, broken
      <4>5. MarginValid(t.quantity, t.price, t.margin - fee) /\ t.margin - fee \in Int
        BY <3>1, <3>3, <4>2, <4>3, <4>4 DEF MarginValid
      <4> QED
        BY <3>1, <4>1, <4>5, WithMarginIs
    <3> QED
      BY <3>4, <3>5
  <2>3. DOMAIN paid = DOMAIN running /\ broken \in SUBSET DOMAIN paid
    OBVIOUS
  <2>8. ASSUME NEW i \in DOMAIN paid \ broken PROVE ~Stopless(paid[i])
    <3>1. i \in DOMAIN running \ broken /\ running[i] \in Trades /\ ~Stopless(running[i])
      BY <1>1, <1>3, <2>8 DEF Isolated, Sound
    <3>2. paid[i] = WithFunding(running[i], rate)
      BY <3>1
    <3> HIDE DEF paid, broken
    <3> QED
      BY <3>1, <3>2 DEF WithFunding, WithMargin, Stopless, Trades
  <2> HIDE DEF paid, broken, price
  <2>4. Isolated'
    BY <1>1, <2>1, <2>2, <2>3, <2>8, SettleIs
  <2>5. Whole(cross') /\ Fair(cross, cross')
    BY <1>1, <2>1, SettledIsFair
  <2>6. FairlyDropped
    BY <1>1, <2>5, FairIsFairlyDropped
  <2>7. Account'
    BY <1>1, <2>1, <2>5 DEF Account
  <2> QED
    BY <2>4, <2>6, <2>7 DEF Inv
<1> QED
  BY <1>2, <1>3, <1>4

\* A call on isolated trades only: account and market stay as they are.
LEMMA AccountKept ==
  ASSUME Account, Call, UNCHANGED <<market, cross, failed, crossIn>>
  PROVE  Account' /\ FairlyDropped
<1>1. Whole(cross') /\ FairlyDropped
  BY CrossSame
<1>2. calls' \in 0 .. MaxCalls
  BY CallIs
<1> QED
  BY <1>1, <1>2 DEF Account

LEMMA CreateStep ==
  ASSUME Inv, NEW o \in Orders, CreateRunning(o)
  PROVE  Inv' /\ FairlyDropped
<1> DEFINE stop == IF o.tsl # NoTrail THEN InitialStop(o.side, o.tsl, market) ELSE o.stoploss
           liq == Liquidation(o.side, o.quantity, market, o.margin)
           t == Opened(o.side, o.quantity, o.margin, market, stop, o.takeprofit, o.tsl)
           id == Cardinality(DOMAIN running \cup closed) + 1
<1>1. /\ Isolated /\ Account /\ Call /\ market \in Prices
      /\ UNCHANGED <<market, cross, failed, crossIn, closed, moved>>
  BY DEF Inv, Account, CreateRunning
<1>2. /\ OrderValid(t) /\ id <= MaxTrades
      /\ trigger' = Update(trigger, t) /\ running' = Added(running, id, t)
  BY DEF CreateRunning
<1>3. /\ o.side \in Sides /\ o.quantity \in Quantities /\ o.margin \in 1 .. Top
      /\ o.stoploss \in Prices \cup {NoPrice} /\ o.takeprofit \in Prices \cup {NoPrice}
      /\ o.tsl \in 0 .. 99
  BY BacktestAssumption DEF Requests
<1>4. /\ t.side = o.side /\ t.quantity = o.quantity /\ t.margin = o.margin /\ t.price = market
      /\ t.liquidation = liq /\ t.stoploss = stop
  BY DEF Opened
<1>5. MarginValid(o.quantity, market, o.margin)
  BY <1>2, <1>4 DEF OrderValid
<1>6. o.margin \in Nat /\ o.margin \in MinMargin(o.quantity, market) .. MaxMargin(o.quantity, market)
  <2>1. MinMargin(o.quantity, market) \in Nat /\ MaxMargin(o.quantity, market) \in Nat
    BY <1>1, <1>3, MarginAssumption
  <2>2. o.margin \in Nat
    BY <1>3, PricesAre
  <2> QED
    BY <1>5, <2>1, <2>2 DEF MarginValid
<1>7. liq \in Prices
  BY <1>1, <1>3, <1>6, LiquidationAssumption
<1>8. stop \in Prices \cup {NoPrice}
  <2>1. CASE o.tsl = NoTrail
    BY <1>3, <2>1
  <2>2. CASE o.tsl # NoTrail
    <3> DEFINE a == market * (100 - o.tsl)
               b == market * (100 + o.tsl)
    <3>1. market \in Int /\ o.tsl \in Int
      BY <1>1, <1>3, PricesAre
    <3>2. a \in Int /\ b \in Int
      BY <3>1
    <3>3. stop = Round(a, 100) \/ stop = Round(b, 100)
      BY <2>2 DEF InitialStop, ApplyDiscount, ApplyGain
    <3>4. Round(a, 100) \in Int /\ Round(b, 100) \in Int
      <4> HIDE DEF a, b
      <4> QED
        BY <3>2 DEF Round
    <3> HIDE DEF a, b
    <3>5. stop # NoPrice =>
            IF o.side = Buy THEN liq < stop /\ stop < market ELSE liq > stop /\ stop > market
      BY <1>2, <1>4 DEF OrderValid
    <3>6. /\ liq \in Int /\ Bottom <= liq /\ liq <= Top /\ market \in Int
          /\ Bottom <= market /\ market <= Top /\ Bottom \in Int /\ Top \in Int
      BY <1>1, <1>7, PriceAssumption DEF Prices
    <3> HIDE DEF stop, liq
    <3>7. stop # NoPrice => Bottom <= stop /\ stop <= Top /\ stop \in Int
      BY <3>3, <3>4, <3>5, <3>6
    <3> QED
      BY <3>6, <3>7 DEF Prices
  <2> QED
    BY <2>1, <2>2
<1>9. t \in Trades
  <2>1. OrderFee(o.quantity, market) \in Nat /\ OrderFee(o.quantity, liq) \in Nat
    BY <1>1, <1>3, <1>7, FeeAssumption
  <2> HIDE DEF stop
  <2>2. t = [side |-> o.side, quantity |-> o.quantity, margin |-> o.margin, price |-> market,
             liquidation |-> liq, stoploss |-> stop, takeprofit |-> o.takeprofit, tsl |-> o.tsl,
             openingFee |-> OrderFee(o.quantity, market), closingFee |-> OrderFee(o.quantity, liq)]
    BY DEF Opened
  <2> HIDE DEF t, liq
  <2> QED
    BY <1>1, <1>3, <1>6, <1>7, <1>8, <2>1, <2>2 DEF Trades
<1>10. Sound(t)
  BY <1>4, <1>5, <1>9 DEF Sound
<1>11. PICK n \in 0 .. MaxTrades : DOMAIN running \cup closed = 1 .. n
  BY <1>1 DEF Isolated
<1>12. id = n + 1 /\ id \in 0 .. MaxTrades /\ id \notin DOMAIN running \cup closed
       /\ DOMAIN running \cup closed \cup {id} = 1 .. id
  <2>1. n \in Nat /\ MaxTrades \in Nat
    BY <1>11, BacktestAssumption
  <2>2. Cardinality(1 .. n) = n
    BY <2>1, FS_Interval
  <2>3. id = n + 1
    BY <1>11, <2>2
  <2>4. n + 1 \in 0 .. MaxTrades
    BY <1>2, <2>1, <2>3
  <2>5. n + 1 \notin 1 .. n /\ (1 .. n) \cup {n + 1} = 1 .. (n + 1)
    BY <2>1
  <2> HIDE DEF id
  <2> QED
    BY <1>11, <2>3, <2>4, <2>5
<1>18. ~Stopless(t)
  <2>1. t.tsl = o.tsl /\ (o.tsl # NoTrail => stop \in Prices)
    BY DEF CreateRunning, Opened
  <2> HIDE DEF t, stop
  <2> QED
    BY <1>4, <2>1, PricesAre DEF Stopless
<1> HIDE DEF t, id, stop, liq
<1>13. /\ DOMAIN running' = DOMAIN running \cup {id}
       /\ running'[id] = t /\ \A i \in DOMAIN running : running'[i] = running[i]
  BY <1>2, <1>12 DEF Added
<1>14. \A i \in DOMAIN running' : Sound(running'[i])
  BY <1>1, <1>10, <1>13 DEF Isolated
<1>15. /\ trigger' \in [min: Int, max: Int]
       /\ trigger.min \in Int /\ trigger.max \in Int
       /\ trigger.min <= trigger'.min /\ trigger'.max <= trigger.max
       /\ Bounds(t).min <= trigger'.min /\ trigger'.max <= Bounds(t).max
  <2>1. Bounds(t) \in [min: Int, max: Int] /\ trigger \in [min: Int, max: Int]
    BY <1>1, <1>9, BoundsAre DEF Isolated
  <2> DEFINE b == Bounds(t)
  <2> HIDE DEF b
  <2>2. trigger' = [min |-> Higher(b.min, trigger.min), max |-> Lower(b.max, trigger.max)]
    BY <1>2 DEF Update, b
  <2>3. b.min \in Int /\ b.max \in Int /\ trigger.min \in Int /\ trigger.max \in Int
    BY <2>1 DEF b
  <2>4. /\ trigger'.min = Higher(b.min, trigger.min) /\ trigger'.max = Lower(b.max, trigger.max)
        /\ Higher(b.min, trigger.min) \in Int /\ Lower(b.max, trigger.max) \in Int
    BY <2>2, <2>3 DEF Higher, Lower
  <2> QED
    BY <2>2, <2>3, <2>4 DEF Higher, Lower, b
<1>16. TriggerCovers'
  <2>1. ASSUME NEW i \in DOMAIN running' \ moved'
        PROVE  Bounds(running'[i]).min <= trigger'.min /\ trigger'.max <= Bounds(running'[i]).max
    <3>1. CASE i = id
      BY <1>13, <1>15, <3>1
    <3>2. CASE i # id
      <4>1. i \in DOMAIN running \ moved /\ running'[i] = running[i]
        BY <1>1, <1>13, <2>1, <3>2
      <4> DEFINE b == Bounds(running[i])
      <4>2. b \in [min: Int, max: Int] /\ b.min <= trigger.min /\ trigger.max <= b.max
        BY <1>1, <4>1, BoundsAre DEF Isolated, Sound, TriggerCovers
      <4> HIDE DEF b
      <4>3. b.min <= trigger'.min /\ trigger'.max <= b.max
        BY <1>15, <4>2
      <4> QED
        BY <4>1, <4>3 DEF b
    <3> QED
      BY <3>1, <3>2
  <2> QED
    BY <2>1 DEF TriggerCovers
<1>17. Isolated'
  <2>1. DOMAIN running' \cup closed' = 1 .. id /\ DOMAIN running' \cap closed' = {}
    BY <1>1, <1>12, <1>13 DEF Isolated
  <2>2. moved' \subseteq DOMAIN running'
    BY <1>1, <1>13 DEF Isolated
  <2>3. \A i \in DOMAIN running' : Stopless(running'[i]) => i \in moved'
    BY <1>1, <1>13, <1>18 DEF Isolated
  <2> QED
    BY <1>12, <1>14, <1>15, <1>16, <2>1, <2>2, <2>3 DEF Isolated
<1> QED
  BY <1>1, <1>17, AccountKept DEF Inv

LEMMA AddMarginStep ==
  ASSUME Inv, NEW id \in DOMAIN running, NEW amount \in Amounts, AddMargin(id, amount)
  PROVE  Inv' /\ FairlyDropped
<1> DEFINE t == running[id]
           u == WithMargin(t, t.price, t.margin + amount)
<1>1. /\ Isolated /\ Account /\ Call
      /\ UNCHANGED <<market, trigger, closed, cross, failed, moved, crossIn>>
      /\ running' = [running EXCEPT ![id] = u] /\ MarginValid(t.quantity, t.price, t.margin + amount)
  BY DEF Inv, AddMargin
<1>2. /\ Sound(t) /\ t \in Trades /\ t.price \in Prices /\ t.margin \in Nat
      /\ amount \in Nat /\ t.margin + amount \in Int /\ t.margin <= t.margin + amount
  BY <1>1, BacktestAssumption DEF Isolated, Sound, Trades
<1>3. /\ Sound(u) /\ u \in Trades
      /\ Bounds(u).min <= Bounds(t).min /\ Bounds(t).max <= Bounds(u).max
  BY <1>1, <1>2, WithMarginIs, AddedMarginIs DEF Sound
<1>8. Stopless(u) = Stopless(t)
  BY <1>2 DEF WithMargin, Stopless, Trades
<1> HIDE DEF u, t
<1>4. DOMAIN running' = DOMAIN running /\ running'[id] = u
      /\ \A i \in DOMAIN running : i # id => running'[i] = running[i]
  BY <1>1
<1>5. \A i \in DOMAIN running' : Sound(running'[i])
  BY <1>1, <1>3, <1>4 DEF Isolated
<1>6. TriggerCovers'
  <2>1. ASSUME NEW i \in DOMAIN running' \ moved'
        PROVE  Bounds(running'[i]).min <= trigger'.min /\ trigger'.max <= Bounds(running'[i]).max
    <3>1. i \in DOMAIN running \ moved /\ trigger' = trigger
      BY <1>1, <1>4, <2>1
    <3>2. Bounds(running[i]).min <= trigger.min /\ trigger.max <= Bounds(running[i]).max
      BY <1>1, <3>1 DEF Isolated, TriggerCovers
    <3>3. CASE i # id
      BY <1>4, <3>1, <3>2, <3>3
    <3>4. CASE i = id
      <4> DEFINE a == Bounds(t)
                 b == Bounds(u)
      <4>1. a \in [min: Int, max: Int] /\ b \in [min: Int, max: Int] /\ trigger \in [min: Int, max: Int]
        BY <1>1, <1>2, <1>3, BoundsAre DEF Isolated
      <4>2. a.min <= trigger.min /\ trigger.max <= a.max /\ b.min <= a.min /\ a.max <= b.max
        BY <1>3, <3>2, <3>4 DEF t
      <4> HIDE DEF a, b
      <4>3. b.min <= trigger.min /\ trigger.max <= b.max
        BY <4>1, <4>2
      <4> QED
        BY <1>4, <3>1, <3>4, <4>3 DEF b
    <3> QED
      BY <3>3, <3>4
  <2> QED
    BY <2>1 DEF TriggerCovers
<1>9. \A i \in DOMAIN running' : Stopless(running'[i]) => i \in moved'
  BY <1>1, <1>4, <1>8 DEF Isolated, t
<1>7. Isolated'
  BY <1>1, <1>4, <1>5, <1>6, <1>9 DEF Isolated
<1> QED
  BY <1>1, <1>7, AccountKept DEF Inv

\* What a cash-in makes of a trade, and how far rounding its entry price takes it.
LEMMA CashedInIs ==
  ASSUME NEW t, Sound(t), NEW x \in Prices, NEW amount \in Nat
  PROVE  LET profit == CashedProfit(t, x, amount)
             u == CashedIn(t, x, amount)
             slack == Slack(t.quantity, u.price)
             booked == BookedPl(t.side, t.quantity, t.price, u.price)
         IN  /\ profit \in Int /\ slack \in Nat /\ booked \in Int
             /\ EstPl(t, x) \in Int /\ EstPl(u, x) \in Int
             /\ u.margin = t.margin - (amount - profit) /\ u.quantity = t.quantity
             /\ u.openingFee = t.openingFee /\ u.closingFee = t.closingFee
             /\ u.stoploss # t.stoploss => u.stoploss = NoPrice /\ ~NewStopValid(u, t.stoploss)
             /\ booked - profit \in - slack .. slack
             /\ EstPl(u, x) - (EstPl(t, x) - profit) \in - slack .. slack
             /\ MarginValid(u.quantity, u.price, u.margin) => Sound(u)
<1> DEFINE whole == EstPl(t, x)
           profit == CashedProfit(t, x, amount)
           p == IF profit = 0 THEN t.price ELSE EntryFor(t.side, t.quantity, x, whole - profit)
           m == t.margin - (amount - profit)
           v == WithMargin(t, p, m)
           stop == IF NewStopValid(v, v.stoploss) THEN v.stoploss ELSE NoPrice
           u == CashedIn(t, x, amount)
           slack == Slack(t.quantity, p)
           booked == BookedPl(t.side, t.quantity, t.price, p)
<1>1. /\ t \in Trades /\ t.side \in Sides /\ t.quantity \in Quantities /\ t.price \in Prices
      /\ t.margin \in Nat
  BY DEF Sound, Trades
<1>2. whole \in Int /\ whole = Pl(t.side, t.quantity, t.price, x)
  BY <1>1, PlAssumption DEF EstPl
<1>3. u = [v EXCEPT !.stoploss = stop]
  BY DEF CashedIn
<1>4. profit = Lower(amount, Higher(0, whole))
  BY DEF CashedProfit
<1> HIDE DEF whole, profit, u
<1>5. profit \in Int /\ (profit # 0 => profit \in 1 .. whole) /\ m \in Int
  BY <1>1, <1>2, <1>4 DEF Lower, Higher
<1>6. /\ p \in Prices /\ slack \in Nat /\ booked \in Int
      /\ booked - profit \in - slack .. slack
      /\ Pl(t.side, t.quantity, p, x) - (whole - profit) \in - slack .. slack
  <2>1. CASE profit = 0
    <3>1. p = t.price
      BY <2>1
    <3>2. slack \in Nat /\ booked = 0
      BY <1>1, <3>1, RoundingAssumption
    <3> HIDE DEF slack, booked, p
    <3> QED
      BY <1>1, <1>2, <2>1, <3>1, <3>2
  <2>2. CASE profit # 0
    <3> DEFINE n == profit
               e == EntryFor(t.side, t.quantity, x, Pl(t.side, t.quantity, t.price, x) - n)
    <3>1. p = e /\ n \in 1 .. Pl(t.side, t.quantity, t.price, x)
      BY <1>2, <1>5, <2>2
    <3>2. /\ e \in Prices
          /\ BookedPl(t.side, t.quantity, t.price, e) - n \in - Slack(t.quantity, e) .. Slack(t.quantity, e)
          /\ Pl(t.side, t.quantity, e, x) - (Pl(t.side, t.quantity, t.price, x) - n)
               \in - Slack(t.quantity, e) .. Slack(t.quantity, e)
      <4> HIDE DEF n
      <4> QED
        BY <1>1, <3>1, RoundingAssumption
    <3>3. /\ Slack(t.quantity, e) \in Nat
          /\ BookedPl(t.side, t.quantity, t.price, e) \in Int
      BY <1>1, <3>2, RoundingAssumption
    <3> HIDE DEF e
    <3> QED
      BY <1>2, <3>1, <3>2, <3>3
  <2> QED
    BY <2>1, <2>2
<1> HIDE DEF m, p, slack, booked
<1>7. /\ v.side = t.side /\ v.quantity = t.quantity /\ v.price = p /\ v.margin = m
      /\ v.stoploss = t.stoploss /\ v.openingFee = t.openingFee /\ v.closingFee = t.closingFee
  BY <1>1 DEF WithMargin, Trades
<1>8. /\ u.side = t.side /\ u.quantity = t.quantity /\ u.price = p /\ u.margin = m
      /\ u.stoploss = stop /\ u.openingFee = t.openingFee /\ u.closingFee = t.closingFee
      /\ u.liquidation = v.liquidation
  <2> HIDE DEF v, stop
  <2> QED
    BY <1>1, <1>3, <1>7 DEF Trades
<1>9. EstPl(u, x) = Pl(t.side, t.quantity, p, x) /\ EstPl(u, x) \in Int
  BY <1>1, <1>6, <1>8, PlAssumption DEF EstPl
<1>10. u.stoploss # t.stoploss => u.stoploss = NoPrice /\ ~NewStopValid(u, t.stoploss)
  <2> HIDE DEF v
  <2> QED
    BY <1>7, <1>8 DEF NewStopValid
<1>11. ASSUME MarginValid(u.quantity, u.price, u.margin) PROVE Sound(u)
  <2>1. Sound(v)
    BY <1>1, <1>5, <1>6, <1>8, <1>11, WithMarginIs
  <2>2. v \in Trades /\ t.stoploss \in Prices \cup {NoPrice}
    BY <1>1, <2>1 DEF Sound, Trades
  <2>3. stop \in Prices \cup {NoPrice}
    BY <1>7, <2>2
  <2> HIDE DEF v, stop
  <2>4. u \in Trades
    BY <1>3, <2>2, <2>3 DEF Trades
  <2> QED
    BY <1>7, <1>8, <2>1, <2>4 DEF Sound
<1> QED
  BY <1>2, <1>5, <1>6, <1>8, <1>9, <1>10, <1>11 DEF m, slack, booked, whole, profit, u

LEMMA CashInStep ==
  ASSUME Inv, NEW id \in DOMAIN running, NEW amount \in Amounts, CashIn(id, amount)
  PROVE  Inv' /\ FairlyDropped
<1> DEFINE u == CashedIn(running[id], market, amount)
<1>1. /\ Isolated /\ Account /\ Call /\ market \in Prices
      /\ UNCHANGED <<market, trigger, closed, cross, failed, crossIn>> /\ moved' = moved \cup {id}
      /\ running' = [running EXCEPT ![id] = u] /\ MarginValid(u.quantity, u.price, u.margin)
  BY DEF Inv, Account, CashIn
<1>2. amount \in Nat /\ Sound(running[id])
  BY <1>1, BacktestAssumption DEF Isolated
<1>3. Sound(u)
  BY <1>1, <1>2, CashedInIs
<1> HIDE DEF u
<1>4. DOMAIN running' = DOMAIN running /\ running'[id] = u
      /\ \A i \in DOMAIN running : i # id => running'[i] = running[i]
  BY <1>1
<1>5. \A i \in DOMAIN running' : Sound(running'[i]) /\ (Stopless(running'[i]) => i \in moved')
  BY <1>1, <1>3, <1>4 DEF Isolated
<1>6. TriggerCovers'
  BY <1>1, <1>4 DEF Isolated, TriggerCovers
<1>7. Isolated'
  BY <1>1, <1>4, <1>5, <1>6 DEF Isolated
<1> QED
  BY <1>1, <1>7, AccountKept DEF Inv

LEMMA CloseStep ==
  ASSUME Inv, NEW ids \in SUBSET DOMAIN running, CloseRunning(ids)
  PROVE  Inv' /\ FairlyDropped
<1> DEFINE price == [i \in ids |-> market]
<1>1. /\ Isolated /\ Account /\ Call /\ UNCHANGED <<market, cross, failed, crossIn>>
      /\ Settle(running, ids, price) /\ \A i \in DOMAIN running : Sound(running[i])
      /\ \A i \in DOMAIN running \ ids : ~Stopless(running[i])
  BY DEF Inv, Isolated, CloseRunning
<1> HIDE DEF price
<1>2. Isolated'
  BY <1>1, SettleIs
<1> QED
  BY <1>1, <1>2, AccountKept DEF Inv

\* A call on the cross account only.
LEMMA CrossStep ==
  ASSUME Inv,
         \/ \E amount \in Transfers : CrossDeposit(amount) \/ CrossWithdraw(amount)
         \/ \E leverage \in Leverages : CrossSetLeverage(leverage)
         \/ \E side \in Sides, q \in Quantities : CrossOrder(side, q)
         \/ CrossOrderClosePosition
  PROVE  Inv' /\ FairlyDropped
<1>1. /\ Isolated /\ Account /\ Whole(cross) /\ market \in Prices /\ cross \in Positions
      /\ cross.margin \in Nat /\ crossIn \in Int
  BY SidesAre DEF Inv, Account, Whole
<1>2. Call /\ UNCHANGED <<market, trigger, running, closed, failed, moved>>
  BY DEF CrossDeposit, CrossWithdraw, CrossSetLeverage, CrossOrder, CrossOrderClosePosition,
         isolated
<1>3. Isolated' /\ calls' \in 0 .. MaxCalls
  BY <1>1, <1>2, IsolatedKept, CallIs
<1>4. Whole(cross') /\ FairlyDropped /\ crossIn' \in Int
  <2>1. ASSUME NEW amount \in Transfers, CrossDeposit(amount)
        PROVE  Whole(cross') /\ FairlyDropped /\ crossIn' \in Int
    <3>1. amount \in Nat /\ amount \in Int /\ cross.margin + amount >= 0
      BY <1>1, BacktestAssumption
    <3>2. /\ cross' = [cross EXCEPT !.margin = cross.margin + amount] /\ Valid(cross')
          /\ crossIn' = crossIn + amount
      BY <2>1 DEF CrossDeposit
    <3> QED
      BY <1>1, <3>1, <3>2, CrossGiven
  <2>2. ASSUME NEW amount \in Transfers, CrossWithdraw(amount)
        PROVE  Whole(cross') /\ FairlyDropped /\ crossIn' \in Int
    <3> DEFINE d == - amount
    <3>1. amount \in Nat /\ d \in Int
      BY BacktestAssumption
    <3>2. amount <= EstFreeMargin(cross, market)
      BY <2>2 DEF CrossWithdraw
    <3>3. cross.margin + d >= 0 /\ cross.margin - amount = cross.margin + d
      BY <1>1, <3>1, <3>2, FreeIs
    <3>4. /\ cross' = [cross EXCEPT !.margin = cross.margin - amount] /\ Valid(cross')
          /\ crossIn' = crossIn - amount
      BY <2>2 DEF CrossWithdraw
    <3>5. crossIn' = crossIn + d
      BY <1>1, <3>1, <3>4
    <3>6. cross' = [cross EXCEPT !.margin = cross.margin + d]
      BY <3>3, <3>4
    <3> HIDE DEF d
    <3> QED
      BY <1>1, <3>1, <3>3, <3>4, <3>5, <3>6, CrossGiven
  <2>3. ASSUME NEW leverage \in Leverages, CrossSetLeverage(leverage)
        PROVE  Whole(cross') /\ FairlyDropped /\ crossIn' \in Int
    <3>1. cross' = [cross EXCEPT !.leverage = leverage] /\ Valid(cross') /\ crossIn' = crossIn
      BY <2>3 DEF CrossSetLeverage
    <3>2. /\ cross' \in Positions
          /\ cross'.quantity = cross.quantity /\ cross'.entry = cross.entry
          /\ cross'.margin = cross.margin /\ cross'.funding = cross.funding
          /\ cross'.fees = cross.fees /\ cross'.pl = cross.pl
      BY <1>1, <3>1 DEF Positions
    <3>3. Whole(cross')
      BY <1>1, <3>1, <3>2 DEF Whole, Neutral
    <3>4. Accounted(cross') = Accounted(cross) /\ Accounted(cross) \in Int
      BY <1>1, <3>2, SidesAre DEF Accounted
    <3>5. Forgiven(cross, cross') = 0
      BY <1>1, <3>2, <3>4 DEF Forgiven
    <3>6. Fair(cross, cross')
      BY <3>5 DEF Fair
    <3> QED
      BY <1>1, <3>1, <3>3, <3>6, FairIsFairlyDropped
  <2>4. ASSUME NEW side \in Sides, NEW q \in Quantities, CrossOrder(side, q)
        PROVE  Whole(cross') /\ FairlyDropped /\ crossIn' \in Int
    <3>1. /\ cross' = MarketOrder(cross, market, side, q) /\ crossIn' = crossIn
          /\ Valid(MarketOrder(cross, market, side, q))
          /\ MarketOrder(cross, market, side, q).quantity \in Quantities \cup {0}
      BY <2>4 DEF CrossOrder
    <3>2. Whole(cross') /\ Fair(cross, cross')
      BY <1>1, <3>1, OrderIsFair
    <3> QED
      BY <1>1, <3>1, <3>2, FairIsFairlyDropped
  <2>5. ASSUME CrossOrderClosePosition
        PROVE  Whole(cross') /\ FairlyDropped /\ crossIn' \in Int
    <3>1. ~Neutral(cross) /\ cross' = Close(cross, market) /\ crossIn' = crossIn
      BY <2>5 DEF CrossOrderClosePosition
    <3>2. Whole(cross') /\ Fair(cross, cross')
      BY <1>1, <3>1, ClosedIsFair
    <3> QED
      BY <1>1, <3>1, <3>2, FairIsFairlyDropped
  <2> QED
    BY <2>1, <2>2, <2>3, <2>4, <2>5
<1> QED
  BY <1>1, <1>2, <1>3, <1>4 DEF Inv, Account

LEMMA InvNext ==
  ASSUME Inv, [Next]_vars
  PROVE  Inv' /\ FairlyDropped
<1>1. CASE EngineCalls
  BY <1>1, CandleStep, FundingStep DEF EngineCalls
<1>2. CASE OperatorCalls
  <2>1. ASSUME NEW o \in Orders, CreateRunning(o) PROVE Inv' /\ FairlyDropped
    BY <2>1, CreateStep
  <2>2. ASSUME NEW id \in DOMAIN running, NEW amount \in Amounts,
               AddMargin(id, amount) \/ CashIn(id, amount)
        PROVE  Inv' /\ FairlyDropped
    BY <2>2, AddMarginStep, CashInStep
  <2>3. ASSUME NEW ids \in SUBSET DOMAIN running, CloseRunning(ids)
        PROVE  Inv' /\ FairlyDropped
    BY <2>3, CloseStep
  <2>4. ASSUME NEW id \in DOMAIN running, IsolatedOrderClose(id)
        PROVE  Inv' /\ FairlyDropped
    <3>1. {id} \cap DOMAIN running \in SUBSET DOMAIN running
      OBVIOUS
    <3> QED
      BY <2>3, <2>4, <3>1 DEF IsolatedOrderClose
  <2>5. ASSUME NEW side \in Sides, IsolatedOrderCloseSide(side)
        PROVE  Inv' /\ FairlyDropped
    <3>1. {i \in DOMAIN running : running[i].side = side} \in SUBSET DOMAIN running
      OBVIOUS
    <3> QED
      BY <2>3, <2>5, <3>1 DEF IsolatedOrderCloseSide
  <2>6. ASSUME IsolatedOrderCloseAll PROVE Inv' /\ FairlyDropped
    BY <2>3, <2>6 DEF IsolatedOrderCloseAll
  <2> QED
    BY <1>2, <2>1, <2>2, <2>4, <2>5, <2>6, CrossStep DEF OperatorCalls
<1>3. CASE UNCHANGED vars
  <2>1. UNCHANGED <<trigger, running, closed, moved, market, failed, calls, crossIn, cross>>
    BY <1>3 DEF vars
  <2>2. Isolated'
    BY <2>1, IsolatedKept DEF Inv
  <2>3. Whole(cross') /\ FairlyDropped
    BY <2>1, CrossSame DEF Inv
  <2> QED
    BY <2>1, <2>2, <2>3 DEF Inv, Account
<1> QED
  BY <1>1, <1>2, <1>3 DEF Next

-----------------------------------------------------------------------------
(* No satoshi appears or vanishes.                                         *)

\* What a running trade holds of the account, with the fee it was opened for.
Worth(t) == t.margin + MaintenanceMargin(t) + t.openingFee
Held(trades) == SumFunction([i \in DOMAIN trades |-> Worth(trades[i])])

\* The books, with d satoshis that roundings have made or lost.
Booked(d) ==
  balance + Held(running) = StartBalance + realizedPl - closedFees - fundingFees - crossIn + d
Money(d) ==
  /\ balance \in Int /\ realizedPl \in Int /\ closedFees \in Int /\ fundingFees \in Int
  /\ Booked(d)

LEMMA WorthIs ==
  ASSUME NEW t \in Trades
  PROVE  /\ t.margin \in Nat /\ t.openingFee \in Nat /\ MaintenanceMargin(t) \in Nat
         /\ t.side \in Sides /\ t.quantity \in Quantities /\ t.price \in Prices
         /\ Worth(t) \in Int
<1>1. /\ t.margin \in Nat /\ t.openingFee \in Nat /\ t.closingFee \in Nat
      /\ t.side \in Sides /\ t.quantity \in Quantities /\ t.price \in Prices
  BY DEF Trades
<1> QED
  BY <1>1 DEF Worth, MaintenanceMargin

\* A sum over all of a function, by its domain.
LEMMA SumIs ==
  ASSUME NEW S, NEW f, DOMAIN f = S
  PROVE  SumFunction(f) = SumFunctionOnSet(f, S)
BY DEF SumFunction

LEMMA HeldIsInt ==
  ASSUME NEW trades, IsFiniteSet(DOMAIN trades), \A i \in DOMAIN trades : trades[i] \in Trades
  PROVE  Held(trades) \in Int
<1> DEFINE D == DOMAIN trades
           w == [i \in D |-> Worth(trades[i])]
<1>1. Held(trades) = SumFunctionOnSet(w, D)
  BY SumIs DEF Held
<1>2. \A i \in D : w[i] \in Int
  BY WorthIs
<1> HIDE DEF w
<1>3. SumFunctionOnSet(w, D) \in Int
  BY <1>2, SumOnType
<1> QED
  BY <1>1, <1>3

\* The trades that a function agrees with hold the same.
LEMMA HeldSame ==
  ASSUME NEW trades, NEW others, DOMAIN trades = DOMAIN others,
         \A i \in DOMAIN others : Worth(trades[i]) = Worth(others[i])
  PROVE  Held(trades) = Held(others)
BY DEF Held

\* One trade comes to hold more, or less.
LEMMA HeldMoves ==
  ASSUME NEW trades, IsFiniteSet(DOMAIN trades), \A i \in DOMAIN trades : trades[i] \in Trades,
         NEW id \in DOMAIN trades, NEW u \in Trades
  PROVE  Held([trades EXCEPT ![id] = u]) = Held(trades) - Worth(trades[id]) + Worth(u)
<1> DEFINE D == DOMAIN trades
           w == [i \in D |-> Worth(trades[i])]
           after == [trades EXCEPT ![id] = u]
           v == [i \in D |-> Worth(after[i])]
<1>1. DOMAIN after = D /\ after[id] = u /\ \A i \in D \ {id} : after[i] = trades[i]
  OBVIOUS
<1>2. Held(trades) = SumFunctionOnSet(w, D) /\ Held(after) = SumFunctionOnSet(v, D)
  <2> HIDE DEF after
  <2> QED
    BY <1>1, SumIs DEF Held
<1>3. /\ \A i \in D : w[i] \in Int /\ v[i] \in Int
      /\ w[id] = Worth(trades[id]) /\ v[id] = Worth(u)
      /\ \A i \in D \ {id} : w[i] = v[i]
  <2> HIDE DEF after
  <2> QED
    BY <1>1, WorthIs
<1> HIDE DEF w, v, after
<1>4. /\ SumFunctionOnSet(w, D) = w[id] + SumFunctionOnSet(w, D \ {id})
      /\ SumFunctionOnSet(v, D) = v[id] + SumFunctionOnSet(v, D \ {id})
  BY <1>3, SumOnTakesOff
<1>5. IsFiniteSet(D \ {id})
  BY FS_RemoveElement
<1>6. SumFunctionOnSet(w, D \ {id}) = SumFunctionOnSet(v, D \ {id})
  BY <1>3, <1>5, SumOnCongruent
<1>7. SumFunctionOnSet(v, D \ {id}) \in Int
  BY <1>3, <1>5, SumOnType
<1> QED
  BY <1>2, <1>3, <1>4, <1>6, <1>7 DEF after

\* One trade more.
LEMMA HeldAdds ==
  ASSUME NEW trades, IsFiniteSet(DOMAIN trades), \A i \in DOMAIN trades : trades[i] \in Trades,
         NEW id, id \notin DOMAIN trades, NEW t \in Trades
  PROVE  Held(Added(trades, id, t)) = Held(trades) + Worth(t)
<1> DEFINE D == DOMAIN trades
           E == D \cup {id}
           w == [i \in D |-> Worth(trades[i])]
           after == Added(trades, id, t)
           v == [i \in E |-> Worth(after[i])]
<1>1. DOMAIN after = E /\ after[id] = t /\ \A i \in D : after[i] = trades[i]
  BY DEF Added
<1>2. Held(trades) = SumFunctionOnSet(w, D) /\ Held(after) = SumFunctionOnSet(v, E)
  <2> HIDE DEF after
  <2> QED
    BY <1>1, SumIs DEF Held
<1>3. /\ \A i \in E : v[i] \in Int
      /\ v[id] = Worth(t) /\ \A i \in D : w[i] = v[i]
  <2> HIDE DEF after
  <2> QED
    BY <1>1, WorthIs
<1>4. id \in E /\ E \ {id} = D /\ IsFiniteSet(E)
  BY FS_AddElement
<1> HIDE DEF w, v, after, E
<1>5. SumFunctionOnSet(v, E) = v[id] + SumFunctionOnSet(v, E \ {id})
  BY <1>3, <1>4, SumOnTakesOff
<1>6. SumFunctionOnSet(w, D) = SumFunctionOnSet(v, D)
  BY <1>3, SumOnCongruent
<1>7. SumFunctionOnSet(v, D) \in Int
  BY <1>3, <1>4, SumOnType
<1> QED
  BY <1>2, <1>3, <1>4, <1>5, <1>6, <1>7 DEF after

\* What trades that close bring back, with their fees, is what they held and their profit.
LEMMA SettlePays ==
  ASSUME NEW trades, IsFiniteSet(DOMAIN trades), \A i \in DOMAIN trades : trades[i] \in Trades,
         NEW gone \in SUBSET DOMAIN trades, NEW price, \A i \in gone : price[i] \in Prices
  PROVE  LET proceeds == ProceedsOf(trades, gone, price)
             profit == ProfitOf(trades, gone, price)
             fees == FeesOf(trades, gone, price)
             rest == Held(Restrict(trades, DOMAIN trades \ gone))
         IN  /\ {proceeds, profit, fees, rest} \subseteq Int
             /\ proceeds + fees + rest = Held(trades) + profit
<1> DEFINE D == DOMAIN trades
           w == [i \in D |-> Worth(trades[i])]
           p == [i \in gone |-> Proceeds(trades[i], price[i])]
           g == [i \in gone |-> EstPl(trades[i], price[i])]
           f == [i \in gone |-> trades[i].openingFee + OrderFee(trades[i].quantity, price[i])]
           both == [i \in gone |-> p[i] + f[i]]
           kept == [i \in D \ gone |-> Worth(trades[i])]
<1>1. IsFiniteSet(gone) /\ IsFiniteSet(D \ gone) /\ gone \cap (D \ gone) = {} /\ gone \cup (D \ gone) = D
  <2>1. gone \in SUBSET D /\ D \ gone \in SUBSET D
    OBVIOUS
  <2> QED
    BY <2>1, FS_Subset
<1>2. ASSUME NEW i \in gone
      PROVE  /\ p[i] \in Int /\ g[i] \in Int /\ f[i] \in Int /\ w[i] \in Int
             /\ both[i] = p[i] + f[i] /\ both[i] = w[i] + g[i]
  <2> DEFINE t == trades[i]
             x == price[i]
             fee == OrderFee(t.quantity, x)
             pl == EstPl(t, x)
  <2>1. t \in Trades /\ x \in Prices
    OBVIOUS
  <2>2. /\ t.margin \in Int /\ t.openingFee \in Int /\ MaintenanceMargin(t) \in Int
        /\ t.side \in Sides /\ t.quantity \in Quantities /\ t.price \in Prices
    BY <2>1, WorthIs
  <2>3. fee \in Int /\ pl \in Int
    BY <2>1, <2>2, FeeAssumption, PlAssumption DEF EstPl
  <2>4. /\ p[i] = t.margin + MaintenanceMargin(t) - fee + pl
        /\ g[i] = pl /\ f[i] = t.openingFee + fee
        /\ w[i] = t.margin + MaintenanceMargin(t) + t.openingFee
        /\ both[i] = p[i] + f[i]
    BY DEF Proceeds, Worth
  <2> HIDE DEF p, g, f, w, both, t, fee, pl
  <2> QED
    BY <2>2, <2>3, <2>4
<1>3. \A i \in D : w[i] \in Int
  BY WorthIs
<1>4. \A i \in D \ gone : w[i] = kept[i]
  OBVIOUS
<1>5. /\ ProceedsOf(trades, gone, price) = SumFunctionOnSet(p, gone)
      /\ ProfitOf(trades, gone, price) = SumFunctionOnSet(g, gone)
      /\ FeesOf(trades, gone, price) = SumFunctionOnSet(f, gone)
  <2>1. DOMAIN p = gone /\ DOMAIN g = gone /\ DOMAIN f = gone
    OBVIOUS
  <2>2. /\ ProceedsOf(trades, gone, price) = SumFunction(p)
        /\ ProfitOf(trades, gone, price) = SumFunction(g)
        /\ FeesOf(trades, gone, price) = SumFunction(f)
    BY DEF ProceedsOf, ProfitOf, FeesOf
  <2> HIDE DEF p, g, f
  <2> QED
    BY <2>1, <2>2, SumIs
<1>6. /\ Held(trades) = SumFunctionOnSet(w, D)
      /\ Held(Restrict(trades, D \ gone)) = SumFunctionOnSet(kept, D \ gone)
  <2>1. DOMAIN Restrict(trades, D \ gone) = D \ gone
    BY DEF Restrict
  <2>2. [i \in DOMAIN Restrict(trades, D \ gone) |-> Worth(Restrict(trades, D \ gone)[i])] = kept
    BY DEF Restrict
  <2>3. DOMAIN w = D /\ DOMAIN kept = D \ gone
    OBVIOUS
  <2>4. Held(trades) = SumFunction(w) /\ Held(Restrict(trades, D \ gone)) = SumFunction(kept)
    BY <2>2 DEF Held
  <2> HIDE DEF w, kept
  <2> QED
    BY <2>3, <2>4, SumIs
<1> HIDE DEF p, g, f, w, both, kept
<1> DEFINE sp == SumFunctionOnSet(p, gone)
           sg == SumFunctionOnSet(g, gone)
           sf == SumFunctionOnSet(f, gone)
           sw == SumFunctionOnSet(w, gone)
           sk == SumFunctionOnSet(kept, D \ gone)
<1>7. sp \in Int /\ sg \in Int /\ sf \in Int /\ sw \in Int
  BY <1>1, <1>2, SumOnType
<1>8. sk \in Int /\ SumFunctionOnSet(w, D \ gone) = sk
  BY <1>1, <1>3, <1>4, SumOnCongruent, SumOnType
<1>9. SumFunctionOnSet(both, gone) = sp + sf
  BY <1>1, <1>2, SumOnAdds
<1>10. SumFunctionOnSet(both, gone) = sw + sg
  BY <1>1, <1>2, SumOnAdds
<1>11. SumFunctionOnSet(w, D) = sw + SumFunctionOnSet(w, D \ gone)
  <2>1. \A i \in gone \cup (D \ gone) : w[i] \in Int
    BY <1>3
  <2> QED
    BY <1>1, <2>1, SumOnUnion
<1> HIDE DEF sp, sg, sf, sw, sk
<1> QED
  BY <1>5, <1>6, <1>7, <1>8, <1>9, <1>10, <1>11 DEF sp, sg, sf, sw, sk

\* A running trade is one of Trades, and there are finitely many.
LEMMA RunningAre ==
  ASSUME Isolated
  PROVE  IsFiniteSet(DOMAIN running) /\ \A i \in DOMAIN running : running[i] \in Trades
BY RunningIsFinite DEF Isolated, Sound

\* Trades that close at prices: what they held, and their profit, come to the balance less fees.
LEMMA SettleMoney ==
  ASSUME Isolated, NEW d \in Int, Money(d), crossIn \in Int, crossIn' = crossIn,
         NEW trades, DOMAIN trades = DOMAIN running, \A i \in DOMAIN trades : trades[i] \in Trades,
         NEW gone \in SUBSET DOMAIN trades, NEW price, \A i \in gone : price[i] \in Prices,
         Settle(trades, gone, price),
         NEW fee \in Int, NEW onBalance \in Int, fundingFees' = fundingFees + fee,
         Held(trades) = Held(running) - (fee - onBalance),
         balance' = balance + ProceedsOf(trades, gone, price) - onBalance
  PROVE  Money(d)'
<1> DEFINE proceeds == ProceedsOf(trades, gone, price)
           profit == ProfitOf(trades, gone, price)
           fees == FeesOf(trades, gone, price)
           left == Restrict(trades, DOMAIN trades \ gone)
           rest == Held(left)
           before == Held(running)
           between == Held(trades)
<1>1. IsFiniteSet(DOMAIN trades) /\ before \in Int
  BY RunningAre, HeldIsInt
<1>2. /\ running' = left
      /\ realizedPl' = realizedPl + profit /\ closedFees' = closedFees + fees
  BY DEF Settle
<1>3. {proceeds, profit, fees, rest} \subseteq Int /\ proceeds + fees + rest = between + profit
  BY <1>1, SettlePays
<1>4. Held(running') = rest
  BY <1>2
<1>5. between = before - (fee - onBalance) /\ balance' = balance + proceeds - onBalance
  OBVIOUS
<1>6. StartBalance \in Int
  BY BacktestAssumption
<1> HIDE DEF proceeds, profit, fees, rest, before, between, left
<1>7. /\ balance \in Int /\ realizedPl \in Int /\ closedFees \in Int /\ fundingFees \in Int
      /\ balance + before = StartBalance + realizedPl - closedFees - fundingFees - crossIn + d
  BY DEF Money, Booked, before
<1>8. /\ balance' \in Int /\ realizedPl' \in Int /\ closedFees' \in Int /\ fundingFees' \in Int
  BY <1>2, <1>3, <1>5, <1>7
<1>9. balance' + rest = StartBalance + realizedPl' - closedFees' - fundingFees' - crossIn' + d
  <2>1. rest = before - (fee - onBalance) + profit - proceeds - fees
    BY <1>1, <1>3, <1>5
  <2>2. balance' + rest = (balance + before) + profit - fees - fee
    BY <1>1, <1>3, <1>5, <1>7, <2>1
  <2>3. balance' + rest = StartBalance + realizedPl - closedFees - fundingFees - crossIn + d
                            + profit - fees - fee
    BY <1>7, <2>2
  <2>4. /\ realizedPl' = realizedPl + profit /\ closedFees' = closedFees + fees
        /\ fundingFees' = fundingFees + fee /\ crossIn' = crossIn
    BY <1>2
  <2>5. /\ {realizedPl, closedFees, fundingFees, profit, fees, fee, crossIn, StartBalance, d} \subseteq Int
    BY <1>3, <1>6, <1>7
  <2> QED
    BY <2>3, <2>4, <2>5
<1>10. Booked(d)'
  BY <1>4, <1>9 DEF Booked
<1> QED
  BY <1>8, <1>10 DEF Money

LEMMA MoneyKept ==
  ASSUME NEW d \in Int, Money(d), UNCHANGED <<balance, running, totals, crossIn>>
  PROVE  Money(d)'
BY DEF Money, Booked, totals

LEMMA CandleMoney ==
  ASSUME Inv, NEW d \in Int, Money(d), NEW c \in Candles, CandleUpdate(c)
  PROVE  Money(d)'
<1> DEFINE quiet == ~(WasReached(trigger, c.low) \/ WasReached(trigger, c.high))
           gone == CandleCloses(c)
           price == [i \in gone |-> ClosingPrice(running[i], c)]
           trades == Trailed(c)
<1>1. Isolated /\ crossIn \in Int /\ crossIn' = crossIn
  BY DEF Inv, Account, CandleUpdate
<1>2. CASE quiet \/ StopRefused(c)
  <2>1. UNCHANGED <<balance, running, totals>>
    BY <1>2 DEF CandleUpdate
  <2> QED
    BY <1>1, <2>1, MoneyKept
<1>3. CASE ~quiet /\ ~StopRefused(c)
  <2>1. /\ Settle(trades, gone, price)
        /\ balance' = balance + ProceedsOf(running, gone, price)
        /\ fundingFees' = fundingFees
    BY <1>3 DEF CandleUpdate
  <2>2. gone \in SUBSET DOMAIN running
    BY DEF CandleCloses
  <2>3. DOMAIN trades = DOMAIN running /\ \A i \in DOMAIN trades : trades[i] \in Trades
    BY <1>3, TrailedIs DEF Sound
  <2>4. \A i \in gone : trades[i] = running[i]
    BY <2>2 DEF Trailed
  <2>5. ASSUME NEW i \in gone PROVE price[i] \in Prices
    <3> DEFINE t == running[i]
    <3>1. /\ t \in Trades
          /\ StopReached(t, c.low, c.high) \/ ProfitReached(t, c.low, c.high)
      BY <1>1, <2>2, RunningAre DEF CandleCloses
    <3>2. StopOrLiquidation(t) \in Prices /\ t.takeprofit \in Prices \cup {NoPrice}
      BY <3>1 DEF StopOrLiquidation, Trades
    <3>3. ProfitReached(t, c.low, c.high) => t.takeprofit \in Prices
      BY <3>2 DEF ProfitReached
    <3> HIDE DEF t
    <3>4. ClosingPrice(t, c) \in Prices
      BY <3>1, <3>2, <3>3 DEF ClosingPrice
    <3> QED
      BY <3>4 DEF t
  <2>6. ProceedsOf(running, gone, price) = ProceedsOf(trades, gone, price)
    <3> HIDE DEF trades, gone, price
    <3>1. [i \in gone |-> Proceeds(running[i], price[i])] = [i \in gone |-> Proceeds(trades[i], price[i])]
      BY <2>4
    <3> QED
      BY <3>1 DEF ProceedsOf
  <2>7. Held(trades) = Held(running)
    <3>1. ASSUME NEW i \in DOMAIN running PROVE Worth(trades[i]) = Worth(running[i])
      <4> DEFINE stop == NewStop(i, c)
      <4>1. trades[i] = running[i] \/ trades[i] = [running[i] EXCEPT !.stoploss = stop]
        BY DEF Trailed
      <4>2. running[i] \in Trades
        BY <1>1, RunningAre
      <4> HIDE DEF stop, trades
      <4> QED
        BY <4>1, <4>2 DEF Worth, MaintenanceMargin, Trades
    <3> HIDE DEF trades
    <3> QED
      BY <2>3, <3>1, HeldSame
  <2>8. Held(running) \in Int /\ balance \in Int /\ fundingFees \in Int
    BY <1>1, RunningAre, HeldIsInt DEF Money
  <2>9. ProceedsOf(trades, gone, price) \in Int
    <3>1. IsFiniteSet(DOMAIN trades) /\ gone \in SUBSET DOMAIN trades
      BY <1>1, <2>2, <2>3, RunningAre
    <3> HIDE DEF trades, gone, price
    <3> QED
      BY <2>3, <2>5, <3>1, SettlePays
  <2> HIDE DEF trades, gone, price
  <2>10. /\ balance' = balance + ProceedsOf(trades, gone, price) - 0
         /\ fundingFees' = fundingFees + 0 /\ Held(trades) = Held(running) - (0 - 0)
    BY <2>1, <2>6, <2>7, <2>8, <2>9
  <2>11. gone \in SUBSET DOMAIN trades
    BY <2>2, <2>3
  <2> QED
    BY <1>1, <2>1, <2>3, <2>5, <2>10, <2>11, SettleMoney
<1> QED
  BY <1>2, <1>3

LEMMA FundingMoney ==
  ASSUME Inv, NEW d \in Int, Money(d), NEW rate \in Rates, ApplyFundingSettlement(rate)
  PROVE  Money(d)'
<1> DEFINE D == DOMAIN running
           broken == {i \in D : FundingBreaks(running[i], rate)}
           price == [i \in broken |-> market]
           paid == [i \in D |-> IF i \in broken THEN running[i] ELSE WithFunding(running[i], rate)]
           onBalance == {i \in D : i \in broken \/ Fee(i, rate) < 0}
           fee == [i \in D |-> Fee(i, rate)]
           some == [i \in onBalance |-> Fee(i, rate)]
           other == D \ onBalance
           w == [i \in D |-> Worth(running[i])]
           v == [i \in D |-> Worth(paid[i])]
           out == [i \in D |-> IF i \in onBalance THEN 0 ELSE Fee(i, rate)]
<1>1. /\ Isolated /\ crossIn \in Int /\ crossIn' = crossIn /\ market \in Prices
  BY DEF Inv, Account, ApplyFundingSettlement
<1>2. CASE D = {} /\ Neutral(cross)
  <2>1. UNCHANGED <<balance, running, totals>>
    BY <1>2 DEF ApplyFundingSettlement
  <2> QED
    BY <1>1, <2>1, MoneyKept
<1> DEFINE refused == \E i \in D \ broken : Stopless(running[i])
<1>4. CASE ~(D = {} /\ Neutral(cross)) /\ refused
  <2>1. UNCHANGED <<balance, running, totals>>
    BY <1>4 DEF ApplyFundingSettlement
  <2> QED
    BY <1>1, <2>1, MoneyKept
<1>3. CASE ~(D = {} /\ Neutral(cross)) /\ ~refused
  <2>1. /\ Settle(paid, broken, price)
        /\ fundingFees' = fundingFees + FundingOf(D, rate)
        /\ balance' = balance + ProceedsOf(running, broken, price) - FundingOf(onBalance, rate)
    BY <1>3 DEF ApplyFundingSettlement
  <2>2. /\ IsFiniteSet(D) /\ broken \in SUBSET D /\ onBalance \in SUBSET D
        /\ \A i \in D : running[i] \in Trades
    BY <1>1, RunningAre
  <2>3. ASSUME NEW i \in D
        PROVE  /\ paid[i] \in Trades /\ fee[i] \in Int /\ out[i] \in Int
               /\ w[i] \in Int /\ v[i] \in Int /\ w[i] = v[i] + out[i]
    <3> DEFINE t == running[i]
               f == FundingFee(t.side, t.quantity, rate)
    <3>1. /\ t \in Trades /\ t.side \in Sides /\ t.quantity \in Quantities /\ t.price \in Prices
          /\ t.margin \in Nat /\ Worth(t) \in Int
      BY <2>2, WorthIs
    <3>2. f \in Int /\ fee[i] = f /\ Fee(i, rate) = f
      BY <3>1, FundingAssumption DEF Fee
    <3>3. /\ paid[i] = IF i \in broken THEN t ELSE WithFunding(t, rate)
          /\ w[i] = Worth(t) /\ v[i] = Worth(paid[i])
          /\ out[i] = IF i \in broken \/ f < 0 THEN 0 ELSE f
      BY <3>2
    <3>4. CASE i \in broken \/ f <= 0
      <4>1. paid[i] = t /\ out[i] = 0
        BY <3>2, <3>3, <3>4 DEF WithFunding
      <4> HIDE DEF paid, out, w, v, fee, t, f
      <4> QED
        BY <3>1, <3>2, <3>3, <4>1
    <3>5. CASE i \notin broken /\ ~(f <= 0)
      <4> DEFINE m == t.margin - f
                 liq == Liquidation(t.side, t.quantity, t.price, m)
      <4>1. paid[i] = WithMargin(t, t.price, m) /\ out[i] = f
        BY <3>2, <3>3, <3>5 DEF WithFunding
      <4>2. ~(t.margin <= f) /\ ~(m < MinMargin(t.quantity, t.price)) /\ f > 0
        BY <3>2, <3>5 DEF FundingBreaks
      <4>3. /\ MinMargin(t.quantity, t.price) \in Nat /\ MaxMargin(t.quantity, t.price) \in Nat
            /\ MarginValid(t.quantity, t.price, t.margin)
        <5>1. MarginValid(t.quantity, t.price, t.margin)
          BY <1>1 DEF Isolated, Sound
        <5> QED
          BY <3>1, <5>1, MarginAssumption
      <4>4. m \in Int /\ MarginValid(t.quantity, t.price, m)
        <5> HIDE DEF t, f
        <5> QED
          BY <3>1, <3>2, <4>2, <4>3 DEF MarginValid
      <4>5. paid[i] \in Trades
        <5> HIDE DEF t, m, paid
        <5> QED
          BY <3>1, <4>1, <4>4, WithMarginIs DEF Sound
      <4>6. /\ paid[i].margin = m /\ paid[i].openingFee = t.openingFee
            /\ paid[i].closingFee = t.closingFee
        <5> HIDE DEF t, m, liq, paid
        <5>1. paid[i] = [t EXCEPT !.price = t.price, !.margin = m, !.liquidation = liq]
          BY <4>1 DEF WithMargin, liq
        <5> QED
          BY <3>1, <5>1 DEF Trades
      <4>7. t.openingFee \in Nat /\ MaintenanceMargin(t) \in Nat /\ MaintenanceMargin(paid[i]) = MaintenanceMargin(t)
        <5> HIDE DEF t, m, paid
        <5> QED
          BY <3>1, <4>6, WorthIs DEF MaintenanceMargin
      <4>8. Worth(paid[i]) = Worth(t) - f /\ Worth(paid[i]) \in Int
        <5>1. m = t.margin - f
          OBVIOUS
        <5> HIDE DEF t, m, f, paid
        <5> QED
          BY <3>1, <3>2, <4>6, <4>7, <5>1 DEF Worth
      <4> HIDE DEF paid, out, w, v, fee, t, f, m
      <4> QED
        BY <3>1, <3>2, <3>3, <4>1, <4>5, <4>8
    <3> QED
      BY <3>4, <3>5
  <2>4. /\ \A i \in onBalance : out[i] = 0
        /\ \A i \in other : out[i] = fee[i]
        /\ \A i \in onBalance : some[i] = fee[i]
    OBVIOUS
  <2>5. /\ Held(running) = SumFunctionOnSet(w, D) /\ Held(paid) = SumFunctionOnSet(v, D)
        /\ FundingOf(D, rate) = SumFunctionOnSet(fee, D)
        /\ FundingOf(onBalance, rate) = SumFunctionOnSet(some, onBalance)
    <3>1. DOMAIN w = D /\ DOMAIN v = D /\ DOMAIN fee = D /\ DOMAIN some = onBalance /\ DOMAIN paid = D
      OBVIOUS
    <3>2. FundingOf(D, rate) = SumFunction(fee) /\ FundingOf(onBalance, rate) = SumFunction(some)
      BY DEF FundingOf
    <3>3. Held(running) = SumFunction(w) /\ Held(paid) = SumFunction(v)
      <4> HIDE DEF paid
      <4> QED
        BY <3>1 DEF Held
    <3> HIDE DEF w, v, fee, some, paid, onBalance
    <3> QED
      BY <3>1, <3>2, <3>3, SumIs
  <2>6. IsFiniteSet(onBalance) /\ IsFiniteSet(other) /\ onBalance \cap other = {} /\ onBalance \cup other = D
    <3>1. other \in SUBSET D
      OBVIOUS
    <3> QED
      BY <2>2, <3>1, FS_Subset
  <2>7. DOMAIN paid = D /\ \A i \in broken : price[i] \in Prices /\ paid[i] = running[i]
    BY <1>1
  <2> DEFINE total == SumFunctionOnSet(fee, D)
             billed == SumFunctionOnSet(some, onBalance)
             taken == SumFunctionOnSet(out, D)
             sw == SumFunctionOnSet(w, D)
             sv == SumFunctionOnSet(v, D)
             rest == SumFunctionOnSet(out, other)
  <2> HIDE DEF fee, some, out, w, v, paid, onBalance, broken, other, price
  <2>8. total \in Int /\ taken \in Int /\ sw \in Int /\ sv \in Int /\ sw = sv + taken
    <3>1. sw = sv + taken
      BY <2>2, <2>3, SumOnAdds
    <3>2. total \in Int /\ taken \in Int /\ sw \in Int /\ sv \in Int
      BY <2>2, <2>3, SumOnType
    <3> QED
      BY <3>1, <3>2
  <2>9. billed \in Int /\ rest \in Int /\ total = billed + rest /\ taken = rest
    <3>1. \A i \in onBalance \cup other : fee[i] \in Int /\ out[i] \in Int
      BY <2>3, <2>6
    <3>2. /\ total = SumFunctionOnSet(fee, onBalance) + SumFunctionOnSet(fee, other)
          /\ taken = SumFunctionOnSet(out, onBalance) + rest
      BY <2>6, <3>1, SumOnUnion
    <3>3. SumFunctionOnSet(fee, other) = rest
      BY <2>4, <2>6, SumOnCongruent
    <3>4. SumFunctionOnSet(fee, onBalance) = billed
      BY <2>4, <2>6, SumOnCongruent
    <3>5. SumFunctionOnSet(out, onBalance) = 0
      BY <2>4, <2>6, SumOnZero
    <3>6. rest \in Int /\ SumFunctionOnSet(fee, onBalance) \in Int
      BY <2>6, <3>1, SumOnType
    <3> HIDE DEF total, billed, rest, taken
    <3> QED
      BY <3>2, <3>3, <3>4, <3>5, <3>6
  <2>10. ProceedsOf(running, broken, price) = ProceedsOf(paid, broken, price)
    <3>1. [i \in broken |-> Proceeds(running[i], price[i])] = [i \in broken |-> Proceeds(paid[i], price[i])]
      BY <2>7
    <3> QED
      BY <3>1 DEF ProceedsOf
  <2>11. Held(paid) = Held(running) - (total - billed)
    <3> HIDE DEF total, billed, taken, sw, sv, rest
    <3> QED
      BY <2>5, <2>8, <2>9 DEF sw, sv
  <2>12. /\ fundingFees' = fundingFees + total
         /\ balance' = balance + ProceedsOf(paid, broken, price) - billed
    BY <2>1, <2>5, <2>10
  <2> HIDE DEF total, billed
  <2>13. \A i \in DOMAIN paid : paid[i] \in Trades
    BY <2>3, <2>7
  <2> QED
    BY <1>1, <2>1, <2>2, <2>7, <2>8, <2>9, <2>11, <2>12, <2>13, SettleMoney
<1> QED
  BY <1>2, <1>3, <1>4

LEMMA CreateMoney ==
  ASSUME Inv, Inv', NEW d \in Int, Money(d), NEW o \in Orders, CreateRunning(o)
  PROVE  Money(d)'
<1> DEFINE stop == IF o.tsl # NoTrail THEN InitialStop(o.side, o.tsl, market) ELSE o.stoploss
           t == Opened(o.side, o.quantity, o.margin, market, stop, o.takeprofit, o.tsl)
           id == Cardinality(DOMAIN running \cup closed) + 1
<1>1. /\ Isolated /\ IsFiniteSet(DOMAIN running) /\ \A i \in DOMAIN running : running[i] \in Trades
      /\ crossIn \in Int /\ crossIn' = crossIn /\ UNCHANGED totals
  BY RunningAre DEF Inv, Account, CreateRunning
<1>2. /\ running' = Added(running, id, t)
      /\ balance' = balance - t.margin - MaintenanceMargin(t) - t.openingFee
  BY DEF CreateRunning
<1>3. id \notin DOMAIN running
  <2>1. PICK n \in 0 .. MaxTrades : DOMAIN running \cup closed = 1 .. n
    BY <1>1 DEF Isolated
  <2>2. n \in Nat /\ Cardinality(1 .. n) = n
    BY <2>1, BacktestAssumption, FS_Interval
  <2>3. id = n + 1
    BY <2>1, <2>2
  <2> HIDE DEF id
  <2> QED
    BY <2>1, <2>2, <2>3
<1> HIDE DEF t, id, stop
<1>4. t \in Trades
  <2>1. id \in DOMAIN running' /\ running'[id] = t
    BY <1>2 DEF Added
  <2> QED
    BY <2>1 DEF Inv, Isolated, Sound
<1>5. Held(running') = Held(running) + Worth(t) /\ Held(running) \in Int
  BY <1>1, <1>2, <1>3, <1>4, HeldAdds, HeldIsInt
<1>6. t.margin \in Int /\ MaintenanceMargin(t) \in Int /\ t.openingFee \in Int
  BY <1>4, WorthIs
<1> DEFINE before == Held(running)
           after == Held(running')
           reserve == MaintenanceMargin(t)
<1> HIDE DEF before, after, reserve
<1>7. /\ after = before + (t.margin + reserve + t.openingFee) /\ before \in Int /\ reserve \in Int
      /\ balance' = balance - t.margin - reserve - t.openingFee
  BY <1>2, <1>5, <1>6 DEF Worth, before, after, reserve
<1>8. /\ balance \in Int /\ realizedPl \in Int /\ closedFees \in Int /\ fundingFees \in Int
      /\ balance + before = StartBalance + realizedPl - closedFees - fundingFees - crossIn + d
      /\ StartBalance \in Int
  BY BacktestAssumption DEF Money, Booked, before
<1>9. balance' \in Int /\ realizedPl' = realizedPl /\ closedFees' = closedFees /\ fundingFees' = fundingFees
  BY <1>1, <1>6, <1>7, <1>8 DEF totals
<1>10. balance' + after = balance + before
  BY <1>6, <1>7, <1>8
<1>11. Booked(d)'
  BY <1>1, <1>8, <1>9, <1>10 DEF Booked, after
<1> QED
  BY <1>8, <1>9, <1>11 DEF Money

\* A trade whose margin or entry price moves, against the balance and the realized profit.
LEMMA MarginMoney ==
  ASSUME Inv, NEW d \in Int, Money(d), NEW id \in DOMAIN running, NEW u \in Trades,
         running' = [running EXCEPT ![id] = u],
         u.openingFee = running[id].openingFee, u.closingFee = running[id].closingFee,
         NEW profit \in Int, NEW booked \in Int, realizedPl' = realizedPl + booked,
         balance' = balance + (running[id].margin - u.margin) + profit,
         NEW e \in Int, e = d + (profit - booked),
         UNCHANGED <<fundingFees, closedFees, crossIn>>
  PROVE  Money(e)'
<1> DEFINE t == running[id]
           before == Held(running)
           after == Held(running')
<1>1. /\ IsFiniteSet(DOMAIN running) /\ \A i \in DOMAIN running : running[i] \in Trades
      /\ t \in Trades /\ crossIn \in Int
  BY RunningAre DEF Inv, Account
<1>2. after = before - Worth(t) + Worth(u) /\ before \in Int
  BY <1>1, HeldMoves, HeldIsInt
<1>3. /\ t.margin \in Int /\ MaintenanceMargin(t) \in Int /\ t.openingFee \in Int
      /\ u.margin \in Int /\ MaintenanceMargin(u) = MaintenanceMargin(t)
  BY <1>1, WorthIs DEF MaintenanceMargin
<1>4. Worth(u) = Worth(t) - t.margin + u.margin /\ Worth(t) \in Int
  BY <1>3 DEF Worth
<1>5. /\ balance \in Int /\ realizedPl \in Int /\ closedFees \in Int /\ fundingFees \in Int
      /\ balance + before = StartBalance + realizedPl - closedFees - fundingFees - crossIn + d
      /\ StartBalance \in Int
  BY BacktestAssumption DEF Money, Booked
<1>6. balance' = balance + (t.margin - u.margin) + profit
  OBVIOUS
<1> HIDE DEF t, before, after
<1>7. balance' \in Int /\ realizedPl' \in Int
  BY <1>3, <1>5, <1>6
<1>8. balance' + after = StartBalance + realizedPl' - closedFees' - fundingFees' - crossIn' + e
  BY <1>1, <1>2, <1>3, <1>4, <1>5, <1>6
<1>9. Booked(e)'
  BY <1>8 DEF Booked, after
<1> QED
  BY <1>5, <1>7, <1>9 DEF Money

LEMMA AddMarginMoney ==
  ASSUME Inv, Inv', NEW d \in Int, Money(d), NEW id \in DOMAIN running, NEW amount \in Amounts,
         AddMargin(id, amount)
  PROVE  Money(d)'
<1> DEFINE t == running[id]
           u == WithMargin(t, t.price, t.margin + amount)
<1>1. /\ running' = [running EXCEPT ![id] = u] /\ balance' = balance - amount
      /\ UNCHANGED <<totals, crossIn>>
  BY DEF AddMargin
<1>2. u \in Trades /\ t \in Trades
  <2>1. running'[id] = u /\ id \in DOMAIN running'
    BY <1>1
  <2>2. u \in Trades
    BY <2>1 DEF Inv, Isolated, Sound
  <2> QED
    BY <2>2, RunningAre DEF Inv
<1>3. /\ t.margin \in Nat /\ amount \in Nat /\ balance \in Int /\ realizedPl \in Int
  BY <1>2, WorthIs, BacktestAssumption DEF Money
<1>4. u.margin = t.margin + amount /\ u.openingFee = t.openingFee /\ u.closingFee = t.closingFee
  BY <1>2 DEF WithMargin, Trades
<1> HIDE DEF u
<1>5. balance' = balance + (t.margin - u.margin) + 0
  BY <1>1, <1>3, <1>4
<1>6. /\ realizedPl' = realizedPl + 0 /\ d = d + (0 - 0) /\ 0 \in Int
      /\ UNCHANGED <<fundingFees, closedFees, crossIn>>
  BY <1>1, <1>3 DEF totals
<1> QED
  BY <1>1, <1>2, <1>4, <1>5, <1>6, MarginMoney

\* What the rounding of the new entry price is worth, at most.
SlackOf(id) == Slack(running[id].quantity, running'[id].price)

\* What a cash-in of `amount` does to trade id.
LEMMA CashInIs ==
  ASSUME Inv, NEW id \in DOMAIN running, NEW amount \in Amounts, CashIn(id, amount)
  PROVE  LET t == running[id]
             u == running'[id]
             profit == CashedProfit(t, market, amount)
             booked == BookedPl(t.side, t.quantity, t.price, u.price)
         IN  /\ running' = [running EXCEPT ![id] = u] /\ u \in Trades /\ t \in Trades
             /\ amount \in Nat /\ profit \in Int /\ SlackOf(id) \in Nat /\ booked \in Int
             /\ EstPl(t, market) \in Int /\ EstPl(u, market) \in Int
             /\ u.margin = t.margin - (amount - profit)
             /\ u.openingFee = t.openingFee /\ u.closingFee = t.closingFee
             /\ u.stoploss # t.stoploss => u.stoploss = NoPrice /\ ~NewStopValid(u, t.stoploss)
             /\ booked - profit \in - SlackOf(id) .. SlackOf(id)
             /\ EstPl(u, market) - (EstPl(t, market) - profit) \in - SlackOf(id) .. SlackOf(id)
             /\ realizedPl' = realizedPl + booked /\ balance' = balance + amount
<1> DEFINE u == CashedIn(running[id], market, amount)
<1>1. /\ market \in Prices /\ Sound(running[id]) /\ amount \in Nat
      /\ running' = [running EXCEPT ![id] = u] /\ MarginValid(u.quantity, u.price, u.margin)
      /\ realizedPl' = realizedPl + BookedPl(running[id].side, running[id].quantity, running[id].price, u.price)
      /\ balance' = balance + amount
  BY BacktestAssumption DEF Inv, Isolated, Account, CashIn
<1>2. running'[id] = u
  BY <1>1
<1>3. Sound(u)
  BY <1>1, CashedInIs
<1> HIDE DEF u
<1> QED
  BY <1>1, <1>2, <1>3, CashedInIs DEF SlackOf, u, Sound

LEMMA CashInMoney ==
  ASSUME Inv, NEW d \in Int, Money(d), NEW id \in DOMAIN running, NEW amount \in Amounts,
         CashIn(id, amount)
  PROVE  \E e \in Int : Money(e)' /\ e - d \in - SlackOf(id) .. SlackOf(id)
<1> DEFINE t == running[id]
           u == running'[id]
           profit == CashedProfit(t, market, amount)
           booked == BookedPl(t.side, t.quantity, t.price, u.price)
<1>1. /\ running' = [running EXCEPT ![id] = u] /\ u \in Trades /\ t \in Trades
      /\ amount \in Nat /\ profit \in Int /\ SlackOf(id) \in Nat /\ booked \in Int
      /\ u.margin = t.margin - (amount - profit)
      /\ u.openingFee = t.openingFee /\ u.closingFee = t.closingFee
      /\ booked - profit \in - SlackOf(id) .. SlackOf(id)
      /\ realizedPl' = realizedPl + booked /\ balance' = balance + amount
  BY CashInIs
<1>2. t.margin \in Nat /\ balance \in Int /\ UNCHANGED <<fundingFees, closedFees, crossIn>>
  BY <1>1, WorthIs DEF Money, CashIn
<1> HIDE DEF t, u, profit, booked
<1>3. PICK e \in Int : e = d + (profit - booked)
  BY <1>1
<1>4. balance' = balance + (t.margin - u.margin) + profit
  BY <1>1, <1>2
<1>5. Money(e)'
  BY <1>1, <1>2, <1>3, <1>4, MarginMoney DEF t
<1>6. e - d \in - SlackOf(id) .. SlackOf(id)
  BY <1>1, <1>3
<1> QED
  BY <1>5, <1>6

LEMMA CloseMoney ==
  ASSUME Inv, NEW d \in Int, Money(d), NEW ids \in SUBSET DOMAIN running, CloseRunning(ids)
  PROVE  Money(d)'
<1> DEFINE price == [i \in ids |-> market]
<1>1. /\ Isolated /\ crossIn \in Int /\ crossIn' = crossIn /\ fundingFees' = fundingFees
      /\ Settle(running, ids, price) /\ balance' = balance + ProceedsOf(running, ids, price)
      /\ \A i \in ids : price[i] \in Prices
  BY DEF Inv, Account, CloseRunning
<1> HIDE DEF price
<1>2. IsFiniteSet(DOMAIN running) /\ \A i \in DOMAIN running : running[i] \in Trades
  BY <1>1, RunningAre
<1>3. ProceedsOf(running, ids, price) \in Int /\ Held(running) \in Int
  BY <1>1, <1>2, SettlePays, HeldIsInt
<1>4. /\ balance' = balance + ProceedsOf(running, ids, price) - 0
      /\ fundingFees' = fundingFees + 0 /\ Held(running) = Held(running) - (0 - 0)
  BY <1>1, <1>3 DEF Money
<1> QED
  BY <1>1, <1>2, <1>4, SettleMoney

\* What goes to the cross account leaves the balance, and comes back to it.
LEMMA CrossMoney ==
  ASSUME Inv, NEW d \in Int, Money(d),
         \/ \E amount \in Transfers : CrossDeposit(amount) \/ CrossWithdraw(amount)
         \/ \E leverage \in Leverages : CrossSetLeverage(leverage)
         \/ \E side \in Sides, q \in Quantities : CrossOrder(side, q)
         \/ CrossOrderClosePosition
  PROVE  Money(d)'
<1>1. PICK given \in Int : balance' = balance - given /\ crossIn' = crossIn + given
  <2>1. ASSUME NEW amount \in Transfers, CrossDeposit(amount) PROVE \E g \in Int : balance' = balance - g /\ crossIn' = crossIn + g
    BY <2>1, BacktestAssumption DEF CrossDeposit
  <2>2. ASSUME NEW amount \in Transfers, CrossWithdraw(amount) PROVE \E g \in Int : balance' = balance - g /\ crossIn' = crossIn + g
    <3>1. amount \in Int /\ balance \in Int /\ crossIn \in Int
      BY BacktestAssumption DEF Money, Inv, Account
    <3>2. - amount \in Int /\ balance' = balance - (- amount) /\ crossIn' = crossIn + (- amount)
      BY <2>2, <3>1 DEF CrossWithdraw
    <3> QED
      BY <3>2
  <2>3. CASE UNCHANGED <<balance, crossIn>>
    <3>1. 0 \in Int /\ balance' = balance - 0 /\ crossIn' = crossIn + 0
      BY <2>3 DEF Money, Inv, Account
    <3> QED
      BY <3>1
  <2> QED
    BY <2>1, <2>2, <2>3 DEF CrossSetLeverage, CrossOrder, CrossOrderClosePosition
<1>2. UNCHANGED <<running, totals>>
  BY DEF CrossDeposit, CrossWithdraw, CrossSetLeverage, CrossOrder, CrossOrderClosePosition,
         isolated
<1>3. Held(running) \in Int /\ crossIn \in Int /\ StartBalance \in Int
  BY RunningAre, HeldIsInt, BacktestAssumption DEF Inv, Account
<1> DEFINE before == Held(running)
           after == Held(running')
<1>4. after = before
  BY <1>2
<1> HIDE DEF before, after
<1>5. /\ balance \in Int /\ realizedPl \in Int /\ closedFees \in Int /\ fundingFees \in Int
      /\ balance + before = StartBalance + realizedPl - closedFees - fundingFees - crossIn + d
      /\ before \in Int
  BY <1>3 DEF Money, Booked, before
<1>6. balance' + after = StartBalance + realizedPl' - closedFees' - fundingFees' - crossIn' + d
  BY <1>1, <1>2, <1>3, <1>4, <1>5 DEF totals
<1>7. Booked(d)'
  BY <1>6 DEF Booked, after
<1> QED
  BY <1>1, <1>2, <1>5, <1>7 DEF Money, totals

LEMMA MoneyNext ==
  ASSUME Inv, Inv', NEW d \in Int, Money(d), [Next]_vars
  PROVE  \/ Money(d)'
         \/ \E id \in DOMAIN running, amount \in Amounts :
              /\ CashIn(id, amount)
              /\ \E e \in Int : Money(e)' /\ e - d \in - SlackOf(id) .. SlackOf(id)
<1>1. CASE EngineCalls
  BY <1>1, CandleMoney, FundingMoney DEF EngineCalls
<1>2. CASE OperatorCalls
  <2>1. ASSUME NEW id \in DOMAIN running, NEW amount \in Amounts,
               AddMargin(id, amount)
        PROVE  Money(d)'
    BY <2>1, AddMarginMoney
  <2>5. ASSUME NEW id \in DOMAIN running, NEW amount \in Amounts, CashIn(id, amount)
        PROVE  \E e \in Int : Money(e)' /\ e - d \in - SlackOf(id) .. SlackOf(id)
    BY <2>5, CashInMoney
  <2>2. ASSUME NEW id \in DOMAIN running, IsolatedOrderClose(id) PROVE Money(d)'
    <3>1. {id} \cap DOMAIN running \in SUBSET DOMAIN running
      OBVIOUS
    <3> QED
      BY <2>2, <3>1, CloseMoney DEF IsolatedOrderClose
  <2>3. ASSUME NEW side \in Sides, IsolatedOrderCloseSide(side) PROVE Money(d)'
    <3>1. {i \in DOMAIN running : running[i].side = side} \in SUBSET DOMAIN running
      OBVIOUS
    <3> QED
      BY <2>3, <3>1, CloseMoney DEF IsolatedOrderCloseSide
  <2>4. ASSUME IsolatedOrderCloseAll PROVE Money(d)'
    BY <2>4, CloseMoney DEF IsolatedOrderCloseAll
  <2> QED
    BY <1>2, <2>1, <2>2, <2>3, <2>4, <2>5, CreateMoney, CrossMoney DEF OperatorCalls
<1>3. CASE UNCHANGED vars
  BY <1>3, MoneyKept DEF vars
<1> QED
  BY <1>1, <1>2, <1>3 DEF Next

\* What the state reports of the trades, side by side, is what they hold.
LEMMA ReportIs ==
  ASSUME Isolated, market \in Prices
  PROVE  LET fees == SumFunction([i \in DOMAIN running |-> running[i].openingFee])
         IN  /\ RunningMargin \in Int /\ RunningPl \in Int /\ fees \in Int
             /\ Held(running) = RunningMargin + fees
<1> DEFINE D == DOMAIN running
           longs == RunningOf(Buy)
           shorts == RunningOf(Sell)
           w == [i \in D |-> Worth(running[i])]
           m == [i \in D |-> running[i].margin + MaintenanceMargin(running[i])]
           o == [i \in D |-> running[i].openingFee]
           ml == [i \in longs |-> running[i].margin + MaintenanceMargin(running[i])]
           ms == [i \in shorts |-> running[i].margin + MaintenanceMargin(running[i])]
<1>1. IsFiniteSet(D) /\ \A i \in D : running[i] \in Trades
  BY RunningAre
<1>2. ASSUME NEW i \in D
      PROVE  m[i] \in Int /\ o[i] \in Int /\ w[i] = m[i] + o[i]
  BY <1>1, WorthIs DEF Worth
<1>3. /\ longs \cup shorts = D /\ longs \cap shorts = {}
      /\ IsFiniteSet(longs) /\ IsFiniteSet(shorts)
  <2>1. \A i \in D : running[i].side \in {Buy, Sell}
    BY <1>1, WorthIs DEF Sides
  <2>2. Buy # Sell
    BY DEF Buy, Sell
  <2>3. longs \in SUBSET D /\ shorts \in SUBSET D
    BY DEF RunningOf
  <2>4. IsFiniteSet(longs) /\ IsFiniteSet(shorts)
    <3> HIDE DEF longs, shorts
    <3> QED
      BY <1>1, <2>3, FS_Subset
  <2> QED
    BY <2>1, <2>2, <2>4 DEF RunningOf
<1>4. (\A i \in longs : m[i] = ml[i]) /\ (\A i \in shorts : m[i] = ms[i])
  BY <1>3
<1>5. /\ Held(running) = SumFunctionOnSet(w, D)
      /\ SumFunction(o) = SumFunctionOnSet(o, D)
      /\ RunningSideMargin(Buy) = SumFunctionOnSet(ml, longs)
      /\ RunningSideMargin(Sell) = SumFunctionOnSet(ms, shorts)
  <2>1. DOMAIN w = D /\ DOMAIN o = D /\ DOMAIN ml = longs /\ DOMAIN ms = shorts
    OBVIOUS
  <2>2. /\ Held(running) = SumFunction(w)
        /\ RunningSideMargin(Buy) = SumFunction(ml) /\ RunningSideMargin(Sell) = SumFunction(ms)
    BY DEF Held, RunningSideMargin
  <2> HIDE DEF w, o, ml, ms, longs, shorts
  <2> QED
    BY <2>1, <2>2, SumIs
<1> DEFINE so == SumFunctionOnSet(o, D)
           sm == SumFunctionOnSet(m, D)
           sw == SumFunctionOnSet(w, D)
           sl == SumFunctionOnSet(ml, longs)
           ss == SumFunctionOnSet(ms, shorts)
<1> HIDE DEF w, o, m, ml, ms, longs, shorts
<1>6. sw = sm + so
  BY <1>1, <1>2, SumOnAdds
<1>7. sm = SumFunctionOnSet(m, longs) + SumFunctionOnSet(m, shorts)
  <2>1. \A i \in longs \cup shorts : m[i] \in Int
    BY <1>2, <1>3
  <2> QED
    BY <1>3, <2>1, SumOnUnion
<1>8. SumFunctionOnSet(m, longs) = sl /\ SumFunctionOnSet(m, shorts) = ss
  BY <1>3, <1>4, SumOnCongruent
<1>9. SumFunctionOnSet(m, longs) \in Int /\ SumFunctionOnSet(m, shorts) \in Int /\ so \in Int
  BY <1>1, <1>2, <1>3, SumOnType
<1>10. RunningMargin = sl + ss
  BY <1>5 DEF RunningMargin
<1>11. RunningPl \in Int
  <2> DEFINE g == [i \in D |-> EstPl(running[i], market)]
  <2>1. \A i \in D : g[i] \in Int
    BY <1>1, WorthIs, PlAssumption DEF EstPl
  <2>2. DOMAIN g = D /\ RunningPl = SumFunction(g)
    BY DEF RunningPl
  <2> HIDE DEF g
  <2> QED
    BY <1>1, <2>1, <2>2, SumIs, SumOnType
<1> HIDE DEF so, sm, sw, sl, ss
<1>12. /\ RunningMargin \in Int /\ so \in Int /\ Held(running) = RunningMargin + so
       /\ SumFunction(o) = so
  BY <1>5, <1>6, <1>7, <1>8, <1>9, <1>10 DEF so, sm, sw, sl, ss
<1> QED
  BY <1>11, <1>12 DEF o

LEMMA ReportHolds ==
  Inv => LET fees == SumFunction([i \in DOMAIN running |-> running[i].openingFee])
         IN  /\ RunningMargin \in Int /\ RunningPl \in Int /\ fees \in Int
             /\ Held(running) = RunningMargin + fees
BY ReportIs DEF Inv, Account

\* What is missing from the books, or too much in them, is what roundings have moved.
LEMMA MissingIs == Inv => \A d \in Int : Money(d) => Missing = d
<1> SUFFICES ASSUME Inv, NEW d \in Int, Money(d) PROVE Missing = d
  OBVIOUS
<1> DEFINE fees == SumFunction([i \in DOMAIN running |-> running[i].openingFee])
           held == Held(running)
<1>1. RunningMargin \in Int /\ fees \in Int /\ held = RunningMargin + fees /\ Fees = closedFees + fees
  BY ReportHolds DEF Fees
<1>2. /\ balance \in Int /\ realizedPl \in Int /\ closedFees \in Int /\ fundingFees \in Int
      /\ crossIn \in Int /\ StartBalance \in Int
      /\ balance + held = StartBalance + realizedPl - closedFees - fundingFees - crossIn + d
  BY BacktestAssumption DEF Inv, Account, Money, Booked
<1> HIDE DEF fees, held
<1> QED
  BY <1>1, <1>2 DEF Missing

\* One value of a sum changes.
LEMMA SumMoves ==
  ASSUME NEW D, IsFiniteSet(D), NEW id \in D, NEW f, NEW g, DOMAIN f = D, DOMAIN g = D,
         \A i \in D : f[i] \in Int /\ g[i] \in Int, \A i \in D \ {id} : f[i] = g[i]
  PROVE  SumFunction(f) \in Int /\ SumFunction(g) = SumFunction(f) - f[id] + g[id]
<1>1. /\ SumFunction(f) = SumFunctionOnSet(f, D) /\ SumFunction(g) = SumFunctionOnSet(g, D)
      /\ IsFiniteSet(D \ {id})
  BY SumIs, FS_RemoveElement
<1> DEFINE rest == SumFunctionOnSet(f, D \ {id})
<1>2. /\ SumFunctionOnSet(f, D) = f[id] + rest
      /\ SumFunctionOnSet(g, D) = g[id] + SumFunctionOnSet(g, D \ {id})
  BY SumOnTakesOff
<1>3. SumFunctionOnSet(g, D \ {id}) = rest /\ rest \in Int
  BY <1>1, SumOnCongruent, SumOnType
<1> HIDE DEF rest
<1> QED
  BY <1>1, <1>2, <1>3

\* A cash-in moves what is reported to be worth no farther than its rounding.
LEMMA CashInNet ==
  ASSUME Inv, RunningMargin' \in Int,
         LET fees == SumFunction([i \in DOMAIN running |-> running[i].openingFee])
         IN  fees' \in Int /\ Held(running') = RunningMargin' + fees',
         balance \in Int, balance >= 0, NEW id \in DOMAIN running, NEW amount \in Amounts,
         CashIn(id, amount)
  PROVE  TotalNetValue' - TotalNetValue \in - SlackOf(id) .. SlackOf(id)
<1> DEFINE t == running[id]
           u == running'[id]
           slack == SlackOf(id)
           profit == CashedProfit(t, market, amount)
           f == [i \in DOMAIN running |-> EstPl(running[i], market)]
           g == [i \in DOMAIN running |-> EstPl(running'[i], market)]
           o == [i \in DOMAIN running |-> running[i].openingFee]
           fees == SumFunction(o)
           net == EstNetValue(cross, market)
<1>1. /\ running' = [running EXCEPT ![id] = u] /\ u \in Trades /\ t \in Trades
      /\ amount \in Nat /\ profit \in Int /\ slack \in Nat
      /\ EstPl(t, market) \in Int /\ EstPl(u, market) \in Int
      /\ u.margin = t.margin - (amount - profit)
      /\ u.openingFee = t.openingFee /\ u.closingFee = t.closingFee
      /\ EstPl(u, market) - (EstPl(t, market) - profit) \in - slack .. slack
      /\ balance' = balance + amount
  BY CashInIs
<1>2. /\ market \in Prices /\ market' = market /\ cross' = cross /\ Isolated
      /\ IsFiniteSet(DOMAIN running) /\ \A i \in DOMAIN running : running[i] \in Trades
  BY RunningAre DEF Inv, Account, CashIn
<1> HIDE DEF u
<1>3. /\ DOMAIN running' = DOMAIN running /\ running'[id] = u
      /\ \A i \in DOMAIN running : i # id => running'[i] = running[i]
  BY <1>1
<1>4. RunningPl' = RunningPl - EstPl(t, market) + EstPl(u, market) /\ RunningPl \in Int
  <2>1. \A i \in DOMAIN running : f[i] \in Int
    BY <1>2, WorthIs, PlAssumption DEF EstPl
  <2>2. g[id] = EstPl(u, market) /\ \A i \in DOMAIN running \ {id} : f[i] = g[i]
    BY <1>3
  <2>3. \A i \in DOMAIN running : f[i] \in Int /\ g[i] \in Int
    BY <1>1, <2>1, <2>2
  <2>4. RunningPl = SumFunction(f) /\ RunningPl' = SumFunction(g)
    BY <1>2, <1>3 DEF RunningPl, EstPl
  <2>5. f[id] = EstPl(t, market) /\ DOMAIN f = DOMAIN running /\ DOMAIN g = DOMAIN running
    OBVIOUS
  <2> HIDE DEF f, g
  <2>6. SumFunction(f) \in Int /\ SumFunction(g) = SumFunction(f) - f[id] + g[id]
    BY <1>2, <2>2, <2>3, <2>5, SumMoves
  <2> QED
    BY <2>2, <2>4, <2>5, <2>6
<1>5. RunningMargin' = RunningMargin - (amount - profit) /\ RunningMargin \in Int
  <2>1. fees' = fees
    <3>1. o' = o
      BY <1>1, <1>3
    <3> QED
      BY <3>1
  <2>2. RunningMargin \in Int /\ fees \in Int /\ Held(running) = RunningMargin + fees
    BY ReportHolds
  <2>3. Held(running') = Held(running) - Worth(t) + Worth(u)
    BY <1>1, <1>2, HeldMoves
  <2>4. Worth(u) = Worth(t) - (amount - profit) /\ Worth(t) \in Int
    <3>1. /\ t.margin \in Int /\ t.openingFee \in Int /\ MaintenanceMargin(t) \in Int
          /\ MaintenanceMargin(u) = MaintenanceMargin(t)
      BY <1>1, WorthIs DEF MaintenanceMargin
    <3> HIDE DEF t, profit
    <3> QED
      BY <1>1, <3>1 DEF Worth
  <2>5. Held(running') = RunningMargin' + fees'
    OBVIOUS
  <2>6. amount - profit \in Int
    BY <1>1
  <2> HIDE DEF fees, t, profit
  <2>7. Held(running') = Held(running) - (amount - profit)
    BY <2>2, <2>3, <2>4, <2>6
  <2> QED
    BY <2>1, <2>2, <2>5, <2>6, <2>7
<1>6. net' = net /\ net \in Int
  <2>1. EstRunningPl(cross, market) \in Int /\ cross.margin \in Int
    <3>1. /\ cross.margin \in Int /\ cross.side \in Sides
          /\ ~Neutral(cross) => cross.quantity \in Quantities /\ cross.entry \in Prices
      BY SidesAre DEF Inv, Account, Whole, Neutral
    <3> QED
      BY <1>2, <3>1, PlAssumption DEF EstRunningPl
  <2> QED
    BY <1>2, <2>1 DEF EstNetValue, Higher
<1> DEFINE a == RunningMargin + RunningPl
           b == RunningMargin' + RunningPl'
<1>7. /\ TotalNetValue = Higher(0, Higher(0, balance) + RunningMargin + RunningPl) + net
      /\ TotalNetValue' = Higher(0, Higher(0, balance') + RunningMargin' + RunningPl') + net'
  BY DEF TotalNetValue
<1> HIDE DEF net, t, profit, slack
<1> QED
  BY <1>1, <1>4, <1>5, <1>6, <1>7 DEF Higher, slack

-----------------------------------------------------------------------------
(* Stops only ever trail forward.                                          *)

\* A price that reaches n / d, rounded up, is n or more when multiplied by d; and the other way.
LEMMA QuotientReached ==
  ASSUME NEW n \in Int, NEW d \in Int, d > 0, NEW x \in Int
  PROVE  /\ x >= RoundUp(n, d) => x * d >= n
         /\ x <= RoundDown(n, d) => x * d <= n
<1> DEFINE up == (n + d - 1) \div d
           down == n \div d
<1>1. up \in Int /\ down \in Int /\ d * up >= n /\ d * down <= n
  <2>1. \A k \in Int : k \div d \in Int /\ d * (k \div d) <= k /\ k < d * (k \div d) + d
    OBVIOUS
  <2>2. n + d - 1 \in Int
    OBVIOUS
  <2> DEFINE k == n + d - 1
  <2>3. k \div d \in Int /\ k < d * (k \div d) + d
    BY <2>1, <2>2
  <2>4. n \div d \in Int /\ d * (n \div d) <= n
    BY <2>1
  <2> DEFINE a == d * (k \div d)
  <2>5. a \in Int
    BY <2>3
  <2>6. a >= n
    <3>1. k < a + d /\ k = n + d - 1
      BY <2>3
    <3> HIDE DEF a, k
    <3> QED
      BY <2>5, <3>1
  <2> QED
    BY <2>3, <2>4, <2>6
<1> HIDE DEF up, down
<1>2. ASSUME x >= up PROVE x * d >= n
  <2>1. (x - up) * d >= 0
    BY <1>1, <1>2
  <2>2. x * d >= d * up
    BY <1>1, <2>1
  <2>3. x * d \in Int /\ d * up \in Int
    BY <1>1
  <2> QED
    BY <1>1, <2>2, <2>3
<1>3. ASSUME x <= down PROVE x * d <= n
  <2>1. (down - x) * d >= 0
    BY <1>1, <1>3
  <2>2. x * d <= d * down
    BY <1>1, <2>1
  <2>3. x * d \in Int /\ d * down \in Int
    BY <1>1
  <2> QED
    BY <1>1, <2>2, <2>3
<1> QED
  BY <1>2, <1>3 DEF RoundUp, RoundDown, up, down

\* Rounding keeps the order to a whole number.
LEMMA RoundKeeps ==
  ASSUME NEW n \in Int, NEW g \in Int
  PROVE  /\ Round(n, 100) \in Int
         /\ n >= g * 100 => Round(n, 100) >= g
         /\ n <= g * 100 => Round(n, 100) <= g
BY DEF Round

LEMMA TrailedForward ==
  ASSUME NEW t \in Trades, NEW low \in Prices, NEW high \in Prices, NEW close \in Prices,
         TrailedStop(t, low, high, close) # NoPrice
  PROVE  LET stop == TrailedStop(t, low, high, close)
         IN  /\ t.tsl # NoTrail /\ stop \in Int /\ t.stoploss \in Int /\ t.liquidation \in Int
             /\ IF t.side = Buy THEN stop >= t.stoploss ELSE stop <= t.stoploss
             /\ stop # t.stoploss => stop = NewStoplossOnRange(t, low, high)
<1> DEFINE sl == t.stoploss
           up == ApplyDiscount(high, t.tsl)
           down == ApplyGain(low, t.tsl)
           stop == TrailedStop(t, low, high, close)
           gain == sl * (100 + Step)
           loss == sl * (100 - Step)
           g == Round(gain, 100)
           l == Round(loss, 100)
           h == high * (100 - t.tsl)
           w == low * (100 + t.tsl)
<1>1. /\ sl \in Nat /\ t.liquidation \in Int /\ t.tsl \in 0 .. 99 /\ t.side \in {Buy, Sell}
      /\ high \in Nat /\ low \in Nat /\ Step \in 1 .. 99
  <2>1. t.stoploss \in Prices \cup {NoPrice}
    BY DEF Trades
  <2> QED
    BY <2>1, FieldsAre, PricesAre, StepAssumption DEF Sides
<1>2. gain \in Int /\ loss \in Int /\ gain >= sl * 100 /\ loss <= sl * 100
  <2>1. sl * Step \in Int /\ sl * Step >= 0
    BY <1>1
  <2>2. gain = sl * 100 + sl * Step /\ loss = sl * 100 - sl * Step
    BY <1>1
  <2> HIDE DEF gain, loss
  <2> QED
    BY <1>1, <2>1, <2>2
<1>3. h \in Int /\ w \in Int
  BY <1>1
<1> HIDE DEF gain, loss, h, w
<1>4. g \in Int /\ l \in Int /\ g >= sl /\ l <= sl
  BY <1>1, <1>2, RoundKeeps
<1>5. up = Round(h, 100) /\ down = Round(w, 100) /\ up \in Int /\ down \in Int
  <2>1. up = Round(h, 100) /\ down = Round(w, 100)
    BY DEF ApplyDiscount, ApplyGain, h, w
  <2>2. Round(h, 100) \in Int /\ Round(w, 100) \in Int
    BY <1>3, RoundKeeps
  <2> QED
    BY <2>1, <2>2
<1>6. NextStoplossUpdateTrigger(t) =
        IF t.side = Buy THEN RoundUp(g * 100, 100 - t.tsl) ELSE RoundDown(l * 100, 100 + t.tsl)
  BY DEF NextStoplossUpdateTrigger, ApplyGain, ApplyDiscount, gain, loss
<1> HIDE DEF g, l, up, down
<1>7. CASE t.side = Buy
  <2>1. stop = up /\ t.tsl # NoTrail /\ high >= RoundUp(g * 100, 100 - t.tsl)
    BY <1>6, <1>7 DEF TrailedStop, Buy, Sell, up
  <2>2. g * 100 \in Int /\ 100 - t.tsl \in Int /\ 100 - t.tsl > 0
    BY <1>1, <1>4
  <2>3. h >= g * 100
    <3> DEFINE n == g * 100
               d == 100 - t.tsl
    <3> HIDE DEF n, d
    <3>1. high >= RoundUp(n, d) /\ n \in Int /\ d \in Int /\ d > 0 /\ high \in Int
      BY <1>1, <2>1, <2>2 DEF n, d
    <3>2. high * d >= n
      BY <3>1, QuotientReached
    <3> QED
      BY <3>2 DEF n, d, h
  <2>4. up >= g
    BY <1>3, <1>4, <1>5, <2>3, RoundKeeps
  <2>5. stop # sl => stop = NewStoplossOnRange(t, low, high)
    BY <1>6, <1>7, <2>1 DEF NewStoplossOnRange, up
  <2> QED
    BY <1>1, <1>4, <1>5, <1>7, <2>1, <2>4, <2>5
<1>8. CASE t.side = Sell
  <2>0. t.side # Buy
    BY <1>8 DEF Buy, Sell
  <2>1. stop = down /\ t.tsl # NoTrail /\ low <= RoundDown(l * 100, 100 + t.tsl)
    BY <1>6, <1>8, <2>0 DEF TrailedStop, Buy, Sell, down
  <2>2. l * 100 \in Int /\ 100 + t.tsl \in Int /\ 100 + t.tsl > 0
    BY <1>1, <1>4
  <2>3. w <= l * 100
    <3> DEFINE n == l * 100
               d == 100 + t.tsl
    <3> HIDE DEF n, d
    <3>1. low <= RoundDown(n, d) /\ n \in Int /\ d \in Int /\ d > 0 /\ low \in Int
      BY <1>1, <2>1, <2>2 DEF n, d
    <3>2. low * d <= n
      BY <3>1, QuotientReached
    <3> QED
      BY <3>2 DEF n, d, w
  <2>4. down <= l
    BY <1>3, <1>4, <1>5, <2>3, RoundKeeps
  <2>5. stop # sl => stop = NewStoplossOnRange(t, low, high)
    BY <1>6, <2>0, <2>1 DEF NewStoplossOnRange, down
  <2> QED
    BY <1>1, <1>4, <1>5, <2>0, <2>1, <2>4, <2>5
<1> QED
  BY <1>1, <1>7, <1>8

LEMMA CandleTrails ==
  ASSUME Inv, NEW c \in Candles, CandleUpdate(c)
  PROVE  StopsTrail /\ FailsOverStop
<1>1. /\ \A i \in DOMAIN running : running[i] \in Trades
      /\ c.low \in Prices /\ c.high \in Prices /\ c.close \in Prices
  BY RunningAre, CandlesAre DEF Inv
<1>2. ASSUME NEW i \in DOMAIN running \cap DOMAIN running'
      PROVE  StopMoves(i)
  <2> DEFINE t == running[i]
             stop == NewStop(i, c)
  <2>1. t \in Trades
    BY <1>1
  <2>2. running' = running \/ running' = Restrict(Trailed(c), DOMAIN Trailed(c) \ CandleCloses(c))
    BY DEF CandleUpdate, Settle
  <2>3. running'[i] = t \/ (stop # NoPrice /\ running'[i] = [t EXCEPT !.stoploss = stop])
    <3>1. CASE running' = running
      BY <3>1
    <3>2. CASE running' = Restrict(Trailed(c), DOMAIN Trailed(c) \ CandleCloses(c))
      <4>1. running'[i] = Trailed(c)[i]
        BY <3>2 DEF Restrict
      <4> QED
        BY <4>1 DEF Trailed
    <3> QED
      BY <2>2, <3>1, <3>2
  <2>4. CASE running'[i] = t
    BY <2>4 DEF StopMoves
  <2>5. CASE stop # NoPrice /\ running'[i] = [t EXCEPT !.stoploss = stop]
    <3>1. running'[i].stoploss = stop
      BY <2>1, <2>5 DEF Trades
    <3>2. /\ t.tsl # NoTrail /\ stop \in Int /\ t.stoploss \in Int
          /\ IF t.side = Buy THEN stop >= t.stoploss ELSE stop <= t.stoploss
          /\ stop # t.stoploss => stop = NewStoplossOnRange(t, c.low, c.high)
      <4> HIDE DEF t
      <4>1. stop = TrailedStop(t, c.low, c.high, c.close)
        BY DEF NewStop, t
      <4> QED
        BY <1>1, <2>1, <2>5, <4>1, TrailedForward
    <3>3. LET u == [t EXCEPT !.liquidation = t.stoploss]
          IN  u.side = t.side /\ u.liquidation = t.stoploss
      BY <2>1 DEF Trades
    <3> HIDE DEF stop, t
    <3>4. stop # t.stoploss => NewStopValid([t EXCEPT !.liquidation = t.stoploss], stop)
      BY <3>2, <3>3 DEF NewStopValid
    <3> QED
      BY <2>5, <3>1, <3>2, <3>4 DEF StopMoves, t
  <2> QED
    BY <2>3, <2>4, <2>5
<1>3. FailsOverStop
  <2> SUFFICES ASSUME failed' # failed, \A i \in DOMAIN running : ~Stopless(running[i])
               PROVE  \E i \in DOMAIN running :
                        running[i].tsl # NoTrail /\ ~NewStopValid(running[i], running[i].stoploss)
    BY DEF FailsOverStop, Inv, Isolated
  <2>1. StopRefused(c)
    BY DEF CandleUpdate
  <2>2. PICK i \in DOMAIN running :
          NewStop(i, c) # NoPrice /\ ~NewStopValid(running[i], NewStop(i, c))
    BY <2>1 DEF StopRefused
  <2> DEFINE t == running[i]
             stop == NewStop(i, c)
  <2>3. t \in Trades /\ stop = TrailedStop(t, c.low, c.high, c.close)
    BY <1>1 DEF NewStop
  <2>4. /\ stop \in Int /\ t.stoploss \in Int /\ t.liquidation \in Int /\ t.tsl # NoTrail
        /\ IF t.side = Buy THEN stop >= t.stoploss ELSE stop <= t.stoploss
    <3> HIDE DEF t, stop
    <3> QED
      BY <1>1, <2>2, <2>3, TrailedForward DEF t, stop
  <2>5. ~NewStopValid(t, stop)
    BY <2>2
  <2> HIDE DEF t, stop
  <2>6. t.tsl # NoTrail /\ ~NewStopValid(t, t.stoploss)
    BY <2>4, <2>5 DEF NewStopValid
  <2> QED
    BY <2>6 DEF t
<1> QED
  BY <1>2, <1>3 DEF StopsTrail

\* Every other call leaves the stops of the trades that keep running.
LEMMA StopsStay ==
  ASSUME Isolated, failed' = failed,
         \A i \in DOMAIN running \cap DOMAIN running' : running'[i].stoploss = running[i].stoploss
  PROVE  StopsTrail /\ FailsOverStop
BY DEF StopsTrail, StopMoves, FailsOverStop

LEMMA WithMarginKeepsStop ==
  ASSUME NEW t \in Trades, NEW p, NEW m
  PROVE  WithMargin(t, p, m).stoploss = t.stoploss
BY DEF WithMargin, Trades

LEMMA TrailsNext ==
  ASSUME Inv, [Next]_vars
  PROVE  StopsTrail /\ FailsOverStop
<1>1. Isolated /\ \A i \in DOMAIN running : running[i] \in Trades
  BY RunningAre DEF Inv
<1>2. ASSUME NEW c \in Candles, CandleUpdate(c) PROVE StopsTrail /\ FailsOverStop
  BY <1>2, CandleTrails
<1>3. ASSUME NEW rate \in Rates, ApplyFundingSettlement(rate) PROVE StopsTrail /\ FailsOverStop
  <2> DEFINE broken == {i \in DOMAIN running : FundingBreaks(running[i], rate)}
             price == [i \in broken |-> market]
             paid == [i \in DOMAIN running |->
                        IF i \in broken THEN running[i] ELSE WithFunding(running[i], rate)]
  <2>1. /\ running' = running \/ Settle(paid, broken, price)
        /\ failed' # failed => running' = running /\ \E i \in DOMAIN running : Stopless(running[i])
    BY <1>3 DEF ApplyFundingSettlement
  <2>2. ASSUME NEW i \in DOMAIN running PROVE paid[i].stoploss = running[i].stoploss
    BY <1>1, WithMarginKeepsStop DEF WithFunding
  <2>4. CASE running' = running
    <3>1. StopsTrail
      BY <2>4 DEF StopsTrail, StopMoves
    <3>2. FailsOverStop
      BY <1>1, <2>1 DEF FailsOverStop, Isolated
    <3> QED
      BY <3>1, <3>2
  <2>3. CASE Settle(paid, broken, price)
    <3>1. running' = [i \in DOMAIN paid \ broken |-> paid[i]]
      BY <2>3 DEF Settle, Restrict
    <3>2. \A i \in DOMAIN running \cap DOMAIN running' : running'[i] = paid[i]
      BY <3>1
    <3> HIDE DEF paid, broken, price
    <3>3. CASE failed' = failed
      BY <1>1, <2>2, <3>2, <3>3, StopsStay
    <3> QED
      BY <1>1, <2>1, <2>4, <3>3
  <2> QED
    BY <2>1, <2>3, <2>4
<1>4. ASSUME NEW o \in Orders, CreateRunning(o) PROVE StopsTrail /\ FailsOverStop
  <2> DEFINE stop == IF o.tsl # NoTrail THEN InitialStop(o.side, o.tsl, market) ELSE o.stoploss
             t == Opened(o.side, o.quantity, o.margin, market, stop, o.takeprofit, o.tsl)
             id == Cardinality(DOMAIN running \cup closed) + 1
  <2>1. failed' = failed /\ running' = Added(running, id, t)
    BY <1>4 DEF CreateRunning
  <2>2. id \notin DOMAIN running
    <3>1. PICK n \in 0 .. MaxTrades : DOMAIN running \cup closed = 1 .. n
      BY <1>1 DEF Isolated
    <3>2. n \in Nat /\ Cardinality(1 .. n) = n
      BY <3>1, BacktestAssumption, FS_Interval
    <3>3. id = n + 1
      BY <3>1, <3>2
    <3> HIDE DEF id
    <3> QED
      BY <3>1, <3>2, <3>3
  <2> HIDE DEF id, t
  <2>3. \A i \in DOMAIN running : running'[i] = running[i]
    BY <2>1, <2>2 DEF Added
  <2> QED
    BY <1>1, <2>1, <2>3, StopsStay
<1>11. ASSUME NEW id \in DOMAIN running, NEW amount \in Amounts, CashIn(id, amount)
       PROVE  StopsTrail /\ FailsOverStop
  <2> DEFINE u == running'[id]
  <2>1. /\ running' = [running EXCEPT ![id] = u]
        /\ u.stoploss # running[id].stoploss =>
             u.stoploss = NoPrice /\ ~NewStopValid(u, running[id].stoploss)
    BY <1>11, CashInIs
  <2> HIDE DEF u
  <2>2. StopMoves(id)
    BY <1>11, <2>1 DEF StopMoves, u
  <2>3. \A i \in DOMAIN running : i # id => running'[i] = running[i]
    BY <2>1
  <2>4. StopsTrail
    BY <2>2, <2>3 DEF StopsTrail, StopMoves
  <2>5. failed' = failed
    BY <1>11 DEF CashIn
  <2> QED
    BY <2>4, <2>5 DEF FailsOverStop
<1>5. ASSUME NEW id \in DOMAIN running, NEW amount \in Amounts, AddMargin(id, amount)
      PROVE  StopsTrail /\ FailsOverStop
  <2>1. PICK p, m : running' = [running EXCEPT ![id] = WithMargin(running[id], p, m)]
    BY <1>5 DEF AddMargin
  <2>2. failed' = failed
    BY <1>5 DEF AddMargin
  <2>3. \A i \in DOMAIN running : running'[i].stoploss = running[i].stoploss
    BY <1>1, <2>1, WithMarginKeepsStop
  <2> QED
    BY <1>1, <2>2, <2>3, StopsStay
<1>6. ASSUME NEW ids \in SUBSET DOMAIN running, CloseRunning(ids) PROVE StopsTrail /\ FailsOverStop
  <2>1. failed' = failed /\ \A i \in DOMAIN running \cap DOMAIN running' : running'[i] = running[i]
    BY <1>6 DEF CloseRunning, Settle, Restrict
  <2> QED
    BY <1>1, <2>1, StopsStay
<1>7. ASSUME running' = running, failed' = failed PROVE StopsTrail /\ FailsOverStop
  BY <1>1, <1>7, StopsStay
<1>8. CASE EngineCalls
  BY <1>2, <1>3, <1>8 DEF EngineCalls
<1>9. CASE OperatorCalls
  <2>1. ASSUME NEW id \in DOMAIN running, IsolatedOrderClose(id) PROVE StopsTrail /\ FailsOverStop
    <3>1. {id} \cap DOMAIN running \in SUBSET DOMAIN running
      OBVIOUS
    <3> QED
      BY <1>6, <2>1, <3>1 DEF IsolatedOrderClose
  <2>2. ASSUME NEW side \in Sides, IsolatedOrderCloseSide(side) PROVE StopsTrail /\ FailsOverStop
    <3>1. {i \in DOMAIN running : running[i].side = side} \in SUBSET DOMAIN running
      OBVIOUS
    <3> QED
      BY <1>6, <2>2, <3>1 DEF IsolatedOrderCloseSide
  <2>3. ASSUME IsolatedOrderCloseAll PROVE StopsTrail /\ FailsOverStop
    BY <1>6, <2>3 DEF IsolatedOrderCloseAll
  <2>4. ASSUME \/ \E amount \in Transfers : CrossDeposit(amount) \/ CrossWithdraw(amount)
               \/ \E leverage \in Leverages : CrossSetLeverage(leverage)
               \/ \E side \in Sides, q \in Quantities : CrossOrder(side, q)
               \/ CrossOrderClosePosition
        PROVE  running' = running /\ failed' = failed
    BY <2>4 DEF CrossDeposit, CrossWithdraw, CrossSetLeverage, CrossOrder,
                CrossOrderClosePosition, isolated
  <2> QED
    BY <1>4, <1>5, <1>7, <1>9, <1>11, <2>1, <2>2, <2>3, <2>4 DEF OperatorCalls
<1>10. CASE UNCHANGED vars
  BY <1>7, <1>10 DEF vars
<1> QED
  BY <1>8, <1>9, <1>10 DEF Next

-----------------------------------------------------------------------------
(* The estimates that no rounding of the contract can upset.               *)

LEMMA LimitsHold == Inv => LimitsAgree
<1> SUFFICES ASSUME Inv, NEW i \in DOMAIN running
             PROVE  LET t == running[i]
                        after(amount) == MarginValid(t.quantity, t.price, t.margin + amount)
                        more == EstMaxAdditionalMargin(t)
                        less == EstMaxCashIn(t, market)
                    IN /\ after(more) /\ ~after(more + 1)
                       /\ EstPl(t, market) <= 0 => after(- less) /\ ~after(- less - 1)
  BY DEF LimitsAgree
<1> DEFINE t == running[i]
           min == MinMargin(t.quantity, t.price)
           max == MaxMargin(t.quantity, t.price)
           pl == EstPl(t, market)
<1>1. /\ t.margin \in Nat /\ min \in Nat /\ max \in Nat /\ min <= max
      /\ min <= t.margin /\ t.margin <= max /\ pl \in Int
  <2>1. /\ t \in Trades /\ MarginValid(t.quantity, t.price, t.margin) /\ market \in Prices
    BY DEF Inv, Isolated, Account, Sound
  <2>2. /\ t.margin \in Nat /\ t.side \in Sides /\ t.quantity \in Quantities /\ t.price \in Prices
    BY <2>1, WorthIs
  <2>3. min \in Nat /\ max \in Nat /\ min <= max /\ pl \in Int
    BY <2>1, <2>2, MarginAssumption, PlAssumption DEF EstPl
  <2> QED
    BY <2>1, <2>2, <2>3 DEF MarginValid
<1>2. /\ EstMaxAdditionalMargin(t) = Higher(0, max - t.margin)
      /\ EstMaxCashIn(t, market) = Higher(0, pl) + Higher(0, t.margin - min)
      /\ \A n \in Int : MarginValid(t.quantity, t.price, n) <=> min <= n /\ n <= max
  BY DEF EstMaxAdditionalMargin, EstMaxCashIn, MarginValid
<1> DEFINE more == EstMaxAdditionalMargin(t)
           less == EstMaxCashIn(t, market)
<1>3. more = max - t.margin /\ (pl <= 0 => less = t.margin - min) /\ less \in Int
  <2> HIDE DEF t, min, max, pl
  <2> QED
    BY <1>1, <1>2 DEF Higher
<1> HIDE DEF t, min, max, pl, more, less
<1>4. MarginValid(t.quantity, t.price, t.margin + more)
  BY <1>1, <1>2, <1>3
<1>5. ~MarginValid(t.quantity, t.price, t.margin + (more + 1))
  BY <1>1, <1>2, <1>3
<1>6. pl <= 0 => /\ MarginValid(t.quantity, t.price, t.margin + (- less))
                 /\ ~MarginValid(t.quantity, t.price, t.margin + (- less - 1))
  BY <1>1, <1>2, <1>3
<1> QED
  BY <1>4, <1>5, <1>6 DEF t, pl, more, less

\* What an order makes of an account, field by field.
LEMMA FilledFields ==
  ASSUME NEW x \in Positions, NEW side, NEW q, NEW entry, NEW margin, NEW fee, NEW pl
  PROVE  LET y == Filled(x, side, q, entry, margin, fee, pl)
         IN  /\ y.side = side /\ y.quantity = q /\ y.entry = entry /\ y.margin = margin
             /\ y.fees = x.fees + fee /\ y.leverage = x.leverage
BY DEF Filled, Positions

\* The size of the one order that turns an account into another exposure is one an order may have.
LEMMA DeltaIs ==
  ASSUME NEW x \in Positions, NEW side \in Sides, NEW q \in Quantities, Delta(x, side, q) # 0
  PROVE  LET d == Delta(x, side, q)
             other == IF side = Buy THEN Sell ELSE Buy
         IN  /\ Neutral(x) => Size(d) = q
             /\ ~Neutral(x) /\ x.side # side => Size(d) = q + x.quantity
             /\ ~Neutral(x) /\ x.side = side /\ q > x.quantity => Size(d) = q - x.quantity
             /\ ~Neutral(x) /\ x.side = side => q # x.quantity
             /\ ~Neutral(x) /\ x.side = side /\ q < x.quantity => Size(d) = x.quantity - q
             /\ (IF d > 0 THEN Buy ELSE Sell) =
                  IF ~Neutral(x) /\ x.side = side /\ q < x.quantity THEN other ELSE side
             /\ Size(d) \in Sizes
<1> DEFINE d == Delta(x, side, q)
<1>1. /\ q \in Nat /\ q > 0 /\ x.quantity \in Nat /\ x.side \in {Buy, Sell} /\ side \in {Buy, Sell}
      /\ Buy # Sell /\ (Neutral(x) <=> x.quantity = 0)
  BY SidesAre, QuantityAssumption DEF Sides, Buy, Sell, Neutral
<1>2. d = (IF side = Buy THEN q ELSE - q) - (IF x.side = Buy THEN x.quantity ELSE - x.quantity)
  BY DEF Delta, Signed
<1> HIDE DEF d
<1>3. /\ Neutral(x) => Size(d) = q
      /\ ~Neutral(x) /\ x.side # side => Size(d) = q + x.quantity
      /\ ~Neutral(x) /\ x.side = side /\ q > x.quantity => Size(d) = q - x.quantity
      /\ ~Neutral(x) /\ x.side = side => q # x.quantity
      /\ ~Neutral(x) /\ x.side = side /\ q < x.quantity => Size(d) = x.quantity - q
  <2>1. d # 0
    BY DEF d
  <2> QED
    BY <1>1, <1>2, <2>1 DEF Size
<1>4. (IF d > 0 THEN Buy ELSE Sell) =
        IF ~Neutral(x) /\ x.side = side /\ q < x.quantity
        THEN IF side = Buy THEN Sell ELSE Buy ELSE side
  <2>1. d # 0
    BY DEF d
  <2> QED
    BY <1>1, <1>2, <2>1
<1>5. ~Neutral(x) => x.quantity \in Quantities
  BY SidesAre DEF Neutral
<1>6. Size(d) \in Sizes
  <2>1. CASE Neutral(x)
    BY <1>3, <2>1 DEF Sizes
  <2>2. CASE ~Neutral(x) /\ x.side # side
    BY <1>3, <1>5, <2>2 DEF Sizes
  <2>3. CASE ~Neutral(x) /\ x.side = side
    <3>1. CASE q > x.quantity
      <4>1. q - x.quantity \in {r - s : r, s \in Quantities} /\ q - x.quantity > 0
        BY <1>1, <1>5, <2>3, <3>1
      <4> QED
        BY <1>3, <2>3, <3>1, <4>1 DEF Sizes
    <3>2. CASE q < x.quantity
      <4>1. x.quantity - q \in {r - s : r, s \in Quantities} /\ x.quantity - q > 0
        BY <1>1, <1>5, <2>3, <3>2
      <4> QED
        BY <1>3, <2>3, <3>2, <4>1 DEF Sizes
    <3> QED
      BY <1>1, <1>3, <2>3, <3>1, <3>2
  <2> QED
    BY <2>1, <2>2, <2>3
<1> QED
  BY <1>3, <1>4, <1>6 DEF d

LEMMA OrderIsEstimated ==
  ASSUME NEW x \in Positions, ~Neutral(x) => x.entry \in Prices, NEW price \in Prices, NEW side \in Sides, NEW q \in Quantities,
         Delta(x, side, q) # 0,
         EstFee(x, side, q, price) <= Lower(x.margin, EstMargin(x, side, q, price))
  PROVE  LET d == Delta(x, side, q)
             y == MarketOrder(x, price, IF d > 0 THEN Buy ELSE Sell, Size(d))
         IN  /\ y.side = side /\ y.quantity = q
             /\ y.entry = EstEntryPrice(x, side, q, price)
             /\ y.margin = EstMargin(x, side, q, price) - EstFee(x, side, q, price)
             /\ y.fees = x.fees + EstFee(x, side, q, price) /\ y.leverage = x.leverage
<1> DEFINE d == Delta(x, side, q)
           n == Size(d)
           other == IF side = Buy THEN Sell ELSE Buy
           way == IF d > 0 THEN Buy ELSE Sell
           y == MarketOrder(x, price, way, n)
           fee == EstFee(x, side, q, price)
           margin == EstMargin(x, side, q, price)
           entry == EstEntryPrice(x, side, q, price)
           paid == ApplyAmount(x.margin, - fee)
<1>1. /\ x \in Positions /\ x.margin \in Nat /\ x.quantity \in Nat /\ x.side \in {Buy, Sell}
      /\ q \in Nat /\ q > 0 /\ side \in {Buy, Sell} /\ Buy # Sell
      /\ ~Neutral(x) => x.quantity \in Quantities /\ x.entry \in Prices
      /\ (Neutral(x) <=> x.quantity = 0)
  BY SidesAre, QuantityAssumption DEF Sides, Buy, Sell, Neutral
<1>2. /\ Neutral(x) => n = q
      /\ ~Neutral(x) /\ x.side # side => n = q + x.quantity
      /\ ~Neutral(x) /\ x.side = side /\ q > x.quantity => n = q - x.quantity
      /\ ~Neutral(x) /\ x.side = side => q # x.quantity
      /\ ~Neutral(x) /\ x.side = side /\ q < x.quantity => n = x.quantity - q
      /\ way = IF ~Neutral(x) /\ x.side = side /\ q < x.quantity THEN other ELSE side
      /\ n \in Sizes
  BY <1>1, DeltaIs
<1> HIDE DEF n, way
<1>3. fee = OrderFee(n, price) /\ fee \in Nat
  BY <1>2, OrderAssumption DEF EstFee, n
<1>4. EstRunningPl(x, price) \in Int
  BY <1>1, PlAssumption DEF EstRunningPl, Sides
<1>5. ~Neutral(x) => Pl(x.side, n, x.entry, price) \in Int
  BY <1>1, <1>2, OrderAssumption DEF Sides
<1> DEFINE pl == EstRunningPl(x, price)
           part == Pl(x.side, n, x.entry, price)
<1> HIDE DEF fee
<1>6. margin \in Int /\ fee <= x.margin /\ fee <= margin
  <2>1. margin \in Int
    <3>1. CASE Neutral(x) \/ (x.side = side /\ q >= x.quantity)
      BY <1>1, <3>1 DEF EstMargin
    <3>2. CASE ~Neutral(x) /\ x.side # side
      BY <1>1, <1>4, <3>2 DEF EstMargin
    <3>3. CASE ~Neutral(x) /\ x.side = side /\ q < x.quantity
      <4>1. margin = x.margin + Higher(0, part)
        BY <1>1, <1>2, <3>3 DEF EstMargin
      <4> QED
        BY <1>1, <1>5, <3>3, <4>1 DEF Higher
    <3> QED
      BY <1>1, <3>1, <3>2, <3>3
  <2>2. fee <= Lower(x.margin, margin)
    BY DEF fee
  <2> HIDE DEF margin
  <2> QED
    BY <1>1, <1>3, <2>1, <2>2 DEF Lower
<1>7. paid = x.margin - fee /\ paid \in Nat
  BY <1>1, <1>3, <1>6 DEF ApplyAmount, Higher
<1> HIDE DEF paid
<1>8. CASE Neutral(x)
  <2>1. y = Filled(x, side, x.quantity + n, price, paid, fee, 0)
    BY <1>2, <1>3, <1>8 DEF MarketOrder, Increased, paid
  <2>2. x.quantity + n = q /\ margin = x.margin /\ entry = price
    BY <1>1, <1>2, <1>8 DEF EstMargin, EstEntryPrice
  <2> HIDE DEF y, margin, entry
  <2>3. y.side = side /\ y.quantity = q /\ y.entry = entry /\ y.margin = margin - fee /\ y.fees = x.fees + fee
         /\ y.leverage = x.leverage
    BY <1>1, <1>7, <2>1, <2>2, FilledFields
  <2> QED
    BY <2>3 DEF y, margin, entry, fee, n, way
<1>9. CASE ~Neutral(x) /\ x.side # side
  <2>1. y = Filled(x, side, n - x.quantity, price, ApplyAmount(paid, pl), fee, pl)
    <3>1. way = side /\ n > x.quantity /\ n # x.quantity /\ ~(n < x.quantity)
      BY <1>1, <1>2, <1>9
    <3>2. y = Reversed(x, price, side, n)
      BY <1>9, <3>1 DEF MarketOrder
    <3> QED
      BY <1>3, <3>2 DEF Reversed, paid
  <2>2. n - x.quantity = q /\ margin = x.margin + pl /\ entry = price
    BY <1>1, <1>2, <1>9 DEF EstMargin, EstEntryPrice
  <2> HIDE DEF y, margin, entry, pl
  <2>3. ApplyAmount(paid, pl) = margin - fee
    BY <1>1, <1>3, <1>4, <1>6, <1>7, <2>2 DEF ApplyAmount, Higher, pl
  <2>4. y.side = side /\ y.quantity = q /\ y.entry = entry /\ y.margin = margin - fee /\ y.fees = x.fees + fee
         /\ y.leverage = x.leverage
    BY <1>1, <2>1, <2>2, <2>3, FilledFields
  <2> QED
    BY <2>4 DEF y, margin, entry, fee, n, way
<1>10. CASE ~Neutral(x) /\ x.side = side /\ q > x.quantity
  <2>1. y = Filled(x, side, x.quantity + n, AggregateEntry(x.quantity, x.entry, n, price), paid, fee, 0)
    <3>1. way = side
      BY <1>1, <1>2, <1>10
    <3> QED
      BY <1>3, <1>10, <3>1 DEF MarketOrder, Increased, paid
  <2>2. /\ x.quantity + n = q /\ margin = x.margin
        /\ entry = AggregateEntry(x.quantity, x.entry, n, price)
    BY <1>1, <1>2, <1>10 DEF EstMargin, EstEntryPrice
  <2> HIDE DEF y, margin, entry
  <2>3. y.side = side /\ y.quantity = q /\ y.entry = entry /\ y.margin = margin - fee /\ y.fees = x.fees + fee
         /\ y.leverage = x.leverage
    BY <1>1, <1>7, <2>1, <2>2, FilledFields
  <2> QED
    BY <2>3 DEF y, margin, entry, fee, n, way
<1>11. CASE ~Neutral(x) /\ x.side = side /\ q < x.quantity
  <2> DEFINE rest == x.quantity - n
             carried == EntryFor(side, q, price, pl)
  <2>1. /\ way # x.side /\ n < x.quantity /\ n # x.quantity /\ ~(n > x.quantity) /\ rest = q
        /\ part = Pl(side, x.quantity - q, x.entry, price)
    BY <1>1, <1>2, <1>11
  <2>2. y = IF part >= 0
            THEN Filled(x, side, q, x.entry, ApplyAmount(paid, part), fee, part)
            ELSE Filled(x, side, q, carried, paid, fee, 0)
    <3>1. y = Reduced(x, price, n)
      BY <1>11, <2>1 DEF MarketOrder
    <3> QED
      BY <1>3, <1>11, <2>1, <3>1 DEF Reduced, paid
  <2>3. /\ margin = x.margin + Higher(0, part)
        /\ entry = IF part >= 0 THEN x.entry ELSE carried
    BY <1>1, <1>11, <2>1 DEF EstMargin, EstEntryPrice
  <2> HIDE DEF y, margin, entry, part, carried
  <2>4. /\ part >= 0 => ApplyAmount(paid, part) = margin - fee
        /\ ~(part >= 0) => paid = margin - fee
    BY <1>1, <1>3, <1>5, <1>7, <1>11, <2>3 DEF ApplyAmount, Higher, part
  <2>5. y.side = side /\ y.quantity = q /\ y.entry = entry /\ y.margin = margin - fee /\ y.fees = x.fees + fee
         /\ y.leverage = x.leverage
    BY <1>1, <2>2, <2>3, <2>4, FilledFields
  <2> QED
    BY <2>5 DEF y, margin, entry, fee, n, way
<1> QED
  BY <1>1, <1>2, <1>8, <1>9, <1>10, <1>11

LEMMA OrdersHold == Inv => OrderEstimated
BY OrderIsEstimated DEF Inv, Account, Whole, OrderEstimated

\* An amount more in the margin changes none of the other estimates.
LEMMA MarginOnly ==
  ASSUME NEW x \in Positions, NEW diff \in Int, NEW price, NEW side, NEW q
  PROVE  LET y == [x EXCEPT !.margin = @ + diff]
         IN  /\ y.margin = x.margin + diff /\ y.leverage = x.leverage
             /\ y.side = x.side /\ y.quantity = x.quantity /\ y.entry = x.entry
             /\ Delta(y, side, q) = Delta(x, side, q)
             /\ EstFee(y, side, q, price) = EstFee(x, side, q, price)
             /\ EstEntryPrice(y, side, q, price) = EstEntryPrice(x, side, q, price)
             /\ Neutral(y) = Neutral(x)
<1> DEFINE y == [x EXCEPT !.margin = @ + diff]
<1>1. /\ y.margin = x.margin + diff /\ y.leverage = x.leverage
      /\ y.side = x.side /\ y.quantity = x.quantity /\ y.entry = x.entry
  BY DEF Positions
<1> HIDE DEF y
<1>2. Neutral(y) = Neutral(x) /\ EstRunningPl(y, price) = EstRunningPl(x, price)
  BY <1>1 DEF Neutral, EstRunningPl
<1>3. Delta(y, side, q) = Delta(x, side, q)
  BY <1>1 DEF Delta
<1>4. EstFee(y, side, q, price) = EstFee(x, side, q, price)
  BY <1>3 DEF EstFee
<1>5. EstEntryPrice(y, side, q, price) = EstEntryPrice(x, side, q, price)
  BY <1>1, <1>2 DEF EstEntryPrice
<1> QED
  BY <1>1, <1>2, <1>3, <1>4, <1>5 DEF y

\* What the estimates are about: numbers, and a price.
LEMMA EstimatesAre ==
  ASSUME NEW x \in Positions, ~Neutral(x) => x.entry \in Prices,
         NEW price \in Prices, NEW side \in Sides, NEW q \in Quantities
  PROVE  /\ EstEntryPrice(x, side, q, price) \in Prices
         /\ EstFee(x, side, q, price) \in Nat
         /\ EstMargin(x, side, q, price) \in Int
<1>1. /\ x.quantity \in Nat /\ q \in Nat /\ x.margin \in Nat /\ x.side \in Sides
      /\ ~Neutral(x) => x.quantity \in Quantities
      /\ x.quantity \in Quantities \cup {0}
  BY SidesAre, QuantityAssumption DEF Neutral
<1>2. EstRunningPl(x, price) \in Int
  BY <1>1, PlAssumption DEF EstRunningPl
<1>3. EstFee(x, side, q, price) \in Nat
  <2>1. CASE Delta(x, side, q) = 0
    BY <2>1 DEF EstFee
  <2>2. CASE Delta(x, side, q) # 0
    <3>1. Size(Delta(x, side, q)) \in Sizes
      BY <2>2, DeltaIs
    <3> QED
      BY <2>2, <3>1, OrderAssumption DEF EstFee
  <2> QED
    BY <2>1, <2>2
<1>4. CASE Neutral(x) \/ x.side # side
  <2>1. EstEntryPrice(x, side, q, price) = price
    BY <1>4 DEF EstEntryPrice
  <2>2. EstMargin(x, side, q, price) \in Int
    BY <1>1, <1>2, <1>4 DEF EstMargin
  <2> QED
    BY <1>3, <2>1, <2>2
<1>5. CASE ~Neutral(x) /\ x.side = side /\ q > x.quantity
  <2>1. EstEntryPrice(x, side, q, price) = AggregateEntry(x.quantity, x.entry, q - x.quantity, price)
    BY <1>1, <1>5 DEF EstEntryPrice
  <2>2. AggregateEntry(x.quantity, x.entry, q - x.quantity, price) \in Prices
    <3>1. q - x.quantity \in {r - s : r, s \in Quantities} /\ q - x.quantity > 0
      BY <1>1, <1>5
    <3>2. q - x.quantity \in Sizes
      BY <3>1 DEF Sizes
    <3> QED
      BY <1>1, <1>5, <3>2, EntryAssumption
  <2>3. EstMargin(x, side, q, price) = x.margin
    BY <1>1, <1>5 DEF EstMargin
  <2> QED
    BY <1>1, <1>3, <2>1, <2>2, <2>3
<1>6. CASE ~Neutral(x) /\ x.side = side /\ q = x.quantity
  <2>1. EstEntryPrice(x, side, q, price) = x.entry
    BY <1>1, <1>6 DEF EstEntryPrice
  <2>2. EstMargin(x, side, q, price) = x.margin
    BY <1>1, <1>6 DEF EstMargin
  <2> QED
    BY <1>1, <1>3, <1>6, <2>1, <2>2
<1>7. CASE ~Neutral(x) /\ x.side = side /\ q < x.quantity
  <2> DEFINE part == Pl(side, x.quantity - q, x.entry, price)
  <2>1. part \in Int
    <3>1. x.quantity - q \in {r - s : r, s \in Quantities} /\ x.quantity - q > 0
      BY <1>1, <1>7
    <3>2. x.quantity - q \in Sizes
      BY <3>1 DEF Sizes
    <3> QED
      BY <1>7, <3>2, OrderAssumption
  <2>2. EstEntryPrice(x, side, q, price) =
          IF part >= 0 THEN x.entry ELSE EntryFor(side, q, price, EstRunningPl(x, price))
    BY <1>1, <1>7 DEF EstEntryPrice
  <2>3. EntryFor(side, q, price, EstRunningPl(x, price)) \in Prices
    <3>1. EstRunningPl(x, price) = Pl(side, x.quantity, x.entry, price)
      BY <1>7 DEF EstRunningPl
    <3> QED
      BY <1>1, <1>7, <3>1, EntryAssumption
  <2>4. EstMargin(x, side, q, price) = x.margin + Higher(0, part)
    BY <1>1, <1>7 DEF EstMargin
  <2> HIDE DEF part
  <2>5. x.margin + Higher(0, part) \in Int
    BY <1>1, <2>1 DEF Higher
  <2> QED
    BY <1>3, <1>7, <2>2, <2>3, <2>4, <2>5
<1> QED
  BY <1>1, <1>4, <1>5, <1>6, <1>7

\* The collateral that is estimated for a liquidation is enough for it, and for a valid position.
LEMMA CollateralIsEstimated ==
  ASSUME CollateralSuffices(Nat),
         NEW x, Whole(x), NEW price \in Prices, NEW side \in Sides, NEW q \in Quantities,
         NEW liq \in Prices, IF side = Buy THEN liq < price ELSE liq > price,
         NEW diff, diff = EstCollateralDiff(x, side, q, price, liq),
         NEW given, given = [x EXCEPT !.margin = @ + diff],
         EstFee(x, side, q, price) <= Lower(given.margin, EstMargin(given, side, q, price)),
         NEW y, y = IF Delta(x, side, q) = 0 THEN given
                    ELSE MarketOrder(given, price, IF Delta(x, side, q) > 0 THEN Buy ELSE Sell,
                                     Size(Delta(x, side, q)))
  PROVE  /\ Valid(y)
         /\ IF side = Buy THEN LiquidationPrice(y) <= liq ELSE LiquidationPrice(y) >= liq
<1> DEFINE fee == EstFee(x, side, q, price)
           entry == EstEntryPrice(x, side, q, price)
           margin == EstMargin(x, side, q, price)
           held == EstMargin(given, side, q, price)
           initial == InitialMargin(q, entry, x.leverage)
           maintenance == CrossMaintenance(q, entry)
           pl == Pl(side, q, entry, price)
           collateral == CollateralFor(side, q, price, liq)
<1>1. /\ x \in Positions /\ x.margin \in Nat /\ x.quantity \in Nat /\ x.side \in Sides
      /\ x.leverage \in Leverages \cup {MinLeverage} /\ q \in Nat /\ q > 0
      /\ ~Neutral(x) => x.entry \in Prices
  BY SidesAre, QuantityAssumption DEF Whole
<1>2. entry \in Prices /\ fee \in Nat /\ margin \in Int
  BY <1>1, EstimatesAre
<1> HIDE DEF fee, entry, margin
<1>3. /\ initial \in Nat /\ maintenance \in Nat
      /\ pl \in Int /\ collateral \in Nat
  BY <1>1, <1>2, ReserveAssumption, PlAssumption DEF CollateralSuffices
<1>4. diff = Higher((collateral + maintenance) - ((margin - fee) + pl),
                    (initial + maintenance + 1) - (margin - fee))
  BY DEF EstCollateralDiff, fee, entry, margin
<1> HIDE DEF initial, maintenance, pl, collateral
<1>5. /\ diff \in Int
      /\ margin - fee + diff > initial + maintenance
      /\ (margin - fee + diff) - maintenance + pl >= collateral
  BY <1>2, <1>3, <1>4 DEF Higher
<1>6. /\ given.margin = x.margin + diff /\ given.leverage = x.leverage
      /\ given.side = x.side /\ given.quantity = x.quantity /\ given.entry = x.entry
      /\ Delta(given, side, q) = Delta(x, side, q)
      /\ EstFee(given, side, q, price) = fee
      /\ EstEntryPrice(given, side, q, price) = entry
      /\ Neutral(given) = Neutral(x)
  BY <1>1, <1>5, MarginOnly DEF fee, entry
<1>7. held = margin + diff
  <2>1. EstRunningPl(given, price) = EstRunningPl(x, price) /\ EstRunningPl(x, price) \in Int
    BY <1>1, <1>6, SidesAre, PlAssumption DEF EstRunningPl, Neutral
  <2>2. CASE Neutral(x) \/ (x.side = side /\ q >= x.quantity)
    BY <1>1, <1>6, <2>2 DEF EstMargin, margin
  <2>3. CASE ~Neutral(x) /\ x.side # side
    <3>1. margin = x.margin + EstRunningPl(x, price) /\ held = given.margin + EstRunningPl(x, price)
      BY <1>6, <2>1, <2>3 DEF EstMargin, margin
    <3> QED
      BY <1>1, <1>5, <1>6, <2>1, <3>1
  <2>4. CASE ~Neutral(x) /\ x.side = side /\ q < x.quantity
    <3> DEFINE part == Pl(side, x.quantity - q, x.entry, price)
    <3>1. x.quantity - q \in {r - s : r, s \in Quantities} /\ x.quantity - q > 0
      BY <1>1, <2>4, SidesAre DEF Neutral
    <3>2. part \in Int
      BY <1>1, <2>4, <3>1, OrderAssumption DEF Sizes
    <3>3. margin = x.margin + Higher(0, part) /\ held = given.margin + Higher(0, part)
      BY <1>1, <1>6, <2>4 DEF EstMargin, margin
    <3> HIDE DEF part
    <3> QED
      BY <1>1, <1>5, <1>6, <3>2, <3>3 DEF Higher
  <2> QED
    BY <1>1, <2>2, <2>3, <2>4
<1> HIDE DEF held
<1>8. given.margin \in Nat
  <2>1. fee <= Lower(given.margin, held)
    BY DEF fee, held
  <2> QED
    BY <1>1, <1>2, <1>5, <1>6, <1>7, <2>1 DEF Lower
<1>9. given \in Positions
  BY <1>1, <1>5, <1>6, <1>8 DEF Positions
<1>10. /\ y.side = side /\ y.quantity = q /\ y.entry = entry /\ y.leverage = x.leverage
       /\ y.margin = margin - fee + diff
  <2>1. CASE Delta(x, side, q) = 0
    <3>1. x.side = side /\ x.quantity = q
      BY <1>1, <2>1 DEF Delta, Signed, Sides, Buy, Sell
    <3>2. ~Neutral(x)
      BY <1>1, <3>1 DEF Neutral
    <3>3. entry = x.entry /\ margin = x.margin /\ fee = 0
      BY <1>1, <2>1, <3>1, <3>2 DEF EstEntryPrice, EstMargin, EstFee, entry, margin, fee
    <3>4. y = given
      BY <2>1
    <3>5. margin - fee + diff = x.margin + diff
      BY <1>1, <1>5, <3>3
    <3> HIDE DEF fee, entry, margin
    <3> QED
      BY <1>6, <3>1, <3>3, <3>4, <3>5
  <2>2. CASE Delta(x, side, q) # 0
    <3>1. y = MarketOrder(given, price, IF Delta(given, side, q) > 0 THEN Buy ELSE Sell,
                          Size(Delta(given, side, q)))
      BY <1>6, <2>2
    <3>2. EstFee(given, side, q, price) <= Lower(given.margin, EstMargin(given, side, q, price))
      BY <1>6 DEF fee
    <3>3. /\ y.side = side /\ y.quantity = q /\ y.leverage = given.leverage
          /\ y.entry = EstEntryPrice(given, side, q, price)
          /\ y.margin = EstMargin(given, side, q, price) - EstFee(given, side, q, price)
      <4>1. ~Neutral(given) => given.entry \in Prices
        BY <1>1, <1>6
      <4>2. Delta(given, side, q) # 0
        BY <1>6, <2>2
      <4> DEFINE Z(g) == MarketOrder(g, price, IF Delta(g, side, q) > 0 THEN Buy ELSE Sell,
                                     Size(Delta(g, side, q)))
      <4>3. ASSUME NEW g \in Positions, ~Neutral(g) => g.entry \in Prices,
                   Delta(g, side, q) # 0,
                   EstFee(g, side, q, price) <= Lower(g.margin, EstMargin(g, side, q, price))
            PROVE  /\ Z(g).side = side /\ Z(g).quantity = q
                   /\ Z(g).entry = EstEntryPrice(g, side, q, price)
                   /\ Z(g).margin = EstMargin(g, side, q, price) - EstFee(g, side, q, price)
                   /\ Z(g).leverage = g.leverage
        BY <4>3, OrderIsEstimated
      <4> HIDE DEF Z
      <4>4. y = Z(given)
        BY <3>1 DEF Z
      <4> QED
        BY <1>9, <3>2, <4>1, <4>2, <4>3, <4>4
    <3>4. y.margin = held - fee
      BY <1>6, <3>3 DEF held
    <3> QED
      BY <1>2, <1>5, <1>6, <1>7, <3>3, <3>4
  <2> QED
    BY <2>1, <2>2
<1>11. Valid(y)
  <2>1. Running(y) = initial /\ Maintenance(y) = maintenance
    BY <1>1, <1>10 DEF Running, Maintenance, Neutral, initial, maintenance
  <2> QED
    BY <1>5, <1>10, <2>1 DEF Valid
<1>12. LiquidationPrice(y) = Bounded(CrossLiquidation(side, q, entry, y.margin))
  BY <1>10 DEF LiquidationPrice
<1>13. y.margin \in Nat /\ y.margin > maintenance /\ y.margin - maintenance + pl >= collateral
  BY <1>2, <1>3, <1>5, <1>10
<1>14. IF side = Buy THEN Bounded(CrossLiquidation(side, q, entry, y.margin)) <= liq
       ELSE Bounded(CrossLiquidation(side, q, entry, y.margin)) >= liq
  BY <1>2, <1>13 DEF CollateralSuffices, maintenance, pl, collateral
<1> QED
  BY <1>11, <1>12, <1>14

LEMMA CollateralHolds ==
  ASSUME CollateralSuffices(Nat), Inv
  PROVE  CollateralEstimated
<1>1. market \in Prices /\ Whole(cross) /\ cross \in Positions
  BY DEF Inv, Account, Whole
<1> SUFFICES ASSUME NEW side \in Sides, NEW q \in Quantities, NEW c \in Candles
    PROVE  LET liq == IF side = Buy THEN c.low ELSE c.high
               d == Delta(cross, side, q)
               diff == IF d = 0 THEN EstCollateralDiffForLiquidation(cross, market, liq)
                       ELSE EstCollateralDiff(cross, side, q, market, liq)
               given == [cross EXCEPT !.margin = @ + diff]
               x == IF d = 0 THEN given
                    ELSE MarketOrder(given, market, IF d > 0 THEN Buy ELSE Sell, Size(d))
               paid == EstFee(cross, side, q, market)
                         <= Lower(given.margin, EstMargin(given, side, q, market))
           IN IF side = Buy
              THEN liq < market /\ paid => Valid(x) /\ LiquidationPrice(x) <= liq
              ELSE liq > market /\ paid => Valid(x) /\ LiquidationPrice(x) >= liq
  BY DEF CollateralEstimated
<1> DEFINE liq == IF side = Buy THEN c.low ELSE c.high
           d == Delta(cross, side, q)
           diff == IF d = 0 THEN EstCollateralDiffForLiquidation(cross, market, liq)
                   ELSE EstCollateralDiff(cross, side, q, market, liq)
           given == [cross EXCEPT !.margin = @ + diff]
           x == IF d = 0 THEN given
                ELSE MarketOrder(given, market, IF d > 0 THEN Buy ELSE Sell, Size(d))
           paid == EstFee(cross, side, q, market)
                     <= Lower(given.margin, EstMargin(given, side, q, market))
<1>2. liq \in Prices
  BY BacktestAssumption
<1> HIDE DEF liq
<1>3. d = 0 => cross.side = side /\ cross.quantity = q
  BY <1>1, SidesAre, QuantityAssumption DEF Delta, Signed, Sides, Buy, Sell
<1>4. diff = EstCollateralDiff(cross, side, q, market, liq)
  BY <1>3 DEF EstCollateralDiffForLiquidation
<1> HIDE DEF diff
<1>5. ASSUME IF side = Buy THEN liq < market ELSE liq > market, paid
      PROVE  Valid(x) /\ IF side = Buy THEN LiquidationPrice(x) <= liq ELSE LiquidationPrice(x) >= liq
  BY <1>1, <1>2, <1>4, <1>5, CollateralIsEstimated
<1> QED
  BY <1>5 DEF liq, diff

-----------------------------------------------------------------------------
(* Theorems.                                                               *)

THEOREM Invariant == Spec => []Inv
BY InitInv, InvNext, PTL DEF Spec

\* The state of the simulated exchange is well formed after every call: each trade has one
\* number, runs or is closed, and the leverage of its margin is one that is allowed.
THEOREM TypeInvariant == Spec => []TypeOK
BY Invariant, InvTypes, PTL

\* No satoshi appears or vanishes, whatever is opened, topped up, settled, trailed, stopped out and
\* closed, and in whatever order; cash-ins move the books, and the net value that is reported, by no
\* more than the rounding of the entry price is worth.
THEOREM ConservedTheorem == Spec => Conserved
<1> DEFINE Step_ ==
      LET Near(a, b, slack) == a - b \in - slack .. slack
          Cashed(id) == \E amount \in Amounts : CashIn(id, amount)
      IN /\ Missing' # Missing =>
              \E id \in DOMAIN running : Cashed(id) /\ Near(Missing', Missing, SlackOf(id))
         /\ \A id \in DOMAIN running :
              Cashed(id) /\ balance >= 0 => Near(TotalNetValue', TotalNetValue, SlackOf(id))
           Accounts == \E d \in Int : Money(d)
           MissingHere == \A d \in Int : Money(d) => Missing = d
           fees == SumFunction([i \in DOMAIN running |-> running[i].openingFee])
           Reported == RunningMargin \in Int /\ fees \in Int /\ Held(running) = RunningMargin + fees
<1>1. Init => Money(0)
  <2> SUFFICES ASSUME Init PROVE Money(0)
    OBVIOUS
  <2>1. DOMAIN running = {} /\ StartBalance \in Int
    BY BacktestAssumption DEF Init
  <2> DEFINE w == [i \in DOMAIN running |-> Worth(running[i])]
  <2>2. Held(running) = SumFunctionOnSet(w, {})
    BY <2>1, SumIs DEF Held
  <2>3. SumFunctionOnSet(w, {}) = 0
    <3> HIDE DEF w
    <3> QED
      BY SumEmpty
  <2> QED
    BY <2>1, <2>2, <2>3 DEF Init, Money, Booked
<1>2. Init => Accounts /\ Missing = 0
  BY <1>1, InitInv, MissingIs
<1>3. Inv => MissingHere /\ Reported
  BY MissingIs, ReportHolds
<1>4. ASSUME Inv, Inv', Accounts, MissingHere, MissingHere', Reported', [Next]_vars
      PROVE  Accounts' /\ [Step_]_vars
  <2>1. PICK d \in Int : Money(d)
    BY <1>4
  <2>2. CASE Money(d)'
    <3>1. Missing = d /\ Missing' = d
      BY <1>4, <2>1, <2>2
    <3> QED
      BY <1>4, <2>1, <2>2, <3>1, CashInNet DEF Money
  <2>3. ASSUME NEW id \in DOMAIN running, NEW amount \in Amounts, CashIn(id, amount),
               NEW e \in Int, Money(e)', e - d \in - SlackOf(id) .. SlackOf(id)
        PROVE  Accounts' /\ Step_
    <3>1. Missing = d /\ Missing' = e
      BY <1>4, <2>1, <2>3
    <3> QED
      BY <1>4, <2>1, <2>3, <3>1, CashInNet DEF Money
  <2> QED
    BY <1>4, <2>1, <2>2, <2>3, MoneyNext
<1>5. Spec => Missing = 0 /\ [][Step_]_vars
  <2> HIDE DEF Step_, Accounts, MissingHere, Reported
  <2> QED
    BY <1>2, <1>3, <1>4, Invariant, PTL DEF Spec
<1> QED
  BY <1>5 DEF Conserved, SlackOf

\* The one price test of a candle misses no trade, for any contract, orders and prices, and in
\* whatever order trades are opened, topped up, settled, trailed and closed.
THEOREM TriggerTheorem == Spec => []TriggerCovers
<1>1. Inv => TriggerCovers
  BY DEF Inv, Isolated
<1> QED
  BY <1>1, Invariant, PTL

\* A candle leaves no trade running whose stop or takeprofit it reached, and no cross position
\* whose liquidation it reached.
THEOREM RangeTheorem == Spec => RangeIsHonoured
<1> DEFINE Honours ==
      \A c \in Candles : CandleUpdate(c) /\ ~failed' =>
        /\ \A i \in DOMAIN running' \ moved :
             ~StopReached(running[i], c.low, c.high) /\ ~ProfitReached(running[i], c.low, c.high)
        /\ CrossLiquidated(cross, c.low, c.high) => Neutral(cross')
<1>1. Inv /\ [Next]_vars => [Honours]_vars
  BY CandleStep
<1>2. Spec => [][Honours]_vars
  <2> HIDE DEF Honours
  <2> QED
    BY <1>1, Invariant, PTL DEF Spec
<1> QED
  BY <1>2 DEF RangeIsHonoured

\* A stop moves in the favourable direction or not at all, whatever the percentages and the
\* rounding, and to where the live session would move it, unless a cash-in drops it because its
\* liquidation has passed it; a candle or a settlement that ends a backtest does so over a trailing
\* trade that has lost its stop so, or, a candle, over one whose liquidation has passed its stop.
THEOREM TrailsTheorem == Spec => TrailsForward
<1>1. Inv /\ [Next]_vars => [StopsTrail /\ FailsOverStop]_vars
  BY TrailsNext
<1>2. Spec => [][StopsTrail /\ FailsOverStop]_vars
  BY <1>1, Invariant, PTL DEF Spec
<1> QED
  BY <1>2 DEF TrailsForward

\* The entry price, margin and fee that the cross account promises for a target exposure are
\* those its order gives it, and the limits on added margin and cash-ins are exact, whatever the
\* contract: these estimates are the order's own arithmetic.
THEOREM EstimatesTheorem == Spec => [](OrderEstimated /\ LimitsAgree)
BY Invariant, OrdersHold, LimitsHold, PTL

\* With a contract whose collateral for a liquidation suffices, the third estimate holds too:
\* after the deposit or the withdrawal that is estimated, whatever the position was and however the
\* order gets to the target, it is valid and liquidated at that price or farther.
THEOREM CollateralTheorem ==
  ASSUME CollateralSuffices(Nat)
  PROVE  Spec => []EstimatesAgree
<1>1. Inv => EstimatesAgree
  BY OrdersHold, CollateralHolds, LimitsHold DEF EstimatesAgree
<1> QED
  BY <1>1, Invariant, PTL

\* The cross account loses no satoshi and is forgiven none but where CrossAccounted says so.
THEOREM CrossTheorem == Spec => CrossAccounted
<1>1. Spec => [][FairlyDropped]_vars
  BY InvNext, Invariant, PTL DEF Spec
<1> QED
  BY <1>1 DEF CrossAccounted, FairlyDropped
=============================================================================
