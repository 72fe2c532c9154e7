--------------------------- MODULE LiveTradeProofs --------------------------
(***************************************************************************)
(* Two components of live trading, for every value of their constants: the *)
(* money of a session (LiveAccount: trades, amounts, requests of any kind) *)
(* and what a shutdown answered with Ok says of the process (LiveProcess:  *)
(* channels of every capacity, any number of failures).                    *)
(***************************************************************************)
EXTENDS LiveAccount, LiveProcess, SetLemmas, TLAPS

-----------------------------------------------------------------------------
(* The operators of the session.                                           *)

CrossTypes == [margin: Int, fees: Nat, funding: Int, open: BOOLEAN]

RowTypes == [margin: Int, cashed: Nat]

\* The amounts of the constants.
LEMMA AmountsAre ==
  /\ IsFiniteSet(Trades) /\ \A S \in SUBSET Trades : IsFiniteSet(S)
  /\ Margin \in Nat /\ Margin > 0 /\ Fee \in Nat /\ Fee > 0 /\ Start \in Nat
  /\ \A a \in Deposits : a \in Nat /\ a > 0
  /\ \A r \in Results : r \in Int
  /\ MaxOps \in Nat /\ MaxMoves \in Nat
<1>1. IsFiniteSet(Trades)
  BY AmountsAssumption
<1>2. \A S \in SUBSET Trades : IsFiniteSet(S)
  BY <1>1, FS_Subset
<1> QED
  BY <1>1, <1>2, AmountsAssumption

\* A balance is cut off at zero.
LEMMA AtLeastZeroIs ==
  ASSUME NEW n \in Int
  PROVE  AtLeastZero(n) \in Nat /\ (n >= 0 => AtLeastZero(n) = n)
<1> DEFINE zero == 0
           S == {zero, n}
<1>1. S \in SUBSET Int /\ IsFiniteSet(S) /\ S # {}
  <2>1. IsFiniteSet({zero}) /\ IsFiniteSet({n})
    BY FS_Singleton
  <2>2. S = {zero} \cup {n}
    OBVIOUS
  <2> HIDE DEF zero
  <2>3. IsFiniteSet({zero} \cup {n})
    BY <2>1, FS_Union
  <2>4. zero \in Int
    BY DEF zero
  <2> QED
    BY <2>2, <2>3, <2>4
<1>2. Max(S) \in S /\ \A x \in S : x <= Max(S)
  <2> HIDE DEF S
  <2> QED
    BY <1>1, MaxIs
<1> QED
  BY <1>2 DEF AtLeastZero

\* The fields of a session.
LEMMA SessionFields ==
  ASSUME NEW D, NEW s \in Session(D)
  PROVE  /\ s.balance \in Nat /\ s.closed \in SUBSET Trades /\ s.pl \in Int /\ s.cross \in View
         /\ s.expired \in BOOLEAN /\ s.known \in BOOLEAN
         /\ s.running \in [D -> RowTypes] /\ DOMAIN s.running = D
         /\ \A t \in D : s.running[t].margin \in Int /\ s.running[t].cashed \in Nat
BY DEF Session, RowTypes

\* The types of the parts of a session, as sets of records.
LEMMA TypesAre ==
  ASSUME AccountTypeOK
  PROVE  /\ free \in Nat /\ exch \in [Trades -> Trade] /\ cross \in CrossTypes
         /\ Registered \in SUBSET Trades /\ sess \in Session(Registered)
         /\ DOMAIN work.running \in SUBSET Trades /\ work \in Session(DOMAIN work.running)
         /\ paid \in Int /\ earned \in Int /\ seen \in SUBSET Trades
         /\ \A t \in Trades : /\ exch[t] \in Trade /\ exch[t].margin \in Int
                              /\ exch[t].cashed \in Nat /\ exch[t].pl \in Int
                              /\ exch[t].state \in {"none", "running", "closed"}
         /\ cross.margin \in Int /\ cross.fees \in Nat /\ cross.funding \in Int
BY DEF AccountTypeOK, CrossTypes, Registered, Trade

\* Before the first session there is an empty one.
LEMMA NoSessionType == NoSession \in Session({}) /\ DOMAIN NoSession.running = {}
BY DEF NoSession, NoView, Session, View

\* A trade that a session registers.
LEMMA RegisteringIs ==
  ASSUME NEW D \in SUBSET Trades, NEW s \in Session(D), NEW t \in Trades,
         exch' \in [Trades -> Trade]
  PROVE  LET r == Registering(s, t)
         IN /\ r \in Session(D \cup {t})
            /\ r.balance = AtLeastZero(AtLeastZero(s.balance - exch'[t].margin) - Fee)
            /\ r.running = [u \in D \cup {t} |->
                              IF u = t THEN [margin |-> exch'[t].margin, cashed |-> exch'[t].cashed]
                              ELSE s.running[u]]
            /\ r.closed = s.closed /\ r.pl = s.pl /\ r.cross = s.cross
            /\ r.expired = s.expired /\ r.known = s.known
<1>1. /\ s.balance \in Nat /\ Fee \in Nat
      /\ exch'[t].margin \in Int /\ exch'[t].cashed \in Nat /\ DOMAIN s.running = D
  BY AmountsAre, SessionFields DEF Trade
<1> DEFINE b == AtLeastZero(AtLeastZero(s.balance - exch'[t].margin) - Fee)
           row == [margin |-> exch'[t].margin, cashed |-> exch'[t].cashed]
           run == [u \in D \cup {t} |-> IF u = t THEN row ELSE s.running[u]]
<1>2. b \in Nat
  <2>1. s.balance - exch'[t].margin \in Int
    BY <1>1
  <2>2. AtLeastZero(s.balance - exch'[t].margin) - Fee \in Int
    BY <1>1, <2>1, AtLeastZeroIs
  <2> QED
    BY <2>2, AtLeastZeroIs
<1>3. run \in [D \cup {t} -> RowTypes]
  BY <1>1, SessionFields DEF RowTypes
<1>4. Registering(s, t) = [s EXCEPT !.balance = b, !.running = run]
  BY <1>1 DEF Registering, Shown
<1> HIDE DEF b, run
<1>5. Registering(s, t) \in Session(D \cup {t})
  BY <1>2, <1>3, <1>4 DEF Session, RowTypes
<1> QED
  BY <1>4, <1>5 DEF Session, b, run

\* Trades of which a session s learns anew from exchange x: what is freed and what was cashed in.
FreedBy(s, x, S) ==
  [t \in S |-> s.running[t].margin + (x[t].cashed - s.running[t].cashed) - x[t].margin]

CashedBy(s, x, S) == [t \in S |-> x[t].cashed - s.running[t].cashed]

\* The session that takes over what the exchange says of the trades S.
LEMMA UpdatingIs ==
  ASSUME NEW D \in SUBSET Trades, NEW s \in Session(D), NEW S \in SUBSET D,
         exch' \in [Trades -> Trade]
  PROVE  LET r == Updating(s, S)
             free1 == FreedBy(s, exch', S)
             cash1 == CashedBy(s, exch', S)
         IN /\ r \in Session(D)
            /\ Freed(s, S) = SumFunction(free1) /\ Freed(s, S) \in Int
            /\ r.balance = AtLeastZero(s.balance + Freed(s, S))
            /\ r.pl = s.pl + SumFunction(cash1) /\ SumFunction(cash1) \in Int
            /\ r.running = [t \in D |->
                              IF t \in S THEN [margin |-> exch'[t].margin, cashed |-> exch'[t].cashed]
                              ELSE s.running[t]]
            /\ r.closed = s.closed /\ r.cross = s.cross
            /\ r.expired = s.expired /\ r.known = s.known
<1> DEFINE free1 == FreedBy(s, exch', S)
           cash1 == CashedBy(s, exch', S)
           run == [t \in D |-> IF t \in S THEN [margin |-> exch'[t].margin, cashed |-> exch'[t].cashed]
                               ELSE s.running[t]]
           b == AtLeastZero(s.balance + Freed(s, S))
           p == s.pl + SumFunction(cash1)
<1>1. /\ s.balance \in Nat /\ s.pl \in Int /\ DOMAIN s.running = D /\ IsFiniteSet(S)
      /\ \A t \in S : /\ exch'[t].margin \in Int /\ exch'[t].cashed \in Nat
                      /\ s.running[t].margin \in Int /\ s.running[t].cashed \in Nat
  BY AmountsAre, SessionFields DEF Trade
<1>2. /\ DOMAIN free1 = S /\ \A t \in S : free1[t] \in Int
      /\ DOMAIN cash1 = S /\ \A t \in S : cash1[t] \in Int
  BY <1>1 DEF FreedBy, CashedBy
<1>3. Freed(s, S) = SumFunction(free1)
  BY DEF Freed, CashedIn, Shown, FreedBy
<1>4. SumFunction(free1) \in Int /\ SumFunction(cash1) \in Int
  <2> HIDE DEF free1, cash1
  <2> QED
    BY <1>1, <1>2, SumType
<1>5. run \in [D -> RowTypes]
  BY <1>1, SessionFields DEF RowTypes
<1>6. Updating(s, S) = [s EXCEPT !.balance = b, !.pl = p, !.running = run]
  BY <1>1 DEF Updating, Shown, CashedIn, CashedBy
<1>7. b \in Nat /\ p \in Int
  <2>1. s.balance + Freed(s, S) \in Int
    BY <1>1, <1>3, <1>4
  <2> HIDE DEF cash1
  <2> QED
    BY <1>1, <1>4, <2>1, AtLeastZeroIs
<1> HIDE DEF b, p, run, free1, cash1
<1>8. Updating(s, S) \in Session(D)
  BY <1>5, <1>6, <1>7 DEF Session, RowTypes
<1>9. /\ Updating(s, S).balance = b /\ Updating(s, S).pl = p /\ Updating(s, S).running = run
      /\ Updating(s, S).closed = s.closed /\ Updating(s, S).cross = s.cross
      /\ Updating(s, S).expired = s.expired /\ Updating(s, S).known = s.known
  BY <1>6 DEF Session
<1> QED
  BY <1>3, <1>4, <1>8, <1>9 DEF b, p, run, free1, cash1

\* Trades that a session s closes: what it gets back and what they won.
BackFrom(s, x, S) == [t \in S |-> s.running[t].margin - Fee + x[t].pl]

Won(S, x) == [t \in S |-> x[t].pl]

Kept(s, D) == [t \in D |-> s.running[t]]

\* The session that closes the trades S.
LEMMA ClosingIs ==
  ASSUME NEW D \in SUBSET Trades, NEW s \in Session(D), NEW S \in SUBSET D,
         exch' \in [Trades -> Trade]
  PROVE  LET r == Closing(s, S)
             back == BackFrom(s, exch', S)
             won == Won(S, exch')
         IN /\ r \in Session(D \ S)
            /\ Proceeds(s, S) = SumFunction(back) /\ Proceeds(s, S) \in Int
            /\ r.balance = AtLeastZero(s.balance + Proceeds(s, S))
            /\ r.pl = s.pl + SumFunction(won) /\ SumFunction(won) \in Int
            /\ r.running = Kept(s, D \ S)
            /\ r.cross = s.cross /\ r.expired = s.expired /\ r.known = s.known
<1> DEFINE back == BackFrom(s, exch', S)
           won == Won(S, exch')
           run == Kept(s, D \ S)
           b == AtLeastZero(s.balance + Proceeds(s, S))
           p == s.pl + SumFunction(won)
           c == s.closed \cup S
<1>1. /\ s.balance \in Nat /\ s.pl \in Int /\ DOMAIN s.running = D /\ IsFiniteSet(S)
      /\ Fee \in Nat /\ s.closed \in SUBSET Trades
      /\ \A t \in S : exch'[t].pl \in Int /\ s.running[t].margin \in Int
  BY AmountsAre, SessionFields DEF Trade
<1>2. /\ DOMAIN back = S /\ \A t \in S : back[t] \in Int
      /\ DOMAIN won = S /\ \A t \in S : won[t] \in Int
  BY <1>1 DEF BackFrom, Won
<1>3. Proceeds(s, S) = SumFunction(back)
  BY DEF Proceeds, BackFrom
<1>4. SumFunction(back) \in Int /\ SumFunction(won) \in Int
  <2> HIDE DEF back, won
  <2> QED
    BY <1>1, <1>2, SumType
<1>5. run \in [D \ S -> RowTypes]
  BY <1>1, SessionFields DEF RowTypes, Kept
<1>6. Restrict(s.running, D \ S) = run
  BY <1>1 DEF Restrict, Kept
<1>7. Closing(s, S) = [s EXCEPT !.balance = b, !.pl = p, !.running = run, !.closed = c]
  BY <1>1, <1>6 DEF Closing, Won
<1>8. b \in Nat /\ p \in Int /\ c \in SUBSET Trades
  <2>1. s.balance + Proceeds(s, S) \in Int
    BY <1>1, <1>3, <1>4
  <2>2. c \in SUBSET Trades
    BY <1>1
  <2> HIDE DEF won, c
  <2> QED
    BY <1>1, <1>4, <2>1, <2>2, AtLeastZeroIs
<1> HIDE DEF b, p, c, run, back, won
<1>9. Closing(s, S) \in Session(D \ S)
  BY <1>5, <1>7, <1>8 DEF Session, RowTypes
<1>10. /\ Closing(s, S).balance = b /\ Closing(s, S).pl = p /\ Closing(s, S).running = run
       /\ Closing(s, S).cross = s.cross
       /\ Closing(s, S).expired = s.expired /\ Closing(s, S).known = s.known
  BY <1>7 DEF Session
<1> QED
  BY <1>3, <1>4, <1>9, <1>10 DEF b, p, run, back, won

\* What the session has of the cross account.
LEMMA ReplacedIs ==
  ASSUME NEW v \in View, NEW x \in CrossTypes
  PROVE  /\ Replaced(v, x) \in View /\ Replaced(v, x).pl = v.pl
         /\ Replaced(v, x).margin = x.margin /\ Replaced(v, x).fees = x.fees
         /\ Replaced(v, x).funding = x.funding
BY DEF Replaced, View, CrossTypes

\* The cross position after an order.
LEMMA AfterOrderIs ==
  ASSUME NEW v \in View, NEW x \in CrossTypes
  PROVE  /\ AfterOrder(v, x) \in View
         /\ AfterOrder(v, x).pl = v.pl + (x.margin - v.margin) + (x.fees - v.fees)
                                       + (x.funding - v.funding)
         /\ AfterOrder(v, x).margin = x.margin /\ AfterOrder(v, x).fees = x.fees
         /\ AfterOrder(v, x).funding = x.funding
<1> DEFINE w == Replaced(v, x)
           p == v.pl + (x.margin - v.margin) + (x.fees - v.fees) + (x.funding - v.funding)
<1>1. w \in View /\ w.pl = v.pl /\ w.margin = x.margin /\ w.fees = x.fees /\ w.funding = x.funding
  BY ReplacedIs
<1>2. p \in Int
  BY DEF View, CrossTypes
<1>3. AfterOrder(v, x) = [w EXCEPT !.pl = p]
  BY <1>1 DEF AfterOrder
<1> HIDE DEF w, p
<1>4. AfterOrder(v, x) \in View
  BY <1>1, <1>2, <1>3 DEF View
<1> QED
  BY <1>1, <1>3, <1>4 DEF View, p

\* A session that differs in the cross account, or in its balance too.
LEMMA CrossChangedIs ==
  ASSUME NEW D, NEW s \in Session(D), NEW v \in View, NEW b \in Nat
  PROVE  /\ LET r == [s EXCEPT !.cross = v]
            IN /\ r \in Session(D) /\ r.cross = v /\ r.balance = s.balance
               /\ r.running = s.running /\ r.pl = s.pl /\ r.closed = s.closed
               /\ r.known = s.known /\ r.expired = s.expired
         /\ LET r == [s EXCEPT !.balance = b, !.cross = v]
            IN /\ r \in Session(D) /\ r.cross = v /\ r.balance = b
               /\ r.running = s.running /\ r.pl = s.pl /\ r.closed = s.closed
               /\ r.known = s.known /\ r.expired = s.expired
BY DEF Session

\* A session that expires keeps its amounts.
LEMMA ExpiredIs ==
  ASSUME NEW D, NEW s \in Session(D)
  PROVE  LET r == [s EXCEPT !.expired = TRUE]
         IN /\ r \in Session(D) /\ r.cross = s.cross /\ r.balance = s.balance
            /\ r.running = s.running /\ r.pl = s.pl /\ r.known = s.known /\ r.expired = TRUE
BY DEF Session

-----------------------------------------------------------------------------
(* Types.                                                                  *)

\* The parts of AccountTypeOK, by who changes them.
ExchTyped == free \in Nat /\ exch \in [Trades -> Trade] /\ cross \in CrossTypes

SessTyped == Registered \in SUBSET Trades /\ sess \in Session(Registered)

WorkTyped == DOMAIN work.running \in SUBSET Trades /\ work \in Session(DOMAIN work.running)

PointTyped ==
  /\ ready \in BOOLEAN /\ accountPc \in {"idle", "order", "cross", "trades"}
  /\ ops \in 0 .. MaxOps /\ moves \in 0 .. MaxMoves

HistTyped ==
  /\ paid \in Int /\ behind \in BOOLEAN /\ seen \in SUBSET Trades
  /\ earned \in Int /\ untold \subseteq {"isolated", "cross"}

AccountTyped == ExchTyped /\ SessTyped /\ WorkTyped /\ PointTyped /\ HistTyped

\* The type invariant, by what changes together.
LEMMA TypedIsAccountTypeOK == AccountTyped <=> AccountTypeOK
BY DEF AccountTyped, AccountTypeOK, ExchTyped, SessTyped, WorkTyped, PointTyped, HistTyped,
       CrossTypes, Registered

LEMMA InitAccountTyped == AccountInit => AccountTyped
<1> SUFFICES ASSUME AccountInit PROVE AccountTyped
  OBVIOUS
<1>1. ExchTyped
  BY AmountsAre DEF AccountInit, ExchTyped, CrossTypes, Trade
<1>2. SessTyped /\ WorkTyped
  BY NoSessionType DEF AccountInit, SessTyped, WorkTyped, Registered
<1>5. /\ ready = FALSE /\ accountPc = "idle" /\ ops = 0 /\ moves = 0
      /\ paid = 0 /\ behind = FALSE /\ seen = {} /\ earned = 0 /\ untold = {}
  BY DEF AccountInit
<1>6. ops \in 0 .. MaxOps /\ moves \in 0 .. MaxMoves /\ paid \in Int /\ earned \in Int
  BY <1>5, AmountsAre
<1>3. PointTyped
  BY <1>5, <1>6, Zenon DEF PointTyped
<1>4. HistTyped
  BY <1>5, <1>6, Zenon DEF HistTyped
<1> QED
  BY <1>1, <1>2, <1>3, <1>4 DEF AccountTyped

\* A cross account with another margin, funding, fees or exposure.
LEMMA CrossWith ==
  ASSUME NEW x \in CrossTypes, NEW m \in Int, NEW n \in Int, NEW k \in Nat, NEW o \in BOOLEAN
  PROVE  /\ [x EXCEPT !.margin = m] \in CrossTypes
         /\ [x EXCEPT !.margin = m, !.funding = n] \in CrossTypes
         /\ [x EXCEPT !.margin = m, !.open = o] \in CrossTypes
         /\ [x EXCEPT !.margin = m, !.fees = k, !.open = o] \in CrossTypes
BY DEF CrossTypes

\* The amounts of the cross account.
LEMMA CrossIs ==
  ASSUME ExchTyped
  PROVE  cross.margin \in Int /\ cross.fees \in Nat /\ cross.funding \in Int /\ cross.open \in BOOLEAN
BY DEF ExchTyped, CrossTypes

\* A trade in another state, or with other amounts.
LEMMA TradeWith ==
  ASSUME NEW x \in Trade, NEW m \in Int, NEW c \in Nat, NEW p \in Int
  PROVE  /\ [x EXCEPT !.state = "running", !.margin = m] \in Trade
         /\ [x EXCEPT !.margin = m] \in Trade
         /\ [x EXCEPT !.margin = m, !.cashed = c] \in Trade
         /\ [x EXCEPT !.state = "closed", !.pl = p] \in Trade
BY DEF Trade

\* The fields of a trade of the exchange.
LEMMA TradeIs ==
  ASSUME ExchTyped
  PROVE  \A t \in Trades : /\ exch[t] \in Trade /\ exch[t].margin \in Int
                           /\ exch[t].cashed \in Nat /\ exch[t].pl \in Int
BY DEF ExchTyped, Trade

\* The exchange does not touch what the session has, nor what is counted but costs.
LEMMA ExchangeTypes ==
  ASSUME AccountTyped, Exchange
  PROVE  AccountTyped'
<1>1. /\ ExchTyped /\ PointTyped /\ HistTyped
      /\ \A t \in Live : t \in Trades
  BY DEF AccountTyped, Live
<1>2. Fee \in Nat /\ MaxMoves \in Nat /\ \A r \in Results : r \in Int
  BY AmountsAre
<1>3. /\ UNCHANGED <<sess, ready, accountPc, work, ops, seen>>
      /\ moves' \in 0 .. MaxMoves
      /\ untold' \subseteq {"isolated", "cross"} /\ behind' \in BOOLEAN
  <2>1. moves' \in 0 .. MaxMoves
    <3>1. moves < MaxMoves /\ moves' = moves + 1
      BY DEF Exchange, ExchangeCloses, Settle, CrossSettle, CrossLiquidated, Move
    <3>2. moves \in Nat
      BY <1>1 DEF PointTyped
    <3> QED
      BY <1>2, <3>1, <3>2
  <2>2. untold' \subseteq {"isolated", "cross"} /\ behind' \in BOOLEAN
    BY <1>1 DEF Exchange, ExchangeCloses, Settle, CrossSettle, CrossLiquidated, Torn, history,
                HistTyped
  <2> QED
    BY <2>1, <2>2 DEF Exchange, ExchangeCloses, Settle, CrossSettle, CrossLiquidated, history
<1>4. ExchTyped' /\ paid' \in Int /\ earned' \in Int
  <2>1. ASSUME NEW t \in Trades, NEW pl \in Results, ExchangeCloses(t, pl)
        PROVE  ExchTyped' /\ paid' \in Int /\ earned' \in Int
    <3>1. exch[t] \in Trade /\ exch[t].margin \in Int /\ pl \in Int
      BY <1>1, <1>2, TradeIs
    <3>2. exch' = [exch EXCEPT ![t] = [exch[t] EXCEPT !.state = "closed", !.pl = pl]]
      BY <1>1, <3>1, <2>1 DEF ExchangeCloses, ExchTyped, Trade
    <3>3. [exch[t] EXCEPT !.state = "closed", !.pl = pl] \in Trade
      BY <3>1 DEF Trade
    <3>4. free' \in Nat
      BY <1>1, <1>2, <2>1, <3>1 DEF ExchangeCloses, ExchTyped
    <3> QED
      BY <1>1, <2>1, <3>2, <3>3, <3>4 DEF ExchangeCloses, ExchTyped, HistTyped
  <2>2. ASSUME NEW t \in Trades, NEW fee \in {-1, 1}, Settle(t, fee)
        PROVE  ExchTyped' /\ paid' \in Int /\ earned' \in Int
    <3>1. exch[t] \in Trade /\ exch[t].margin \in Int /\ fee \in Int
      BY <1>1, <2>2, TradeIs
    <3>2. CASE fee > 0
      <4>1. exch' = [exch EXCEPT ![t] = [exch[t] EXCEPT !.margin = exch[t].margin - fee]]
        BY <1>1, <3>1, <3>2, <2>2 DEF Settle, ExchTyped, Trade
      <4>2. [exch[t] EXCEPT !.margin = exch[t].margin - fee] \in Trade
        BY <3>1 DEF Trade
      <4> QED
        BY <1>1, <2>2, <3>1, <3>2, <4>1, <4>2 DEF Settle, ExchTyped, HistTyped
    <3>3. CASE ~(fee > 0)
      BY <1>1, <2>2, <3>1, <3>3 DEF Settle, ExchTyped, HistTyped
    <3> QED
      BY <3>2, <3>3
  <2>3. ASSUME NEW fee \in {-1, 1}, CrossSettle(fee)
        PROVE  ExchTyped' /\ paid' \in Int /\ earned' \in Int
    <3>1. fee \in Int /\ cross.margin \in Int /\ cross.funding \in Int
      BY <1>1, <2>3, CrossIs
    <3>2. cross' = [cross EXCEPT !.margin = cross.margin - fee, !.funding = cross.funding + fee]
      BY <1>1, <2>3 DEF CrossSettle, ExchTyped, CrossTypes
    <3>3. cross' \in CrossTypes
      <4>1. cross \in CrossTypes /\ cross.margin - fee \in Int /\ cross.funding + fee \in Int
        BY <1>1, <3>1 DEF ExchTyped
      <4> QED
        BY <3>2, <4>1, CrossWith
    <3> QED
      BY <1>1, <2>3, <3>3 DEF CrossSettle, ExchTyped, HistTyped, history
  <2>4. ASSUME CrossLiquidated
        PROVE  ExchTyped' /\ paid' \in Int /\ earned' \in Int
    <3>1. cross.margin \in Int /\ cross' \in CrossTypes
      <4>1. cross \in CrossTypes /\ cross.margin \in Int
        BY <1>1, CrossIs DEF ExchTyped
      <4>2. cross' = [cross EXCEPT !.margin = 0, !.open = FALSE]
        BY <2>4 DEF CrossLiquidated
      <4>3. 0 \in Int /\ FALSE \in BOOLEAN
        OBVIOUS
      <4> QED
        BY <4>1, <4>2, <4>3, CrossWith
    <3> QED
      BY <1>1, <2>4, <3>1 DEF CrossLiquidated, ExchTyped, HistTyped
  <2> QED
    BY <2>1, <2>2, <2>3, <2>4 DEF Exchange
<1> QED
  BY <1>3, <1>4 DEF AccountTyped, SessTyped, WorkTyped, PointTyped, HistTyped, Registered


\* What a method that begins may count on.
LEMMA MethodTypes ==
  ASSUME AccountTyped, Method
  PROVE  ops' \in 0 .. MaxOps /\ accountPc = "idle" /\ ready
<1>1. ops < MaxOps /\ ops' = ops + 1 /\ accountPc = "idle" /\ ready
  BY DEF Method
<1>2. ops \in Nat /\ MaxOps \in Nat
  BY AmountsAre DEF AccountTyped, PointTyped
<1> QED
  BY <1>1, <1>2

\* An order, or a change of a margin: the exchange's part.
LEMMA RequestTypes ==
  ASSUME AccountTyped, NEW t \in Trades, NEW told \in BOOLEAN,
         \/ Order(t, told) \/ AddMargin(t, told)
         \/ \E amount \in Deposits : \E profit \in 0 .. amount : CashIn(t, amount, profit, told)
  PROVE  ExchTyped'
<1>1. ExchTyped /\ exch[t] \in Trade /\ exch[t].margin \in Int /\ exch[t].cashed \in Nat
  BY TradeIs DEF AccountTyped
<1>2. Margin \in Nat /\ Fee \in Nat /\ \A a \in Deposits : a \in Nat
  BY AmountsAre
<1>3. CASE Order(t, told)
  <2>1. exch' = [exch EXCEPT ![t] = [exch[t] EXCEPT !.state = "running", !.margin = Margin]]
    BY <1>1, <1>3 DEF Order, ExchTyped, Trade
  <2>2. [exch[t] EXCEPT !.state = "running", !.margin = Margin] \in Trade
    <3>1. Margin \in Int
      BY <1>2
    <3> QED
      BY <1>1, <3>1, TradeWith
  <2>3. free' \in Nat /\ cross' = cross
    BY <1>1, <1>2, <1>3 DEF Order, ExchTyped
  <2> QED
    BY <1>1, <2>1, <2>2, <2>3 DEF ExchTyped
<1>4. CASE AddMargin(t, told)
  <2>1. exch' = [exch EXCEPT ![t] = [exch[t] EXCEPT !.margin = exch[t].margin + 1]]
    BY <1>1, <1>4 DEF AddMargin, ExchTyped, Trade
  <2>2. [exch[t] EXCEPT !.margin = exch[t].margin + 1] \in Trade
    BY <1>1, <1>2 DEF Trade
  <2>3. free' \in Nat /\ cross' = cross
    BY <1>1, <1>2, <1>4 DEF AddMargin, ExchTyped
  <2> QED
    BY <1>1, <2>1, <2>2, <2>3 DEF ExchTyped
<1>5. ASSUME NEW amount \in Deposits, NEW profit \in 0 .. amount, CashIn(t, amount, profit, told)
      PROVE  ExchTyped'
  <2> DEFINE m == exch[t].margin - (amount - profit)
             c == exch[t].cashed + profit
  <2>1. exch' = [exch EXCEPT ![t] = [exch[t] EXCEPT !.margin = m, !.cashed = c]]
    BY <1>1, <1>5 DEF CashIn, ExchTyped, Trade
  <2>2. m \in Int /\ c \in Nat /\ free + amount \in Nat
    BY <1>1, <1>2 DEF ExchTyped
  <2>3. free' = free + amount /\ cross' = cross
    BY <1>5 DEF CashIn
  <2> HIDE DEF m, c
  <2>4. [exch[t] EXCEPT !.margin = m, !.cashed = c] \in Trade
    BY <1>1, <2>2 DEF Trade
  <2> QED
    BY <1>1, <2>1, <2>2, <2>3, <2>4 DEF ExchTyped
<1> QED
  BY <1>3, <1>4, <1>5

\* What closing some trades pays.
Paid1(S, pl) == [t \in S |-> exch[t].margin + pl[t] - Fee]

\* What a closing request does to the trades of S and pays for them.
LEMMA ClosesTypes ==
  ASSUME AccountTyped, NEW pl \in [Trades -> Results], NEW S, NEW told \in BOOLEAN,
         Closes(S, pl, told)
  PROVE  /\ ExchTyped'
         /\ S \in SUBSET Trades /\ IsFiniteSet(S)
         /\ \A t \in S : exch[t].state = "running"
         /\ \A t \in S : /\ exch'[t].state = "closed" /\ exch'[t].pl = pl[t]
                           /\ exch'[t].cashed = exch[t].cashed
         /\ \A t \in Trades \ S : exch'[t] = exch[t]
         /\ \A t \in S : pl[t] \in Int /\ Paid1(S, pl)[t] \in Nat
         /\ free' = free + SumFunction(Paid1(S, pl)) /\ SumFunction(Paid1(S, pl)) \in Nat
<1>1. ExchTyped /\ \A t \in Trades : exch[t] \in Trade /\ exch[t].margin \in Int
  BY TradeIs DEF AccountTyped
<1>2. Fee \in Nat /\ \A r \in Results : r \in Int
  BY AmountsAre
<1>3. S \subseteq Live /\ \A t \in S : exch[t].margin + pl[t] >= Fee
  BY DEF Closes
<1>4. S \in SUBSET Trades /\ \A t \in S : exch[t].state = "running"
  BY <1>3 DEF Live
<1>5. IsFiniteSet(S)
  BY <1>4, AmountsAre
<1>6. \A t \in S : pl[t] \in Int /\ Paid1(S, pl)[t] \in Nat
  BY <1>1, <1>2, <1>3, <1>4 DEF Paid1
<1>7. SumFunction(Paid1(S, pl)) \in Nat
  <2>1. DOMAIN Paid1(S, pl) = S
    BY DEF Paid1
  <2> QED
    BY <1>5, <1>6, <2>1, SumNat
<1>8. /\ free' = free + SumFunction(Paid1(S, pl)) /\ cross' = cross
      /\ exch' = [t \in Trades |->
                    IF t \in S THEN [exch[t] EXCEPT !.state = "closed", !.pl = pl[t]] ELSE exch[t]]
  BY DEF Closes, Paid1
<1>9. \A t \in S : LET y == [exch[t] EXCEPT !.state = "closed", !.pl = pl[t]]
                    IN /\ y \in Trade /\ y.state = "closed" /\ y.pl = pl[t]
                       /\ y.cashed = exch[t].cashed
  BY <1>1, <1>4, <1>6 DEF Trade
<1>10. exch' \in [Trades -> Trade]
  BY <1>1, <1>8, <1>9
<1>11. /\ \A t \in S : /\ exch'[t].state = "closed" /\ exch'[t].pl = pl[t]
                         /\ exch'[t].cashed = exch[t].cashed
       /\ \A t \in Trades \ S : exch'[t] = exch[t]
  BY <1>4, <1>8, <1>9
<1>12. free' \in Nat
  <2> DEFINE n == SumFunction(Paid1(S, pl))
  <2>1. n \in Nat /\ free' = free + n /\ free \in Nat
    BY <1>1, <1>7, <1>8 DEF ExchTyped
  <2> HIDE DEF n
  <2> QED
    BY <2>1
<1> QED
  BY <1>1, <1>4, <1>5, <1>6, <1>7, <1>8, <1>10, <1>11, <1>12 DEF ExchTyped

\* The three ways to close trades at the operator's request.
CloseRequest ==
  \E pl \in [Trades -> Results], told \in BOOLEAN, S \in SUBSET Trades :
    Method /\ Closes(S, pl, told) /\ (told => S \subseteq Registered)

\* The three requests that close trades are one.
LEMMA CloseRequests ==
  ASSUME NEW pl \in [Trades -> Results], NEW told \in BOOLEAN,
         \/ \E t \in Trades : IsolatedOrderClose(t, pl, told)
         \/ \E S \in SUBSET Trades : CloseTrades(S, pl, told)
         \/ IsolatedOrderCloseAll(pl, told)
  PROVE  CloseRequest
<1>1. Live \in SUBSET Trades /\ \A t \in Trades : {t} \in SUBSET Trades
  BY DEF Live
<1> QED
  BY <1>1 DEF CloseRequest, IsolatedOrderClose, CloseTrades, IsolatedOrderCloseAll


\* The trades a session has are read off its type.
LEMMA SessTypedFrom ==
  ASSUME NEW D \in SUBSET Trades, sess' \in Session(D)
  PROVE  SessTyped' /\ Registered' = D
<1>1. DOMAIN sess'.running = D
  BY SessionFields
<1> QED
  BY <1>1 DEF SessTyped, Registered

\* The same of the session being built.
LEMMA WorkTypedFrom ==
  ASSUME NEW D \in SUBSET Trades, work' \in Session(D)
  PROVE  WorkTyped' /\ DOMAIN work'.running = D
<1>1. DOMAIN work'.running = D
  BY SessionFields
<1> QED
  BY <1>1 DEF WorkTyped

\* The answer to an order or to a change of a margin.
LEMMA RequestStepTypes ==
  ASSUME AccountTyped, NEW t \in Trades, NEW told \in BOOLEAN,
         \/ Order(t, told) \/ AddMargin(t, told)
         \/ \E amount \in Deposits : \E profit \in 0 .. amount : CashIn(t, amount, profit, told)
  PROVE  AccountTyped'
<1>1. ExchTyped' /\ exch' \in [Trades -> Trade] /\ ops' \in 0 .. MaxOps
  BY RequestTypes, MethodTypes DEF ExchTyped, Order, AddMargin, CashIn
<1>2. /\ Registered \in SUBSET Trades /\ sess \in Session(Registered) /\ SessTyped /\ WorkTyped
      /\ PointTyped /\ HistTyped
  BY DEF AccountTyped, SessTyped
<1>3. CASE Order(t, told)
  <2>1. SessTyped'
    <3>1. Registering(sess, t) \in Session(Registered \cup {t})
      BY <1>1, <1>2, RegisteringIs
    <3>2. CASE told
      <4>1. sess' \in Session(Registered \cup {t}) /\ Registered \cup {t} \in SUBSET Trades
        BY <1>2, <1>3, <3>1, <3>2 DEF Order, Answered
      <4> QED
        BY <4>1, SessTypedFrom
    <3>3. CASE ~told
      BY <1>2, <1>3, <3>3 DEF Order, Answered, SessTyped, Registered
    <3> QED
      BY <3>2, <3>3
  <2>2. behind' \in BOOLEAN /\ seen' \in SUBSET Trades
    BY <1>2, <1>3 DEF Order, HistTyped
  <2> QED
    BY <1>1, <1>2, <1>3, <2>1, <2>2
       DEF Order, AccountTyped, WorkTyped, PointTyped, HistTyped
<1>4. CASE \/ AddMargin(t, told)
           \/ \E amount \in Deposits : \E profit \in 0 .. amount : CashIn(t, amount, profit, told)
  <2>1. /\ t \in Registered
        /\ sess' = IF told THEN Updating(sess, {t}) ELSE sess
        /\ UNCHANGED <<ready, accountPc, work, moves, paid, seen, earned>>
        /\ behind' \in BOOLEAN /\ untold' \subseteq {"isolated", "cross"}
    BY <1>2, <1>4 DEF AddMargin, CashIn, Answered, CutOff, HistTyped
  <2>2. SessTyped'
    <3>1. Updating(sess, {t}) \in Session(Registered)
      <4>1. {t} \in SUBSET Registered
        BY <2>1
      <4> QED
        BY <1>1, <1>2, <4>1, UpdatingIs
    <3>2. sess' \in Session(Registered)
      BY <1>2, <2>1, <3>1
    <3> QED
      BY <1>2, <3>2, SessTypedFrom
  <2> QED
    BY <1>1, <1>2, <2>1, <2>2 DEF AccountTyped, WorkTyped, PointTyped, HistTyped
<1> QED
  BY <1>3, <1>4

LEMMA CloseStepTypes ==
  ASSUME AccountTyped, CloseRequest
  PROVE  AccountTyped'
<1>1. PICK pl \in [Trades -> Results], told \in BOOLEAN, S \in SUBSET Trades :
        Method /\ Closes(S, pl, told) /\ (told => S \subseteq Registered)
  BY DEF CloseRequest
<1>2. ExchTyped' /\ exch' \in [Trades -> Trade] /\ ops' \in 0 .. MaxOps
  BY <1>1, ClosesTypes, MethodTypes DEF ExchTyped
<1>3. /\ Registered \in SUBSET Trades /\ sess \in Session(Registered) /\ SessTyped /\ WorkTyped
      /\ PointTyped /\ HistTyped
  BY DEF AccountTyped, SessTyped
<1>4. SessTyped'
  <2>1. CASE told
    <3>1. Closing(sess, S) \in Session(Registered \ S)
      BY <1>1, <1>2, <1>3, <2>1, ClosingIs
    <3>2. sess' \in Session(Registered \ S) /\ Registered \ S \in SUBSET Trades
      BY <1>1, <1>3, <2>1, <3>1 DEF Closes, Answered
    <3> QED
      BY <3>2, SessTypedFrom
  <2>2. CASE ~told
    BY <1>1, <1>3, <2>2 DEF Closes, Answered, SessTyped, Registered
  <2> QED
    BY <2>1, <2>2
<1>5. behind' \in BOOLEAN
  BY <1>1 DEF Closes, CutOff
<1> QED
  BY <1>1, <1>2, <1>3, <1>4, <1>5
     DEF Closes, AccountTyped, WorkTyped, PointTyped, HistTyped

\* A deposit, a withdrawal or a change of the leverage.
LEMMA CrossRequestTypes ==
  ASSUME AccountTyped,
         \/ \E amount \in Deposits, told \in BOOLEAN :
              CrossDeposit(amount, told) \/ CrossWithdraw(amount, told)
         \/ CrossSetLeverage
  PROVE  AccountTyped'
<1>1. /\ Registered \in SUBSET Trades /\ sess \in Session(Registered) /\ SessTyped /\ WorkTyped
      /\ ExchTyped /\ PointTyped /\ HistTyped /\ sess.cross \in View /\ sess.balance \in Nat
  BY SessionFields DEF AccountTyped, SessTyped
<1>2. cross \in CrossTypes /\ cross.margin \in Int /\ free \in Nat
  BY <1>1, CrossIs DEF ExchTyped
<1>3. ASSUME NEW amount \in Deposits, NEW told \in BOOLEAN, CrossDeposit(amount, told)
      PROVE  AccountTyped'
  <2>1. ops' \in 0 .. MaxOps
    BY <1>3, MethodTypes DEF CrossDeposit
  <2>2. amount \in Nat /\ amount <= sess.balance /\ amount <= free
    BY <1>3, AmountsAre DEF CrossDeposit
  <2>3. cross' \in CrossTypes
    <3>1. cross.margin + amount \in Int
      BY <1>2, <2>2
    <3>2. cross' = [cross EXCEPT !.margin = cross.margin + amount]
      BY <1>3 DEF CrossDeposit
    <3> QED
      BY <1>2, <3>1, <3>2, CrossWith
  <2>4. free' \in Nat /\ exch' = exch
    <3>1. free' = free - amount /\ exch' = exch
      BY <1>3 DEF CrossDeposit
    <3> QED
      BY <1>2, <2>2, <3>1
  <2>5. sess' \in Session(Registered)
    <3> DEFINE b == sess.balance - amount
               v == Replaced(sess.cross, cross')
    <3>1. b \in Nat
      BY <1>1, <2>2
    <3>2. v \in View
      BY <1>1, <2>3, ReplacedIs
    <3>3. sess' = IF told THEN [sess EXCEPT !.balance = b, !.cross = v] ELSE sess
      BY <1>3 DEF CrossDeposit, Answered
    <3> HIDE DEF b, v
    <3> QED
      BY <1>1, <3>1, <3>2, <3>3, CrossChangedIs
  <2>6. SessTyped'
    BY <1>1, <2>5, SessTypedFrom
  <2>7. behind' \in BOOLEAN /\ untold' \subseteq {"isolated", "cross"}
    BY <1>1, <1>3 DEF CrossDeposit, CrossTold, HistTyped
  <2> QED
    BY <1>1, <1>3, <2>1, <2>3, <2>4, <2>6, <2>7
       DEF CrossDeposit, AccountTyped, ExchTyped, WorkTyped, PointTyped, HistTyped
<1>4. ASSUME NEW amount \in Deposits, NEW told \in BOOLEAN, CrossWithdraw(amount, told)
      PROVE  AccountTyped'
  <2>1. ops' \in 0 .. MaxOps
    BY <1>4, MethodTypes DEF CrossWithdraw
  <2>2. amount \in Nat
    BY <1>4, AmountsAre
  <2>3. cross' \in CrossTypes
    <3>1. cross.margin - amount \in Int
      BY <1>2, <2>2
    <3>2. cross' = [cross EXCEPT !.margin = cross.margin - amount]
      BY <1>4 DEF CrossWithdraw
    <3> QED
      BY <1>2, <3>1, <3>2, CrossWith
  <2>4. free' \in Nat /\ exch' = exch
    <3>1. free' = free + amount /\ exch' = exch
      BY <1>4 DEF CrossWithdraw
    <3> QED
      BY <1>2, <2>2, <3>1
  <2>5. sess' \in Session(Registered)
    <3> DEFINE b == sess.balance + amount
               v == Replaced(sess.cross, cross')
    <3>1. b \in Nat
      BY <1>1, <2>2
    <3>2. v \in View
      BY <1>1, <2>3, ReplacedIs
    <3>3. sess' = IF told THEN [sess EXCEPT !.balance = b, !.cross = v] ELSE sess
      BY <1>4 DEF CrossWithdraw, Answered
    <3> HIDE DEF b, v
    <3> QED
      BY <1>1, <3>1, <3>2, <3>3, CrossChangedIs
  <2>6. SessTyped'
    BY <1>1, <2>5, SessTypedFrom
  <2>7. behind' \in BOOLEAN /\ untold' \subseteq {"isolated", "cross"}
    BY <1>1, <1>4 DEF CrossWithdraw, CrossTold, HistTyped
  <2> QED
    BY <1>1, <1>4, <2>1, <2>3, <2>4, <2>6, <2>7
       DEF CrossWithdraw, AccountTyped, ExchTyped, WorkTyped, PointTyped, HistTyped
<1>5. ASSUME CrossSetLeverage PROVE AccountTyped'
  <2>1. ops' \in 0 .. MaxOps
    BY <1>5, MethodTypes DEF CrossSetLeverage
  <2>2. sess' \in Session(Registered)
    <3>1. Replaced(sess.cross, cross) \in View /\ sess.balance \in Nat
      BY <1>1, <1>2, ReplacedIs
    <3>2. sess' = [sess EXCEPT !.cross = Replaced(sess.cross, cross)]
      BY <1>5 DEF CrossSetLeverage
    <3> QED
      BY <1>1, <3>1, <3>2, CrossChangedIs
  <2>3. SessTyped'
    BY <1>1, <2>2, SessTypedFrom
  <2> QED
    BY <1>1, <1>5, <2>1, <2>3
       DEF CrossSetLeverage, AccountTyped, ExchTyped, WorkTyped, PointTyped, HistTyped, exchVars,
           history
<1> QED
  BY <1>3, <1>4, <1>5

\* A market order and its filling.
LEMMA FilledTypes ==
  ASSUME AccountTyped, NEW pl \in Int, NEW open \in BOOLEAN, Filled(pl, open)
  PROVE  cross' \in CrossTypes /\ earned' \in Int /\ accountPc' = "order"
<1>1. ExchTyped /\ cross \in CrossTypes /\ cross.margin \in Int /\ cross.fees \in Nat /\ Fee \in Nat
  BY CrossIs, AmountsAre DEF AccountTyped, ExchTyped
<1>2. cross.margin + pl - Fee \in Int /\ cross.fees + Fee \in Nat /\ 0 \in Int
  BY <1>1
<1>3. cross' = [cross EXCEPT !.margin = cross.margin + pl - Fee, !.fees = cross.fees + Fee,
                             !.open = open]
  BY DEF Filled
<1>4. cross' \in CrossTypes
  BY <1>1, <1>2, <1>3, CrossWith
<1> QED
  BY <1>4 DEF Filled, AccountTyped, HistTyped

LEMMA CrossOrderTypes ==
  ASSUME AccountTyped,
         \/ \E pl \in Results \cup {0}, open \in BOOLEAN : CrossOrder(pl, open)
         \/ \E pl \in Results : CrossOrderClosePosition(pl)
         \/ CrossOrderRegistered \/ CrossOrderLost
  PROVE  AccountTyped'
<1>1. /\ Registered \in SUBSET Trades /\ sess \in Session(Registered) /\ SessTyped /\ WorkTyped
      /\ ExchTyped /\ PointTyped /\ HistTyped /\ sess.cross \in View /\ sess.balance \in Nat
      /\ DOMAIN work.running \in SUBSET Trades /\ work \in Session(DOMAIN work.running)
      /\ work.cross \in View /\ work.balance \in Nat /\ cross \in CrossTypes
  BY SessionFields DEF AccountTyped, SessTyped, WorkTyped, ExchTyped
<1>2. \A pl \in Results \cup {0} : pl \in Int
  BY AmountsAre
<1>3. ASSUME NEW pl \in Results \cup {0}, NEW open \in BOOLEAN, CrossOrder(pl, open)
      PROVE  AccountTyped'
  <2>1. ops' \in 0 .. MaxOps /\ cross' \in CrossTypes /\ earned' \in Int /\ accountPc' = "order"
    BY <1>2, <1>3, MethodTypes, FilledTypes DEF CrossOrder
  <2>2. work' \in Session(Registered)
    BY <1>1, <1>3 DEF CrossOrder
  <2>3. WorkTyped'
    BY <1>1, <2>2, WorkTypedFrom
  <2> QED
    BY <1>1, <1>3, <2>1, <2>3
       DEF CrossOrder, AccountTyped, ExchTyped, SessTyped, PointTyped, HistTyped, Registered
<1>4. ASSUME NEW pl \in Results, CrossOrderClosePosition(pl) PROVE AccountTyped'
  <2> DEFINE s == [sess EXCEPT !.cross = Replaced(sess.cross, cross)]
  <2>1. s \in Session(Registered)
    <3>1. Replaced(sess.cross, cross) \in View
      BY <1>1, ReplacedIs
    <3> QED
      BY <1>1, <3>1, CrossChangedIs
  <2>2. ops' \in 0 .. MaxOps
    BY <1>4, MethodTypes DEF CrossOrderClosePosition
  <2>3. CASE cross.open
    <3>1. cross' \in CrossTypes /\ earned' \in Int /\ accountPc' = "order"
      BY <1>2, <1>4, <2>3, FilledTypes DEF CrossOrderClosePosition
    <3>2. work' \in Session(Registered) /\ sess' = sess
      BY <1>4, <2>1, <2>3 DEF CrossOrderClosePosition
    <3>3. WorkTyped'
      BY <1>1, <3>2, WorkTypedFrom
    <3> QED
      BY <1>1, <1>4, <2>2, <3>1, <3>2, <3>3
         DEF CrossOrderClosePosition, AccountTyped, ExchTyped, SessTyped, PointTyped, HistTyped,
             Registered
  <2>4. CASE ~cross.open
    <3>1. /\ sess' \in Session(Registered)
          /\ cross' = cross /\ earned' = earned /\ work' = work /\ accountPc' = accountPc
      BY <1>4, <2>1, <2>4 DEF CrossOrderClosePosition
    <3>2. SessTyped'
      BY <1>1, <3>1, SessTypedFrom
    <3> QED
      BY <1>1, <1>4, <2>2, <3>1, <3>2
         DEF CrossOrderClosePosition, AccountTyped, ExchTyped, WorkTyped, PointTyped, HistTyped
  <2> QED
    BY <2>3, <2>4
<1>5. ASSUME CrossOrderRegistered PROVE AccountTyped'
  <2>1. AfterOrder(work.cross, cross) \in View
    BY <1>1, AfterOrderIs
  <2>2. sess' \in Session(DOMAIN work.running)
    <3>1. sess' = [work EXCEPT !.cross = AfterOrder(work.cross, cross)]
      BY <1>5 DEF CrossOrderRegistered
    <3> QED
      BY <1>1, <2>1, <3>1, CrossChangedIs
  <2>3. SessTyped' /\ WorkTyped'
    BY <1>1, <1>5, <2>2, SessTypedFrom, WorkTypedFrom, NoSessionType DEF CrossOrderRegistered
  <2> QED
    BY <1>1, <1>5, <2>3
       DEF CrossOrderRegistered, AccountTyped, ExchTyped, PointTyped, HistTyped, exchVars, history
<1>6. ASSUME CrossOrderLost PROVE AccountTyped'
  <2>1. WorkTyped'
    BY <1>6, WorkTypedFrom, NoSessionType DEF CrossOrderLost
  <2>2. untold' \subseteq {"isolated", "cross"}
    BY <1>1, <1>6 DEF CrossOrderLost, HistTyped
  <2> QED
    BY <1>1, <1>6, <2>1, <2>2
       DEF CrossOrderLost, AccountTyped, ExchTyped, SessTyped, PointTyped, HistTyped, exchVars,
           Registered
<1> QED
  BY <1>3, <1>4, <1>5, <1>6


\* What the reevaluation works on: the session, perhaps with the cross account read again.
IsBase(s) ==
  /\ s \in Session(Registered)
  /\ s.balance = sess.balance /\ s.running = sess.running /\ s.pl = sess.pl
  /\ s.known = sess.known /\ s.cross \in View
  /\ s.cross = sess.cross \/ s.cross = Replaced(sess.cross, cross)

\* A refresh that reevaluates: first the changed trades U, then the closed ones S.
LEMMA ReevaluateIs ==
  ASSUME AccountTyped, NEW S \in SUBSET Trades, NEW U \in SUBSET Trades,
         \E reached \in BOOLEAN : Reevaluate(S, U, reached)
  PROVE  /\ S \in SUBSET Registered /\ U \in SUBSET Registered
         /\ \A t \in S : exch[t].state # "running"
         /\ \A t \in U : exch[t].state = "running"
         /\ exch' = exch /\ free' = free /\ cross' = cross
         /\ \E base : /\ IsBase(base)
                      /\ Updating(base, U) \in Session(Registered)
                      /\ sess' = Closing(Updating(base, U), S)
         /\ sess' \in Session(Registered \ S) /\ Registered' = Registered \ S
         /\ ready' = TRUE /\ accountPc' = "idle"
<1>1. /\ Registered \in SUBSET Trades /\ sess \in Session(Registered) /\ ExchTyped
      /\ sess.cross \in View /\ sess.balance \in Nat /\ cross \in CrossTypes
      /\ exch \in [Trades -> Trade]
  BY SessionFields DEF AccountTyped, SessTyped, ExchTyped
<1> DEFINE read == [sess EXCEPT !.cross = Replaced(@, cross)]
<1>2. PICK base \in {sess, read} : sess' = Closing(Updating(base, U), S)
  BY DEF Reevaluate, Publish
<1>3. /\ S \in SUBSET Registered /\ U \in SUBSET Registered
      /\ \A t \in S : exch[t].state # "running"
      /\ \A t \in U : exch[t].state = "running"
      /\ exch' = exch /\ free' = free /\ cross' = cross
      /\ ready' = TRUE /\ accountPc' = "idle"
  BY <1>1 DEF Reevaluate, Publish, Live, exchVars
<1>4. IsBase(base)
  <2>1. Replaced(sess.cross, cross) \in View
    BY <1>1, ReplacedIs
  <2>2. CASE base = read
    BY <1>1, <2>1, <2>2 DEF IsBase, Session
  <2>3. CASE base = sess
    BY <1>1, <2>3 DEF IsBase
  <2> QED
    BY <1>2, <2>2, <2>3
<1> HIDE DEF read
<1>5. exch' \in [Trades -> Trade] /\ base \in Session(Registered)
  BY <1>1, <1>3, <1>4 DEF IsBase
<1>6. Updating(base, U) \in Session(Registered)
  BY <1>1, <1>3, <1>5, UpdatingIs
<1>7. Closing(Updating(base, U), S) \in Session(Registered \ S)
  BY <1>1, <1>3, <1>5, <1>6, ClosingIs
<1>8. Registered \ S \in SUBSET Trades /\ sess' \in Session(Registered \ S)
  BY <1>1, <1>2, <1>7
<1>9. Registered' = Registered \ S
  BY <1>8, SessTypedFrom
<1> QED
  BY <1>2, <1>3, <1>4, <1>6, <1>8, <1>9

\* The rebuilt session.
LEMMA RebuildUserIs ==
  ASSUME AccountTyped, RebuildUser
  PROVE  /\ work' \in Session({}) /\ work'.balance = free /\ work'.pl = sess.pl
         /\ work'.cross = sess.cross /\ work'.known = TRUE
<1>1. sess \in Session(Registered) /\ free \in Nat
  BY DEF AccountTyped, SessTyped, ExchTyped
<1>2. <<>> \in [{} -> RowTypes]
  OBVIOUS
<1>3. work' = [sess EXCEPT !.balance = free, !.running = <<>>, !.expired = FALSE, !.known = TRUE]
  BY DEF RebuildUser
<1> QED
  BY <1>1, <1>2, <1>3 DEF Session, RowTypes

\* What closed unseen.
Missed == [t \in Registered \ Live |-> exch[t].pl]

\* The rebuilt session has what runs at the exchange.
LEMMA RebuildTradesIs ==
  ASSUME AccountTyped, RebuildTrades
  PROVE  /\ Live \in SUBSET Trades
         /\ sess' \in Session(Live) /\ Registered' = Live
         /\ sess'.running = [t \in Live |-> [margin |-> exch[t].margin, cashed |-> exch[t].cashed]]
         /\ sess'.balance = work.balance /\ sess'.cross = work.cross /\ sess'.known = work.known
         /\ sess'.pl = work.pl + SumFunction(Missed) /\ SumFunction(Missed) \in Int
         /\ seen' = seen \cup Live /\ ready' = TRUE /\ accountPc' = "idle"
         /\ work' = NoSession
<1>1. /\ Registered \in SUBSET Trades /\ Live \in SUBSET Trades
      /\ work \in Session(DOMAIN work.running) /\ work.pl \in Int /\ work.closed \in SUBSET Trades
      /\ \A t \in Trades : exch[t].margin \in Int /\ exch[t].cashed \in Nat /\ exch[t].pl \in Int
  BY SessionFields, TradeIs DEF AccountTyped, SessTyped, WorkTyped, Live
<1>2. SumFunction(Missed) \in Int
  <2>1. Registered \ Live \in SUBSET Trades
    BY <1>1
  <2>2. IsFiniteSet(Registered \ Live)
    BY <2>1, AmountsAre
  <2>3. DOMAIN Missed = Registered \ Live /\ \A t \in Registered \ Live : Missed[t] \in Int
    BY <1>1 DEF Missed
  <2> DEFINE M == Registered \ Live
  <2> HIDE DEF M
  <2> QED
    BY <2>2, <2>3, SumType DEF M
<1> DEFINE run == [t \in Live |-> [margin |-> exch[t].margin, cashed |-> exch[t].cashed]]
           c == work.closed \cup (Registered \ Live)
           p == work.pl + SumFunction(Missed)
<1>3. sess' = [work EXCEPT !.running = run, !.closed = c, !.pl = p]
  BY DEF RebuildTrades, Publish, Shown, Missed
<1>4. run \in [Live -> RowTypes] /\ c \in SUBSET Trades /\ p \in Int
  <2>1. run \in [Live -> RowTypes] /\ c \in SUBSET Trades
    BY <1>1 DEF RowTypes
  <2>2. p \in Int
    BY <1>1, <1>2
  <2> QED
    BY <2>1, <2>2
<1> HIDE DEF run, c, p
<1>5. /\ sess' \in Session(Live) /\ sess'.running = run /\ sess'.pl = p
      /\ sess'.balance = work.balance /\ sess'.cross = work.cross /\ sess'.known = work.known
  BY <1>1, <1>3, <1>4 DEF Session, RowTypes
<1>6. Registered' = Live
  BY <1>1, <1>5, SessTypedFrom
<1>7. /\ seen' = seen \cup DOMAIN sess'.running /\ ready' = TRUE /\ accountPc' = "idle"
      /\ work' = NoSession
  BY DEF RebuildTrades, Publish
<1>8. DOMAIN sess'.running = Live
  BY <1>6 DEF Registered
<1> QED
  BY <1>1, <1>2, <1>5, <1>6, <1>7, <1>8 DEF run, p

LEMMA RefreshTypes ==
  ASSUME AccountTyped, Refresh
  PROVE  AccountTyped'
<1>1. /\ Registered \in SUBSET Trades /\ sess \in Session(Registered) /\ SessTyped /\ WorkTyped
      /\ ExchTyped /\ PointTyped /\ HistTyped /\ sess.cross \in View /\ sess.balance \in Nat
      /\ DOMAIN work.running \in SUBSET Trades /\ work \in Session(DOMAIN work.running)
      /\ work.cross \in View /\ work.balance \in Nat /\ cross \in CrossTypes
  BY SessionFields DEF AccountTyped, SessTyped, WorkTyped, ExchTyped
<1>2. ASSUME NEW S \in SUBSET Trades, NEW U \in SUBSET Trades,
             \E reached \in BOOLEAN : Reevaluate(S, U, reached)
      PROVE  AccountTyped'
  <2>4. sess' \in Session(Registered \ S)
    BY <1>2, ReevaluateIs
  <2>1. sess' \in Session(Registered \ S) /\ Registered \ S \in SUBSET Trades
    BY <1>1, <2>4
  <2>2. SessTyped'
    BY <2>1, SessTypedFrom
  <2>3. WorkTyped'
    BY <1>2, WorkTypedFrom, NoSessionType DEF Reevaluate, Publish
  <2>6. seen' \in SUBSET Trades
    <3>1. seen' = seen \cup Registered'
      BY <1>2 DEF Reevaluate, Publish, Registered
    <3> QED
      BY <1>1, <2>2, <3>1 DEF HistTyped, SessTyped
  <2>5. behind' \in BOOLEAN /\ ready' \in BOOLEAN /\ accountPc' = "idle"
    BY <1>2 DEF Reevaluate, Publish
  <2> QED
    BY <1>1, <1>2, <2>2, <2>3, <2>5, <2>6
       DEF Reevaluate, AccountTyped, ExchTyped, PointTyped, HistTyped, exchVars
<1>3. ASSUME RefreshFails PROVE AccountTyped'
  <2>1. sess' \in Session(Registered)
    BY <1>1, <1>3, ExpiredIs DEF RefreshFails
  <2>2. SessTyped' /\ WorkTyped'
    BY <1>1, <1>3, <2>1, SessTypedFrom, WorkTypedFrom, NoSessionType DEF RefreshFails
  <2> QED
    BY <1>1, <1>3, <2>2
       DEF RefreshFails, AccountTyped, ExchTyped, PointTyped, HistTyped, exchVars, history
<1>4. ASSUME SessionExpires PROVE AccountTyped'
  <2>1. sess' \in Session(Registered)
    BY <1>1, <1>4, ExpiredIs DEF SessionExpires
  <2>2. SessTyped'
    BY <1>1, <2>1, SessTypedFrom
  <2> QED
    BY <1>1, <1>4, <2>2
       DEF SessionExpires, AccountTyped, ExchTyped, WorkTyped, PointTyped, HistTyped, exchVars,
           history
<1>5. ASSUME RebuildUser PROVE AccountTyped'
  <2>1. work' \in Session({})
    BY <1>5, RebuildUserIs
  <2>2. WorkTyped'
    BY <2>1, WorkTypedFrom
  <2>3. paid' \in Int /\ behind' \in BOOLEAN
    <3>1. paid' = 0 /\ behind' = FALSE
      BY <1>5 DEF RebuildUser
    <3>2. paid' \in Int
      BY <3>1
    <3> QED
      BY <3>1, <3>2
  <2> QED
    BY <1>1, <1>5, <2>2, <2>3
       DEF RebuildUser, AccountTyped, ExchTyped, SessTyped, PointTyped, HistTyped, exchVars,
           Registered
<1>6. ASSUME RebuildCross PROVE AccountTyped'
  <2>1. Replaced(work.cross, cross) \in View
    BY <1>1, ReplacedIs
  <2>2. work' \in Session(DOMAIN work.running)
    <3>1. work' = [work EXCEPT !.cross = Replaced(work.cross, cross)]
      BY <1>6 DEF RebuildCross
    <3> QED
      BY <1>1, <2>1, <3>1, CrossChangedIs
  <2>3. WorkTyped'
    BY <1>1, <2>2, WorkTypedFrom
  <2>4. earned' \in Int /\ untold' \subseteq {"isolated", "cross"}
    <3>1. earned \in Int /\ 0 \in Int
      BY <1>1 DEF HistTyped
    <3> QED
      BY <1>1, <1>6, <3>1 DEF RebuildCross, HistTyped
  <2> QED
    BY <1>1, <1>6, <2>3, <2>4
       DEF RebuildCross, AccountTyped, ExchTyped, SessTyped, PointTyped, HistTyped, exchVars,
           Registered
<1>7. ASSUME RebuildTrades PROVE AccountTyped'
  <2>1. /\ Live \in SUBSET Trades /\ sess' \in Session(Live) /\ seen' = seen \cup Live
        /\ work' = NoSession /\ ready' = TRUE /\ accountPc' = "idle"
    BY <1>7, RebuildTradesIs DEF AccountTyped
  <2>2. SessTyped' /\ WorkTyped'
    BY <2>1, SessTypedFrom, WorkTypedFrom, NoSessionType
  <2>3. seen' \in SUBSET Trades
    BY <1>1, <2>1 DEF HistTyped
  <2> QED
    BY <1>1, <1>7, <2>1, <2>2, <2>3
       DEF RebuildTrades, AccountTyped, ExchTyped, PointTyped, HistTyped, exchVars
<1> QED
  BY <1>2, <1>3, <1>4, <1>5, <1>6, <1>7 DEF Refresh

LEMMA NextAccountTyped ==
  ASSUME AccountTyped, [AccountNext]_accountVars
  PROVE  AccountTyped'
<1>1. CASE UNCHANGED accountVars
  BY <1>1 DEF accountVars, exchVars, history, AccountTyped, ExchTyped, SessTyped, WorkTyped,
              PointTyped, HistTyped, Registered
<1>2. CASE Methods
  BY <1>2, RequestStepTypes, CloseRequests, CloseStepTypes, CrossRequestTypes, CrossOrderTypes
     DEF Methods
<1> QED
  BY <1>1, <1>2, ExchangeTypes, RefreshTypes DEF AccountNext

-----------------------------------------------------------------------------
(* The books: what a session s has too much for what there is at exchange x. *)

There(x, t) == IF x[t].state = "running" THEN x[t].margin ELSE Fee - x[t].pl

Off(s, x) == [t \in DOMAIN s.running |-> s.running[t].margin - There(x, t)]

\* What the books are made of are integers.
LEMMA OffIs ==
  ASSUME NEW D \in SUBSET Trades, NEW s \in Session(D), NEW x \in [Trades -> Trade]
  PROVE  /\ IsFiniteSet(D) /\ DOMAIN Off(s, x) = D
         /\ \A t \in D : /\ Off(s, x)[t] = s.running[t].margin - There(x, t)
                         /\ Off(s, x)[t] \in Int /\ There(x, t) \in Int
                         /\ s.running[t].margin \in Int /\ s.running[t].cashed \in Nat
                         /\ x[t].margin \in Int /\ x[t].cashed \in Nat /\ x[t].pl \in Int
         /\ SumFunction(Off(s, x)) \in Int /\ s.balance \in Nat
<1>1. /\ IsFiniteSet(D) /\ DOMAIN s.running = D /\ Fee \in Nat /\ s.balance \in Nat
      /\ \A t \in D : s.running[t].margin \in Int /\ s.running[t].cashed \in Nat
  BY SessionFields, AmountsAre
<1>2. \A t \in D : x[t].margin \in Int /\ x[t].cashed \in Nat /\ x[t].pl \in Int
  BY DEF Trade
<1>3. \A t \in D : There(x, t) \in Int
  BY <1>1, <1>2 DEF There
<1>4. DOMAIN Off(s, x) = D /\ \A t \in D : Off(s, x)[t] = s.running[t].margin - There(x, t)
  BY <1>1 DEF Off
<1>5. \A t \in D : Off(s, x)[t] \in Int
  BY <1>1, <1>3, <1>4
<1>6. SumFunction(Off(s, x)) \in Int
  BY <1>1, <1>4, <1>5, SumType
<1> QED
  BY <1>1, <1>2, <1>3, <1>4, <1>5, <1>6

\* Of the trades D the exchange changes some, and pays `back` for them.
Moves(x, y, D, back) ==
  /\ DOMAIN back \subseteq D
  /\ \A t \in DOMAIN back : back[t] \in Int /\ There(y, t) = There(x, t) - back[t]
  /\ \A t \in D \ DOMAIN back : There(y, t) = There(x, t)

\* The session that does not hear of it has that much more too much.
LEMMA OffMoves ==
  ASSUME NEW D \in SUBSET Trades, NEW s \in Session(D),
         NEW x \in [Trades -> Trade], NEW y \in [Trades -> Trade],
         NEW back, Moves(x, y, D, back)
  PROVE  /\ SumFunction(back) \in Int
         /\ SumFunction(Off(s, y)) = SumFunction(Off(s, x)) + SumFunction(back)
<1> DEFINE S == DOMAIN back
           bx == [t \in D |-> IF t \in S THEN back[t] ELSE 0]
           rest == [t \in D \ S |-> 0]
<1>0. /\ S \subseteq D
      /\ \A t \in S : back[t] \in Int /\ There(y, t) = There(x, t) - back[t]
      /\ \A t \in D \ S : There(y, t) = There(x, t)
  BY DEF Moves
<1>1. /\ IsFiniteSet(D) /\ IsFiniteSet(S) /\ IsFiniteSet(D \ S)
  <2>1. S \in SUBSET Trades /\ D \ S \in SUBSET Trades
    BY <1>0
  <2> QED
    BY <2>1, AmountsAre
<1>2. /\ DOMAIN Off(s, x) = D /\ DOMAIN Off(s, y) = D /\ DOMAIN bx = D
      /\ \A t \in D : Off(s, x)[t] \in Int /\ bx[t] \in Int /\ Off(s, y)[t] = Off(s, x)[t] + bx[t]
  BY <1>0, OffIs
<1>3. SumFunction(Off(s, y)) = SumFunction(Off(s, x)) + SumFunction(bx)
  <2> HIDE DEF bx
  <2> QED
    BY <1>1, <1>2, SumAdds
<1>4. SumFunction(bx) = SumFunction(back) + SumFunction(rest)
  <2>1. /\ \A t \in S : back[t] = bx[t]
        /\ \A t \in D \ S : rest[t] = bx[t]
        /\ DOMAIN rest = D \ S
    BY <1>0
  <2> HIDE DEF bx, rest
  <2>3. Splits(bx, back, rest)
    BY <1>0, <1>1, <1>2, <2>1 DEF Splits
  <2> QED
    BY <2>3, SumSplits
<1>5. SumFunction(rest) = 0
  <2> DEFINE R == D \ S
  <2>1. DOMAIN rest = R /\ \A t \in R : rest[t] = 0
    OBVIOUS
  <2>2. IsFiniteSet(R)
    BY <1>1
  <2> HIDE DEF rest, R
  <2> QED
    BY <2>1, <2>2, SumZero
<1>6. SumFunction(back) \in Int
  BY <1>0, <1>1, SumType
<1> DEFINE a == SumFunction(Off(s, x))
           b == SumFunction(back)
           c == SumFunction(Off(s, y))
           d == SumFunction(bx)
           e == SumFunction(rest)
<1>7. c = a + d /\ d = b + e /\ e = 0 /\ b \in Int /\ a \in Int
  BY <1>3, <1>4, <1>5, <1>6, OffIs
<1> HIDE DEF a, b, c, d, e, bx, rest
<1>8. c = a + b
  BY <1>7
<1> QED
  BY <1>6, <1>8 DEF a, b, c

\* One trade only.
LEMMA OffMovesOne ==
  ASSUME NEW D \in SUBSET Trades, NEW s \in Session(D),
         NEW x \in [Trades -> Trade], NEW y \in [Trades -> Trade],
         NEW t \in D, NEW n \in Int, There(y, t) = There(x, t) - n,
         \A u \in D \ {t} : y[u] = x[u]
  PROVE  SumFunction(Off(s, y)) = SumFunction(Off(s, x)) + n
<1>1. /\ IsFiniteSet(D) /\ DOMAIN Off(s, x) = D /\ DOMAIN Off(s, y) = D
      /\ \A u \in D : Off(s, x)[u] \in Int /\ Off(s, y)[u] \in Int
      /\ \A u \in D \ {t} : Off(s, x)[u] = Off(s, y)[u]
  <2>1. \A u \in D \ {t} : There(y, u) = There(x, u)
    BY DEF There
  <2> QED
    BY <2>1, OffIs
<1>2. SumFunction(Off(s, y)) = SumFunction(Off(s, x)) + Off(s, y)[t] - Off(s, x)[t]
  BY <1>1, SumChanges
<1>3. /\ Off(s, y)[t] = s.running[t].margin - There(y, t)
      /\ Off(s, x)[t] = s.running[t].margin - There(x, t)
      /\ s.running[t].margin \in Int /\ There(x, t) \in Int /\ SumFunction(Off(s, x)) \in Int
  BY OffIs
<1> QED
  BY <1>2, <1>3

\* Trades the session does not have do not change its books.
LEMMA OffSame ==
  ASSUME NEW D \in SUBSET Trades, NEW s \in Session(D),
         NEW x \in [Trades -> Trade], NEW y \in [Trades -> Trade],
         \A t \in D : y[t] = x[t]
  PROVE  Off(s, y) = Off(s, x)
<1>1. DOMAIN s.running = D
  BY SessionFields
<1> QED
  BY <1>1 DEF Off, There

\* The session takes over what there is of the trades of S: it gets what it had too much.
LEMMA UpdatedBooks ==
  ASSUME NEW D \in SUBSET Trades, NEW s \in Session(D), NEW r \in Session(D),
         NEW x \in [Trades -> Trade], NEW S \in SUBSET D,
         \A t \in S : x[t].state = "running",
         r.running = [t \in D |-> IF t \in S THEN [margin |-> x[t].margin, cashed |-> x[t].cashed]
                                  ELSE s.running[t]]
  PROVE  /\ SumFunction(FreedBy(s, x, S)) \in Int /\ SumFunction(CashedBy(s, x, S)) \in Int
         /\ SumFunction(Off(r, x)) + SumFunction(FreedBy(s, x, S))
              = SumFunction(Off(s, x)) + SumFunction(CashedBy(s, x, S))
<1> DEFINE freed == FreedBy(s, x, S)
           cash == CashedBy(s, x, S)
           part == [t \in S |-> Off(s, x)[t]]
           rest == [t \in D \ S |-> Off(s, x)[t]]
           zero == [t \in S |-> 0]
           R == D \ S
<1>1. IsFiniteSet(D) /\ IsFiniteSet(S) /\ IsFiniteSet(R)
  <2>1. S \in SUBSET Trades /\ R \in SUBSET Trades
    OBVIOUS
  <2> QED
    BY <2>1, AmountsAre
<1>2. \A t \in S : /\ There(x, t) = x[t].margin
                   /\ Off(s, x)[t] = s.running[t].margin - x[t].margin
                   /\ Off(r, x)[t] = 0
                   /\ s.running[t].margin \in Int /\ s.running[t].cashed \in Nat
                   /\ x[t].margin \in Int /\ x[t].cashed \in Nat
  <2> SUFFICES ASSUME NEW t \in S
               PROVE /\ There(x, t) = x[t].margin
                     /\ Off(s, x)[t] = s.running[t].margin - x[t].margin
                     /\ Off(r, x)[t] = 0
                     /\ s.running[t].margin \in Int /\ s.running[t].cashed \in Nat
                     /\ x[t].margin \in Int /\ x[t].cashed \in Nat
    OBVIOUS
  <2>1. There(x, t) = x[t].margin
    BY DEF There
  <2>2. /\ Off(s, x)[t] = s.running[t].margin - There(x, t)
        /\ Off(r, x)[t] = r.running[t].margin - There(x, t)
        /\ s.running[t].margin \in Int /\ s.running[t].cashed \in Nat
        /\ x[t].margin \in Int /\ x[t].cashed \in Nat
    BY OffIs
  <2>3. r.running[t].margin = x[t].margin
    OBVIOUS
  <2> QED
    BY <2>1, <2>2, <2>3
<1>3. \A t \in R : Off(r, x)[t] = Off(s, x)[t]
  BY OffIs
<1>4. SumFunction(Off(s, x)) = SumFunction(part) + SumFunction(rest)
  <2>1. /\ DOMAIN Off(s, x) = D /\ \A t \in D : Off(s, x)[t] \in Int
    BY OffIs
  <2>2. /\ DOMAIN part = S /\ \A t \in S : part[t] = Off(s, x)[t]
        /\ DOMAIN rest = D \ S /\ \A t \in D \ S : rest[t] = Off(s, x)[t]
    OBVIOUS
  <2> HIDE DEF part, rest
  <2>3. Splits(Off(s, x), part, rest)
    BY <1>1, <2>1, <2>2 DEF Splits
  <2> QED
    BY <2>3, SumSplits
<1>5. SumFunction(Off(r, x)) = SumFunction(zero) + SumFunction(rest)
  <2>1. /\ DOMAIN Off(r, x) = D /\ \A t \in D : Off(r, x)[t] \in Int
    BY OffIs
  <2>2. /\ DOMAIN zero = S /\ \A t \in S : zero[t] = Off(r, x)[t]
        /\ DOMAIN rest = D \ S /\ \A t \in D \ S : rest[t] = Off(r, x)[t]
    BY <1>2, <1>3
  <2> HIDE DEF zero, rest
  <2>3. Splits(Off(r, x), zero, rest)
    BY <1>1, <2>1, <2>2 DEF Splits
  <2> QED
    BY <2>3, SumSplits
<1>6. SumFunction(zero) = 0
  <2>1. DOMAIN zero = S /\ \A t \in S : zero[t] = 0
    OBVIOUS
  <2> HIDE DEF zero
  <2> QED
    BY <1>1, <2>1, SumZero
<1>7. SumFunction(freed) = SumFunction(part) + SumFunction(cash)
  <2>1. /\ DOMAIN freed = S /\ DOMAIN part = S /\ DOMAIN cash = S
        /\ \A t \in S : part[t] \in Int /\ cash[t] \in Int /\ freed[t] = part[t] + cash[t]
    BY <1>2 DEF FreedBy, CashedBy
  <2> HIDE DEF part, freed, cash
  <2> QED
    BY <1>1, <2>1, SumAdds
<1>8. SumFunction(part) \in Int /\ SumFunction(cash) \in Int /\ SumFunction(rest) \in Int
  <2>1. /\ DOMAIN part = S /\ \A t \in S : part[t] \in Int
        /\ DOMAIN cash = S /\ \A t \in S : cash[t] \in Int
        /\ DOMAIN rest = R /\ \A t \in R : rest[t] \in Int
    BY <1>2, OffIs DEF CashedBy
  <2> HIDE DEF part, rest, R, cash
  <2> QED
    BY <1>1, <2>1, SumType
<1> DEFINE a == SumFunction(part)
           b == SumFunction(rest)
           c == SumFunction(cash)
           d == SumFunction(Off(r, x))
           e == SumFunction(Off(s, x))
           f == SumFunction(freed)
           z == SumFunction(zero)
<1>9. e = a + b /\ d = z + b /\ z = 0 /\ f = a + c /\ a \in Int /\ b \in Int /\ c \in Int
  BY <1>4, <1>5, <1>6, <1>7, <1>8
<1> HIDE DEF a, b, c, d, e, f, z, part, rest, zero, R, freed, cash
<1>10. f \in Int /\ d + f = e + c
  BY <1>9
<1> QED
  BY <1>8, <1>10 DEF c, d, e, f, freed, cash

\* The session gets for each trade of S what it had too much, and no longer has it.
LEMMA ClosedBooks ==
  ASSUME NEW D \in SUBSET Trades, NEW s \in Session(D), NEW S \in SUBSET D,
         NEW r \in Session(D \ S), NEW x \in [Trades -> Trade],
         \A t \in S : x[t].state # "running",
         r.running = Kept(s, D \ S)
  PROVE  /\ SumFunction(BackFrom(s, x, S)) \in Int /\ SumFunction(Off(r, x)) \in Int
         /\ SumFunction(Off(r, x)) + SumFunction(BackFrom(s, x, S)) = SumFunction(Off(s, x))
<1> DEFINE R == D \ S
           back == BackFrom(s, x, S)
<1>1. IsFiniteSet(D) /\ IsFiniteSet(S) /\ R \in SUBSET Trades
  <2>1. S \in SUBSET Trades /\ R \in SUBSET Trades
    OBVIOUS
  <2> QED
    BY <2>1, AmountsAre
<1>2. Fee \in Nat
  BY AmountsAre
<1>3. \A t \in S : /\ Off(s, x)[t] = s.running[t].margin - Fee + x[t].pl
                   /\ Off(s, x)[t] \in Int
  <2> SUFFICES ASSUME NEW t \in S
               PROVE  /\ Off(s, x)[t] = s.running[t].margin - Fee + x[t].pl
                      /\ Off(s, x)[t] \in Int
    OBVIOUS
  <2>1. There(x, t) = Fee - x[t].pl
    BY DEF There
  <2>2. /\ Off(s, x)[t] = s.running[t].margin - There(x, t)
        /\ s.running[t].margin \in Int /\ x[t].pl \in Int
    BY OffIs
  <2> QED
    BY <1>2, <2>1, <2>2
<1>4. /\ DOMAIN Off(r, x) = R /\ SumFunction(Off(r, x)) \in Int
      /\ \A t \in R : Off(r, x)[t] = r.running[t].margin - There(x, t)
  <2>1. r \in Session(R)
    OBVIOUS
  <2> HIDE DEF R
  <2> QED
    BY <1>1, <2>1, OffIs
<1>5. \A t \in R : Off(r, x)[t] = Off(s, x)[t]
  <2>1. \A t \in R : r.running[t] = s.running[t]
    BY DEF Kept
  <2>2. \A t \in D : Off(s, x)[t] = s.running[t].margin - There(x, t)
    BY OffIs
  <2> QED
    BY <1>4, <2>1, <2>2
<1>6. SumFunction(Off(s, x)) = SumFunction(back) + SumFunction(Off(r, x))
  <2>1. /\ DOMAIN Off(s, x) = D /\ \A t \in D : Off(s, x)[t] \in Int
    BY OffIs
  <2>2. DOMAIN back = S /\ \A t \in S : back[t] = Off(s, x)[t]
    BY <1>3 DEF BackFrom
  <2> HIDE DEF back
  <2>3. Splits(Off(s, x), back, Off(r, x))
    BY <1>1, <1>4, <1>5, <2>1, <2>2 DEF Splits
  <2> QED
    BY <2>3, SumSplits
<1>7. SumFunction(back) \in Int
  <2>1. DOMAIN back = S /\ \A t \in S : back[t] \in Int
    BY <1>3 DEF BackFrom
  <2> HIDE DEF back
  <2> QED
    BY <1>1, <2>1, SumType
<1> QED
  BY <1>4, <1>6, <1>7

\* A trade that the session registers as it is.
LEMMA RegisteredBooks ==
  ASSUME NEW D \in SUBSET Trades, NEW s \in Session(D), NEW t \in Trades, t \notin D,
         NEW r \in Session(D \cup {t}), NEW x \in [Trades -> Trade],
         x[t].state = "running",
         r.running = [u \in D \cup {t} |->
                        IF u = t THEN [margin |-> x[t].margin, cashed |-> x[t].cashed]
                        ELSE s.running[u]]
  PROVE  SumFunction(Off(r, x)) = SumFunction(Off(s, x))
<1> DEFINE E == D \cup {t}
<1>1. E \in SUBSET Trades /\ r \in Session(E) /\ IsFiniteSet(D)
  BY AmountsAre
<1>2. /\ DOMAIN Off(s, x) = D /\ \A u \in D : Off(s, x)[u] = s.running[u].margin - There(x, u)
      /\ SumFunction(Off(s, x)) \in Int
  BY OffIs
<1>3. /\ DOMAIN Off(r, x) = E
      /\ \A u \in E : /\ Off(r, x)[u] = r.running[u].margin - There(x, u)
                      /\ Off(r, x)[u] \in Int /\ There(x, u) \in Int
  <2> HIDE DEF E
  <2> QED
    BY <1>1, OffIs
<1>4. r.running[t].margin = x[t].margin /\ \A u \in D : r.running[u] = s.running[u]
  OBVIOUS
<1>5. There(x, t) = x[t].margin /\ There(x, t) \in Int
  BY <1>3 DEF There
<1>6. Off(r, x)[t] = 0
  <2>1. t \in E /\ Off(r, x)[t] = r.running[t].margin - There(x, t)
    BY <1>3
  <2> QED
    BY <1>4, <1>5, <2>1
<1>7. \A u \in D : Off(s, x)[u] = Off(r, x)[u]
  <2> SUFFICES ASSUME NEW u \in D PROVE Off(s, x)[u] = Off(r, x)[u]
    OBVIOUS
  <2>1. /\ Off(s, x)[u] = s.running[u].margin - There(x, u)
        /\ Off(r, x)[u] = r.running[u].margin - There(x, u)
    BY <1>2, <1>3
  <2>2. r.running[u] = s.running[u]
    BY <1>4
  <2> QED
    BY <2>1, <2>2, Zenon
<1> DEFINE none == [u \in {t} |-> 0]
<1>8. Splits(Off(r, x), Off(s, x), none)
  <2>1. /\ IsFiniteSet(E) /\ D \subseteq E /\ {t} = E \ D
        /\ DOMAIN none = {t} /\ \A u \in {t} : none[u] = Off(r, x)[u]
    BY <1>1, <1>6, AmountsAre
  <2> HIDE DEF E, none
  <2> QED
    BY <1>2, <1>3, <1>7, <2>1 DEF Splits
<1>9. SumFunction(Off(r, x)) = SumFunction(Off(s, x)) + SumFunction(none)
  <2> HIDE DEF none
  <2> QED
    BY <1>8, SumSplits
<1>10. SumFunction(none) = 0
  <2>1. IsFiniteSet({t}) /\ DOMAIN none = {t} /\ \A u \in {t} : none[u] = 0
    BY FS_Singleton
  <2> HIDE DEF none
  <2> QED
    BY <2>1, SumZero
<1> QED
  BY <1>2, <1>9, <1>10

-----------------------------------------------------------------------------
(* The profit: what a session with the running trades D and the trades S   *)
(* seen owes to exchange x.                                                *)

Known(D, S, x) == [t \in S |-> x[t].cashed + IF t \in D THEN 0 ELSE x[t].pl]

\* The profits are integers.
LEMMA KnownIs ==
  ASSUME NEW D, NEW S \in SUBSET Trades, NEW x \in [Trades -> Trade]
  PROVE  /\ IsFiniteSet(S) /\ DOMAIN Known(D, S, x) = S
         /\ \A t \in S : /\ Known(D, S, x)[t] = x[t].cashed + IF t \in D THEN 0 ELSE x[t].pl
                         /\ Known(D, S, x)[t] \in Int
                         /\ x[t].cashed \in Nat /\ x[t].pl \in Int
         /\ SumFunction(Known(D, S, x)) \in Int
<1>1. IsFiniteSet(S) /\ DOMAIN Known(D, S, x) = S
  BY AmountsAre DEF Known
<1>2. \A t \in S : x[t].cashed \in Nat /\ x[t].pl \in Int
  BY DEF Trade
<1>3. \A t \in S : /\ Known(D, S, x)[t] = x[t].cashed + IF t \in D THEN 0 ELSE x[t].pl
                   /\ Known(D, S, x)[t] \in Int
  BY <1>2 DEF Known
<1> QED
  BY <1>1, <1>2, <1>3, SumType

\* What is not counted may change.
LEMMA KnownSame ==
  ASSUME NEW D, NEW S \in SUBSET Trades,
         NEW x \in [Trades -> Trade], NEW y \in [Trades -> Trade],
         \A t \in S : y[t].cashed = x[t].cashed,
         \A t \in S \ D : y[t].pl = x[t].pl
  PROVE  Known(D, S, y) = Known(D, S, x)
BY DEF Known

\* A profit cashed in.
LEMMA KnownCashed ==
  ASSUME NEW D, NEW S \in SUBSET Trades, NEW t \in S, NEW p \in Int,
         NEW x \in [Trades -> Trade], NEW y \in [Trades -> Trade],
         y[t].cashed = x[t].cashed + p, y[t].pl = x[t].pl,
         \A u \in S \ {t} : y[u] = x[u]
  PROVE  SumFunction(Known(D, S, y)) = SumFunction(Known(D, S, x)) + p
<1>1. /\ IsFiniteSet(S) /\ DOMAIN Known(D, S, x) = S /\ DOMAIN Known(D, S, y) = S
      /\ \A u \in S : Known(D, S, x)[u] \in Int /\ Known(D, S, y)[u] \in Int
      /\ SumFunction(Known(D, S, x)) \in Int
  <2>1. /\ IsFiniteSet(S) /\ DOMAIN Known(D, S, x) = S
        /\ \A u \in S : Known(D, S, x)[u] \in Int
        /\ SumFunction(Known(D, S, x)) \in Int
    BY KnownIs
  <2>2. DOMAIN Known(D, S, y) = S /\ \A u \in S : Known(D, S, y)[u] \in Int
    BY KnownIs
  <2> QED
    BY <2>1, <2>2
<1>2. \A u \in S \ {t} : Known(D, S, x)[u] = Known(D, S, y)[u]
  BY DEF Known
<1>3. Known(D, S, y)[t] = Known(D, S, x)[t] + p
  BY KnownIs
<1>4. SumFunction(Known(D, S, y))
        = SumFunction(Known(D, S, x)) + Known(D, S, y)[t] - Known(D, S, x)[t]
  BY <1>1, <1>2, SumChanges
<1> QED
  BY <1>1, <1>3, <1>4

\* Trades that are seen and owe nothing yet.
LEMMA KnownGrows ==
  ASSUME NEW D, NEW E, NEW S \in SUBSET Trades, NEW T \in SUBSET Trades, S \subseteq T,
         NEW x \in [Trades -> Trade],
         \A t \in S : t \in D <=> t \in E,
         \A t \in T \ S : x[t].cashed = 0 /\ t \in E
  PROVE  SumFunction(Known(E, T, x)) = SumFunction(Known(D, S, x))
<1> DEFINE rest == [t \in T \ S |-> 0]
<1>1. /\ IsFiniteSet(T) /\ DOMAIN Known(E, T, x) = T /\ DOMAIN Known(D, S, x) = S
      /\ \A t \in T : Known(E, T, x)[t] \in Int
      /\ SumFunction(Known(D, S, x)) \in Int
  BY KnownIs
<1>2. \A t \in S : Known(D, S, x)[t] = Known(E, T, x)[t]
  BY DEF Known
<1>3. \A t \in T \ S : Known(E, T, x)[t] = 0
  BY KnownIs
<1>4. DOMAIN rest = T \ S /\ \A t \in T \ S : rest[t] = 0
  OBVIOUS
<1> HIDE DEF rest
<1>5. Splits(Known(E, T, x), Known(D, S, x), rest)
  BY <1>1, <1>2, <1>3, <1>4 DEF Splits
<1>6. IsFiniteSet(DOMAIN rest)
  <2>1. DOMAIN rest \in SUBSET Trades
    BY <1>4
  <2> QED
    BY <2>1, AmountsAre
<1>7. SumFunction(rest) = 0
  BY <1>4, <1>6, SumZero
<1>8. SumFunction(Known(E, T, x)) = SumFunction(Known(D, S, x)) + SumFunction(rest)
  BY <1>5, SumSplits
<1> QED
  BY <1>1, <1>7, <1>8

\* Trades that the session closes.
LEMMA KnownCloses ==
  ASSUME NEW D, NEW S \in SUBSET Trades, NEW C \in SUBSET S, C \subseteq D,
         NEW x \in [Trades -> Trade]
  PROVE  /\ SumFunction(Won(C, x)) \in Int
         /\ SumFunction(Known(D \ C, S, x))
              = SumFunction(Known(D, S, x)) + SumFunction(Won(C, x))
<1> DEFINE won == Won(C, x)
           f == Known(D, S, x)
           g == Known(D \ C, S, x)
           h == [t \in S |-> IF t \in C THEN won[t] ELSE 0]
           rest == [t \in S \ C |-> 0]
           R == S \ C
<1>1. /\ IsFiniteSet(S) /\ DOMAIN f = S /\ DOMAIN g = S /\ DOMAIN h = S /\ SumFunction(f) \in Int
      /\ \A t \in S : f[t] \in Int /\ g[t] \in Int /\ x[t].pl \in Int /\ x[t].cashed \in Nat
  BY KnownIs
<1>2. IsFiniteSet(C) /\ IsFiniteSet(R)
  <2>1. C \in SUBSET Trades /\ R \in SUBSET Trades
    OBVIOUS
  <2> QED
    BY <2>1, AmountsAre
<1>3. DOMAIN won = C /\ \A t \in C : won[t] = x[t].pl /\ won[t] \in Int
  BY <1>1 DEF Won
<1>4. SumFunction(won) \in Int
  <2> HIDE DEF won
  <2> QED
    BY <1>2, <1>3, SumType
<1>5. \A t \in S : h[t] \in Int
  BY <1>3
<1>6. \A t \in S : g[t] = f[t] + h[t]
  <2> SUFFICES ASSUME NEW t \in S PROVE g[t] = f[t] + h[t]
    OBVIOUS
  <2>1. CASE t \in C
    <3>1. g[t] = x[t].cashed + x[t].pl /\ f[t] = x[t].cashed + 0 /\ h[t] = x[t].pl
      BY <1>3, <2>1 DEF Known
    <3> QED
      BY <1>1, <3>1
  <2>2. CASE t \notin C
    <3>1. g[t] = f[t] /\ h[t] = 0
      BY <2>2 DEF Known
    <3> QED
      BY <1>1, <3>1
  <2> QED
    BY <2>1, <2>2
<1>7. /\ \A t \in C : won[t] = h[t]
      /\ DOMAIN rest = R /\ \A t \in R : rest[t] = h[t] /\ rest[t] = 0
      /\ R = S \ C
  OBVIOUS
<1> HIDE DEF won, f, g, h, rest, R
<1>8. SumFunction(g) = SumFunction(f) + SumFunction(h)
  BY <1>1, <1>5, <1>6, SumAdds
<1>9. Splits(h, won, rest)
  BY <1>1, <1>3, <1>5, <1>7 DEF Splits
<1>10. SumFunction(h) = SumFunction(won) + SumFunction(rest)
  BY <1>9, SumSplits
<1>11. SumFunction(rest) = 0
  BY <1>2, <1>7, SumZero
<1>12. SumFunction(g) = SumFunction(f) + SumFunction(won)
  BY <1>1, <1>4, <1>8, <1>10, <1>11
<1> QED
  BY <1>4, <1>12 DEF won, f, g

-----------------------------------------------------------------------------
(* The inductive invariant.                                                *)

\* What a cross account has besides its profit.
SumOf(v) == v.margin + v.fees + v.funding

Serving == ready /\ accountPc \in {"idle", "order"}

\* A ready executor has a session that was built; one that is not will rebuild it.
KnownInv ==
  /\ ready => sess.known
  /\ ~ready => sess.expired
  /\ ~sess.known => sess.pl = 0 /\ Registered = {} /\ seen = {} /\ sess.cross.pl = 0

\* A trade that was seen and is no longer registered has ended, one not seen yet owes nothing.
TradeInv ==
  /\ Registered \subseteq seen
  /\ \A t \in seen : exch[t].state # "none"
  /\ \A t \in seen \ Registered : exch[t].state # "running"
  /\ \A t \in Trades \ seen : exch[t].cashed = 0

\* What the session being built goes back to.
WorkInv ==
  /\ accountPc = "order" =>
       /\ ready /\ work.known
       /\ work.balance = sess.balance /\ work.running = sess.running /\ work.pl = sess.pl
  /\ accountPc \in {"cross", "trades"} =>
       /\ work.known /\ work.pl = sess.pl
       /\ ~behind => work.balance = free /\ paid = 0
  /\ accountPc = "cross" => work.cross = sess.cross

\* No profit of a registered trade was cashed in without the session.
InStep == \A t \in Registered : exch[t].cashed = sess.running[t].cashed

SyncInv ==
  Serving /\ ~behind =>
    /\ Live \subseteq Registered
    /\ InStep
    /\ sess.balance + SumFunction(Off(sess, exch)) = free + paid

ProfitInv ==
  "isolated" \notin untold => InStep /\ sess.pl = SumFunction(Known(Registered, seen, exch))

CrossInv ==
  "cross" \notin untold =>
    /\ sess.known /\ accountPc # "order" =>
         sess.cross.pl = earned /\ SumOf(sess.cross) = SumOf(cross)
    /\ accountPc = "trades" => work.cross.pl = earned /\ SumOf(work.cross) = SumOf(cross)
    /\ accountPc = "order" => work.cross.pl + SumOf(cross) - SumOf(work.cross) = earned

AccountInv ==
  AccountTyped /\ KnownInv /\ TradeInv /\ WorkInv /\ SyncInv /\ ProfitInv /\ CrossInv

\* A session that does not exist agrees with everything.
LEMMA InitAccountInv == AccountInit => AccountInv
<1> SUFFICES ASSUME AccountInit PROVE AccountInv
  OBVIOUS
<1>1. /\ sess = NoSession /\ ready = FALSE /\ accountPc = "idle" /\ seen = {} /\ untold = {}
      /\ \A t \in Trades : exch[t].cashed = 0
  BY DEF AccountInit
<1>2. Registered = {} /\ sess.known = FALSE /\ sess.expired = TRUE /\ sess.pl = 0 /\ sess.cross.pl = 0
  BY <1>1 DEF Registered, NoSession, NoView
<1>3. KnownInv /\ TradeInv /\ WorkInv /\ SyncInv /\ CrossInv
  BY <1>1, <1>2 DEF KnownInv, TradeInv, WorkInv, SyncInv, CrossInv, Serving
<1>4. ProfitInv
  <2>1. DOMAIN Known(Registered, seen, exch) = {} /\ IsFiniteSet({})
    BY <1>1, FS_EmptySet DEF Known
  <2>2. SumFunction(Known(Registered, seen, exch)) = 0
    BY <2>1, SumZero
  <2> QED
    BY <1>2, <2>2 DEF ProfitInv, InStep
<1> QED
  BY <1>3, <1>4, InitAccountTyped DEF AccountInv

-----------------------------------------------------------------------------
(* Steps of the exchange.                                                  *)

\* What a move leaves alone, and what it does to trades.
LEMMA ExchangeKeeps ==
  ASSUME AccountTyped, Exchange
  PROVE  /\ UNCHANGED <<sess, ready, accountPc, work, ops, seen>> /\ Registered' = Registered
         /\ \A t \in Trades : /\ exch'[t].cashed = exch[t].cashed
                              /\ exch[t].state = "none" <=> exch'[t].state = "none"
                              /\ exch'[t].state = "running" => exch[t].state = "running"
                              /\ exch[t].state # "running" => exch'[t] = exch[t]
<1>1. ExchTyped /\ \A t \in Trades : exch[t] \in Trade
  BY TradeIs DEF AccountTyped
<1>2. UNCHANGED <<sess, ready, accountPc, work, ops, seen>>
  BY DEF Exchange, ExchangeCloses, Settle, CrossSettle, CrossLiquidated, history
<1>3. Registered' = Registered
  BY <1>2 DEF Registered
<1>4. CASE exch' = exch
  BY <1>2, <1>3, <1>4
<1>5. ASSUME NEW t \in Trades, NEW pl, t \in Live,
             exch' = [exch EXCEPT ![t].state = "closed", ![t].pl = pl]
      PROVE  \A u \in Trades : /\ exch'[u].cashed = exch[u].cashed
                               /\ exch[u].state = "none" <=> exch'[u].state = "none"
                               /\ exch'[u].state = "running" => exch[u].state = "running"
                               /\ exch[u].state # "running" => exch'[u] = exch[u]
  <2>1. exch[t].state = "running" /\ \A u \in Trades : u # t => exch'[u] = exch[u]
    BY <1>1, <1>5 DEF Live, ExchTyped
  <2>2. exch'[t].cashed = exch[t].cashed /\ exch'[t].state = "closed"
    BY <1>1, <1>5 DEF ExchTyped, Trade
  <2> QED
    BY <2>1, <2>2
<1>6. ASSUME NEW t \in Trades, NEW m, t \in Live,
             exch' = [exch EXCEPT ![t].margin = m]
      PROVE  \A u \in Trades : /\ exch'[u].cashed = exch[u].cashed
                               /\ exch[u].state = "none" <=> exch'[u].state = "none"
                               /\ exch'[u].state = "running" => exch[u].state = "running"
                               /\ exch[u].state # "running" => exch'[u] = exch[u]
  <2>1. exch[t].state = "running" /\ \A u \in Trades : u # t => exch'[u] = exch[u]
    BY <1>1, <1>6 DEF Live, ExchTyped
  <2>2. exch'[t].cashed = exch[t].cashed /\ exch'[t].state = exch[t].state
    BY <1>1, <1>6 DEF ExchTyped, Trade
  <2> QED
    BY <2>1, <2>2
<1>7. \/ exch' = exch
      \/ \E t \in Trades, pl \in Results :
           t \in Live /\ exch' = [exch EXCEPT ![t].state = "closed", ![t].pl = pl]
      \/ \E t \in Trades, fee \in {-1, 1} :
           t \in Live /\ exch' = [exch EXCEPT ![t].margin = exch[t].margin - fee]
  BY <1>1 DEF Exchange, ExchangeCloses, Settle, CrossSettle, CrossLiquidated, ExchTyped
<1> QED
  BY <1>2, <1>3, <1>4, <1>5, <1>6, <1>7

\* What a move pays out or takes is what the books of the session are off by then.
LEMMA ExchangeBooks ==
  ASSUME AccountTyped, Exchange, Live \subseteq Registered
  PROVE  /\ SumFunction(Off(sess, exch')) - SumFunction(Off(sess, exch)) = (free' + paid') - (free + paid)
         /\ SumFunction(Off(sess, exch')) \in Int /\ free' \in Int /\ paid' \in Int
<1>1. /\ ExchTyped /\ HistTyped /\ Registered \in SUBSET Trades /\ sess \in Session(Registered)
      /\ exch \in [Trades -> Trade] /\ free \in Nat /\ paid \in Int
  BY DEF AccountTyped, SessTyped, ExchTyped, HistTyped
<1>2. exch' \in [Trades -> Trade] /\ free' \in Nat /\ paid' \in Int
  BY ExchangeTypes DEF AccountTyped, ExchTyped, HistTyped
<1>3. /\ SumFunction(Off(sess, exch)) \in Int /\ SumFunction(Off(sess, exch')) \in Int
  BY <1>1, <1>2, OffIs
<1>4. Fee \in Nat /\ \A r \in Results : r \in Int
  BY AmountsAre
<1>5. ASSUME NEW t \in Trades, NEW n \in Int, NEW p \in Int, t \in Live,
             There(exch', t) = There(exch, t) - n,
             \A u \in Trades : u # t => exch'[u] = exch[u],
             free' = free + n - p, paid' = paid + p
      PROVE  SumFunction(Off(sess, exch')) - SumFunction(Off(sess, exch))
               = (free' + paid') - (free + paid)
  <2>1. t \in Registered /\ \A u \in Registered \ {t} : exch'[u] = exch[u]
    BY <1>1, <1>5
  <2>2. SumFunction(Off(sess, exch')) = SumFunction(Off(sess, exch)) + n
    BY <1>1, <1>2, <1>5, <2>1, OffMovesOne
  <2> QED
    BY <1>1, <1>2, <1>3, <1>5, <2>2
<1>6. ASSUME NEW t \in Trades, NEW pl \in Results, ExchangeCloses(t, pl)
      PROVE  SumFunction(Off(sess, exch')) - SumFunction(Off(sess, exch))
               = (free' + paid') - (free + paid)
  <2>1. /\ t \in Live /\ exch[t].state = "running" /\ exch[t] \in Trade /\ exch[t].margin \in Int
        /\ pl \in Int
    BY <1>1, <1>4, <1>6, TradeIs DEF ExchangeCloses, Live
  <2>2. /\ \A u \in Trades : u # t => exch'[u] = exch[u]
        /\ exch'[t].state = "closed" /\ exch'[t].pl = pl
    BY <1>1, <1>6, <2>1 DEF ExchangeCloses, Trade
  <2>3. There(exch, t) = exch[t].margin /\ There(exch', t) = Fee - pl
    BY <2>1, <2>2 DEF There
  <2> DEFINE n == exch[t].margin + pl - Fee
  <2>4. /\ n \in Int /\ 0 \in Int /\ There(exch', t) = There(exch, t) - n
        /\ free' = free + n - 0 /\ paid' = paid + 0
    BY <1>1, <1>4, <1>6, <2>1, <2>3 DEF ExchangeCloses
  <2> HIDE DEF n
  <2> QED
    BY <1>5, <2>1, <2>2, <2>4
<1>7. ASSUME NEW t \in Trades, NEW fee \in {-1, 1}, Settle(t, fee)
      PROVE  SumFunction(Off(sess, exch')) - SumFunction(Off(sess, exch))
               = (free' + paid') - (free + paid)
  <2>1. /\ t \in Live /\ exch[t].state = "running" /\ exch[t] \in Trade /\ exch[t].margin \in Int
        /\ fee \in Int /\ paid' = paid + fee
    BY <1>1, <1>7, TradeIs DEF Settle, Live
  <2>2. CASE fee > 0
    <3>1. /\ \A u \in Trades : u # t => exch'[u] = exch[u]
          /\ exch'[t].state = "running" /\ exch'[t].margin = exch[t].margin - fee
          /\ free' = free
      BY <1>1, <1>7, <2>1, <2>2 DEF Settle, Trade
    <3>2. There(exch, t) = exch[t].margin /\ There(exch', t) = exch[t].margin - fee
      BY <2>1, <3>1 DEF There
    <3>3. /\ There(exch', t) = There(exch, t) - fee /\ free' = free + fee - fee
      BY <1>1, <2>1, <3>1, <3>2
    <3> QED
      BY <1>5, <2>1, <3>1, <3>3
  <2>3. CASE ~(fee > 0)
    <3>1. exch' = exch /\ free' = free - fee
      BY <1>7, <2>3 DEF Settle
    <3> QED
      BY <1>1, <1>3, <2>1, <3>1
  <2> QED
    BY <2>2, <2>3
<1>8. ASSUME \/ \E fee \in {-1, 1} : CrossSettle(fee)
             \/ CrossLiquidated
      PROVE  SumFunction(Off(sess, exch')) - SumFunction(Off(sess, exch))
               = (free' + paid') - (free + paid)
  <2>1. exch' = exch /\ free' = free /\ paid' = paid
    BY <1>8 DEF CrossSettle, CrossLiquidated, history
  <2> QED
    BY <1>1, <1>3, <2>1
<1> QED
  BY <1>2, <1>3, <1>6, <1>7, <1>8 DEF Exchange

\* The exchange moves.
LEMMA ExchangeInv ==
  ASSUME AccountInv, Exchange
  PROVE  AccountInv'
<1>1. AccountTyped /\ AccountTyped'
  BY ExchangeTypes DEF AccountInv
<1>2. /\ ExchTyped /\ HistTyped /\ Registered \in SUBSET Trades /\ sess \in Session(Registered)
      /\ exch \in [Trades -> Trade] /\ exch' \in [Trades -> Trade] /\ seen \in SUBSET Trades
      /\ cross \in CrossTypes /\ paid \in Int /\ free \in Nat /\ behind \in BOOLEAN
      /\ earned \in Int /\ untold \subseteq {"isolated", "cross"} /\ sess.balance \in Nat
  BY <1>1, SessionFields DEF AccountTyped, SessTyped, ExchTyped, HistTyped
<1>3. /\ UNCHANGED <<sess, ready, accountPc, work, ops, seen>> /\ Registered' = Registered
      /\ \A t \in Trades : /\ exch'[t].cashed = exch[t].cashed
                           /\ exch[t].state = "none" <=> exch'[t].state = "none"
                           /\ exch'[t].state = "running" => exch[t].state = "running"
                           /\ exch[t].state # "running" => exch'[t] = exch[t]
  BY <1>1, ExchangeKeeps
<1>4. KnownInv'
  BY <1>3, Zenon DEF AccountInv, KnownInv
<1>5. TradeInv'
  BY <1>2, <1>3 DEF AccountInv, TradeInv
<1>6. /\ behind => behind'
      /\ accountPc \in {"cross", "trades"} /\ ~behind' => free' = free /\ paid' = paid
      /\ "cross" \notin untold' => "cross" \notin untold
      /\ "isolated" \notin untold' => "isolated" \notin untold
  BY <1>2 DEF Exchange, ExchangeCloses, Settle, CrossSettle, CrossLiquidated, Torn, history
<1>7. WorkInv'
  BY <1>3, <1>6, Zenon DEF AccountInv, WorkInv
<1>8. SyncInv'
  <2> SUFFICES ASSUME Serving', ~behind'
               PROVE  /\ Live' \subseteq Registered' /\ InStep'
                      /\ (sess.balance + SumFunction(Off(sess, exch)) = free + paid)'
    BY DEF SyncInv
  <2>1. /\ Live \subseteq Registered /\ InStep
        /\ sess.balance + SumFunction(Off(sess, exch)) = free + paid
    BY <1>3, <1>6 DEF AccountInv, SyncInv, Serving
  <2>2. Live' \subseteq Registered'
    BY <1>3, <2>1 DEF Live
  <2>3. InStep'
    BY <1>2, <1>3, <2>1 DEF InStep
  <2> DEFINE a == SumFunction(Off(sess, exch))
             b == SumFunction(Off(sess, exch'))
  <2>4. /\ b - a = (free' + paid') - (free + paid)
        /\ a \in Int /\ b \in Int /\ free' \in Int /\ paid' \in Int
    BY <1>1, <1>2, <2>1, ExchangeBooks, OffIs
  <2>5. sess.balance + a = free + paid
    BY <2>1
  <2> HIDE DEF a, b
  <2> DEFINE w == sess.balance
             f == free + paid
             g == free' + paid'
  <2>6. w \in Int /\ f \in Int /\ g \in Int /\ a \in Int /\ b \in Int
    BY <1>2, <2>4
  <2>7. w + a = f /\ b - a = g - f
    BY <2>4, <2>5
  <2> HIDE DEF w, f, g
  <2>8. w + b = g
    BY <2>6, <2>7
  <2> QED
    BY <1>3, <2>2, <2>3, <2>8 DEF b, w, g
<1>9. ProfitInv'
  <2> SUFFICES ASSUME "isolated" \notin untold'
               PROVE  InStep' /\ (sess.pl = SumFunction(Known(Registered, seen, exch)))'
    BY DEF ProfitInv
  <2>1. InStep /\ sess.pl = SumFunction(Known(Registered, seen, exch))
    BY <1>6 DEF AccountInv, ProfitInv
  <2>2. InStep'
    BY <1>2, <1>3, <2>1 DEF InStep
  <2>3. /\ \A t \in seen : exch'[t].cashed = exch[t].cashed
        /\ \A t \in seen \ Registered : exch'[t].pl = exch[t].pl
    BY <1>2, <1>3 DEF AccountInv, TradeInv
  <2>4. Known(Registered, seen, exch') = Known(Registered, seen, exch)
    BY <1>2, <2>3, KnownSame
  <2> QED
    BY <1>3, <2>1, <2>2, <2>4
<1>10. CrossInv'
  <2> SUFFICES ASSUME "cross" \notin untold' PROVE CrossInv'
    BY DEF CrossInv
  <2>1. ~ CrossLiquidated
    BY DEF CrossLiquidated
  <2>2. SumOf(cross') = SumOf(cross) /\ earned' = earned
    <3>1. CASE \E fee \in {-1, 1} : CrossSettle(fee)
      <4>1. PICK fee \in {-1, 1} : CrossSettle(fee)
        BY <3>1
      <4>2. cross.margin \in Int /\ cross.fees \in Nat /\ cross.funding \in Int /\ fee \in Int
        BY <1>2, CrossIs
      <4>3. /\ cross'.margin = cross.margin - fee /\ cross'.funding = cross.funding + fee
            /\ cross'.fees = cross.fees /\ earned' = earned
        BY <1>2, <4>1 DEF CrossSettle, CrossTypes, history
      <4> QED
        BY <4>2, <4>3 DEF SumOf
    <3>2. CASE ~ \E fee \in {-1, 1} : CrossSettle(fee)
      BY <2>1, <3>2 DEF Exchange, ExchangeCloses, Settle
    <3> QED
      BY <3>1, <3>2
  <2> QED
    BY <1>3, <1>6, <2>2 DEF AccountInv, CrossInv
<1> QED
  BY <1>1, <1>4, <1>5, <1>7, <1>8, <1>9, <1>10 DEF AccountInv

-----------------------------------------------------------------------------
(* Steps that leave the trades alone.                                      *)

\* A read takes over what the account has, an order books the difference as profit.
LEMMA ReplacedSum ==
  ASSUME NEW v \in View, NEW x \in CrossTypes
  PROVE  /\ SumOf(Replaced(v, x)) = SumOf(x) /\ Replaced(v, x).pl = v.pl
         /\ SumOf(AfterOrder(v, x)) = SumOf(x)
         /\ AfterOrder(v, x).pl = v.pl + SumOf(x) - SumOf(v)
         /\ SumOf(x) \in Int /\ SumOf(v) \in Int /\ v.pl \in Int
<1>1. SumOf(Replaced(v, x)) = SumOf(x) /\ Replaced(v, x).pl = v.pl
  BY ReplacedIs DEF SumOf
<1>2. SumOf(AfterOrder(v, x)) = SumOf(x)
  BY AfterOrderIs DEF SumOf
<1>3. /\ x.margin \in Int /\ x.fees \in Int /\ x.funding \in Int
      /\ v.margin \in Int /\ v.fees \in Int /\ v.funding \in Int /\ v.pl \in Int
  BY DEF View, CrossTypes
<1>4. AfterOrder(v, x).pl = v.pl + (x.margin - v.margin) + (x.fees - v.fees)
                                 + (x.funding - v.funding)
  BY AfterOrderIs
<1>5. AfterOrder(v, x).pl = v.pl + SumOf(x) - SumOf(v) /\ SumOf(x) \in Int /\ SumOf(v) \in Int
  BY <1>3, <1>4 DEF SumOf
<1> QED
  BY <1>1, <1>2, <1>3, <1>5

\* What does not touch the trades of the session keeps their profit.
LEMMA TradesKept ==
  ASSUME exch' = exch, sess'.running = sess.running, sess'.pl = sess.pl, seen' = seen,
         "isolated" \notin untold' => "isolated" \notin untold,
         TradeInv, ProfitInv
  PROVE  TradeInv' /\ ProfitInv' /\ Registered' = Registered
<1>1. Registered' = Registered
  BY DEF Registered
<1>2. TradeInv'
  BY <1>1 DEF TradeInv
<1>3. ProfitInv'
  BY <1>1 DEF ProfitInv, InStep
<1> QED
  BY <1>1, <1>2, <1>3

\* The books stay in step when the session's balance moves as the account's.
LEMMA BooksKept ==
  ASSUME AccountTyped, AccountTyped', SyncInv,
         exch' = exch, sess'.running = sess.running,
         Serving' /\ ~behind' =>
           /\ Serving /\ ~behind
           /\ sess'.balance - sess.balance = (free' + paid') - (free + paid)
  PROVE  SyncInv'
<1> SUFFICES ASSUME Serving', ~behind'
             PROVE  /\ Live' \subseteq Registered' /\ InStep'
                    /\ (sess.balance + SumFunction(Off(sess, exch)) = free + paid)'
  BY DEF SyncInv
<1>1. /\ Live \subseteq Registered /\ InStep
      /\ sess.balance + SumFunction(Off(sess, exch)) = free + paid
      /\ sess'.balance - sess.balance = (free' + paid') - (free + paid)
  BY DEF SyncInv
<1>2. Registered' = Registered /\ Live' = Live
  BY DEF Registered, Live
<1>3. InStep' /\ Live' \subseteq Registered'
  BY <1>1, <1>2 DEF InStep
<1>4. Off(sess', exch') = Off(sess, exch)
  BY DEF Off
<1> DEFINE a == SumFunction(Off(sess, exch))
           w == sess.balance
           v == sess'.balance
           f == free + paid
           g == free' + paid'
<1>5. w \in Int /\ v \in Int /\ a \in Int /\ f \in Int /\ g \in Int
  <2>1. /\ sess \in Session(Registered) /\ Registered \in SUBSET Trades
        /\ exch \in [Trades -> Trade]
    BY DEF AccountTyped, SessTyped, ExchTyped
  <2>2. free \in Int /\ paid \in Int
    BY DEF AccountTyped, HistTyped, ExchTyped
  <2>3. free' \in Int /\ paid' \in Int
    BY DEF AccountTyped, HistTyped, ExchTyped
  <2>4. w \in Int /\ a \in Int
    BY <2>1, OffIs
  <2>5. v \in Int
    BY SessionFields DEF AccountTyped, SessTyped
  <2> QED
    BY <2>2, <2>3, <2>4, <2>5
<1>6. w + a = f /\ v - w = g - f
  BY <1>1
<1> HIDE DEF a, w, v, f, g
<1>7. v + a = g
  BY <1>5, <1>6
<1> QED
  BY <1>3, <1>4, <1>7 DEF a, v, g

\* A deposit, a withdrawal or a change of the leverage.
LEMMA CrossRequestInv ==
  ASSUME AccountInv,
         \/ \E amount \in Deposits, told \in BOOLEAN :
              CrossDeposit(amount, told) \/ CrossWithdraw(amount, told)
         \/ CrossSetLeverage
  PROVE  AccountInv'
<1>1. AccountTyped /\ AccountTyped'
  BY CrossRequestTypes DEF AccountInv
<1>2. /\ Registered \in SUBSET Trades /\ sess \in Session(Registered) /\ sess.cross \in View
      /\ sess.balance \in Nat /\ cross' \in CrossTypes
      /\ \A a \in Deposits : a \in Nat
  BY <1>1, SessionFields, AmountsAre DEF AccountTyped, SessTyped, ExchTyped
<1>3. /\ Method /\ ready' = ready /\ exch' = exch /\ accountPc' = accountPc /\ seen' = seen
      /\ paid' = paid /\ earned' = earned
      /\ "isolated" \notin untold' => "isolated" \notin untold
      /\ "cross" \notin untold' => "cross" \notin untold
      /\ behind => behind'
  <2>1. ASSUME NEW amount \in Deposits, NEW told \in BOOLEAN,
               CrossDeposit(amount, told) \/ CrossWithdraw(amount, told)
        PROVE  /\ UNCHANGED <<exch, ready, accountPc, seen, paid, earned>> /\ Method
               /\ behind' = (behind \/ ~told) /\ CrossTold(told)
    BY <2>1 DEF CrossDeposit, CrossWithdraw
  <2>2. ASSUME NEW told \in BOOLEAN, CrossTold(told)
        PROVE  untold \subseteq untold'
    BY <2>2 DEF CrossTold
  <2>3. CASE CrossSetLeverage
    BY <2>3 DEF CrossSetLeverage, exchVars, history
  <2> QED
    BY <2>1, <2>2, <2>3
<1>4. accountPc = "idle" /\ ready /\ sess.known
  BY <1>3 DEF Method, AccountInv, KnownInv
<1>5. \/ sess' = sess /\ behind' /\ "cross" \in untold'
      \/ /\ sess'.running = sess.running /\ sess'.pl = sess.pl /\ sess'.known = sess.known
         /\ sess'.cross = Replaced(sess.cross, cross')
         /\ sess'.balance - sess.balance = free' - free
  <2>1. ASSUME NEW amount \in Deposits, NEW told \in BOOLEAN, NEW n \in Int,
               sess.balance + n \in Nat, free' = free + n,
               Answered(told, [sess EXCEPT !.balance = sess.balance + n,
                                           !.cross = Replaced(sess.cross, cross')]),
               behind' = (behind \/ ~told), CrossTold(told)
        PROVE  \/ sess' = sess /\ behind' /\ "cross" \in untold'
               \/ /\ sess'.running = sess.running /\ sess'.pl = sess.pl /\ sess'.known = sess.known
                  /\ sess'.cross = Replaced(sess.cross, cross')
                  /\ sess'.balance - sess.balance = free' - free
    <3>1. CASE ~told
      BY <2>1, <3>1 DEF Answered, CrossTold
    <3>2. CASE told
      <4> DEFINE v == Replaced(sess.cross, cross')
                 b == sess.balance + n
      <4>1. v \in View /\ b \in Nat
        BY <1>2, <2>1, ReplacedIs
      <4>2. sess' = [sess EXCEPT !.balance = b, !.cross = v]
        BY <2>1, <3>2 DEF Answered
      <4>3. b - sess.balance = free' - free
        <5>1. free \in Int /\ free' = free + n
          BY <1>1, <2>1 DEF AccountTyped, ExchTyped
        <5> QED
          BY <1>2, <2>1, <5>1
      <4> HIDE DEF v, b
      <4>4. /\ sess'.running = sess.running /\ sess'.pl = sess.pl /\ sess'.known = sess.known
            /\ sess'.cross = v /\ sess'.balance = b
        BY <1>2, <4>1, <4>2 DEF Session
      <4> QED
        BY <4>3, <4>4 DEF v
    <3> QED
      BY <3>1, <3>2
  <2>2. ASSUME NEW amount \in Deposits, NEW told \in BOOLEAN, CrossDeposit(amount, told)
        PROVE  \/ sess' = sess /\ behind' /\ "cross" \in untold'
               \/ /\ sess'.running = sess.running /\ sess'.pl = sess.pl /\ sess'.known = sess.known
                  /\ sess'.cross = Replaced(sess.cross, cross')
                  /\ sess'.balance - sess.balance = free' - free
    <3>1. /\ 0 - amount \in Int /\ sess.balance + (0 - amount) \in Nat
          /\ sess.balance - amount = sess.balance + (0 - amount)
          /\ free - amount = free + (0 - amount)
      <4>1. amount \in Nat /\ amount <= sess.balance /\ free \in Nat
        BY <1>1, <1>2, <2>2 DEF CrossDeposit, AccountTyped, ExchTyped
      <4> QED
        BY <1>2, <4>1
    <3> QED
      BY <2>1, <2>2, <3>1 DEF CrossDeposit
  <2>3. ASSUME NEW amount \in Deposits, NEW told \in BOOLEAN, CrossWithdraw(amount, told)
        PROVE  \/ sess' = sess /\ behind' /\ "cross" \in untold'
               \/ /\ sess'.running = sess.running /\ sess'.pl = sess.pl /\ sess'.known = sess.known
                  /\ sess'.cross = Replaced(sess.cross, cross')
                  /\ sess'.balance - sess.balance = free' - free
    <3>1. amount \in Int /\ sess.balance + amount \in Nat
      BY <1>2
    <3> QED
      BY <2>1, <2>3, <3>1 DEF CrossWithdraw
  <2>4. CASE CrossSetLeverage
    <3>1. sess' = [sess EXCEPT !.cross = Replaced(sess.cross, cross)] /\ cross' = cross /\ free' = free
      BY <2>4 DEF CrossSetLeverage, exchVars
    <3>2. Replaced(sess.cross, cross') \in View /\ sess.balance - sess.balance = free' - free
      <4>1. free \in Int
        BY <1>1 DEF AccountTyped, ExchTyped
      <4> QED
        BY <1>2, <3>1, <4>1, ReplacedIs
    <3>3. /\ sess'.running = sess.running /\ sess'.pl = sess.pl /\ sess'.known = sess.known
          /\ sess'.cross = Replaced(sess.cross, cross') /\ sess'.balance = sess.balance
      BY <1>2, <3>1 DEF Session
    <3> QED
      BY <3>2, <3>3
  <2> QED
    BY <2>2, <2>3, <2>4
<1>6. sess'.running = sess.running /\ sess'.pl = sess.pl /\ sess'.known = sess.known
  BY <1>5
<1>7. TradeInv' /\ ProfitInv'
  BY <1>3, <1>6, TradesKept DEF AccountInv
<1>8. SyncInv'
  <2>1. ASSUME Serving', ~behind'
        PROVE  sess'.balance - sess.balance = (free' + paid') - (free + paid)
    <3>1. sess'.balance - sess.balance = free' - free
      BY <1>5, <2>1
    <3>2. free \in Int /\ paid \in Int /\ paid' = paid
      BY <1>1, <1>3 DEF AccountTyped, ExchTyped, HistTyped
    <3>3. free' \in Int
      BY <1>1 DEF AccountTyped, ExchTyped
    <3> DEFINE d == sess'.balance - sess.balance
               f == free
               g == free'
               p == paid
    <3>4. d = g - f /\ f \in Int /\ g \in Int /\ p \in Int /\ paid' = p
      BY <3>1, <3>2, <3>3
    <3> HIDE DEF d, f, g, p
    <3>5. d = (g + p) - (f + p)
      BY <3>4
    <3> QED
      BY <3>4, <3>5 DEF d, f, g, p
  <2>2. Serving' /\ ~behind' => Serving /\ ~behind
    BY <1>3 DEF Serving
  <2> QED
    BY <1>1, <1>3, <1>6, <2>1, <2>2, BooksKept DEF AccountInv
<1>9. KnownInv' /\ WorkInv'
  BY <1>3, <1>4, <1>6 DEF AccountInv, KnownInv, WorkInv
<1>10. CrossInv'
  BY <1>2, <1>3, <1>4, <1>5, ReplacedSum DEF AccountInv, CrossInv
<1> QED
  BY <1>1, <1>7, <1>8, <1>9, <1>10 DEF AccountInv

\* An order moves the account by its profit: the fee leaves the margin and is counted.
LEMMA FilledSum ==
  ASSUME AccountTyped, NEW pl \in Int, NEW open \in BOOLEAN, Filled(pl, open)
  PROVE  SumOf(cross') = SumOf(cross) + pl /\ earned' = earned + pl
<1>1. /\ cross \in CrossTypes /\ cross.margin \in Int /\ cross.fees \in Nat /\ cross.funding \in Int
      /\ Fee \in Nat
  BY CrossIs, AmountsAre DEF AccountTyped, ExchTyped
<1>2. /\ cross'.margin = cross.margin + pl - Fee /\ cross'.fees = cross.fees + Fee
      /\ cross'.funding = cross.funding
  BY <1>1 DEF Filled, CrossTypes
<1> QED
  BY <1>1, <1>2 DEF SumOf, Filled

\* An order in the cross account that was filled: `work` is the session it goes back to.
LEMMA OrderFilledInv ==
  ASSUME AccountInv, AccountTyped', NEW pl \in Int, NEW open \in BOOLEAN, Filled(pl, open), Method,
         sess' = sess, ready' = ready, exch' = exch, free' = free, paid' = paid,
         behind' = behind, seen' = seen, untold' = untold,
         work' \in Session(Registered), work'.balance = sess.balance, work'.running = sess.running,
         work'.pl = sess.pl, work'.known = sess.known,
         work'.cross = sess.cross \/ work'.cross = Replaced(sess.cross, cross)
  PROVE  AccountInv'
<1>1. AccountTyped /\ accountPc = "idle" /\ accountPc' = "order" /\ ready /\ sess.known
  BY DEF AccountInv, Method, Filled, KnownInv
<1>2. /\ sess.cross \in View /\ cross \in CrossTypes /\ earned \in Int
      /\ SumOf(cross') = SumOf(cross) + pl /\ earned' = earned + pl
  BY <1>1, FilledSum, SessionFields DEF AccountTyped, SessTyped, ExchTyped, HistTyped
<1>3. TradeInv' /\ ProfitInv' /\ Registered' = Registered
  BY TradesKept DEF AccountInv
<1>4. SyncInv'
  <2>1. Serving /\ Serving'
    BY <1>1 DEF Serving
  <2>2. sess'.balance - sess.balance = (free' + paid') - (free + paid)
    <3>1. sess.balance \in Int /\ free \in Int /\ paid \in Int
      BY <1>1, SessionFields DEF AccountTyped, SessTyped, ExchTyped, HistTyped
    <3> QED
      BY <3>1
  <2> QED
    BY <1>1, <2>1, <2>2, BooksKept DEF AccountInv
<1>5. KnownInv' /\ WorkInv'
  BY <1>1 DEF AccountInv, KnownInv, WorkInv
<1>6. CrossInv'
  <2> SUFFICES ASSUME "cross" \notin untold'
               PROVE  work'.cross.pl + SumOf(cross') - SumOf(work'.cross) = earned'
    BY <1>1 DEF CrossInv
  <2>1. sess.cross.pl = earned /\ SumOf(sess.cross) = SumOf(cross)
    BY <1>1 DEF AccountInv, CrossInv
  <2>2. work'.cross.pl = earned /\ SumOf(work'.cross) = SumOf(cross) /\ SumOf(cross) \in Int
    BY <1>2, <2>1, ReplacedSum
  <2> QED
    BY <1>2, <2>2
<1> QED
  BY <1>1, <1>3, <1>4, <1>5, <1>6 DEF AccountInv

\* The two steps of a cross order, and the one that loses it.
LEMMA CrossOrderInv ==
  ASSUME AccountInv,
         \/ \E pl \in Results \cup {0}, open \in BOOLEAN : CrossOrder(pl, open)
         \/ \E pl \in Results : CrossOrderClosePosition(pl)
         \/ CrossOrderRegistered \/ CrossOrderLost
  PROVE  AccountInv'
<1>1. AccountTyped /\ AccountTyped'
  BY CrossOrderTypes DEF AccountInv
<1>2. /\ Registered \in SUBSET Trades /\ sess \in Session(Registered) /\ sess.cross \in View
      /\ sess.balance \in Int /\ cross \in CrossTypes /\ free \in Int /\ paid \in Int
      /\ \A pl \in Results \cup {0} : pl \in Int
      /\ work \in Session(DOMAIN work.running) /\ work.cross \in View
  BY <1>1, SessionFields, AmountsAre
     DEF AccountTyped, SessTyped, WorkTyped, ExchTyped, HistTyped
<1>3. ASSUME NEW pl \in Results \cup {0}, NEW open \in BOOLEAN, CrossOrder(pl, open)
      PROVE  AccountInv'
  BY <1>1, <1>2, <1>3, OrderFilledInv DEF CrossOrder
<1>4. ASSUME NEW pl \in Results, CrossOrderClosePosition(pl) PROVE AccountInv'
  <2> DEFINE v == Replaced(sess.cross, cross)
             s == [sess EXCEPT !.cross = v]
  <2>1. v \in View
    BY <1>2, ReplacedIs
  <2>2. /\ s \in Session(Registered) /\ s.balance = sess.balance /\ s.running = sess.running
        /\ s.pl = sess.pl /\ s.known = sess.known /\ s.cross = v
    <3> HIDE DEF v
    <3> QED
      BY <1>2, <2>1 DEF Session
  <2>3. /\ Method /\ exch' = exch /\ free' = free /\ ready' = ready /\ paid' = paid
        /\ behind' = behind /\ seen' = seen /\ untold' = untold
    BY <1>4 DEF CrossOrderClosePosition
  <2>4. CASE cross.open
    <3>1. Filled(pl, FALSE) /\ work' = s /\ sess' = sess /\ pl \in Int
      BY <1>2, <1>4, <2>4 DEF CrossOrderClosePosition
    <3> HIDE DEF s
    <3> QED
      BY <1>1, <2>2, <2>3, <3>1, OrderFilledInv
  <2>5. CASE ~cross.open
    <3>1. sess' = s /\ cross' = cross /\ earned' = earned /\ work' = work /\ accountPc' = accountPc
      BY <1>4, <2>5 DEF CrossOrderClosePosition
    <3> HIDE DEF s
    <3>2. accountPc = "idle" /\ ready /\ sess.known
      BY <2>3 DEF AccountInv, Method, KnownInv
    <3>3. TradeInv' /\ ProfitInv' /\ Registered' = Registered
      BY <2>2, <2>3, <3>1, TradesKept DEF AccountInv
    <3>4. SyncInv'
      <4>1. sess'.balance - sess.balance = (free' + paid') - (free + paid)
        BY <1>2, <2>2, <2>3, <3>1
      <4>2. Serving' /\ ~behind' => Serving /\ ~behind
        BY <2>3, <3>1 DEF Serving
      <4> QED
        BY <1>1, <2>2, <2>3, <3>1, <4>1, <4>2, BooksKept DEF AccountInv
    <3>5. KnownInv' /\ WorkInv'
      BY <2>2, <2>3, <3>1, <3>2 DEF AccountInv, KnownInv, WorkInv
    <3>6. CrossInv'
      BY <1>2, <2>2, <2>3, <3>1, <3>2, ReplacedSum DEF AccountInv, CrossInv
    <3> QED
      BY <1>1, <3>3, <3>4, <3>5, <3>6 DEF AccountInv
  <2> QED
    BY <2>4, <2>5
<1>5. ASSUME CrossOrderRegistered PROVE AccountInv'
  <2> DEFINE v == AfterOrder(work.cross, cross)
  <2>1. v \in View
    BY <1>2, AfterOrderIs
  <2>2. /\ accountPc = "order" /\ accountPc' = "idle" /\ sess' = [work EXCEPT !.cross = v]
        /\ exch' = exch /\ free' = free /\ cross' = cross /\ ready' = ready
        /\ paid' = paid /\ behind' = behind /\ seen' = seen /\ untold' = untold /\ earned' = earned
    BY <1>5 DEF CrossOrderRegistered, exchVars, history
  <2>3. /\ ready /\ work.known /\ work.balance = sess.balance /\ work.running = sess.running
        /\ work.pl = sess.pl
    BY <2>2 DEF AccountInv, WorkInv
  <2> HIDE DEF v
  <2>4. /\ sess'.balance = sess.balance /\ sess'.running = sess.running /\ sess'.pl = sess.pl
        /\ sess'.known /\ sess'.cross = v
    BY <1>2, <2>1, <2>2, <2>3 DEF Session
  <2>5. TradeInv' /\ ProfitInv' /\ Registered' = Registered
    BY <2>2, <2>4, TradesKept DEF AccountInv
  <2>6. SyncInv'
    <3>1. sess'.balance - sess.balance = (free' + paid') - (free + paid)
      BY <1>2, <2>2, <2>4
    <3>2. Serving' /\ ~behind' => Serving /\ ~behind
      BY <2>2 DEF Serving
    <3> QED
      BY <1>1, <2>2, <2>4, <3>1, <3>2, BooksKept DEF AccountInv
  <2>7. KnownInv' /\ WorkInv'
    BY <2>2, <2>3, <2>4 DEF AccountInv, KnownInv, WorkInv
  <2>8. CrossInv'
    <3> SUFFICES ASSUME "cross" \notin untold'
                 PROVE  (sess.cross.pl = earned /\ SumOf(sess.cross) = SumOf(cross))'
      BY <2>2 DEF CrossInv
    <3>1. work.cross.pl + SumOf(cross) - SumOf(work.cross) = earned
      BY <2>2 DEF AccountInv, CrossInv
    <3>2. v.pl = work.cross.pl + SumOf(cross) - SumOf(work.cross) /\ SumOf(v) = SumOf(cross)
      BY <1>2, ReplacedSum DEF v
    <3> QED
      BY <2>2, <2>4, <3>1, <3>2
  <2> QED
    BY <1>1, <2>5, <2>6, <2>7, <2>8 DEF AccountInv
<1>6. ASSUME CrossOrderLost PROVE AccountInv'
  <2>1. /\ accountPc = "order" /\ accountPc' = "idle" /\ "cross" \in untold'
        /\ exch' = exch /\ free' = free /\ sess' = sess /\ ready' = ready
        /\ paid' = paid /\ behind' = behind /\ seen' = seen /\ untold' = untold \cup {"cross"}
    BY <1>6 DEF CrossOrderLost, exchVars
  <2>2. TradeInv' /\ ProfitInv' /\ Registered' = Registered
    BY <2>1, TradesKept DEF AccountInv
  <2>3. SyncInv'
    <3>1. sess'.balance - sess.balance = (free' + paid') - (free + paid)
      BY <1>2, <2>1
    <3>2. Serving' /\ ~behind' => Serving /\ ~behind
      BY <2>1 DEF Serving
    <3> QED
      BY <1>1, <2>1, <3>1, <3>2, BooksKept DEF AccountInv
  <2>4. KnownInv' /\ WorkInv' /\ CrossInv'
    BY <2>1, <2>2 DEF AccountInv, KnownInv, WorkInv, CrossInv
  <2> QED
    BY <1>1, <2>2, <2>3, <2>4 DEF AccountInv
<1> QED
  BY <1>3, <1>4, <1>5, <1>6

\* A refresh that fails, a session that expires, and the first two reads of a rebuild.
LEMMA RefreshBeginsInv ==
  ASSUME AccountInv, RefreshFails \/ SessionExpires \/ RebuildUser \/ RebuildCross
  PROVE  AccountInv'
<1>1. AccountTyped /\ AccountTyped'
  BY RefreshTypes DEF AccountInv, Refresh
<1>2. /\ Registered \in SUBSET Trades /\ sess \in Session(Registered) /\ sess.cross \in View
      /\ sess.balance \in Int /\ cross \in CrossTypes /\ free \in Int /\ paid \in Int
      /\ work \in Session(DOMAIN work.running) /\ work.cross \in View
  BY <1>1, SessionFields DEF AccountTyped, SessTyped, WorkTyped, ExchTyped, HistTyped
<1>3. CASE RefreshFails
  <2>1. /\ accountPc \in {"idle", "cross", "trades"} /\ accountPc' = "idle" /\ ready' = FALSE
        /\ sess' = [sess EXCEPT !.expired = TRUE] /\ UNCHANGED <<exchVars, history>>
    BY <1>3 DEF RefreshFails
  <2>2. /\ sess'.running = sess.running /\ sess'.pl = sess.pl /\ sess'.known = sess.known
        /\ sess'.cross = sess.cross /\ sess'.balance = sess.balance /\ sess'.expired = TRUE
    BY <1>2, <2>1 DEF Session
  <2>3. TradeInv' /\ ProfitInv' /\ Registered' = Registered
    BY <2>1, <2>2, TradesKept DEF AccountInv, exchVars, history
  <2>4. SyncInv' /\ WorkInv'
    BY <2>1 DEF SyncInv, Serving, WorkInv
  <2>5. KnownInv' /\ CrossInv'
    BY <2>1, <2>2, <2>3 DEF AccountInv, KnownInv, CrossInv, exchVars, history
  <2> QED
    BY <1>1, <2>3, <2>4, <2>5 DEF AccountInv
<1>4. CASE SessionExpires
  <2>1. /\ accountPc = "idle" /\ ~sess.expired /\ accountPc' = accountPc /\ ready' = ready
        /\ sess' = [sess EXCEPT !.expired = TRUE] /\ work' = work /\ UNCHANGED <<exchVars, history>>
    BY <1>4 DEF SessionExpires
  <2>2. /\ sess'.running = sess.running /\ sess'.pl = sess.pl /\ sess'.known = sess.known
        /\ sess'.cross = sess.cross /\ sess'.balance = sess.balance /\ sess'.expired = TRUE
    BY <1>2, <2>1 DEF Session
  <2>3. TradeInv' /\ ProfitInv' /\ Registered' = Registered
    BY <2>1, <2>2, TradesKept DEF AccountInv, exchVars, history
  <2>4. SyncInv'
    <3>1. sess'.balance - sess.balance = (free' + paid') - (free + paid)
      BY <1>2, <2>1, <2>2 DEF exchVars, history
    <3>2. Serving' /\ ~behind' => Serving /\ ~behind
      BY <2>1 DEF Serving, history
    <3> QED
      BY <1>1, <2>1, <2>2, <3>1, <3>2, BooksKept DEF AccountInv, exchVars
  <2>5. KnownInv' /\ WorkInv' /\ CrossInv'
    BY <2>1, <2>2, <2>3 DEF AccountInv, KnownInv, WorkInv, CrossInv, exchVars, history
  <2> QED
    BY <1>1, <2>3, <2>4, <2>5 DEF AccountInv
<1>5. CASE RebuildUser
  <2>1. /\ accountPc = "idle" /\ accountPc' = "cross" /\ sess' = sess /\ ready' = ready
        /\ paid' = 0 /\ behind' = FALSE /\ exch' = exch /\ free' = free /\ cross' = cross
        /\ seen' = seen /\ earned' = earned /\ untold' = untold
    BY <1>5 DEF RebuildUser, exchVars
  <2>2. /\ work'.balance = free /\ work'.pl = sess.pl /\ work'.cross = sess.cross
        /\ work'.known = TRUE
    BY <1>1, <1>5, RebuildUserIs
  <2>3. TradeInv' /\ ProfitInv' /\ Registered' = Registered
    BY <2>1, TradesKept DEF AccountInv
  <2>4. SyncInv'
    BY <2>1 DEF SyncInv, Serving
  <2>5. KnownInv' /\ WorkInv' /\ CrossInv'
    BY <2>1, <2>2, <2>3 DEF AccountInv, KnownInv, WorkInv, CrossInv
  <2> QED
    BY <1>1, <2>3, <2>4, <2>5 DEF AccountInv
<1>6. CASE RebuildCross
  <2> DEFINE v == Replaced(work.cross, cross)
  <2>1. v \in View /\ v.pl = work.cross.pl /\ SumOf(v) = SumOf(cross)
    BY <1>2, ReplacedIs, ReplacedSum
  <2>2. /\ accountPc = "cross" /\ accountPc' = "trades" /\ sess' = sess /\ ready' = ready
        /\ work' = [work EXCEPT !.cross = v]
        /\ paid' = paid /\ behind' = behind /\ exch' = exch /\ free' = free /\ cross' = cross
        /\ seen' = seen
        /\ sess.known => earned' = earned /\ untold' = untold
        /\ ~sess.known => earned' = 0
    BY <1>6 DEF RebuildCross, exchVars
  <2>3. work.known /\ work.pl = sess.pl /\ work.cross = sess.cross
    BY <2>2 DEF AccountInv, WorkInv
  <2> HIDE DEF v
  <2>4. /\ work'.known = work.known /\ work'.pl = work.pl /\ work'.balance = work.balance
        /\ work'.cross = v
    BY <1>2, <2>1, <2>2 DEF Session
  <2>5. TradeInv' /\ ProfitInv' /\ Registered' = Registered
    <3>1. CASE sess.known
      BY <2>2, <3>1, TradesKept DEF AccountInv
    <3>2. CASE ~sess.known
      <4>1. Registered' = Registered /\ Registered = {} /\ seen = {} /\ sess.pl = 0
        BY <2>2, <3>2 DEF AccountInv, KnownInv, Registered
      <4>2. TradeInv'
        BY <2>2, <4>1 DEF AccountInv, TradeInv
      <4>3. SumFunction(Known(Registered, seen, exch)) = 0
        <5>1. DOMAIN Known(Registered, seen, exch) = {} /\ IsFiniteSet({})
          BY <4>1, FS_EmptySet DEF Known
        <5> QED
          BY <5>1, SumZero
      <4>4. ProfitInv'
        BY <2>2, <4>1, <4>3 DEF ProfitInv, InStep
      <4> QED
        BY <4>1, <4>2, <4>4
    <3> QED
      BY <3>1, <3>2
  <2>6. SyncInv'
    BY <2>2 DEF SyncInv, Serving
  <2>7. KnownInv' /\ WorkInv'
    BY <2>2, <2>3, <2>4, <2>5 DEF AccountInv, KnownInv, WorkInv
  <2>8. CrossInv'
    <3> SUFFICES ASSUME "cross" \notin untold'
                 PROVE  /\ work'.cross.pl = earned' /\ SumOf(work'.cross) = SumOf(cross')
                        /\ sess'.known => sess'.cross.pl = earned' /\ SumOf(sess'.cross) = SumOf(cross')
      BY <2>2 DEF CrossInv
    <3>1. CASE sess.known
      <4>1. sess.cross.pl = earned /\ SumOf(sess.cross) = SumOf(cross)
        BY <2>2, <3>1 DEF AccountInv, CrossInv
      <4> QED
        BY <2>1, <2>2, <2>3, <2>4, <3>1, <4>1
    <3>2. CASE ~sess.known
      <4>1. sess.cross.pl = 0
        BY <3>2 DEF AccountInv, KnownInv
      <4> QED
        BY <2>1, <2>2, <2>3, <2>4, <3>2, <4>1
    <3> QED
      BY <3>1, <3>2
  <2> QED
    BY <1>1, <2>5, <2>6, <2>7, <2>8 DEF AccountInv
<1> QED
  BY <1>3, <1>4, <1>5, <1>6

-----------------------------------------------------------------------------
(* Steps that change trades.                                               *)

\* The sum over one trade.
LEMMA SumOfOne ==
  ASSUME NEW t, NEW f, DOMAIN f = {t}, f[t] \in Int
  PROVE  SumFunction(f) = f[t]
<1> DEFINE zero == [u \in {t} |-> 0]
           T == {t}
<1>0. IsFiniteSet(T)
  BY FS_Singleton
<1>1. /\ IsFiniteSet(T) /\ t \in T /\ DOMAIN f = T /\ DOMAIN zero = T
      /\ \A u \in T : zero[u] \in Int /\ f[u] \in Int
      /\ \A u \in T \ {t} : zero[u] = f[u]
      /\ \A u \in T : zero[u] = 0
  BY <1>0
<1> HIDE DEF zero, T
<1>2. SumFunction(zero) = 0
  BY <1>1, SumZero
<1>3. SumFunction(f) = SumFunction(zero) + f[t] - zero[t]
  BY <1>1, SumChanges
<1>4. zero[t] = 0
  BY <1>1
<1> QED
  BY <1>2, <1>3, <1>4

\* The last read of a rebuild.
LEMMA RebuildTradesInv ==
  ASSUME AccountInv, RebuildTrades
  PROVE  AccountInv'
<1>1. AccountTyped /\ AccountTyped'
  BY RefreshTypes DEF AccountInv, Refresh
<1>2. /\ Registered \in SUBSET Trades /\ exch \in [Trades -> Trade] /\ seen \in SUBSET Trades
      /\ free \in Int
  BY <1>1 DEF AccountTyped, SessTyped, ExchTyped, HistTyped
<1>3. /\ Live \in SUBSET Trades /\ sess' \in Session(Live) /\ Registered' = Live
      /\ sess'.running = [t \in Live |-> [margin |-> exch[t].margin, cashed |-> exch[t].cashed]]
      /\ sess'.balance = work.balance /\ sess'.cross = work.cross /\ sess'.known = work.known
      /\ sess'.pl = work.pl + SumFunction(Missed) /\ SumFunction(Missed) \in Int
      /\ seen' = seen \cup Live /\ ready' = TRUE /\ accountPc' = "idle"
  BY <1>1, RebuildTradesIs
<1>4. /\ accountPc = "trades" /\ exch' = exch /\ free' = free /\ cross' = cross
      /\ paid' = paid /\ behind' = behind /\ earned' = earned /\ untold' = untold
  BY DEF RebuildTrades, exchVars
<1>5. work.known /\ work.pl = sess.pl /\ (~behind => work.balance = free /\ paid = 0)
  BY <1>4 DEF AccountInv, WorkInv
<1>6. KnownInv' /\ WorkInv'
  BY <1>3, <1>5 DEF KnownInv, WorkInv
<1>7. TradeInv'
  <2>1. \A t \in Live : exch[t].state = "running"
    BY DEF Live
  <2>2. \A t \in Trades : exch[t].state = "running" => t \in Live
    BY DEF Live
  <2> QED
    BY <1>2, <1>3, <1>4, <2>1, <2>2 DEF AccountInv, TradeInv
<1>8. InStep'
  BY <1>3, <1>4 DEF InStep
<1>9. SyncInv'
  <2> SUFFICES ASSUME ~behind'
               PROVE  /\ Live' \subseteq Registered' /\ InStep'
                      /\ (sess.balance + SumFunction(Off(sess, exch)) = free + paid)'
    BY DEF SyncInv
  <2>1. Live' = Live
    BY <1>4 DEF Live
  <2>2. DOMAIN Off(sess', exch) = Live /\ IsFiniteSet(Live)
    BY <1>2, <1>3, OffIs
  <2>3. \A t \in Live : Off(sess', exch)[t] = 0
    <3> SUFFICES ASSUME NEW t \in Live PROVE Off(sess', exch)[t] = 0
      OBVIOUS
    <3>1. There(exch, t) = exch[t].margin
      BY DEF There, Live
    <3>2. sess'.running[t].margin = exch[t].margin
      BY <1>3
    <3>3. Off(sess', exch)[t] = sess'.running[t].margin - There(exch, t) /\ exch[t].margin \in Int
      BY <1>2, <1>3, OffIs
    <3> QED
      BY <3>1, <3>2, <3>3
  <2>4. SumFunction(Off(sess', exch)) = 0
    BY <2>2, <2>3, SumZero
  <2>5. work.balance = free /\ paid = 0
    BY <1>4, <1>5
  <2> QED
    BY <1>2, <1>3, <1>4, <1>8, <2>1, <2>4, <2>5
<1>10. ProfitInv'
  <2> SUFFICES ASSUME "isolated" \notin untold
               PROVE  sess'.pl = SumFunction(Known(Live, seen \cup Live, exch))
    BY <1>3, <1>4, <1>8 DEF ProfitInv
  <2>1. sess.pl = SumFunction(Known(Registered, seen, exch))
    BY DEF AccountInv, ProfitInv
  <2> DEFINE C == Registered \ Live
             T == seen \cup Live
  <2>2. C \in SUBSET seen /\ C \subseteq Registered /\ T \in SUBSET Trades /\ seen \subseteq T
    BY <1>2, <1>3 DEF AccountInv, TradeInv
  <2>3. Missed = Won(C, exch)
    BY DEF Missed, Won
  <2>4. /\ \A t \in seen : t \in Registered \ C <=> t \in Live
        /\ \A t \in T \ seen : exch[t].cashed = 0 /\ t \in Live
    <3>1. \A t \in Live : exch[t].state = "running"
      BY DEF Live
    <3> QED
      BY <1>2, <1>3, <3>1 DEF AccountInv, TradeInv
  <2> HIDE DEF C, T
  <2>5. SumFunction(Known(Registered \ C, seen, exch))
          = SumFunction(Known(Registered, seen, exch)) + SumFunction(Missed)
    BY <1>2, <2>2, <2>3, KnownCloses
  <2>6. SumFunction(Known(Live, T, exch)) = SumFunction(Known(Registered \ C, seen, exch))
    BY <1>2, <2>2, <2>4, KnownGrows
  <2> QED
    BY <1>3, <1>5, <2>1, <2>5, <2>6 DEF T
<1>11. CrossInv'
  BY <1>3, <1>4 DEF AccountInv, CrossInv
<1> QED
  BY <1>1, <1>6, <1>7, <1>9, <1>10, <1>11 DEF AccountInv

\* A new trade.
LEMMA OrderInv ==
  ASSUME AccountInv, NEW t \in Trades, NEW told \in BOOLEAN, Order(t, told)
  PROVE  AccountInv'
<1>1. AccountTyped /\ AccountTyped'
  BY RequestStepTypes DEF AccountInv
<1>2. /\ Registered \in SUBSET Trades /\ sess \in Session(Registered) /\ seen \in SUBSET Trades
      /\ exch \in [Trades -> Trade] /\ sess.balance \in Nat /\ free \in Int /\ paid \in Int
      /\ Margin \in Nat /\ Fee \in Nat /\ Margin \in Int /\ exch[t] \in Trade
  BY <1>1, SessionFields, AmountsAre DEF AccountTyped, SessTyped, ExchTyped, HistTyped
<1>3. exch' \in [Trades -> Trade]
  BY <1>1 DEF AccountTyped, ExchTyped
<1>4. /\ Method /\ exch[t].state = "none" /\ Margin + Fee <= sess.balance
      /\ exch' = [exch EXCEPT ![t].state = "running", ![t].margin = Margin]
      /\ free' = free - Margin - Fee
      /\ UNCHANGED <<cross, ready, accountPc, work, paid, earned, untold>>
      /\ told => sess' = Registering(sess, t) /\ seen' = seen \cup {t} /\ behind' = behind
      /\ ~told => sess' = sess /\ seen' = seen /\ behind' = TRUE
  BY DEF Order, Answered
<1>5. accountPc = "idle" /\ ready /\ sess.known
  BY <1>4 DEF AccountInv, Method, KnownInv
<1>6. /\ exch'[t].state = "running" /\ exch'[t].margin = Margin
      /\ exch'[t].cashed = exch[t].cashed
      /\ \A u \in Trades : u # t => exch'[u] = exch[u]
  BY <1>2, <1>4 DEF Trade
<1>7. t \notin seen /\ t \notin Registered /\ exch[t].cashed = 0
  BY <1>4 DEF AccountInv, TradeInv
<1>8. /\ \A u \in seen : exch'[u] = exch[u]
      /\ \A u \in Registered : exch'[u] = exch[u]
      /\ Live' = Live \cup {t}
  BY <1>2, <1>4, <1>6, <1>7 DEF Live
<1>9. Known(Registered, seen, exch') = Known(Registered, seen, exch)
  <2>1. /\ \A u \in seen : exch'[u].cashed = exch[u].cashed
        /\ \A u \in seen \ Registered : exch'[u].pl = exch[u].pl
    BY <1>8
  <2> QED
    BY <1>2, <1>3, <2>1, KnownSame
<1>10. CASE ~told
  <2>1. sess' = sess /\ seen' = seen /\ behind' /\ Registered' = Registered
    BY <1>4, <1>10 DEF Registered
  <2>2. TradeInv'
    BY <1>2, <1>6, <1>7, <1>8, <2>1 DEF AccountInv, TradeInv
  <2>3. ProfitInv'
    BY <1>4, <1>8, <1>9, <2>1 DEF AccountInv, ProfitInv, InStep
  <2>4. KnownInv' /\ WorkInv' /\ SyncInv' /\ CrossInv'
    BY <1>4, <1>5, <2>1 DEF AccountInv, KnownInv, WorkInv, SyncInv, CrossInv
  <2> QED
    BY <1>1, <2>2, <2>3, <2>4 DEF AccountInv
<1>11. CASE told
  <2> DEFINE E == Registered \cup {t}
             row == [margin |-> exch'[t].margin, cashed |-> exch'[t].cashed]
  <2>0. exch' \in [Trades -> Trade] /\ sess' = Registering(sess, t)
    BY <1>3, <1>4, <1>11
  <2>1. /\ sess' \in Session(E)
        /\ sess'.balance = AtLeastZero(AtLeastZero(sess.balance - exch'[t].margin) - Fee)
        /\ sess'.running = [u \in E |-> IF u = t THEN row ELSE sess.running[u]]
        /\ sess'.pl = sess.pl /\ sess'.cross = sess.cross /\ sess'.known = sess.known
        /\ seen' = seen \cup {t} /\ behind' = behind
    <3>1. /\ sess' \in Session(E)
          /\ sess'.balance = AtLeastZero(AtLeastZero(sess.balance - exch'[t].margin) - Fee)
          /\ sess'.running = [u \in E |-> IF u = t THEN row ELSE sess.running[u]]
          /\ sess'.pl = sess.pl /\ sess'.cross = sess.cross /\ sess'.known = sess.known
      BY <1>2, <2>0, RegisteringIs
    <3> QED
      BY <1>4, <1>11, <3>1
  <2>2. Registered' = E
    BY <1>2, <2>1, SessTypedFrom
  <2>3. sess'.balance = sess.balance - Margin - Fee
    <3>1. sess.balance - Margin \in Int /\ sess.balance - Margin >= 0
      BY <1>2, <1>4
    <3>2. AtLeastZero(sess.balance - Margin) = sess.balance - Margin
      BY <3>1, AtLeastZeroIs
    <3>3. sess.balance - Margin - Fee \in Int /\ sess.balance - Margin - Fee >= 0
      BY <1>2, <1>4
    <3>4. AtLeastZero(sess.balance - Margin - Fee) = sess.balance - Margin - Fee
      BY <3>3, AtLeastZeroIs
    <3> QED
      BY <1>6, <2>1, <3>2, <3>4
  <2>4. TradeInv'
    BY <1>2, <1>6, <1>7, <1>8, <2>1, <2>2 DEF AccountInv, TradeInv
  <2>5. InStep => InStep'
    <3>1. sess'.running[t].cashed = exch'[t].cashed
      BY <2>1
    <3>2. \A u \in Registered : sess'.running[u] = sess.running[u]
      BY <1>7, <2>1
    <3> QED
      BY <1>8, <2>2, <3>1, <3>2 DEF InStep
  <2>6. SyncInv'
    <3> SUFFICES ASSUME ~behind'
                 PROVE  /\ Live' \subseteq Registered' /\ InStep'
                        /\ (sess.balance + SumFunction(Off(sess, exch)) = free + paid)'
      BY DEF SyncInv
    <3>1. /\ Live \subseteq Registered /\ InStep
          /\ sess.balance + SumFunction(Off(sess, exch)) = free + paid
      BY <1>5, <2>1 DEF AccountInv, SyncInv, Serving
    <3>2. Off(sess, exch') = Off(sess, exch)
      BY <1>2, <1>3, <1>8, OffSame
    <3>3. SumFunction(Off(sess', exch')) = SumFunction(Off(sess, exch'))
      BY <1>2, <1>3, <1>6, <1>7, <2>1, RegisteredBooks
    <3> DEFINE a == SumFunction(Off(sess, exch))
               w == sess.balance
               v == sess'.balance
               f == free
               g == free'
               p == paid
    <3>4. /\ w + a = f + p /\ v = w - Margin - Fee /\ g = f - Margin - Fee
          /\ SumFunction(Off(sess', exch')) = a /\ paid' = p
      BY <1>4, <2>3, <3>1, <3>2, <3>3
    <3>5. w \in Int /\ a \in Int /\ f \in Int /\ p \in Int /\ Margin \in Int /\ Fee \in Int
      BY <1>2, OffIs
    <3> HIDE DEF a, w, v, f, g, p
    <3>6. v + a = g + p
      BY <3>4, <3>5
    <3>7. (sess.balance + SumFunction(Off(sess, exch)) = free + paid)'
      BY <3>4, <3>6 DEF v, g
    <3> QED
      BY <1>8, <2>2, <2>5, <3>1, <3>7
  <2>7. ProfitInv'
    <3> SUFFICES ASSUME "isolated" \notin untold
                 PROVE  InStep' /\ sess'.pl = SumFunction(Known(E, seen \cup {t}, exch'))
      BY <1>4, <2>1, <2>2 DEF ProfitInv
    <3>1. InStep /\ sess.pl = SumFunction(Known(Registered, seen, exch))
      BY DEF AccountInv, ProfitInv
    <3> DEFINE T == seen \cup {t}
    <3>2. /\ T \in SUBSET Trades /\ seen \subseteq T
          /\ \A u \in seen : u \in Registered <=> u \in E
          /\ \A u \in T \ seen : exch'[u].cashed = 0 /\ u \in E
      BY <1>2, <1>6, <1>7
    <3> HIDE DEF T, E
    <3>3. SumFunction(Known(E, T, exch')) = SumFunction(Known(Registered, seen, exch'))
      BY <1>2, <1>3, <3>2, KnownGrows
    <3> QED
      BY <1>9, <2>1, <2>5, <3>1, <3>3 DEF T
  <2>8. KnownInv' /\ WorkInv' /\ CrossInv'
    BY <1>4, <1>5, <2>1 DEF AccountInv, KnownInv, WorkInv, CrossInv
  <2> QED
    BY <1>1, <2>4, <2>6, <2>7, <2>8 DEF AccountInv
<1> QED
  BY <1>10, <1>11

\* Another margin or cashed-in profit of a running trade t: n comes off the margin, p is profit.
Reshaped(t, n, p) ==
  /\ exch' = [exch EXCEPT ![t] = [exch[t] EXCEPT !.margin = exch[t].margin - n,
                                                 !.cashed = exch[t].cashed + p]]
  /\ free' = free + (n + p)

\* What the books and the profit of the session gain if it takes over trade t.
LEMMA ReshapedBooks ==
  ASSUME AccountTyped, AccountTyped', NEW t \in Trades, NEW n \in Int, NEW p \in Nat,
         t \in Registered, exch[t].state = "running", Reshaped(t, n, p)
  PROVE  /\ exch' \in [Trades -> Trade]
         /\ exch'[t].state = "running" /\ exch'[t].pl = exch[t].pl
         /\ exch'[t].cashed = exch[t].cashed + p
         /\ \A u \in Trades : u # t => exch'[u] = exch[u]
         /\ SumFunction(Off(sess, exch')) = SumFunction(Off(sess, exch)) + n
         /\ Live' = Live
<1>1. /\ Registered \in SUBSET Trades /\ sess \in Session(Registered)
      /\ exch \in [Trades -> Trade] /\ exch[t] \in Trade /\ exch[t].margin \in Int
  BY TradeIs DEF AccountTyped, SessTyped, ExchTyped
<1>2. exch' \in [Trades -> Trade]
  BY DEF AccountTyped, ExchTyped
<1>3. /\ exch'[t].state = "running" /\ exch'[t].pl = exch[t].pl
      /\ exch'[t].cashed = exch[t].cashed + p /\ exch'[t].margin = exch[t].margin - n
      /\ \A u \in Trades : u # t => exch'[u] = exch[u]
  BY <1>1 DEF Reshaped, Trade
<1>4. There(exch, t) = exch[t].margin /\ There(exch', t) = exch[t].margin - n
  BY <1>3 DEF There
<1>5. There(exch', t) = There(exch, t) - n /\ \A u \in Registered \ {t} : exch'[u] = exch[u]
  BY <1>1, <1>3, <1>4
<1>6. SumFunction(Off(sess, exch')) = SumFunction(Off(sess, exch)) + n
  BY <1>1, <1>2, <1>5, OffMovesOne
<1>7. Live' = Live
  <2>1. \A u \in Trades : exch'[u].state = "running" <=> exch[u].state = "running"
    BY <1>3
  <2> QED
    BY <2>1 DEF Live
<1> QED
  BY <1>2, <1>3, <1>6, <1>7

\* The session that takes over one trade.
LEMMA UpdatingOne ==
  ASSUME AccountTyped, exch' \in [Trades -> Trade], NEW t \in Registered,
         exch'[t].state = "running"
  PROVE  LET r == Updating(sess, {t})
             c == exch'[t].cashed - sess.running[t].cashed
         IN /\ r \in Session(Registered) /\ Freed(sess, {t}) \in Int /\ c \in Int
            /\ r.balance = AtLeastZero(sess.balance + Freed(sess, {t}))
            /\ r.pl = sess.pl + c
            /\ r.running[t].cashed = exch'[t].cashed
            /\ \A u \in Registered \ {t} : r.running[u] = sess.running[u]
            /\ r.cross = sess.cross /\ r.known = sess.known
            /\ SumFunction(Off(r, exch')) + Freed(sess, {t}) = SumFunction(Off(sess, exch')) + c
<1> DEFINE T == {t}
           r == Updating(sess, T)
           c == exch'[t].cashed - sess.running[t].cashed
           free1 == FreedBy(sess, exch', T)
           cash1 == CashedBy(sess, exch', T)
           run == [u \in Registered |->
                     IF u \in T THEN [margin |-> exch'[u].margin, cashed |-> exch'[u].cashed]
                     ELSE sess.running[u]]
<1>1. /\ Registered \in SUBSET Trades /\ sess \in Session(Registered) /\ T \in SUBSET Registered
      /\ t \in Trades
  BY DEF AccountTyped, SessTyped
<1>2. /\ r \in Session(Registered)
      /\ Freed(sess, T) = SumFunction(free1) /\ Freed(sess, T) \in Int
      /\ r.balance = AtLeastZero(sess.balance + Freed(sess, T))
      /\ r.pl = sess.pl + SumFunction(cash1)
      /\ r.running = run
      /\ r.cross = sess.cross /\ r.known = sess.known
  <2> HIDE DEF T
  <2> QED
    BY <1>1, UpdatingIs DEF FreedBy, CashedBy
<1>3. c \in Int
  BY <1>1, OffIs
<1>4. SumFunction(cash1) = c
  <2>1. DOMAIN cash1 = {t} /\ cash1[t] = c
    BY DEF CashedBy
  <2> HIDE DEF cash1, c
  <2> QED
    BY <1>3, <2>1, SumOfOne
<1>5. SumFunction(Off(r, exch')) + SumFunction(free1) = SumFunction(Off(sess, exch')) + SumFunction(cash1)
  <2>1. \A u \in T : exch'[u].state = "running"
    OBVIOUS
  <2> HIDE DEF r, T
  <2> QED
    BY <1>1, <1>2, <2>1, UpdatedBooks
<1>6. run[t].cashed = exch'[t].cashed /\ \A u \in Registered \ {t} : run[u] = sess.running[u]
  OBVIOUS
<1> HIDE DEF r, c, free1, cash1, run
<1> QED
  BY <1>2, <1>3, <1>4, <1>5, <1>6 DEF r, c

\* A change of a margin, with or without a profit that is cashed in.
LEMMA ReshapedInv ==
  ASSUME AccountInv, AccountTyped', Method, NEW t \in Trades, NEW told \in BOOLEAN,
         NEW n \in Int, NEW p \in Nat,
         t \in Registered, t \in Live, Reshaped(t, n, p),
         Answered(told, Updating(sess, {t})),
         UNCHANGED <<cross, ready, accountPc, work, paid, seen, earned>>,
         IF ~told /\ p > 0
         THEN behind' = TRUE /\ untold' = untold \cup {"isolated"}
         ELSE CutOff(told, sess.balance + Freed(sess, {t})) /\ UNCHANGED untold
  PROVE  AccountInv'
<1>1. AccountTyped /\ accountPc = "idle" /\ ready /\ sess.known /\ exch[t].state = "running"
  BY DEF AccountInv, Method, KnownInv, Live
<1>2. /\ Registered \in SUBSET Trades /\ sess \in Session(Registered) /\ seen \in SUBSET Trades
      /\ exch \in [Trades -> Trade] /\ sess.balance \in Int /\ free \in Int /\ paid \in Int
      /\ exch[t].cashed \in Nat /\ SumFunction(Off(sess, exch)) \in Int
      /\ behind \in BOOLEAN
  BY <1>1, SessionFields, TradeIs, OffIs DEF AccountTyped, SessTyped, ExchTyped, HistTyped
<1>3. /\ exch' \in [Trades -> Trade]
      /\ exch'[t].state = "running" /\ exch'[t].pl = exch[t].pl
      /\ exch'[t].cashed = exch[t].cashed + p
      /\ \A u \in Trades : u # t => exch'[u] = exch[u]
      /\ SumFunction(Off(sess, exch')) = SumFunction(Off(sess, exch)) + n
      /\ Live' = Live
  BY <1>1, ReshapedBooks
<1>4. t \in seen /\ free' = free + (n + p)
  BY DEF AccountInv, TradeInv, Reshaped
<1> DEFINE c == exch'[t].cashed - sess.running[t].cashed
           r == Updating(sess, {t})
<1>5. /\ r \in Session(Registered) /\ Freed(sess, {t}) \in Int /\ c \in Int
      /\ r.balance = AtLeastZero(sess.balance + Freed(sess, {t}))
      /\ r.pl = sess.pl + c
      /\ r.running[t].cashed = exch'[t].cashed
      /\ \A u \in Registered \ {t} : r.running[u] = sess.running[u]
      /\ r.cross = sess.cross /\ r.known = sess.known
      /\ SumFunction(Off(r, exch')) + Freed(sess, {t}) = SumFunction(Off(sess, exch')) + c
  BY <1>1, <1>3, UpdatingOne
<1>6. InStep => c = p
  <2>1. InStep => sess.running[t].cashed = exch[t].cashed
    BY DEF InStep
  <2> QED
    BY <1>2, <1>3, <2>1
<1> HIDE DEF c, r
<1>7. /\ told => sess' = r /\ untold' = untold
      /\ ~told => sess' = sess
      /\ ~told /\ "isolated" \notin untold' => p = 0 /\ untold' = untold
      /\ ~told /\ ~behind' => p = 0 /\ untold' = untold
      /\ "cross" \notin untold' => "cross" \notin untold
      /\ behind => behind'
      /\ told /\ ~behind' => ~(sess.balance + Freed(sess, {t}) < 0)
  <2>1. p \in Nat /\ (~(p > 0) => p = 0)
    OBVIOUS
  <2> QED
    BY <2>1 DEF Answered, CutOff, r
<1>8. Registered' = Registered
  <2>1. sess' \in Session(Registered)
    BY <1>2, <1>5, <1>7
  <2> QED
    BY <1>2, <2>1, SessTypedFrom
<1>9. sess'.cross = sess.cross /\ sess'.known
  BY <1>1, <1>5, <1>7
<1>10. KnownInv' /\ WorkInv' /\ CrossInv'
  BY <1>1, <1>7, <1>9 DEF AccountInv, KnownInv, WorkInv, CrossInv
<1>11. TradeInv'
  <2>1. \A u \in Trades : exch'[u].state = exch[u].state /\ (u # t => exch'[u].cashed = exch[u].cashed)
    BY <1>1, <1>3
  <2> QED
    BY <1>2, <1>4, <1>8, <2>1 DEF AccountInv, TradeInv
<1>12. InStep /\ (told \/ p = 0) => InStep'
  <2> SUFFICES ASSUME InStep, told \/ p = 0, NEW u \in Registered
               PROVE  exch'[u].cashed = sess'.running[u].cashed
    BY <1>8 DEF InStep
  <2>1. u # t => exch'[u] = exch[u] /\ exch[u].cashed = sess.running[u].cashed
    BY <1>2, <1>3 DEF InStep
  <2>2. CASE told
    BY <1>5, <1>7, <2>1, <2>2
  <2>3. CASE ~told
    <3>1. p = 0 /\ sess' = sess
      BY <1>7, <2>3
    <3>2. exch'[t].cashed = exch[t].cashed
      BY <1>2, <1>3, <3>1
    <3> QED
      BY <2>1, <3>1, <3>2 DEF InStep
  <2> QED
    BY <2>2, <2>3
<1>13. ProfitInv'
  <2> SUFFICES ASSUME "isolated" \notin untold'
               PROVE  InStep' /\ (sess.pl = SumFunction(Known(Registered, seen, exch)))'
    BY DEF ProfitInv
  <2>1. InStep /\ sess.pl = SumFunction(Known(Registered, seen, exch)) /\ (told \/ p = 0)
    BY <1>7 DEF AccountInv, ProfitInv
  <2>2. \A u \in seen \ {t} : exch'[u] = exch[u]
    BY <1>2, <1>3
  <2>3. SumFunction(Known(Registered, seen, exch')) = SumFunction(Known(Registered, seen, exch)) + p
    <3>1. p \in Int
      OBVIOUS
    <3> QED
      BY <1>2, <1>3, <1>4, <2>2, <3>1, KnownCashed
  <2>4. sess'.pl = sess.pl + p
    <3>1. CASE told
      BY <1>5, <1>6, <1>7, <2>1, <3>1
    <3>2. CASE ~told
      <4>1. sess' = sess /\ p = 0 /\ sess.pl \in Int
        BY <1>2, <1>7, <2>1, <3>2, SessionFields
      <4> QED
        BY <4>1
    <3> QED
      BY <3>1, <3>2
  <2>5. InStep'
    BY <1>12, <2>1
  <2> QED
    BY <1>8, <2>1, <2>3, <2>4, <2>5
<1>14. SyncInv'
  <2> SUFFICES ASSUME ~behind'
               PROVE  /\ Live' \subseteq Registered' /\ InStep'
                      /\ (sess.balance + SumFunction(Off(sess, exch)) = free + paid)'
    BY DEF SyncInv
  <2>1. /\ Live \subseteq Registered /\ InStep
        /\ sess.balance + SumFunction(Off(sess, exch)) = free + paid
    BY <1>1, <1>7 DEF AccountInv, SyncInv, Serving
  <2>2. told \/ p = 0
    BY <1>7
  <2>3. Live' \subseteq Registered' /\ InStep'
    BY <1>3, <1>8, <1>12, <2>1, <2>2
  <2> DEFINE a == SumFunction(Off(sess, exch))
             b == SumFunction(Off(sess, exch'))
             d == SumFunction(Off(r, exch'))
             w == sess.balance
             f == Freed(sess, {t})
             g == free
             q == paid
  <2>4. CASE told
    <3>1. /\ w \in Int /\ a \in Int /\ g \in Int /\ q \in Int /\ c \in Int /\ f \in Int
          /\ c = p /\ b = a + n /\ d + f = b + c /\ w + a = g + q /\ free' = g + (n + p)
      BY <1>2, <1>3, <1>4, <1>5, <1>6, <2>1
    <3>2. ~(w + f < 0) /\ sess' = r /\ r.balance = AtLeastZero(w + f) /\ paid' = q
      BY <1>5, <1>7, <2>4
    <3>3. d \in Int
      BY <1>2, <1>3, <1>5, OffIs
    <3> HIDE DEF a, b, d, w, f, g, q
    <3>4. r.balance = w + f
      <4>1. w + f \in Int /\ w + f >= 0
        BY <3>1, <3>2
      <4> QED
        BY <3>2, <4>1, AtLeastZeroIs
    <3>5. (w + f) + d = (g + (n + p)) + q
      BY <3>1, <3>3
    <3>6. (sess.balance + SumFunction(Off(sess, exch)) = free + paid)'
      BY <3>1, <3>2, <3>4, <3>5 DEF d
    <3> QED
      BY <2>3, <3>6
  <2>5. CASE ~told
    <3>1. sess' = sess /\ p = 0 /\ paid' = q
      BY <1>7, <2>2, <2>5
    <3>2. /\ w \in Int /\ a \in Int /\ g \in Int /\ q \in Int
          /\ b = a + n /\ w + a = g + q /\ free' = g + (n + p)
      BY <1>2, <1>3, <1>4, <2>1
    <3> HIDE DEF a, b, d, w, f, g, q
    <3>3. w + b = (g + (n + p)) + q
      BY <3>1, <3>2
    <3>4. (sess.balance + SumFunction(Off(sess, exch)) = free + paid)'
      BY <3>1, <3>2, <3>3 DEF b, w
    <3> QED
      BY <2>3, <3>4
  <2> QED
    BY <2>4, <2>5
<1> QED
  BY <1>1, <1>10, <1>11, <1>13, <1>14 DEF AccountInv

\* Margin added to a trade, or profit and margin cashed in.
LEMMA MarginInv ==
  ASSUME AccountInv, NEW t \in Trades, NEW told \in BOOLEAN,
         \/ AddMargin(t, told)
         \/ \E amount \in Deposits : \E profit \in 0 .. amount : CashIn(t, amount, profit, told)
  PROVE  AccountInv'
<1>1. AccountTyped /\ AccountTyped'
  BY RequestStepTypes DEF AccountInv
<1>2. /\ exch \in [Trades -> Trade] /\ exch[t] \in Trade /\ exch[t].margin \in Int
      /\ exch[t].cashed \in Nat /\ free \in Int /\ \A a \in Deposits : a \in Nat
  BY <1>1, TradeIs, AmountsAre DEF AccountTyped, ExchTyped
<1>3. CASE AddMargin(t, told)
  <2> DEFINE n == 0 - 1
             p == 0
  <2>1. /\ n \in Int /\ p \in Nat /\ free' = free + (n + p)
        /\ exch[t].margin - n = exch[t].margin + 1 /\ exch[t].cashed + p = exch[t].cashed
    BY <1>2, <1>3 DEF AddMargin
  <2>2. exch' = [exch EXCEPT ![t] = [exch[t] EXCEPT !.margin = exch[t].margin - n,
                                                    !.cashed = exch[t].cashed + p]]
    <3>1. exch' = [exch EXCEPT ![t] = [exch[t] EXCEPT !.margin = exch[t].margin + 1]]
      BY <1>2, <1>3 DEF AddMargin, Trade
    <3>2. [exch[t] EXCEPT !.margin = exch[t].margin + 1]
            = [exch[t] EXCEPT !.margin = exch[t].margin + 1, !.cashed = exch[t].cashed]
      BY <1>2 DEF Trade
    <3> QED
      BY <2>1, <3>1, <3>2
  <2>3. ~(p > 0)
    OBVIOUS
  <2>4. Reshaped(t, n, p)
    BY <2>1, <2>2 DEF Reshaped
  <2> HIDE DEF n, p
  <2> QED
    BY <1>1, <1>3, <2>1, <2>3, <2>4, ReshapedInv DEF AddMargin
<1>4. ASSUME NEW amount \in Deposits, NEW p \in 0 .. amount, CashIn(t, amount, p, told)
      PROVE  AccountInv'
  <2> DEFINE n == amount - p
  <2>0. amount \in Nat /\ free \in Int /\ free' = free + amount
    BY <1>2, <1>4 DEF CashIn
  <2>1. n \in Int /\ p \in Nat /\ free' = free + (n + p)
    BY <2>0
  <2>2. exch' = [exch EXCEPT ![t] = [exch[t] EXCEPT !.margin = exch[t].margin - n,
                                                    !.cashed = exch[t].cashed + p]]
    BY <1>2, <1>4 DEF CashIn, Trade
  <2> HIDE DEF n
  <2>3. Reshaped(t, n, p)
    BY <2>1, <2>2 DEF Reshaped
  <2> QED
    BY <1>1, <1>4, <2>1, <2>3, ReshapedInv DEF CashIn
<1> QED
  BY <1>3, <1>4

\* The session that closes trades.
LEMMA ClosingBooks ==
  ASSUME NEW D \in SUBSET Trades, NEW s \in Session(D), NEW S \in SUBSET D,
         exch' \in [Trades -> Trade], \A t \in S : exch'[t].state # "running"
  PROVE  LET r == Closing(s, S)
         IN /\ r \in Session(D \ S) /\ Proceeds(s, S) \in Int
            /\ r.balance = AtLeastZero(s.balance + Proceeds(s, S))
            /\ r.pl = s.pl + SumFunction(Won(S, exch'))
            /\ r.running = Kept(s, D \ S)
            /\ r.cross = s.cross /\ r.known = s.known
            /\ SumFunction(Off(r, exch')) \in Int /\ SumFunction(Off(s, exch')) \in Int
            /\ SumFunction(Off(r, exch')) + Proceeds(s, S) = SumFunction(Off(s, exch'))
<1> DEFINE r == Closing(s, S)
           back == BackFrom(s, exch', S)
<1>1. /\ r \in Session(D \ S)
      /\ Proceeds(s, S) = SumFunction(back) /\ Proceeds(s, S) \in Int
      /\ r.balance = AtLeastZero(s.balance + Proceeds(s, S))
      /\ r.pl = s.pl + SumFunction(Won(S, exch'))
      /\ r.running = Kept(s, D \ S)
      /\ r.cross = s.cross /\ r.known = s.known
  BY ClosingIs
<1>2. SumFunction(Off(s, exch')) \in Int
  BY OffIs
<1>3. /\ SumFunction(Off(r, exch')) \in Int
      /\ SumFunction(Off(r, exch')) + SumFunction(back) = SumFunction(Off(s, exch'))
  <2> HIDE DEF r
  <2> QED
    BY <1>1, ClosedBooks
<1> HIDE DEF r, back
<1> QED
  BY <1>1, <1>2, <1>3 DEF r

\* The operator closes trades.
LEMMA CloseInv ==
  ASSUME AccountInv, CloseRequest
  PROVE  AccountInv'
<1>1. AccountTyped /\ AccountTyped'
  BY CloseStepTypes DEF AccountInv
<1>2. PICK pl \in [Trades -> Results], told \in BOOLEAN, S \in SUBSET Trades :
        Method /\ Closes(S, pl, told) /\ (told => S \subseteq Registered)
  BY DEF CloseRequest
<1>3. /\ Registered \in SUBSET Trades /\ sess \in Session(Registered) /\ seen \in SUBSET Trades
      /\ exch \in [Trades -> Trade] /\ sess.balance \in Int /\ free \in Int /\ paid \in Int
      /\ SumFunction(Off(sess, exch)) \in Int /\ behind \in BOOLEAN /\ sess.pl \in Int
      /\ Fee \in Int /\ \A t \in Trades : exch[t].margin \in Int
  BY <1>1, SessionFields, TradeIs, OffIs, AmountsAre
     DEF AccountTyped, SessTyped, ExchTyped, HistTyped
<1>4. /\ exch' \in [Trades -> Trade]
      /\ \A t \in S : exch[t].state = "running" /\ pl[t] \in Int /\ Paid1(S, pl)[t] \in Nat
      /\ \A t \in S : /\ exch'[t].state = "closed" /\ exch'[t].pl = pl[t]
                        /\ exch'[t].cashed = exch[t].cashed
      /\ \A t \in Trades \ S : exch'[t] = exch[t]
      /\ free' = free + SumFunction(Paid1(S, pl)) /\ SumFunction(Paid1(S, pl)) \in Nat
  <2>1. exch' \in [Trades -> Trade]
    BY <1>1 DEF AccountTyped, ExchTyped
  <2> QED
    BY <1>1, <1>2, <2>1, ClosesTypes
<1>5. /\ \A t \in S : exch'[t].state = "closed" /\ exch'[t].pl = pl[t]
      /\ \A t \in Trades : exch'[t].cashed = exch[t].cashed
      /\ \A t \in Trades \ S : exch'[t] = exch[t]
  BY <1>4
<1>6. /\ accountPc = "idle" /\ ready /\ sess.known
      /\ UNCHANGED <<cross, ready, accountPc, work, paid, seen, earned, untold>>
      /\ told => sess' = Closing(sess, S)
      /\ ~told => sess' = sess
      /\ behind => behind'
      /\ told /\ ~behind' => ~(sess.balance + Proceeds(sess, S) < 0)
  BY <1>2 DEF AccountInv, KnownInv, Method, Closes, Answered, CutOff
<1>7. told =>
        /\ sess' \in Session(Registered \ S) /\ Proceeds(sess, S) \in Int
        /\ sess'.balance = AtLeastZero(sess.balance + Proceeds(sess, S))
        /\ sess'.pl = sess.pl + SumFunction(Won(S, exch'))
        /\ sess'.running = Kept(sess, Registered \ S)
        /\ sess'.cross = sess.cross /\ sess'.known = sess.known
        /\ SumFunction(Off(sess', exch')) \in Int
        /\ SumFunction(Off(sess', exch')) + Proceeds(sess, S) = SumFunction(Off(sess, exch'))
  <2> SUFFICES ASSUME told
               PROVE  /\ sess' \in Session(Registered \ S) /\ Proceeds(sess, S) \in Int
                      /\ sess'.balance = AtLeastZero(sess.balance + Proceeds(sess, S))
                      /\ sess'.pl = sess.pl + SumFunction(Won(S, exch'))
                      /\ sess'.running = Kept(sess, Registered \ S)
                      /\ sess'.cross = sess.cross /\ sess'.known = sess.known
                      /\ SumFunction(Off(sess', exch')) \in Int
                      /\ SumFunction(Off(sess', exch')) + Proceeds(sess, S)
                           = SumFunction(Off(sess, exch'))
    OBVIOUS
  <2>1. S \in SUBSET Registered /\ \A t \in S : exch'[t].state # "running"
    BY <1>2, <1>5
  <2>2. sess' = Closing(sess, S)
    BY <1>6
  <2> DEFINE r == Closing(sess, S)
  <2>3. /\ r \in Session(Registered \ S) /\ Proceeds(sess, S) \in Int
        /\ r.balance = AtLeastZero(sess.balance + Proceeds(sess, S))
        /\ r.pl = sess.pl + SumFunction(Won(S, exch'))
        /\ r.running = Kept(sess, Registered \ S)
        /\ r.cross = sess.cross /\ r.known = sess.known
        /\ SumFunction(Off(r, exch')) \in Int
        /\ SumFunction(Off(r, exch')) + Proceeds(sess, S) = SumFunction(Off(sess, exch'))
    <3>1. Registered \in SUBSET Trades /\ sess \in Session(Registered) /\ exch' \in [Trades -> Trade]
      BY <1>3, <1>4
    <3> QED
      BY <2>1, <3>1, ClosingBooks
  <2> HIDE DEF r
  <2>4. sess' = r
    BY <2>2 DEF r
  <2> QED
    BY <2>3, <2>4
<1>8. /\ told => Registered' = Registered \ S
      /\ ~told => Registered' = Registered
  <2>1. Registered \ S \in SUBSET Trades
    BY <1>3
  <2> QED
    BY <1>6, <1>7, <2>1, SessTypedFrom DEF Registered
<1>9. sess'.cross = sess.cross /\ sess'.known
  BY <1>6, <1>7
<1>10. KnownInv' /\ WorkInv' /\ CrossInv'
  BY <1>6, <1>9 DEF AccountInv, KnownInv, WorkInv, CrossInv
<1>11. TradeInv'
  <2>1. /\ Registered' \subseteq Registered
        /\ \A t \in Registered \ Registered' : t \in S
    BY <1>8
  <2>2. /\ \A t \in Trades : exch'[t].state = "none" <=> exch[t].state = "none"
        /\ \A t \in Trades : exch'[t].state = "running" => exch[t].state = "running"
        /\ \A t \in S : exch'[t].state # "running"
    <3>1. \A t \in S : exch[t].state = "running" /\ exch'[t].state = "closed"
      BY <1>4, <1>5
    <3>2. \A t \in Trades : t \notin S => exch'[t] = exch[t]
      BY <1>5
    <3> QED
      BY <3>1, <3>2
  <2>3. seen' = seen
    BY <1>6
  <2> QED
    BY <1>3, <1>5, <2>1, <2>2, <2>3 DEF AccountInv, TradeInv
<1>12. InStep => InStep'
  <2>1. \A t \in Registered' : t \in Registered /\ sess'.running[t] = sess.running[t]
    BY <1>6, <1>7, <1>8 DEF Kept
  <2> QED
    BY <1>3, <1>5, <2>1 DEF InStep
<1>13. ProfitInv'
  <2> SUFFICES ASSUME "isolated" \notin untold'
               PROVE  InStep' /\ (sess.pl = SumFunction(Known(Registered, seen, exch)))'
    BY DEF ProfitInv
  <2>1. InStep /\ sess.pl = SumFunction(Known(Registered, seen, exch))
    BY <1>6 DEF AccountInv, ProfitInv
  <2>2. Known(Registered, seen, exch') = Known(Registered, seen, exch)
    <3>1. \A t \in seen \ Registered : t \notin S
      BY <1>4 DEF AccountInv, TradeInv
    <3>2. /\ \A t \in seen : exch'[t].cashed = exch[t].cashed
          /\ \A t \in seen \ Registered : exch'[t].pl = exch[t].pl
      BY <1>3, <1>5, <3>1
    <3> QED
      BY <1>3, <1>4, <3>2, KnownSame
  <2>3. CASE told
    <3>1. S \in SUBSET seen /\ S \subseteq Registered
      BY <1>2, <2>3 DEF AccountInv, TradeInv
    <3>2. SumFunction(Known(Registered \ S, seen, exch'))
            = SumFunction(Known(Registered, seen, exch')) + SumFunction(Won(S, exch'))
      BY <1>3, <1>4, <3>1, KnownCloses
    <3> QED
      BY <1>6, <1>7, <1>8, <1>12, <2>1, <2>2, <2>3, <3>2
  <2>4. CASE ~told
    BY <1>6, <1>8, <1>12, <2>1, <2>2, <2>4
  <2> QED
    BY <2>3, <2>4
<1>14. SyncInv'
  <2> SUFFICES ASSUME ~behind'
               PROVE  /\ Live' \subseteq Registered' /\ InStep'
                      /\ (sess.balance + SumFunction(Off(sess, exch)) = free + paid)'
    BY DEF SyncInv
  <2>1. /\ Live \subseteq Registered /\ InStep
        /\ sess.balance + SumFunction(Off(sess, exch)) = free + paid
    BY <1>6 DEF AccountInv, SyncInv, Serving
  <2>2. S \in SUBSET Registered
    BY <1>4, <2>1 DEF Live
  <2>3. Live' \subseteq Registered' /\ InStep'
    <3>1. Live' \subseteq Live \ S
      BY <1>3, <1>5 DEF Live
    <3> QED
      BY <1>8, <1>12, <2>1, <3>1
  <2> DEFINE back == Paid1(S, pl)
  <2>9. /\ Registered \in SUBSET Trades /\ sess \in Session(Registered)
        /\ exch \in [Trades -> Trade] /\ exch' \in [Trades -> Trade]
    BY <1>3, <1>4
  <2>4. SumFunction(Off(sess, exch')) = SumFunction(Off(sess, exch)) + SumFunction(back)
    <3>1. DOMAIN back = S
      BY DEF Paid1
    <3>2. \A t \in S : back[t] \in Int /\ There(exch', t) = There(exch, t) - back[t]
      <4> SUFFICES ASSUME NEW t \in S
                   PROVE  back[t] \in Int /\ There(exch', t) = There(exch, t) - back[t]
        OBVIOUS
      <4>1. There(exch', t) = Fee - pl[t] /\ There(exch, t) = exch[t].margin
        BY <1>4, <1>5 DEF There
      <4>2. back[t] = exch[t].margin + pl[t] - Fee
        BY DEF Paid1
      <4> QED
        BY <1>3, <1>4, <4>1, <4>2
    <3>3. \A t \in Registered \ S : There(exch', t) = There(exch, t)
      BY <1>3, <1>5 DEF There
    <3> HIDE DEF back
    <3>4. Moves(exch, exch', Registered, back)
      BY <2>2, <3>1, <3>2, <3>3 DEF Moves
    <3> QED
      BY <2>9, <3>4, OffMoves
  <2> DEFINE a == SumFunction(Off(sess, exch))
             b == SumFunction(Off(sess, exch'))
             d == SumFunction(Off(sess', exch'))
             w == sess.balance
             f == Proceeds(sess, S)
             n == SumFunction(back)
             g == free
             q == paid
  <2>5. /\ w \in Int /\ a \in Int /\ g \in Int /\ q \in Int /\ n \in Int
        /\ b = a + n /\ w + a = g + q /\ free' = g + n
    BY <1>3, <1>4, <2>1, <2>4
  <2>6. paid' = q
    BY <1>6
  <2>7. CASE told
    <3>1. d \in Int /\ f \in Int /\ d + f = b /\ sess'.balance = AtLeastZero(w + f)
      BY <1>7, <2>7
    <3>2. ~(w + f < 0)
      BY <1>6, <2>7
    <3> HIDE DEF a, b, d, w, f, g, n, q, back
    <3>3. sess'.balance = w + f
      <4>1. w + f \in Int /\ w + f >= 0
        BY <2>5, <3>1, <3>2
      <4> QED
        BY <3>1, <4>1, AtLeastZeroIs
    <3>4. (w + f) + d = (g + n) + q
      BY <2>5, <3>1
    <3>5. (sess.balance + SumFunction(Off(sess, exch)) = free + paid)'
      BY <2>5, <2>6, <3>3, <3>4 DEF d
    <3> QED
      BY <2>3, <3>5
  <2>8. CASE ~told
    <3>1. sess' = sess
      BY <1>6, <2>8
    <3> HIDE DEF a, b, d, w, f, g, n, q, back
    <3>2. w + b = (g + n) + q
      BY <2>5
    <3>3. (sess.balance + SumFunction(Off(sess, exch)) = free + paid)'
      BY <2>5, <2>6, <3>1, <3>2 DEF b, w
    <3> QED
      BY <2>3, <3>3
  <2> QED
    BY <2>7, <2>8
<1> QED
  BY <1>1, <1>10, <1>11, <1>13, <1>14 DEF AccountInv

\* The balance of the session that takes over the trades S.
LEMMA UpdatingBalance ==
  ASSUME AccountTyped, NEW S \in SUBSET Registered, exch' \in [Trades -> Trade]
  PROVE  /\ Freed(sess, S) = SumFunction(FreedBy(sess, exch', S))
         /\ Updating(sess, S).balance = AtLeastZero(sess.balance + Freed(sess, S))
<1> DEFINE r == Updating(sess, S)
<1>1. Registered \in SUBSET Trades /\ sess \in Session(Registered)
  BY DEF AccountTyped, SessTyped
<1>2. /\ r \in Session(Registered)
      /\ Freed(sess, S) = SumFunction(FreedBy(sess, exch', S)) /\ Freed(sess, S) \in Int
      /\ r.balance = AtLeastZero(sess.balance + Freed(sess, S))
      /\ r.pl = sess.pl + SumFunction(CashedBy(sess, exch', S))
      /\ r.running = [t \in Registered |->
                        IF t \in S THEN [margin |-> exch'[t].margin, cashed |-> exch'[t].cashed]
                        ELSE sess.running[t]]
  BY <1>1, UpdatingIs
<1> QED
  BY <1>2

\* A refresh that closes the trades S and moves the stop losses of U: upd is the session between
\* the two.
Between(upd, S, U) ==
  /\ upd \in Session(Registered) /\ S \in SUBSET Registered /\ U \in SUBSET Registered
  /\ sess' = Closing(upd, S)
  /\ upd.running = [t \in Registered |->
       IF t \in U THEN [margin |-> exch[t].margin, cashed |-> exch[t].cashed]
       ELSE sess.running[t]]
  /\ Freed(sess, U) = SumFunction(FreedBy(sess, exch, U)) /\ Freed(sess, U) \in Int
  /\ upd.balance = AtLeastZero(sess.balance + Freed(sess, U))
  /\ upd.balance = Updating(sess, U).balance
  /\ upd.pl = sess.pl + SumFunction(CashedBy(sess, exch, U))
  /\ upd.known = sess.known
  /\ upd.cross \in {sess.cross, Replaced(sess.cross, cross)}

\* There is such a session.
LEMMA ReevaluatingIs ==
  ASSUME AccountInv, NEW S \in SUBSET Trades, NEW U \in SUBSET Trades,
         \E reached \in BOOLEAN : Reevaluate(S, U, reached)
  PROVE  \E upd : Between(upd, S, U)
<1>1. /\ AccountTyped /\ Registered \in SUBSET Trades /\ sess \in Session(Registered)
      /\ exch \in [Trades -> Trade] /\ sess.balance \in Nat
  BY SessionFields DEF AccountInv, AccountTyped, SessTyped, ExchTyped
<1>2. /\ S \in SUBSET Registered /\ U \in SUBSET Registered /\ exch' = exch
      /\ \E base : /\ IsBase(base)
                   /\ Updating(base, U) \in Session(Registered)
                   /\ sess' = Closing(Updating(base, U), S)
  BY <1>1, ReevaluateIs
<1>3. PICK base : /\ IsBase(base)
                  /\ Updating(base, U) \in Session(Registered)
                  /\ sess' = Closing(Updating(base, U), S)
  BY <1>2
<1>4. /\ base \in Session(Registered) /\ base.running = sess.running
      /\ base.balance = sess.balance /\ base.pl = sess.pl /\ base.known = sess.known
      /\ base.cross \in {sess.cross, Replaced(sess.cross, cross)}
  BY <1>3 DEF IsBase
<1>5. /\ FreedBy(base, exch, U) = FreedBy(sess, exch, U)
      /\ CashedBy(base, exch, U) = CashedBy(sess, exch, U)
  BY <1>4 DEF FreedBy, CashedBy
<1> DEFINE upd == Updating(base, U)
           run == [t \in Registered |->
                     IF t \in U THEN [margin |-> exch[t].margin, cashed |-> exch[t].cashed]
                     ELSE sess.running[t]]
<1>6. /\ upd \in Session(Registered)
      /\ Freed(base, U) = SumFunction(FreedBy(base, exch', U)) /\ Freed(base, U) \in Int
      /\ upd.balance = AtLeastZero(base.balance + Freed(base, U))
      /\ upd.pl = base.pl + SumFunction(CashedBy(base, exch', U))
      /\ upd.running = [t \in Registered |->
           IF t \in U THEN [margin |-> exch'[t].margin, cashed |-> exch'[t].cashed]
           ELSE base.running[t]]
      /\ upd.cross = base.cross /\ upd.known = base.known
  <2>1. exch' \in [Trades -> Trade]
    BY <1>1, <1>2
  <2> QED
    BY <1>1, <1>2, <1>4, <2>1, UpdatingIs
<1>7. /\ Freed(sess, U) = SumFunction(FreedBy(sess, exch', U))
      /\ Updating(sess, U).balance = AtLeastZero(sess.balance + Freed(sess, U))
  <2>1. /\ exch' \in [Trades -> Trade] /\ U \in SUBSET Registered
        /\ Registered \in SUBSET Trades /\ sess \in Session(Registered)
    BY <1>1, <1>2
  <2> QED
    BY <1>1, <2>1, UpdatingBalance
<1>8. upd.running = run
  BY <1>2, <1>4, <1>6
<1> HIDE DEF upd, run
<1>9. Freed(sess, U) = Freed(base, U) /\ Freed(sess, U) = SumFunction(FreedBy(sess, exch, U))
  BY <1>2, <1>5, <1>6, <1>7
<1>10. upd.pl = sess.pl + SumFunction(CashedBy(sess, exch, U))
  BY <1>2, <1>4, <1>5, <1>6
<1>11. sess' = Closing(upd, S)
  BY <1>3 DEF upd
<1> QED
  BY <1>2, <1>4, <1>6, <1>7, <1>8, <1>9, <1>10, <1>11 DEF run, Between

\* The closures and the new stop losses of a refresh, together, keep the books.
LEMMA ReevaluateInv ==
  ASSUME AccountInv, NEW S \in SUBSET Trades, NEW U \in SUBSET Trades,
         NEW reached \in BOOLEAN, Reevaluate(S, U, reached)
  PROVE  AccountInv'
<1>1. AccountTyped /\ AccountTyped'
  BY RefreshTypes DEF AccountInv, Refresh
<1>2. \E r \in BOOLEAN : Reevaluate(S, U, r)
  OBVIOUS
<1>3. PICK upd : Between(upd, S, U)
  BY <1>2, ReevaluatingIs
<1>4. /\ upd \in Session(Registered) /\ S \in SUBSET Registered /\ U \in SUBSET Registered
      /\ sess' = Closing(upd, S)
      /\ upd.running = [t \in Registered |->
           IF t \in U THEN [margin |-> exch[t].margin, cashed |-> exch[t].cashed]
           ELSE sess.running[t]]
      /\ Freed(sess, U) = SumFunction(FreedBy(sess, exch, U)) /\ Freed(sess, U) \in Int
      /\ upd.balance = AtLeastZero(sess.balance + Freed(sess, U))
      /\ upd.balance = Updating(sess, U).balance
      /\ upd.pl = sess.pl + SumFunction(CashedBy(sess, exch, U))
      /\ upd.known = sess.known
      /\ upd.cross \in {sess.cross, Replaced(sess.cross, cross)}
  BY <1>3 DEF Between
<1>5. /\ Registered \in SUBSET Trades /\ sess \in Session(Registered) /\ seen \in SUBSET Trades
      /\ exch \in [Trades -> Trade] /\ sess.balance \in Int /\ free \in Int /\ paid \in Int
      /\ sess.pl \in Int /\ sess.cross \in View /\ cross \in CrossTypes
  BY <1>1, SessionFields DEF AccountTyped, SessTyped, ExchTyped, HistTyped
<1>6. /\ exch' = exch /\ free' = free /\ cross' = cross /\ paid' = paid /\ earned' = earned
      /\ untold' = untold /\ accountPc = "idle" /\ accountPc' = "idle" /\ ready' = TRUE
      /\ ~sess.expired /\ work' = NoSession /\ seen' = seen \cup Registered'
      /\ behind' = (\/ behind \/ sess.balance + Freed(sess, U) < 0
                    \/ Updating(sess, U).balance + Proceeds(sess, S) < 0)
  BY DEF Reevaluate, Publish, exchVars, Registered
<1>7. /\ Registered' = Registered \ S
      /\ \A t \in S : exch[t].state # "running"
      /\ \A t \in U : exch[t].state = "running"
  BY <1>2, <1>1, ReevaluateIs
<1>8. ready /\ sess.known
  BY <1>6 DEF AccountInv, KnownInv
<1> DEFINE cash == CashedBy(sess, exch, U)
           freed == FreedBy(sess, exch, U)
<1>9. /\ sess' \in Session(Registered \ S) /\ Proceeds(upd, S) \in Int
      /\ sess'.balance = AtLeastZero(upd.balance + Proceeds(upd, S))
      /\ sess'.pl = upd.pl + SumFunction(Won(S, exch))
      /\ sess'.running = Kept(upd, Registered \ S)
      /\ sess'.cross = upd.cross /\ sess'.known = upd.known
      /\ SumFunction(Off(sess', exch)) \in Int /\ SumFunction(Off(upd, exch)) \in Int
      /\ SumFunction(Off(sess', exch)) + Proceeds(upd, S) = SumFunction(Off(upd, exch))
  <2> DEFINE r == Closing(upd, S)
  <2>1. /\ r \in Session(Registered \ S) /\ Proceeds(upd, S) \in Int
        /\ r.balance = AtLeastZero(upd.balance + Proceeds(upd, S))
        /\ r.pl = upd.pl + SumFunction(Won(S, exch'))
        /\ r.running = Kept(upd, Registered \ S)
        /\ r.cross = upd.cross /\ r.known = upd.known
        /\ SumFunction(Off(r, exch')) \in Int /\ SumFunction(Off(upd, exch')) \in Int
        /\ SumFunction(Off(r, exch')) + Proceeds(upd, S) = SumFunction(Off(upd, exch'))
    <3>1. /\ Registered \in SUBSET Trades /\ S \in SUBSET Registered
          /\ upd \in Session(Registered)
          /\ exch' \in [Trades -> Trade]
          /\ \A t \in S : exch'[t].state # "running"
      BY <1>4, <1>5, <1>6, <1>7
    <3> QED
      BY <3>1, ClosingBooks
  <2>2. sess' = r /\ exch' = exch
    BY <1>4, <1>6
  <2> HIDE DEF r
  <2> QED
    BY <2>1, <2>2
<1>10. /\ SumFunction(freed) \in Int /\ SumFunction(cash) \in Int
      /\ SumFunction(Off(upd, exch)) + SumFunction(freed)
           = SumFunction(Off(sess, exch)) + SumFunction(cash)
      /\ SumFunction(Off(sess, exch)) \in Int
  <2>1. /\ SumFunction(freed) \in Int /\ SumFunction(cash) \in Int
        /\ SumFunction(Off(upd, exch)) + SumFunction(freed)
             = SumFunction(Off(sess, exch)) + SumFunction(cash)
    BY <1>4, <1>5, <1>7, UpdatedBooks
  <2> QED
    BY <1>5, <2>1, OffIs
<1>11. Proceeds(upd, S) = Proceeds(sess, S)
  <2>1. \A t \in S : upd.running[t] = sess.running[t]
    BY <1>4, <1>7
  <2> QED
    BY <2>1, <1>4 DEF Proceeds
<1>12. InStep => SumFunction(cash) = 0
  <2> SUFFICES ASSUME InStep PROVE SumFunction(cash) = 0
    OBVIOUS
  <2>1. IsFiniteSet(U)
    BY AmountsAre
  <2>2. \A t \in U : exch[t].cashed = sess.running[t].cashed /\ exch[t].cashed \in Int
    BY <1>4, <1>5, OffIs DEF InStep
  <2>3. DOMAIN cash = U /\ \A t \in U : cash[t] = 0
    BY <2>2 DEF CashedBy
  <2> HIDE DEF cash
  <2> QED
    BY <2>1, <2>3, SumZero
<1>13. InStep => InStep'
  <2>1. \A t \in Registered' : t \in Registered /\ sess'.running[t] = upd.running[t]
    BY <1>7, <1>9 DEF Kept
  <2>2. \A t \in Registered : InStep => exch[t].cashed = upd.running[t].cashed
    BY <1>4 DEF InStep
  <2> QED
    BY <1>6, <2>1, <2>2 DEF InStep
<1>14. Registered \subseteq seen /\ seen' = seen
  <2>1. Registered \subseteq seen
    BY DEF AccountInv, TradeInv
  <2> QED
    BY <1>6, <1>7, <2>1
<1>15. KnownInv'
  BY <1>4, <1>6, <1>8, <1>9 DEF KnownInv
<1>16. WorkInv'
  BY <1>6 DEF WorkInv
<1>17. TradeInv'
  <2>1. TradeInv
    BY DEF AccountInv
  <2> QED
    BY <1>6, <1>7, <1>14, <2>1 DEF TradeInv
<1>18. CrossInv'
  <2>1. CrossInv
    BY DEF AccountInv
  <2>2. /\ SumOf(Replaced(sess.cross, cross)) = SumOf(cross)
        /\ Replaced(sess.cross, cross).pl = sess.cross.pl
    BY <1>5, ReplacedSum
  <2>3. sess'.cross = sess.cross \/ sess'.cross = Replaced(sess.cross, cross)
    BY <1>4, <1>9
  <2> QED
    BY <1>6, <1>8, <2>1, <2>2, <2>3 DEF CrossInv
<1>19. ProfitInv'
  <2> SUFFICES ASSUME "isolated" \notin untold'
               PROVE  InStep' /\ (sess.pl = SumFunction(Known(Registered, seen, exch)))'
    BY DEF ProfitInv
  <2>1. InStep /\ sess.pl = SumFunction(Known(Registered, seen, exch))
    BY <1>6 DEF AccountInv, ProfitInv
  <2>2. SumFunction(Known(Registered \ S, seen, exch))
          = SumFunction(Known(Registered, seen, exch)) + SumFunction(Won(S, exch))
    <3>1. S \in SUBSET seen /\ S \subseteq Registered
      BY <1>4, <1>14
    <3> QED
      BY <1>5, <3>1, KnownCloses
  <2>3. SumFunction(cash) = 0
    BY <1>12, <2>1
  <2> DEFINE c == SumFunction(cash)
             p == sess.pl
             w == SumFunction(Won(S, exch))
             u == upd.pl
  <2>4. u = p + c /\ c = 0 /\ p \in Int /\ sess'.pl = u + w
    BY <1>4, <1>5, <1>9, <2>3
  <2>5. (sess.pl = SumFunction(Known(Registered, seen, exch)))'
    <3>1. SumFunction(Known(Registered \ S, seen, exch)) = p + w
      BY <2>1, <2>2
    <3> HIDE DEF c, p, w, u
    <3>2. sess'.pl = p + w
      BY <2>4
    <3>3. Known(Registered', seen', exch') = Known(Registered \ S, seen, exch)
      BY <1>6, <1>7, <1>14
    <3> QED
      BY <3>1, <3>2, <3>3
  <2> QED
    BY <1>13, <2>1, <2>5
<1>20. SyncInv'
  <2> SUFFICES ASSUME ~behind'
               PROVE  /\ Live' \subseteq Registered' /\ InStep'
                      /\ (sess.balance + SumFunction(Off(sess, exch)) = free + paid)'
    BY DEF SyncInv
  <2>1. /\ Live \subseteq Registered /\ InStep
        /\ sess.balance + SumFunction(Off(sess, exch)) = free + paid
    BY <1>6, <1>8 DEF AccountInv, SyncInv, Serving
  <2>2. Live' \subseteq Registered'
    BY <1>6, <1>7, <2>1 DEF Live
  <2> DEFINE a == SumFunction(Off(sess, exch))
             b == SumFunction(Off(upd, exch))
             d == SumFunction(Off(sess', exch))
             c == SumFunction(cash)
             f == Freed(sess, U)
             g == Proceeds(sess, S)
             w == sess.balance
             v == upd.balance
             h == free
             q == paid
  <2>3. /\ b + f = a + c /\ c = 0 /\ d + g = b /\ w + a = h + q
        /\ v = AtLeastZero(w + f) /\ sess'.balance = AtLeastZero(v + g)
    BY <1>4, <1>9, <1>10, <1>11, <1>12, <2>1
  <2>4. a \in Int /\ b \in Int /\ d \in Int /\ f \in Int /\ g \in Int /\ w \in Int /\ h \in Int /\ q \in Int
    BY <1>4, <1>5, <1>9, <1>10, <1>11
  <2>5. ~(w + f < 0) /\ ~(v + g < 0)
    BY <1>4, <1>6
  <2>6. Off(sess', exch') = Off(sess', exch) /\ free' = h /\ paid' = q
    BY <1>6
  <2> HIDE DEF a, b, c, d, f, g, h, q, v, w, cash, freed
  <2>7. v = w + f
    <3>1. w + f \in Int /\ w + f >= 0
      BY <2>4, <2>5
    <3> QED
      BY <2>3, <3>1, AtLeastZeroIs
  <2>8. sess'.balance = v + g
    <3>1. v + g \in Int /\ v + g >= 0
      BY <2>4, <2>5, <2>7
    <3> QED
      BY <2>3, <3>1, AtLeastZeroIs
  <2>9. (w + f + g) + d = h + q
    BY <2>3, <2>4
  <2>10. sess'.balance + d = h + q
    BY <2>7, <2>8, <2>9
  <2> QED
    BY <1>13, <2>1, <2>2, <2>6, <2>10 DEF d
<1> QED
  BY <1>1, <1>15, <1>16, <1>17, <1>18, <1>19, <1>20 DEF AccountInv

-----------------------------------------------------------------------------
(* The theorems.                                                           *)

\* Every step keeps the invariant.
LEMMA NextAccountInv ==
  ASSUME AccountInv, [AccountNext]_accountVars
  PROVE  AccountInv'
<1>1. CASE UNCHANGED accountVars
  BY <1>1 DEF accountVars, exchVars, history, AccountInv, AccountTyped, ExchTyped, SessTyped,
              WorkTyped, PointTyped, HistTyped, KnownInv, TradeInv, WorkInv, SyncInv, ProfitInv,
              CrossInv, InStep, Serving, Registered, Live
<1>2. CASE Exchange
  BY <1>2, ExchangeInv
<1>3. CASE Methods
  <2>1. ASSUME NEW t \in Trades, NEW told \in BOOLEAN, Order(t, told)
        PROVE  AccountInv'
    BY <2>1, OrderInv
  <2>2. ASSUME NEW t \in Trades, NEW told \in BOOLEAN,
               \/ AddMargin(t, told)
               \/ \E amount \in Deposits : \E profit \in 0 .. amount : CashIn(t, amount, profit, told)
        PROVE  AccountInv'
    BY <2>2, MarginInv
  <2>3. ASSUME NEW pl \in [Trades -> Results], NEW told \in BOOLEAN,
               \/ \E t \in Trades : IsolatedOrderClose(t, pl, told)
               \/ \E S \in SUBSET Trades : CloseTrades(S, pl, told)
               \/ IsolatedOrderCloseAll(pl, told)
        PROVE  AccountInv'
    BY <2>3, CloseRequests, CloseInv
  <2> QED
    BY <1>3, <2>1, <2>2, <2>3, CrossRequestInv, CrossOrderInv DEF Methods
<1>4. CASE Refresh
  <2>1. ASSUME NEW S \in SUBSET Trades, NEW U \in SUBSET Trades, NEW reached \in BOOLEAN,
               Reevaluate(S, U, reached)
        PROVE  AccountInv'
    BY <2>1, ReevaluateInv
  <2> QED
    BY <1>4, <2>1, RefreshBeginsInv, RebuildTradesInv DEF Refresh
<1> QED
  BY <1>1, <1>2, <1>3, <1>4 DEF AccountNext

\* The inductive invariant holds in every reachable state.
LEMMA AccountInvariant == AccountSpec => []AccountInv
<1> QED
  BY InitAccountInv, NextAccountInv, PTL DEF AccountSpec

\* Every variable has its type: no balance and no fee goes below zero at the exchange or in the
\* session, and every trade a session has is a trade of the exchange.
THEOREM AccountTypeTheorem == AccountSpec => []AccountTypeOK
<1>1. AccountInv => AccountTypeOK
  BY TypedIsAccountTypeOK DEF AccountInv
<1> QED
  BY <1>1, AccountInvariant, PTL

\* The balance of a ready session and the margins it has stored are what the account has at the
\* exchange, for any trades, amounts, requests and answers lost: closures not noticed yet and
\* margins not told of are counted, the funding since the last rebuild is what it does not see.
THEOREM BooksTheorem == AccountSpec => []BooksAgree
<1>1. ASSUME AccountInv PROVE BooksAgree
  <2> SUFFICES ASSUME ready, accountPc = "idle", ~behind
               PROVE  sess.balance + SumFunction([t \in Registered |-> sess.running[t].margin])
                        = free + SumFunction([t \in Registered |->
                                    IF t \in Live THEN exch[t].margin ELSE Fee - exch[t].pl]) + paid
    BY DEF BooksAgree
  <2> DEFINE stored == [t \in Registered |-> sess.running[t].margin]
             there == [t \in Registered |-> IF t \in Live THEN exch[t].margin ELSE Fee - exch[t].pl]
             off == Off(sess, exch)
  <2>1. /\ Registered \in SUBSET Trades /\ sess \in Session(Registered)
        /\ exch \in [Trades -> Trade]
        /\ free \in Int /\ paid \in Int
    BY <1>1 DEF AccountInv, AccountTyped, ExchTyped, SessTyped, HistTyped
  <2>2. sess.balance + SumFunction(off) = free + paid
    BY <1>1 DEF AccountInv, SyncInv, Serving
  <2>3. /\ IsFiniteSet(Registered) /\ DOMAIN off = Registered /\ sess.balance \in Int
        /\ \A t \in Registered : /\ off[t] = sess.running[t].margin - There(exch, t)
                                 /\ off[t] \in Int /\ There(exch, t) \in Int
                                 /\ sess.running[t].margin \in Int
    BY <2>1, OffIs
  <2>4. \A t \in Registered : there[t] = There(exch, t)
    BY <2>1 DEF There, Live
  <2>5. /\ DOMAIN stored = Registered /\ DOMAIN there = Registered
        /\ \A t \in Registered : /\ off[t] \in Int /\ there[t] \in Int
                                 /\ stored[t] = off[t] + there[t]
    BY <2>3, <2>4
  <2> HIDE DEF stored, there, off
  <2>6. SumFunction(stored) = SumFunction(off) + SumFunction(there)
    BY <2>3, <2>5, SumAdds
  <2>7. SumFunction(off) \in Int /\ SumFunction(there) \in Int
    BY <2>3, <2>5, SumType
  <2>8. sess.balance + SumFunction(stored) = free + SumFunction(there) + paid
    BY <2>1, <2>2, <2>3, <2>6, <2>7
  <2> QED
    BY <2>8 DEF stored, there
<1> QED
  BY <1>1, AccountInvariant, PTL

\* realized_pl has the profit of every trade a session ever had once, and every profit cashed in,
\* across closures the operator ordered, closures a refresh found, and rebuilds.
THEOREM ProfitTheorem == AccountSpec => []ProfitCountedOnce
<1>1. AccountInv => ProfitCountedOnce
  BY DEF AccountInv, ProfitInv, ProfitCountedOnce, Known
<1> QED
  BY <1>1, AccountInvariant, PTL

\* The profit the session tells of the cross position is what the position has earned, however
\* orders, deposits, withdrawals, settlements, reads and rebuilds follow each other.
THEOREM CrossProfitTheorem == AccountSpec => []CrossProfitTold
<1>1. AccountInv => CrossProfitTold
  BY DEF AccountInv, KnownInv, CrossInv, CrossProfitTold
<1> QED
  BY <1>1, AccountInvariant, PTL

-----------------------------------------------------------------------------
(* The process (LiveProcess).                                              *)

USE DEF Run, SignalRun, RawRun

-----------------------------------------------------------------------------
(* Type correctness.                                                       *)

Syncs == {"NotSynced", "Synced", "Terminated", "Shutdown"}
Sigs == {"none", "NotRunning", "Running", "Terminated", "Shutdown"}
Execs == {"none", "NotReady", "Ready", "Terminated", "Shutdown"}

\* The parts of TypeOK, by who changes them.
DepType == sync \in Syncs /\ sig \in Sigs /\ exec \in Execs

FeedType == feed \in Seq(Updates) /\ Len(feed) <= Capacity

FaultType == faults \in 0..MaxFaults

FlagType ==
  /\ listening \in BOOLEAN /\ signalled \in BOOLEAN /\ forwarder \in BOOLEAN
  /\ hearing \in BOOLEAN /\ feedLag \in BOOLEAN /\ fatal \in BOOLEAN /\ unheard \in BOOLEAN

PointType ==
  /\ mode \in {"signal", "raw"} /\ status \in Status /\ pc \in ControlPoints
  /\ aborted \in {"no", "polling", "yes"}
  /\ result \in {"none", "ok", "error"}
  /\ result # "none" => pc \in {"stopOperator", "stopSync", "ended"}
  /\ hearing => pc \in SignalRun /\ mode = "signal"
  /\ ctl \in {"idle", "already", "init", "send", "join", "unsent", "ok", "error"}


Typed == DepType /\ FeedType /\ FaultType /\ FlagType /\ PointType

LEMMA TypedIsTypeOK == Typed => TypeOK
BY DEF Typed, TypeOK, DepType, FeedType, FaultType, FlagType, PointType, Syncs, Sigs, Execs

LEMMA InitType == Init => Typed
<1> SUFFICES ASSUME Init PROVE Typed
  OBVIOUS
<1>1. FeedType
  BY BoundsAssumption DEF Init, FeedType
<1>2. FaultType
  BY BoundsAssumption DEF Init, FaultType
<1>3. DepType /\ FlagType /\ PointType
  BY DEF Init, DepType, FlagType, PointType, Syncs, Sigs, Execs, Status, ControlPoints, Suspended
<1> QED
  BY <1>1, <1>2, <1>3 DEF Typed

\* The signal process and its channel.
LEMMA SendType == Typed /\ (\E u \in Updates : SignalSends(u)) => Typed'
<1> SUFFICES ASSUME Typed, NEW u \in Updates, SignalSends(u) PROVE Typed'
  OBVIOUS
<1>1. DepType'
  BY DEF Typed, DepType, SignalSends, Updates, Sigs
<1>2. FlagType'
  <2>1. unheard' = unheard \/ unheard' = (unheard \/ u = "Terminated")
    BY DEF SignalSends
  <2>2. unheard \in BOOLEAN => unheard' \in BOOLEAN
    BY <2>1
  <2>3. hearing' = hearing /\ (feedLag' = feedLag \/ feedLag' = TRUE)
    BY DEF SignalSends, feedVars
  <2> QED
    BY <2>2, <2>3 DEF Typed, FlagType, SignalSends, procVars
<1>3. PointType'
  <2>1. hearing' = hearing
    BY DEF SignalSends, feedVars
  <2> QED
    BY <2>1 DEF Typed, PointType, SignalSends, procVars
<1>4. FeedType' /\ FaultType'
  <2>0. ~(Len(feed) < Capacity /\ Len(feed) = Capacity)
    BY BoundsAssumption DEF Typed, FeedType
  <2>1. CASE ~hearing
    BY <2>1 DEF Typed, SignalSends, FeedType, FaultType, feedVars
  <2>2. CASE hearing /\ Len(feed) < Capacity
    <3>1. feed' = Append(feed, u) /\ faults' = faults
      BY <2>0, <2>2 DEF SignalSends
    <3> QED
      BY <3>1, <2>2, BoundsAssumption DEF Typed, FeedType, FaultType
  <2>3. CASE hearing /\ Len(feed) = Capacity
    <3>1. feed' = Append(Tail(feed), u) /\ faults < MaxFaults /\ faults' = faults + 1
      BY <2>0, <2>3 DEF SignalSends
    <3>2. feed # <<>>
      BY <2>3, BoundsAssumption DEF Typed, FeedType
    <3>3. FeedType'
      BY <2>3, <3>1, <3>2, BoundsAssumption DEF Typed, FeedType
    <3>4. FaultType'
      BY <3>1, BoundsAssumption DEF Typed, FaultType
    <3> QED
      BY <3>3, <3>4
  <2>4. (~hearing) \/ (hearing /\ Len(feed) < Capacity) \/ (hearing /\ Len(feed) = Capacity)
    BY DEF SignalSends
  <2> QED
    BY <2>1, <2>2, <2>3, <2>4
<1> QED
  BY <1>1, <1>2, <1>3, <1>4 DEF Typed

\* The sync engine and the executor.
LEMMA PartType == Typed /\ (SyncMoves \/ ExecutorMoves) => Typed'
BY DEF Typed, DepType, FeedType, FaultType, FlagType, PointType, SyncMoves, ExecutorMoves,
       Syncs, Execs, notDeps, procVars, feedVars

LEMMA ForwarderType == Typed /\ UpdatesLag => Typed'
<1> SUFFICES ASSUME Typed, UpdatesLag PROVE Typed'
  OBVIOUS
<1>1. FaultType'
  BY BoundsAssumption DEF Typed, UpdatesLag, FaultType
<1>2. DepType' /\ FeedType' /\ FlagType' /\ PointType'
  BY DEF Typed, DepType, FeedType, FlagType, PointType, UpdatesLag, Quiet, procVars, depVars,
         feedVars, Status
<1> QED
  BY <1>1, <1>2 DEF Typed

LEMMA ControllerType == Typed /\ Controller => Typed'
<1> SUFFICES ASSUME Typed, Controller PROVE Typed'
  OBVIOUS
<1>1. DepType' /\ FeedType' /\ FaultType' /\ UNCHANGED <<hearing, fatal, unheard, feedLag, forwarder>>
  BY DEF Typed, DepType, FeedType, FaultType, Controller, CtlBegin, CtlInitiate, CtlSend,
         CtlJoined, CtlGivesUp, notCtl, feedVars, depVars
<1>2. FlagType'
  BY <1>1 DEF Typed, FlagType, Controller, CtlBegin, CtlInitiate, CtlSend, CtlJoined, CtlGivesUp, notCtl
<1>3. PointType'
  BY <1>1 DEF Typed, PointType, Controller, CtlBegin, CtlInitiate, CtlSend, CtlJoined, CtlGivesUp,
              Abort, notCtl, Status, Stopped
<1> QED
  BY <1>1, <1>2, <1>3 DEF Typed

LEMMA PollType == Typed /\ Poll => aborted' \in {"no", "polling", "yes"}
BY DEF Typed, PointType, Poll

LEMMA LeaveRunType ==
  Typed /\ LeaveRun => /\ FeedType' /\ hearing' = FALSE /\ feedLag' = FALSE
                       /\ unheard' \in BOOLEAN
<1> SUFFICES ASSUME Typed, LeaveRun PROVE FeedType' /\ hearing' = FALSE /\ feedLag' = FALSE /\ unheard' \in BOOLEAN
  OBVIOUS
<1>1. unheard' = (unheard \/ \E i \in DOMAIN feed : feed[i] = "Terminated")
  BY DEF LeaveRun
<1>2. unheard' \in BOOLEAN
  BY <1>1
<1>3. feed' = <<>> /\ hearing' = FALSE /\ feedLag' = FALSE
  BY DEF LeaveRun, HangUp
<1> QED
  BY <1>2, <1>3, BoundsAssumption DEF FeedType

\* The steps around a run, which leave the channel alone.
LEMMA AroundType ==
  Typed /\ (Spawned \/ Launched \/ Starting \/ Subscribe \/ RunBegin \/ SleepEnds \/ Exit) => Typed'
<1> SUFFICES ASSUME Typed, Spawned \/ Launched \/ Starting \/ Subscribe \/ RunBegin \/ SleepEnds \/ Exit
             PROVE  Typed'
  OBVIOUS
<1> USE DEF Quiet, notProc, notRun, depVars, feedVars
<1>1. FeedType' /\ FaultType' /\ DepType'
  BY DEF Typed, FeedType, FaultType, DepType, Spawned, Launched, Starting, Subscribe, RunBegin,
         SleepEnds, Exit, Sigs, Execs
<1>2. FlagType'
  BY DEF Typed, FlagType, Spawned, Launched, Starting, Subscribe, RunBegin, SleepEnds, Exit, Fatal
<1>3. PointType'
  BY PollType DEF Typed, PointType, Spawned, Launched, Starting, Subscribe, RunBegin, SleepEnds, Exit,
         Fatal, Status, ControlPoints, Suspended, Stopped
<1> QED
  BY <1>1, <1>2, <1>3 DEF Typed

\* What the steps of a run may do: go on, fail, or end the process.
LEMMA GoOnType ==
  ASSUME Typed, NEW point \in ControlPoints, NEW s \in Status, GoOn(point, s), Poll, pc \in Run,
         FeedType', hearing' = hearing, feedLag' = feedLag, notRun' = notRun,
         hearing => point \in SignalRun
  PROVE  Typed'
<1>1. FaultType' /\ DepType'
  BY DEF Typed, FaultType, DepType, GoOn, notRun, notProc, depVars
<1>2. FlagType'
  BY DEF Typed, FlagType, GoOn, notRun
<1>3. PointType'
  BY PollType DEF Typed, PointType, GoOn, notRun, notProc
<1> QED
  BY <1>1, <1>2, <1>3 DEF Typed

LEMMA LeftType ==
  ASSUME Typed, Poll, pc \in Run, notRun' = notRun, FeedType', hearing' = FALSE, feedLag' = FALSE,
         unheard' \in BOOLEAN, fatal' \in BOOLEAN, FaultType', status' \in Status,
         pc' \in {"sleep", "dying"}
  PROVE  Typed'
<1>1. DepType'
  BY DEF Typed, DepType, notRun, notProc, depVars
<1>2. FlagType'
  BY DEF Typed, FlagType, notRun
<1>3. PointType'
  BY PollType DEF Typed, PointType, notRun, notProc, ControlPoints, Suspended
<1> QED
  BY <1>1, <1>2, <1>3 DEF Typed

LEMMA FailsType ==
  ASSUME Typed, Poll, pc \in Run, notRun' = notRun,
         Recoverable \/ FatalInRun \/ (RunFails /\ faults' = faults)
  PROVE  Typed'
<1>1. CASE Recoverable
  <2>1. FaultType'
    BY <1>1, BoundsAssumption DEF Typed, FaultType, Recoverable
  <2> QED
    BY <1>1, <2>1, LeaveRunType, LeftType DEF Recoverable, RunFails, Typed, FlagType, Status
<1>2. CASE FatalInRun
  <2>1. FeedType' /\ hearing' = FALSE /\ feedLag' = FALSE
    BY <1>2, BoundsAssumption DEF FatalInRun, HangUp, FeedType
  <2>2. unheard' \in BOOLEAN /\ fatal' \in BOOLEAN /\ FaultType'
    BY <1>2 DEF FatalInRun, Fatal, Typed, FlagType, FaultType
  <2> QED
    BY <1>2, <2>1, <2>2, LeftType DEF FatalInRun, Fatal, Status, Stopped
<1>3. CASE RunFails /\ faults' = faults
  BY <1>3, LeaveRunType, LeftType DEF RunFails, Typed, FlagType, FaultType, Status
<1> QED
  BY <1>1, <1>2, <1>3

LEMMA RunType ==
  /\ Typed
  /\ Receive \/ ReceiveLagged \/ IterationDue \/ SyncKnown \/ SyncLate \/ StateKnown \/ Fetched \/ Operated
  => Typed'
<1> SUFFICES ASSUME Typed, Receive \/ ReceiveLagged \/ IterationDue \/ SyncKnown \/ SyncLate
                             \/ StateKnown \/ Fetched \/ Operated
             PROVE  Typed'
  OBVIOUS
<1> USE DEF notRun
<1>0. ASSUME NEW point \in Run, NEW s \in Status, GoOn(point, s), Poll, pc \in Run,
             FeedType', hearing' = hearing, feedLag' = feedLag, UNCHANGED notRun,
             hearing => point \in SignalRun
      PROVE  Typed'
  BY <1>0, GoOnType DEF ControlPoints, Suspended
<1>1. ASSUME UNCHANGED feedVars
      PROVE  FeedType' /\ hearing' = hearing /\ feedLag' = feedLag
  BY <1>1 DEF feedVars, Typed, FeedType
<1>2. status \in Status /\ "WaitingForSignal" \in Status /\ "WaitingForSync" \in Status
      /\ "WaitingTradeExecutor" \in Status /\ "Running" \in Status
  BY DEF Typed, PointType, Status, Waiting
<1>3. hearing => pc \in SignalRun /\ mode = "signal"
  BY DEF Typed, PointType
<1>4. CASE Receive
  <2>1. CASE Head(feed) = "Terminated"
    BY <1>4, <2>1, FailsType DEF Receive
  <2>2. CASE Head(feed) # "Terminated"
    <3>1. FeedType'
      BY <1>4, <2>2, BoundsAssumption DEF Receive, Typed, FeedType
    <3>2. hearing' = hearing /\ feedLag' = feedLag /\ Poll /\ pc \in Run /\ UNCHANGED notRun
      BY <1>4, <2>2 DEF Receive
    <3>3. \/ GoOn("state", status) \/ GoOn("recv", status)
          \/ GoOn("recv", "WaitingForSignal")
      BY <1>4, <2>2 DEF Receive
    <3> QED
      BY <3>1, <3>2, <3>3, <1>0, <1>2
  <2> QED
    BY <2>1, <2>2
<1>5. CASE ReceiveLagged
  BY <1>5, FailsType DEF ReceiveLagged
<1>6. CASE IterationDue
  BY <1>6, <1>0, <1>1, <1>2, <1>3 DEF IterationDue
<1>7. CASE SyncKnown
  <2>1. CASE FatalInRun
    BY <1>7, <2>1, FailsType DEF SyncKnown
  <2>2. CASE ~FatalInRun
    BY <1>7, <2>2, <1>0, <1>1, <1>2, <1>3 DEF SyncKnown
  <2> QED
    BY <2>1, <2>2
<1>8. CASE SyncLate \/ Fetched
  <2>1. CASE Recoverable
    BY <1>8, <2>1, FailsType DEF SyncLate, Fetched
  <2>2. CASE ~Recoverable
    BY <1>8, <2>2, <1>0, <1>1, <1>2, <1>3 DEF SyncLate, Fetched
  <2> QED
    BY <2>1, <2>2
<1>9. CASE StateKnown
  <2>1. CASE FatalInRun
    BY <1>9, <2>1, FailsType DEF StateKnown
  <2>2. CASE ~FatalInRun
    BY <1>9, <2>2, <1>0, <1>1, <1>2, <1>3 DEF StateKnown
  <2> QED
    BY <2>1, <2>2
<1>10. CASE Operated
  <2>1. CASE Recoverable
    BY <1>10, <2>1, FailsType DEF Operated
  <2>2. CASE ~Recoverable
    BY <1>10, <2>2, <1>0, <1>1, <1>2, <1>3 DEF Operated
  <2> QED
    BY <2>1, <2>2
<1> QED
  BY <1>4, <1>5, <1>6, <1>7, <1>8, <1>9, <1>10

\* The shutdown of the parts, and the end of an aborted task.
LEMMA StopType ==
  Typed /\ (SeeShutdown \/ StopExecutor \/ StopOperator \/ StopSync \/ Dropped) => Typed'
<1> SUFFICES ASSUME Typed, SeeShutdown \/ StopExecutor \/ StopOperator \/ StopSync \/ Dropped
             PROVE  Typed'
  OBVIOUS
<1> USE DEF notProc, depVars, notStop, Quiet
<1>1. DepType' /\ FaultType'
  BY DEF Typed, DepType, FaultType, SeeShutdown, StopExecutor, StopOperator, StopSync, Dropped,
         Outcomes, Syncs, Sigs, Execs
<1>2. FeedType' /\ hearing' \in BOOLEAN /\ feedLag' \in BOOLEAN /\ unheard' \in BOOLEAN
      /\ (hearing' => hearing /\ pc \notin Interruptible)
  <2>1. CASE SeeShutdown \/ Dropped
    BY <2>1, LeaveRunType DEF SeeShutdown, Dropped
  <2>2. CASE StopExecutor \/ StopOperator \/ StopSync
    BY <2>2 DEF StopExecutor, StopOperator, StopSync, feedVars, Typed, FeedType, FlagType,
                Interruptible
  <2> QED
    BY <2>1, <2>2
<1>3. FlagType'
  BY <1>2 DEF Typed, FlagType, SeeShutdown, StopExecutor, StopOperator, StopSync, Dropped
<1>4. aborted' \in {"no", "polling", "yes"}
  BY PollType DEF SeeShutdown, StopExecutor, StopOperator, StopSync, Dropped, Typed, PointType
<1>5. ~hearing'
  <2>1. CASE SeeShutdown \/ Dropped
    BY <2>1, LeaveRunType DEF SeeShutdown, Dropped
  <2>2. CASE StopExecutor \/ StopOperator \/ StopSync
    BY <2>2 DEF StopExecutor, StopOperator, StopSync, feedVars, Typed, PointType
  <2> QED
    BY <2>1, <2>2
<1>6. PointType'
  BY <1>4, <1>5 DEF Typed, PointType, SeeShutdown, StopExecutor, StopOperator, StopSync, Dropped,
     ControlPoints, Suspended, Stopping, Interruptible
<1> QED
  BY <1>1, <1>2, <1>3, <1>6 DEF Typed

LEMMA TypeStep == Typed /\ [Next]_vars => Typed'
<1> SUFFICES ASSUME Typed, [Next]_vars PROVE Typed'
  OBVIOUS
<1>1. CASE UNCHANGED vars
  BY <1>1 DEF vars, procVars, feedVars, depVars, Typed, DepType, FeedType, FaultType, FlagType, PointType
<1>2. CASE Next
  BY <1>2, SendType, PartType, ForwarderType, ControllerType, AroundType, RunType, StopType
     DEF Next, Deps, Process
<1> QED
  BY <1>1, <1>2

\* Types hold in every reachable state; the receiver of signals never holds more than the
\* channel's capacity, and only a run of the operator holds one.
THEOREM TypeInvariant == Spec => []TypeOK
<1>1. Init => Typed
  BY InitType
<1>2. Typed /\ [Next]_vars => Typed'
  BY TypeStep
<1>3. Typed => TypeOK
  BY TypedIsTypeOK
<1> QED
  BY <1>1, <1>2, <1>3, PTL DEF Spec

-----------------------------------------------------------------------------
(* What a shutdown answered with Ok says.                                  *)

Gone == exec = "Shutdown" /\ sig \in {"none", "Shutdown"} /\ sync = "Shutdown"

\* Once the process has seen the signal the forwarder is gone; a result that is still good says
\* which parts were shut down, and a fatal error keeps the process from shutting anything down.
EndInv ==
  /\ pc \in Stopping \cup {"ended"} => ~forwarder
  /\ pc = "dying" => fatal
  /\ mode = "raw" => sig = "none"
  /\ result = "none" /\ pc \in {"stopOperator", "stopSync"} => exec = "Shutdown"
  /\ result = "none" /\ pc = "stopSync" => sig \in {"none", "Shutdown"}
  /\ result = "ok" => pc = "ended" /\ (fatal \/ Gone)
  /\ ctl = "ok" => pc = "ended" /\ result = "ok" /\ status = "Shutdown"

LEMMA EndStep == Typed /\ EndInv /\ [Next]_vars => EndInv'
<1> SUFFICES ASSUME Typed, EndInv, [Next]_vars PROVE EndInv'
  OBVIOUS
<1> USE DEF EndInv, Gone, Stopping, notProc, notRun, depVars
<1>1. CASE UNCHANGED vars
  BY <1>1 DEF vars, procVars
<1>2. CASE SyncMoves \/ ExecutorMoves
  BY <1>2 DEF SyncMoves, ExecutorMoves, notDeps, procVars
<1>3. CASE \E u \in Updates : SignalSends(u)
  BY <1>3 DEF SignalSends, procVars
<1>4. CASE UpdatesLag
  BY <1>4 DEF UpdatesLag, procVars
<1>5. CASE Spawned \/ Launched \/ Starting \/ Subscribe \/ RunBegin \/ SleepEnds
  BY <1>5 DEF Typed, PointType, Spawned, Launched, Starting, Subscribe, RunBegin, SleepEnds, Fatal
<1>6. CASE Exit
  BY <1>6 DEF Typed, PointType, Exit
<1>7. ASSUME UNCHANGED notRun, pc \in Run, pc' \in Run \cup {"sleep", "dying"},
             pc' = "dying" => fatal'
      PROVE  EndInv'
  BY <1>7 DEF Typed, PointType
<1>8. CASE Receive \/ ReceiveLagged \/ IterationDue \/ SyncKnown \/ SyncLate \/ StateKnown
           \/ Fetched \/ Operated
  BY <1>7, <1>8 DEF Receive, ReceiveLagged, IterationDue, SyncKnown, SyncLate, StateKnown, Fetched,
     Operated, GoOn, FatalInRun, Fatal, Recoverable, RunFails
<1>9. CASE SeeShutdown \/ Dropped
  BY <1>9 DEF Typed, PointType, SeeShutdown, Dropped, Interruptible, Suspended
<1>10. CASE StopExecutor \/ StopOperator \/ StopSync
  BY <1>10 DEF Typed, PointType, DepType, Sigs, StopExecutor, StopOperator, StopSync, Outcomes, notStop
<1>11. CASE Controller
  BY <1>11 DEF Controller, CtlBegin, CtlInitiate, CtlSend, CtlJoined, CtlGivesUp, notCtl
<1> QED
  BY <1>1, <1>2, <1>3, <1>4, <1>5, <1>6, <1>8, <1>9, <1>10, <1>11 DEF Next, Deps, Process

\* A shutdown answered with Ok: the process is gone, the status is Shutdown for good, and every
\* part was shut down unless a fatal error came first.
THEOREM ReportTheorem == Spec => []ShutdownReport
<1>1. Init => Typed /\ EndInv
  BY InitType DEF Init, EndInv, Stopping
<1>2. Typed /\ EndInv /\ [Next]_vars => (Typed /\ EndInv)'
  BY TypeStep, EndStep
<1>3. EndInv => ShutdownReport
  BY DEF EndInv, Gone, ShutdownReport
<1> QED
  BY <1>1, <1>2, <1>3, PTL DEF Spec

-----------------------------------------------------------------------------
(* What the process, and who shuts it down, wait for.                      *)

\* Nothing is aborted or told to stop before shutdown() has begun; what dies, dies of a fatal
\* error.
DeathInv ==
  /\ ctl = "idle" => ~signalled /\ pc \notin Stopping /\ aborted = "no"
  /\ pc = "dying" => fatal
  /\ DeathIsHeard

\* An end that the process threw away with the receiver is counted as unheard.
LEMMA LeaveRunHears ==
  ASSUME Typed, DeathIsHeard, mode = "signal", ctl = "idle", ~fatal, sig = "Terminated", LeaveRun
  PROVE  unheard'
<1>1. CASE unheard
  BY <1>1 DEF LeaveRun
<1>2. CASE ~unheard
  <2>1. feed \in Seq(Updates) /\ feed # <<>> /\ feed[Len(feed)] = "Terminated"
    BY <1>2 DEF DeathIsHeard, PartIsDead, Typed, FeedType
  <2>2. Len(feed) \in DOMAIN feed
    BY <2>1
  <2> QED
    BY <2>1, <2>2 DEF LeaveRun
<1> QED
  BY <1>1, <1>2

LEMMA SendKeepsDeath ==
  ASSUME Typed, DeathInv, NEW u \in Updates, SignalSends(u)
  PROVE  DeathIsHeard'
<1> SUFFICES ASSUME mode' = "signal", PartIsDead', ctl' = "idle"
             PROVE  hearing' /\ feed' # <<>> /\ feed'[Len(feed')] = "Terminated"
  BY DEF DeathIsHeard
<1>1. sig # "Terminated" /\ sig' = "Terminated" /\ ~unheard'
  BY DEF PartIsDead, SignalSends
<1>2. u = "Terminated"
  BY <1>1 DEF SignalSends
<1>3. feed \in Seq(Updates)
  BY DEF Typed, FeedType
<1>4. hearing /\ hearing' = hearing
  BY <1>1, <1>2 DEF SignalSends
<1>5. CASE feed' = Append(feed, u)
  BY <1>2, <1>3, <1>4, <1>5
<1>6. CASE feed' = Append(Tail(feed), u) /\ Len(feed) = Capacity
  <2>1. feed # <<>>
    BY <1>3, <1>6, BoundsAssumption
  <2>2. Tail(feed) \in Seq(Updates)
    BY <1>3, <2>1
  <2> QED
    BY <1>2, <1>4, <1>6, <2>2
<1> QED
  BY <1>4, <1>5, <1>6 DEF SignalSends

LEMMA DeathStep == Typed /\ DeathInv /\ [Next]_vars => DeathInv'
<1> SUFFICES ASSUME Typed, DeathInv, [Next]_vars PROVE DeathInv'
  OBVIOUS
<1> USE DEF DeathInv, Stopping, notProc, notRun, depVars, Quiet, feedVars
<1>1. ASSUME UNCHANGED <<mode, sig, fatal, unheard, hearing, feed>>,
             ctl' = "idle" => ctl = "idle"
      PROVE  mode = "signal" => DeathIsHeard'
  BY <1>1 DEF DeathIsHeard, PartIsDead
<1>2. mode # "signal" /\ mode' = mode => DeathIsHeard'
  BY DEF DeathIsHeard
<1>3. CASE UNCHANGED vars
  BY <1>1, <1>2, <1>3 DEF vars, procVars
<1>4. CASE SyncMoves \/ ExecutorMoves
  BY <1>1, <1>2, <1>4 DEF SyncMoves, ExecutorMoves, notDeps, procVars
<1>5. CASE \E u \in Updates : SignalSends(u)
  <2>1. PICK u \in Updates : SignalSends(u)
    BY <1>5
  <2>2. DeathIsHeard'
    BY <2>1, SendKeepsDeath
  <2> QED
    BY <2>1, <2>2 DEF SignalSends, procVars
<1>6. CASE UpdatesLag
  BY <1>1, <1>2, <1>6 DEF UpdatesLag, procVars
<1>7. ASSUME Poll, ctl = "idle" PROVE aborted' = "no"
  BY <1>7 DEF Poll
<1>8. CASE Spawned \/ Starting \/ Subscribe \/ SleepEnds
  <2>1. DeathIsHeard'
    BY <1>1, <1>2, <1>8 DEF Spawned, Starting, Subscribe, SleepEnds
  <2> QED
    BY <1>7, <1>8, <2>1 DEF Spawned, Starting, Subscribe, SleepEnds
<1>9. CASE Launched
  <2>1. DeathIsHeard'
    BY <1>9 DEF Launched, Fatal, DeathIsHeard, PartIsDead
  <2> QED
    BY <1>7, <1>9, <2>1 DEF Launched, Fatal
<1>10. CASE RunBegin
  <2>1. ~hearing
    BY <1>10 DEF RunBegin, Typed, PointType, SignalRun
  <2>2. DeathIsHeard'
    BY <1>10, <2>1 DEF RunBegin, DeathIsHeard, PartIsDead
  <2> QED
    BY <1>7, <1>10, <2>2 DEF RunBegin
<1>11. CASE Exit
  <2>1. DeathIsHeard'
    BY <1>1, <1>2, <1>11 DEF Exit
  <2> QED
    BY <1>7, <1>11, <2>1 DEF Exit
<1>12. ASSUME FatalInRun PROVE DeathIsHeard' /\ fatal' /\ pc' = "dying"
  BY <1>12 DEF FatalInRun, Fatal, DeathIsHeard, PartIsDead
<1>13. ASSUME LeaveRun, UNCHANGED <<mode, sig, fatal>>, ctl' = "idle" => ctl = "idle"
       PROVE  DeathIsHeard'
  BY <1>13, LeaveRunHears DEF DeathIsHeard, PartIsDead
<1>14. ASSUME RunFails, notRun' = notRun PROVE DeathIsHeard' /\ pc' = "sleep" /\ fatal' = fatal
  BY <1>13, <1>14 DEF RunFails
<1>15. ASSUME NEW point \in Run, NEW s, GoOn(point, s), notRun' = notRun, feedVars' = feedVars
       PROVE  DeathIsHeard' /\ pc' \in Run /\ fatal' = fatal
  BY <1>1, <1>2, <1>15 DEF GoOn
<1>16. CASE Receive
  <2>1. CASE Head(feed) = "Terminated"
    BY <1>7, <1>12, <1>16, <2>1 DEF Receive
  <2>2. CASE Head(feed) # "Terminated"
    <3>1. feed \in Seq(Updates) /\ feed # <<>> /\ feed' = Tail(feed)
      BY <1>16, <2>2 DEF Receive, Typed, FeedType
    <3>2. ASSUME feed[Len(feed)] = "Terminated"
          PROVE  feed' # <<>> /\ feed'[Len(feed')] = "Terminated"
      <4>1. Len(feed) \in Nat /\ Len(feed) > 1 /\ feed' \in Seq(Updates)
        BY <2>2, <3>1, <3>2
      <4>2. Len(feed') = Len(feed) - 1 /\ feed'[Len(feed) - 1] = feed[Len(feed)]
        BY <3>1, <4>1
      <4> QED
        BY <3>2, <4>1, <4>2
    <3>3. UNCHANGED <<mode, sig, ctl, fatal, unheard, hearing, signalled>> /\ pc' \in Run
      BY <1>16, <2>2 DEF Receive, GoOn, Run, SignalRun
    <3>4. DeathIsHeard'
      BY <3>2, <3>3 DEF DeathIsHeard, PartIsDead
    <3> QED
      BY <1>7, <1>16, <3>3, <3>4 DEF Receive, Run, SignalRun, RawRun
  <2> QED
    BY <2>1, <2>2
<1>17. CASE ReceiveLagged
  BY <1>7, <1>14, <1>17 DEF ReceiveLagged
<1>18. CASE IterationDue \/ SyncKnown \/ SyncLate \/ StateKnown \/ Fetched \/ Operated
  <2> USE DEF IterationDue, SyncKnown, SyncLate, StateKnown, Fetched, Operated
  <2>1. DeathIsHeard' /\ (\/ pc' \in Run /\ fatal' = fatal
                          \/ pc' = "sleep" /\ fatal' = fatal
                          \/ pc' = "dying" /\ fatal')
    <3>1. CASE FatalInRun
      BY <1>12, <3>1
    <3>2. CASE Recoverable
      BY <1>14, <1>18, <3>2 DEF Recoverable
    <3>3. CASE ~(FatalInRun \/ Recoverable)
      BY <1>15, <1>18, <3>3 DEF Run, SignalRun, RawRun
    <3> QED
      BY <3>1, <3>2, <3>3
  <2>2. Poll /\ UNCHANGED <<ctl, signalled>>
    BY <1>18
  <2> HIDE DEF IterationDue, SyncKnown, SyncLate, StateKnown, Fetched, Operated
  <2> QED
    BY <1>7, <2>1, <2>2 DEF Run, SignalRun, RawRun
<1>19. CASE SeeShutdown \/ Dropped
  <2>1. ctl # "idle" /\ ctl' = ctl /\ pc' # "dying"
    BY <1>19 DEF SeeShutdown, Dropped
  <2> QED
    BY <2>1 DEF DeathIsHeard
<1>20. CASE StopExecutor \/ StopOperator \/ StopSync
  <2>1. ctl # "idle" /\ ctl' = ctl /\ pc' # "dying"
    BY <1>20 DEF StopExecutor, StopOperator, StopSync, notStop
  <2> QED
    BY <2>1 DEF DeathIsHeard
<1>21. CASE Controller
  <2>1. ctl' # "idle" /\ UNCHANGED <<pc, fatal>>
    BY <1>21 DEF Controller, CtlBegin, CtlInitiate, CtlSend, CtlJoined, CtlGivesUp, notCtl
  <2> QED
    BY <2>1 DEF DeathIsHeard
<1> QED
  BY <1>3, <1>4, <1>5, <1>6, <1>8, <1>9, <1>10, <1>11, <1>16, <1>17, <1>18, <1>19, <1>20, <1>21
     DEF Next, Deps, Process

\* The end of the signal process, announced to a run that listens, stays ahead of that run
\* until the process dies of it: no overflow loses it, since nothing is sent after it.
THEOREM DeathTheorem == Spec => []DeathIsHeard
<1>1. Init => Typed /\ DeathInv
  BY InitType DEF Init, DeathInv, DeathIsHeard, PartIsDead, Stopping
<1>2. Typed /\ DeathInv /\ [Next]_vars => (Typed /\ DeathInv)'
  BY TypeStep, DeathStep
<1>3. DeathInv => DeathIsHeard
  BY DEF DeathInv
<1> QED
  BY <1>1, <1>2, <1>3, PTL DEF Spec

LEMMA HeardStep == Typed /\ ShutdownIsHeard /\ [Next]_vars => ShutdownIsHeard'
<1> SUFFICES ASSUME Typed, ShutdownIsHeard, [Next]_vars PROVE ShutdownIsHeard'
  OBVIOUS
<1> USE DEF ShutdownIsHeard, Stopping, notProc, notRun, depVars
<1>1. CASE UNCHANGED vars
  BY <1>1 DEF vars, procVars
<1>2. CASE SyncMoves \/ ExecutorMoves \/ UpdatesLag \/ \E u \in Updates : SignalSends(u)
  BY <1>2 DEF SyncMoves, ExecutorMoves, SignalSends, UpdatesLag, notDeps, procVars
<1>3. ASSUME Poll, UNCHANGED <<ctl, signalled, listening>>,
             pc \notin {"dying", "ended", "stopExecutor", "stopOperator", "stopSync"}
      PROVE  ShutdownIsHeard'
  BY <1>3 DEF Poll
<1>4. CASE \/ Spawned \/ Launched \/ Starting \/ RunBegin \/ SleepEnds
           \/ Receive \/ ReceiveLagged \/ IterationDue \/ SyncKnown \/ SyncLate \/ StateKnown
           \/ Fetched \/ Operated
  BY <1>3, <1>4 DEF Spawned, Launched, Starting, RunBegin, SleepEnds, Receive, ReceiveLagged,
     IterationDue, SyncKnown, SyncLate, StateKnown, Fetched, Operated
<1>5. CASE Subscribe
  BY <1>5 DEF Subscribe, Poll
<1>6. CASE SeeShutdown \/ StopExecutor \/ StopOperator \/ StopSync \/ Exit \/ Dropped
  BY <1>6 DEF SeeShutdown, StopExecutor, StopOperator, StopSync, Exit, Dropped
<1>7. CASE Controller
  BY <1>7 DEF Controller, CtlBegin, CtlInitiate, CtlSend, CtlJoined, CtlGivesUp, Abort, notCtl
<1> QED
  BY <1>1, <1>2, <1>4, <1>5, <1>6, <1>7 DEF Next, Deps, Process

\* shutdown() never waits for a process that was not told to stop.
THEOREM HeardTheorem == Spec => []ShutdownIsHeard
<1>1. Init => Typed /\ ShutdownIsHeard
  BY InitType DEF Init, ShutdownIsHeard
<1>2. Typed /\ ShutdownIsHeard /\ [Next]_vars => (Typed /\ ShutdownIsHeard)'
  BY TypeStep, HeardStep
<1> QED
  BY <1>1, <1>2, PTL DEF Spec

=============================================================================
