---------------------------- MODULE LiveAccount -----------------------------
(***************************************************************************)
(* The money of a live trading session: what the account has at the        *)
(* exchange and what the session says it has.  A method of the executor    *)
(* sends its request and applies the answer to the session; the mutex      *)
(* keeps methods and refreshes apart and nothing else changes a session,   *)
(* so both are one step, unless the answer gets lost.  Of a refresh only   *)
(* the rebuild reads several things that change in between.  Which trades  *)
(* a session knows, rows, crashes and chunks are LiveSession's subject.    *)
(* A status that is not Ready for want of sync keeps the operator out, who *)
(* need not call anyway, and is left out.                                  *)
(*                                                                         *)
(* Amounts are small integers; "margin" includes the maintenance margin,   *)
(* which covers the closing fee of a trade that is liquidated.             *)
(***************************************************************************)
EXTENDS Integers, FiniteSets, FiniteSetsExt, Functions

CONSTANTS
  Trades,       \* trade ids
  Margin,       \* of a new trade
  Fee,          \* of an order, opening or closing
  Start,        \* the free balance at the start
  Deposits,     \* amounts of cash-ins, and of deposits and withdrawals of the cross account
  Results,      \* profits and losses of trades and of cross orders
  MaxOps,       \* bound: requests of the operator
  MaxMoves      \* bound: moves of the exchange

ASSUME AmountsAssumption ==
  /\ IsFiniteSet(Trades) /\ IsFiniteSet(Results)
  /\ {Margin, Fee, Start} \subseteq Nat \ {0} /\ Deposits \subseteq Nat \ {0}
  /\ Results \subseteq Int /\ \A r \in Results : r >= - Margin
  /\ {MaxOps, MaxMoves} \subseteq Nat

VARIABLES
  free,     \* the exchange: balance of the account
  exch,     \* the exchange: each trade's state, margin, cashed-in profit, profit at its end
  cross,    \* the exchange: margin, trading_fees, funding_fees, open exposure
  sess,     \* the stored LiveTradingSession
  ready,    \* the executor's status is Ready
  accountPc,       \* control point of what holds the state mutex
  work,     \* the session being built
  ops, moves,
  paid,     \* history: funding of isolated trades since the session was rebuilt
  behind,   \* history: since then an answer about the balance was lost, the session's balance
            \* was cut off at zero, or the exchange moved between the reads of the rebuild
  seen,     \* history: the trades a session has registered
  earned,   \* history: what the cross position has realized since the first session
  untold    \* history: "isolated": a cash-in, "cross": a change of the cross account went by
            \* without an answer

exchVars == <<free, exch, cross>>
history == <<paid, behind, seen, earned, untold>>
accountVars == <<exchVars, sess, ready, accountPc, work, ops, moves, history>>

-----------------------------------------------------------------------------
Trade == [state: {"none", "running", "closed"}, margin: Int, cashed: Nat, pl: Int]

\* LiveCrossPosition: realized_pl, margin, the fees the account has by now.
View == [margin: Int, fees: Nat, funding: Int, open: BOOLEAN, pl: Int]

NoView == [margin |-> 0, fees |-> 0, funding |-> 0, open |-> FALSE, pl |-> 0]

\* LiveTradingSession with the running trades S.
Session(S) ==
  [balance: Nat, running: [S -> [margin: Int, cashed: Nat]], closed: SUBSET Trades, pl: Int,
   cross: View, expired: BOOLEAN, known: BOOLEAN]

Live == {t \in Trades : exch[t].state = "running"}

Registered == DOMAIN sess.running

NoSession == [balance |-> 0, running |-> <<>>, closed |-> {}, pl |-> 0, cross |-> NoView,
              expired |-> TRUE, known |-> FALSE]

\* What get_trades_running, or the answer to a request, says of a trade.
Shown(t) == [margin |-> exch[t].margin, cashed |-> exch[t].cashed]

AccountTypeOK ==
  /\ free \in Nat /\ exch \in [Trades -> Trade]
  /\ cross \in [margin: Int, fees: Nat, funding: Int, open: BOOLEAN]
  /\ \A s \in {sess, work} : DOMAIN s.running \subseteq Trades /\ s \in Session(DOMAIN s.running)
  /\ ready \in BOOLEAN
  /\ accountPc \in {"idle", "order", "cross", "trades"}
  /\ ops \in 0 .. MaxOps /\ moves \in 0 .. MaxMoves
  /\ paid \in Int /\ behind \in BOOLEAN /\ seen \subseteq Trades
  /\ earned \in Int /\ untold \subseteq {"isolated", "cross"}

\* An account may have trades and a cross margin from before.
AccountInit ==
  /\ free = Start
  /\ \E S \in SUBSET Trades :
       exch = [t \in Trades |-> [state |-> IF t \in S THEN "running" ELSE "none",
                                 margin |-> IF t \in S THEN Margin ELSE 0, cashed |-> 0, pl |-> 0]]
  /\ \E open \in BOOLEAN : cross = [margin |-> Margin, fees |-> Fee, funding |-> 0, open |-> open]
  /\ sess = NoSession /\ ready = FALSE /\ accountPc = "idle" /\ work = NoSession
  /\ ops = 0 /\ moves = 0
  /\ paid = 0 /\ behind = FALSE /\ seen = {} /\ earned = 0 /\ untold = {}

-----------------------------------------------------------------------------
(* The exchange moves by itself.                                           *)

Move == moves < MaxMoves /\ moves' = moves + 1

\* Between get_user and get_trades_running a rebuild sees half of a move.
Torn == behind' = (behind \/ accountPc \in {"cross", "trades"})

ExchangeCloses(t, pl) ==
  /\ Move /\ t \in Live /\ exch[t].margin + pl >= Fee
  /\ exch' = [exch EXCEPT ![t].state = "closed", ![t].pl = pl]
  /\ free' = free + exch[t].margin + pl - Fee
  /\ Torn
  /\ UNCHANGED <<cross, sess, ready, accountPc, work, ops, paid, seen, earned, untold>>

\* Costs are taken from the margin, revenue is added to the balance.
Settle(t, fee) ==
  /\ Move /\ t \in Live
  /\ IF fee > 0
     THEN fee < exch[t].margin /\ exch' = [exch EXCEPT ![t].margin = @ - fee] /\ UNCHANGED free
     ELSE free' = free - fee /\ UNCHANGED exch
  /\ paid' = paid + fee /\ Torn
  /\ UNCHANGED <<cross, sess, ready, accountPc, work, ops, seen, earned, untold>>

CrossSettle(fee) ==
  /\ Move /\ cross.open /\ fee < cross.margin
  /\ cross' = [cross EXCEPT !.margin = @ - fee, !.funding = @ + fee]
  /\ UNCHANGED <<free, exch, sess, ready, accountPc, work, ops, history>>

CrossLiquidated ==
  /\ Move /\ cross.open
  /\ cross' = [cross EXCEPT !.margin = 0, !.open = FALSE]
  /\ earned' = earned - cross.margin
  /\ untold' = untold \cup {"cross"}
  /\ UNCHANGED <<free, exch, sess, ready, accountPc, work, ops, paid, behind, seen>>

Exchange ==
  \/ \E t \in Trades, pl \in Results : ExchangeCloses(t, pl)
  \/ \E t \in Trades, fee \in {-1, 1} : Settle(t, fee)
  \/ \E fee \in {-1, 1} : CrossSettle(fee)
  \/ CrossLiquidated

-----------------------------------------------------------------------------
(* Arithmetic of the session.                                              *)

AtLeastZero(n) == Max({0, n})

\* Mutant of Registering: the opening fee is forgotten.
RegisteringFree(s, t) ==
  [s EXCEPT !.balance = AtLeastZero(@ - exch'[t].margin),
            !.running = [u \in DOMAIN @ \cup {t} |-> IF u = t THEN Shown(t)' ELSE @[u]]]

\* register_running_trade(.., update_balance: true)
Registering(s, t) ==
  [s EXCEPT !.balance = AtLeastZero(AtLeastZero(@ - exch'[t].margin) - Fee),
            !.running = [u \in DOMAIN @ \cup {t} |-> IF u = t THEN Shown(t)' ELSE @[u]]]

\* update_running_trades: the profit between the two entry prices was cashed in, the rest of
\* what the margin lost went to the balance.
CashedIn(s, t) == Shown(t)'.cashed - s.running[t].cashed

Freed(s, S) ==
  SumFunction([t \in S |-> s.running[t].margin + CashedIn(s, t) - Shown(t)'.margin])

Updating(s, S) ==
  [s EXCEPT !.balance = AtLeastZero(@ + Freed(s, S)),
            !.pl = @ + SumFunction([t \in S |-> CashedIn(s, t)]),
            !.running = [t \in DOMAIN @ |-> IF t \in S THEN Shown(t)' ELSE @[t]]]

\* close_trades: the margin is the stored one, the profit that of the closed trade.
Proceeds(s, S) == SumFunction([t \in S |-> s.running[t].margin - Fee + exch'[t].pl])

Closing(s, S) ==
  [s EXCEPT !.balance = AtLeastZero(@ + Proceeds(s, S)),
            !.pl = @ + SumFunction([t \in S |-> exch'[t].pl]),
            !.running = Restrict(@, DOMAIN @ \ S), !.closed = @ \cup S]

\* Mutant of Replaced: the funding stays the one of the last order.
ReplacedMargin(v, x) == [v EXCEPT !.margin = x.margin, !.fees = x.fees, !.open = x.open]

\* update_from_raw
Replaced(v, x) ==
  [v EXCEPT !.margin = x.margin, !.fees = x.fees, !.funding = x.funding, !.open = x.open]

\* update_after_order: what the margin gained and was not funding or a fee was realized.
AfterOrder(v, x) ==
  [Replaced(v, x) EXCEPT
     !.pl = @ + (x.margin - v.margin) + (x.fees - v.fees) + (x.funding - v.funding)]

-----------------------------------------------------------------------------
(* Methods of the executor.                                                *)

\* A method begins; `told` says whether its request's answer reaches the session.  A request
\* that the exchange refuses changes nothing and is no step.
Method == accountPc = "idle" /\ ready /\ ops < MaxOps /\ ops' = ops + 1

Answered(told, s) == sess' = IF told THEN s ELSE sess

\* A balance that an answer would take below zero is zero, and wrong from then on: the session
\* did not hear of all that was spent.
CutOff(told, n) == behind' = (behind \/ (told /\ n < 0))

Order(t, told) ==
  /\ Method /\ exch[t].state = "none"
  /\ Margin + Fee <= sess.balance /\ Margin + Fee <= free
  /\ exch' = [exch EXCEPT ![t].state = "running", ![t].margin = Margin]
  /\ free' = free - Margin - Fee
  /\ Answered(told, Registering(sess, t))
  /\ IF told THEN seen' = seen \cup {t} /\ UNCHANGED behind ELSE behind' = TRUE /\ UNCHANGED seen
  /\ UNCHANGED <<cross, ready, accountPc, work, moves, paid, earned, untold>>

AddMargin(t, told) ==
  /\ Method /\ t \in Registered \cap Live
  /\ 1 < sess.balance /\ 1 <= free
  /\ exch' = [exch EXCEPT ![t].margin = @ + 1]
  /\ free' = free - 1
  /\ Answered(told, Updating(sess, {t}))
  /\ CutOff(told, sess.balance + Freed(sess, {t}))
  /\ UNCHANGED <<cross, ready, accountPc, work, moves, paid, seen, earned, untold>>

\* `profit` of the amount comes from the trade's profit, the rest from its margin.
CashIn(t, amount, profit, told) ==
  /\ Method /\ t \in Registered \cap Live
  /\ amount - profit < exch[t].margin
  /\ exch' = [exch EXCEPT ![t].margin = @ - (amount - profit), ![t].cashed = @ + profit]
  /\ free' = free + amount
  /\ Answered(told, Updating(sess, {t}))
  /\ IF ~told /\ profit > 0
     THEN behind' = TRUE /\ untold' = untold \cup {"isolated"}
     ELSE CutOff(told, sess.balance + Freed(sess, {t})) /\ UNCHANGED untold
  /\ UNCHANGED <<cross, ready, accountPc, work, moves, paid, seen, earned>>

\* The trades of S close, each with its result; one lost answer loses those before it.
Closes(S, pl, told) ==
  /\ S \subseteq Live /\ \A t \in S : exch[t].margin + pl[t] >= Fee
  /\ exch' = [t \in Trades |-> IF t \in S THEN [exch[t] EXCEPT !.state = "closed", !.pl = pl[t]]
                                         ELSE exch[t]]
  /\ free' = free + SumFunction([t \in S |-> exch[t].margin + pl[t] - Fee])
  /\ Answered(told, Closing(sess, S))
  /\ CutOff(told, sess.balance + Proceeds(sess, S))
  /\ UNCHANGED <<cross, ready, accountPc, work, moves, paid, seen, earned, untold>>

IsolatedOrderClose(t, pl, told) ==
  Method /\ t \in Registered /\ Closes({t}, pl, told)

\* isolated_order_close_longs, _shorts: the registered trades of one side, as many as succeed.
CloseTrades(S, pl, told) ==
  Method /\ S \subseteq Registered /\ Closes(S, pl, told)

\* What runs at the exchange; a trade the session does not know spoils the answer.
IsolatedOrderCloseAll(pl, told) ==
  Method /\ (told => Live \subseteq Registered) /\ Closes(Live, pl, told)

\* A change of the cross account that was not told of is taken for a result by the next order.
CrossTold(told) == untold' = IF told THEN untold ELSE untold \cup {"cross"}

\* Mutant of CrossDeposit: the session's balance is not looked at.
CrossDepositUnchecked(amount, told) ==
  /\ Method /\ amount <= free
  /\ cross' = [cross EXCEPT !.margin = @ + amount]
  /\ free' = free - amount
  /\ Answered(told, [sess EXCEPT !.balance = @ - amount, !.cross = Replaced(@, cross')])
  /\ behind' = (behind \/ ~told) /\ CrossTold(told)
  /\ UNCHANGED <<exch, ready, accountPc, work, moves, paid, seen, earned>>

CrossDeposit(amount, told) ==
  /\ Method /\ amount <= sess.balance /\ amount <= free
  /\ cross' = [cross EXCEPT !.margin = @ + amount]
  /\ free' = free - amount
  /\ Answered(told, [sess EXCEPT !.balance = @ - amount, !.cross = Replaced(@, cross')])
  /\ behind' = (behind \/ ~told) /\ CrossTold(told)
  /\ UNCHANGED <<exch, ready, accountPc, work, moves, paid, seen, earned>>

CrossWithdraw(amount, told) ==
  /\ Method /\ amount <= cross.margin /\ (cross.open => amount < cross.margin)
  /\ cross' = [cross EXCEPT !.margin = @ - amount]
  /\ free' = free + amount
  /\ Answered(told, [sess EXCEPT !.balance = @ + amount, !.cross = Replaced(@, cross')])
  /\ behind' = (behind \/ ~told) /\ CrossTold(told)
  /\ UNCHANGED <<exch, ready, accountPc, work, moves, paid, seen, earned>>

CrossSetLeverage ==
  /\ Method
  /\ sess' = [sess EXCEPT !.cross = Replaced(@, cross)]
  /\ UNCHANGED <<exchVars, ready, accountPc, work, moves, history>>

\* A market order at the exchange, which leaves the position open or not.
Filled(pl, open) ==
  /\ pl = 0 \/ cross.open
  /\ cross.margin + pl - Fee >= 0 /\ cross.margin > 0
  /\ cross' = [cross EXCEPT !.margin = @ + pl - Fee, !.fees = @ + Fee, !.open = open]
  /\ earned' = earned + pl
  /\ accountPc' = "order"

CrossOrder(pl, open) ==
  /\ Method /\ Filled(pl, open)
  /\ work' = sess
  /\ UNCHANGED <<free, exch, sess, ready, moves, paid, behind, seen, untold>>

\* The position is read and stored first; a neutral one ends the method there.
CrossOrderClosePosition(pl) ==
  /\ Method
  /\ LET s == [sess EXCEPT !.cross = Replaced(@, cross)]
     IN IF cross.open THEN Filled(pl, FALSE) /\ work' = s /\ UNCHANGED sess
        ELSE sess' = s /\ UNCHANGED <<cross, earned, work, accountPc>>
  /\ UNCHANGED <<free, exch, ready, moves, paid, behind, seen, untold>>

\* The position is fetched after the order, in a request of its own.
CrossOrderRegistered ==
  /\ accountPc = "order" /\ accountPc' = "idle"
  /\ sess' = [work EXCEPT !.cross = AfterOrder(@, cross)]
  /\ work' = NoSession
  /\ UNCHANGED <<exchVars, ready, ops, moves, history>>

\* The order is not filled at once, the request fails, or the operator's future is dropped.
CrossOrderLost ==
  /\ accountPc = "order" /\ accountPc' = "idle"
  /\ untold' = untold \cup {"cross"} /\ work' = NoSession
  /\ UNCHANGED <<exchVars, sess, ready, ops, moves, paid, behind, seen, earned>>

Methods ==
  \/ \E t \in Trades, told \in BOOLEAN :
       \/ Order(t, told) \/ AddMargin(t, told)
       \/ \E amount \in Deposits : \E profit \in 0 .. amount : CashIn(t, amount, profit, told)
  \/ \E pl \in [Trades -> Results], told \in BOOLEAN :
       \/ \E t \in Trades : IsolatedOrderClose(t, pl, told)
       \/ \E S \in SUBSET Trades : CloseTrades(S, pl, told)
       \/ IsolatedOrderCloseAll(pl, told)
  \/ \E amount \in Deposits, told \in BOOLEAN : CrossDeposit(amount, told) \/ CrossWithdraw(amount, told)
  \/ CrossSetLeverage
  \/ \E pl \in Results \cup {0}, open \in BOOLEAN : CrossOrder(pl, open)
  \/ \E pl \in Results : CrossOrderClosePosition(pl)
  \/ CrossOrderRegistered \/ CrossOrderLost

-----------------------------------------------------------------------------
(* refresh_trading_session                                                 *)

Publish(s) ==
  /\ sess' = s /\ ready' = TRUE /\ accountPc' = "idle" /\ work' = NoSession
  /\ seen' = seen \cup DOMAIN s.running

\* reevaluate: the closures S are confirmed, new stop losses are set for U, and when the price
\* range says so the cross position is read again.
Reevaluate(S, U, reached) ==
  /\ accountPc = "idle" /\ ~sess.expired
  /\ S \subseteq Registered \ Live /\ U \subseteq Registered \cap Live
  /\ reached => sess.cross.open
  /\ UNCHANGED exchVars
  /\ LET s == IF reached THEN [sess EXCEPT !.cross = Replaced(@, cross)] ELSE sess
     IN Publish(Closing(Updating(s, U), S))
  /\ behind' = (\/ behind \/ sess.balance + Freed(sess, U) < 0
                \/ Updating(sess, U).balance + Proceeds(sess, S) < 0)
  /\ UNCHANGED <<ops, moves, paid, earned, untold>>

\* Any error; the next refresh is a rebuild.
RefreshFails ==
  /\ accountPc \in {"idle", "cross", "trades"}
  /\ ready' = FALSE /\ sess' = [sess EXCEPT !.expired = TRUE]
  /\ accountPc' = "idle" /\ work' = NoSession
  /\ UNCHANGED <<exchVars, ops, moves, history>>

\* Five minutes past the hour.
SessionExpires ==
  /\ accountPc = "idle" /\ ~sess.expired
  /\ sess' = [sess EXCEPT !.expired = TRUE]
  /\ UNCHANGED <<exchVars, ready, accountPc, work, ops, moves, history>>

\* LiveTradingSession::new begins with the balance: get_user.
RebuildUser ==
  /\ accountPc = "idle" /\ sess.expired /\ accountPc' = "cross"
  /\ work' = [sess EXCEPT !.balance = free, !.running = <<>>, !.expired = FALSE, !.known = TRUE]
  /\ paid' = 0 /\ behind' = FALSE
  /\ UNCHANGED <<exchVars, sess, ready, ops, moves, seen, earned, untold>>

\* cross_get_position: the first session begins with what it finds.
RebuildCross ==
  /\ accountPc = "cross" /\ accountPc' = "trades"
  /\ work' = [work EXCEPT !.cross = Replaced(@, cross)]
  /\ earned' = IF sess.known THEN earned ELSE 0
  /\ untold' = IF sess.known THEN untold ELSE {}
  /\ UNCHANGED <<exchVars, sess, ready, ops, moves, paid, behind, seen>>

\* Mutant of RebuildTrades: what closed is what the old session saw closed.
RebuildTradesUnreconciled ==
  /\ accountPc = "trades"
  /\ Publish([work EXCEPT !.running = [t \in Live |-> Shown(t)]])
  /\ UNCHANGED <<exchVars, ops, moves, paid, behind, earned, untold>>

\* get_trades_running, and get_trades_closed for what the old session had and is not among them:
\* those can no longer change, so the two reads are one.  Their closure is recorded without the
\* balance: "balance obtained via API is up-to-date".
RebuildTrades ==
  /\ accountPc = "trades"
  /\ LET missed == Registered \ Live
     IN Publish([work EXCEPT !.running = [t \in Live |-> Shown(t)], !.closed = @ \cup missed,
                             !.pl = @ + SumFunction([t \in missed |-> exch[t].pl])])
  /\ UNCHANGED <<exchVars, ops, moves, paid, behind, earned, untold>>

Refresh ==
  \/ \E S, U \in SUBSET Trades, reached \in BOOLEAN : Reevaluate(S, U, reached)
  \/ RefreshFails \/ SessionExpires
  \/ RebuildUser \/ RebuildCross \/ RebuildTrades

AccountNext == Exchange \/ Methods \/ Refresh

AccountSpec == AccountInit /\ [][AccountNext]_accountVars

-----------------------------------------------------------------------------
(* Properties: what an operator that is called may rely on.                *)

\* The balance of a ready session and the margins it has stored are what the account has at the
\* exchange, whatever was ordered, changed, cashed in or closed, with closures it has not
\* noticed and answers about margins it never got: except for the funding since the last
\* rebuild, which it does not see, and after a lost answer about the balance or a cut-off.
BooksAgree ==
  ready /\ accountPc = "idle" /\ ~behind =>
    sess.balance + SumFunction([t \in Registered |-> sess.running[t].margin])
      = free + SumFunction([t \in Registered |->
                              IF t \in Live THEN exch[t].margin ELSE Fee - exch[t].pl]) + paid

\* realized_pl counts the profit of every trade a session ever had once, and every profit cashed
\* in, whichever of the three paths a closure took into the session; none is dropped between two
\* sessions.
ProfitCountedOnce ==
  ready /\ accountPc = "idle" /\ "isolated" \notin untold =>
    sess.pl = SumFunction([t \in seen |->
                exch[t].cashed + IF t \in Registered THEN 0 ELSE exch[t].pl])

\* The profit of the cross position is derived from its margin: what was deposited, withdrawn,
\* settled or charged between two orders is no profit, in whatever order it happens and across
\* rebuilds.
CrossProfitTold ==
  ready /\ accountPc = "idle" /\ "cross" \notin untold => sess.cross.pl = earned
=============================================================================
