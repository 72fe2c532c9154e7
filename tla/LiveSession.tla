---------------------------- MODULE LiveSession -----------------------------
(***************************************************************************)
(* The live trading session: the isolated trades an account has at the     *)
(* exchange, the rows the executor keeps of them in its database, and the  *)
(* session in memory that operators and accounting rely on.                *)
(*                                                                         *)
(* LiveExecutor shows that operations and refreshes exclude each other, so *)
(* one control point `pc` is enough here. The exchange moves between any   *)
(* two of their steps: it settles funding and closes trades (stop loss,    *)
(* take profit, liquidation). Every step ends at an `.await`, where the    *)
(* operation may fail, be cancelled, or the process may crash.             *)
(*                                                                         *)
(* Prices, balances and the cross position are abstracted away; a trade's  *)
(* funding is a small count.                                               *)
(***************************************************************************)
EXTENDS Integers, Sequences, FiniteSets, FiniteSetsExt, Functions

CONSTANTS
  Trades,       \* trade ids
  ChunkSize,    \* close requests sent at a time (3 in the code)
  MaxRunning,   \* config: trade_max_running_qtd
  Recover,      \* config: startup_recover_trades
  StartClean,   \* config: startup_clean_up_trades
  StopClean,    \* config: shutdown_clean_up_trades
  MaxFunding,   \* bound: funding settlements per trade
  MaxRefreshFaults     \* bound: failures of refreshes

ASSUME TradesAssumption == IsFiniteSet(Trades)
ASSUME SizesAssumption == ChunkSize \in Nat \ {0} /\ MaxRunning \in Nat \ {0}
ASSUME FlagsAssumption == {Recover, StartClean, StopClean} \subseteq BOOLEAN
ASSUME BoundsAssumption == MaxFunding \in Nat /\ MaxRefreshFaults \in Nat

VARIABLES
  exch,     \* the exchange: state of each trade
  log,      \* the exchange: closed trades, in the order they closed
  funding,  \* the exchange: sum_funding_fees of each trade
  rows,     \* table running_trades
  execStatus, \* executor status
  sess,     \* the stored LiveTradingSession (expired and empty: none yet)
  pc,       \* control point of the operation that holds the state mutex
  batch,    \* trades the current request is about
  acked,    \* trades of the batch the exchange has closed
  todo,     \* trades still to be closed by a close of several
  work,     \* the session being built by the operation
  refreshFaults, \* refresh failures so far
  ours,     \* history: trades whose isolated_order() returned Ok
  known,    \* history: trades a session of this process has registered
  first     \* history: funding of a trade when it was first registered

exchVars == <<exch, log, funding>>
opVars == <<batch, acked, todo, work>>
histVars == <<ours, known, first>>
sessionVars == <<exchVars, rows, execStatus, sess, pc, opVars, refreshFaults, histVars>>

-----------------------------------------------------------------------------
RunningTrades == {t \in Trades : exch[t] = "running"}

\* running_map, closed_history, funding_fees, funding_snapshot, is_expired().
Session == [running : SUBSET Trades, closed : SUBSET Trades, fees : Int,
            snap : [Trades -> Nat], expired : BOOLEAN]

NoSession == [running |-> {}, closed |-> {}, fees |-> 0,
              snap |-> [t \in Trades |-> 0], expired |-> TRUE]

OrderPcs == {"order", "orderRow", "orderReg"}
ClosePcs == {"close", "closing", "closeReg", "closeAll"}
RefreshPcs == {"confirm", "rebuild", "missed", "readRows", "prune"}
StopPcs == {"launch", "cleanup", "stopped"}

SessionTypeOK ==
  /\ exch \in [Trades -> {"none", "running", "closed"}]
  /\ log \in Seq(Trades)
  /\ funding \in [Trades -> 0..MaxFunding]
  /\ rows \in SUBSET Trades
  /\ execStatus \in {"Starting", "WaitingForSync", "Ready", "Failed", "ShutdownInitiated",
                 "Shutdown", "Terminated"}
  /\ sess \in Session /\ work \in Session
  /\ pc \in {"idle"} \cup OrderPcs \cup ClosePcs \cup RefreshPcs \cup StopPcs
  /\ batch \in SUBSET Trades /\ acked \in SUBSET Trades /\ todo \in SUBSET Trades
  /\ refreshFaults \in 0..MaxRefreshFaults
  /\ ours \in SUBSET Trades /\ known \in SUBSET Trades
  /\ first \in [Trades -> Nat]

\* An account may have trades of an earlier process, and rows of trades that closed
\* while no process was running.
SessionInit ==
  /\ exch \in [Trades -> {"none", "running", "closed"}]
  /\ \E order \in [1..Cardinality({t \in Trades : exch[t] = "closed"}) -> Trades] :
       /\ log = order
       /\ {order[i] : i \in DOMAIN order} = {t \in Trades : exch[t] = "closed"}
  /\ funding \in [Trades -> 0..MaxFunding]
  /\ \A t \in Trades : exch[t] = "none" => funding[t] = 0
  /\ rows \in SUBSET {t \in Trades : exch[t] # "none"}
  /\ execStatus = "Starting" /\ sess = NoSession
  /\ pc = "launch" /\ batch = {} /\ acked = {} /\ todo = {} /\ work = NoSession
  /\ refreshFaults = 0
  /\ ours = {} /\ known = {} /\ first = [t \in Trades |-> 0]

-----------------------------------------------------------------------------
(* The exchange.                                                           *)

Close(t) ==
  /\ t \in RunningTrades
  /\ exch' = [exch EXCEPT ![t] = "closed"]
  /\ log' = Append(log, t)
  /\ UNCHANGED funding

ExchangeCloses(t) ==
  /\ Close(t)
  /\ UNCHANGED <<rows, execStatus, sess, pc, opVars, refreshFaults, histVars>>

Settle(t) ==
  /\ t \in RunningTrades
  /\ funding[t] < MaxFunding
  /\ funding' = [funding EXCEPT ![t] = @ + 1]
  /\ UNCHANGED <<exch, log, rows, execStatus, sess, pc, opVars, refreshFaults, histVars>>

\* get_trades_closed(limit): the page of the most recently closed trades.
RecentlyClosed(limit) ==
  {log[i] : i \in {j \in DOMAIN log : j > Len(log) - limit}}

-----------------------------------------------------------------------------
(* Session arithmetic.                                                     *)

\* What the trades of S have paid between two sums of their funding.
Paid(S, before, after) == SumFunctionOnSet([t \in Trades |-> after[t] - before[t]], S)

\* What they have paid since the session last looked.
FundingDelta(S, snap) == Paid(S, snap, funding)

\* Mutant of CloseIn: the whole funding of a closed trade is added again.
CloseInCountsTwice(s, S) ==
  [s EXCEPT !.running = @ \ S, !.closed = @ \cup S,
            !.fees = @ + FundingDelta(S, [t \in Trades |-> 0])]

\* LiveTradingSession::close_trades
CloseIn(s, S) ==
  [s EXCEPT !.running = @ \ S, !.closed = @ \cup S, !.fees = @ + FundingDelta(S, s.snap)]

\* LiveTradingSession::register_running_trade for a trade just opened: "a trade created
\* right at a funding settlement" may already have paid f.
RegisterIn(s, t, f) ==
  [s EXCEPT !.running = @ \cup {t}, !.fees = @ + f, !.snap[t] = f]

\* LiveTradingSession::new up to the running trades: fees carry over, a trade already in
\* the old snapshot adds what it paid since, any other one starts at its present sum.
Rebuilt ==
  [running |-> IF Recover THEN RunningTrades ELSE {},
   closed |-> sess.closed,
   fees |-> sess.fees + (IF Recover THEN FundingDelta(RunningTrades \cap sess.running, sess.snap)
                         ELSE 0),
   snap |-> funding,
   expired |-> FALSE]

\* Trades the old session had and the exchange no longer runs.
Missed == IF Recover THEN sess.running \ work.running ELSE {}

\* They are closed in the new session, with what they paid since the old snapshot.
CloseMissed(s, S) ==
  [s EXCEPT !.closed = @ \cup S, !.fees = @ + FundingDelta(S, sess.snap)]

-----------------------------------------------------------------------------
(* Operations that need a ready executor; each holds the state mutex.      *)

Goto(p) == pc' = p

Begin(p) == pc = "idle" /\ execStatus = "Ready" /\ Goto(p)

\* The session is published and the mutex released (update_trading_session, with the
\* history of what it has registered: `paid` is what new trades paid before that).
Publish(s, paid) ==
  /\ sess' = s
  /\ known' = known \cup s.running
  /\ first' = [t \in Trades |-> IF t \in s.running \ known THEN paid[t] ELSE first[t]]
  /\ Goto("idle")

\* execute_isolated_order: the early returns leave everything as it is.
Order ==
  /\ Begin("order")
  /\ Cardinality(sess.running) # MaxRunning
  /\ UNCHANGED <<exchVars, rows, execStatus, sess, opVars, refreshFaults, histVars>>

\* The response shows what the trade has paid by then; it is kept for the registration.
OrderSent(t, f) ==
  /\ pc = "order" /\ exch[t] = "none"
  /\ exch' = [exch EXCEPT ![t] = "running"]
  /\ funding' = [funding EXCEPT ![t] = f]
  /\ batch' = {t} /\ work' = [NoSession EXCEPT !.snap[t] = f]
  /\ Goto("orderRow")
  /\ UNCHANGED <<log, rows, execStatus, sess, acked, todo, refreshFaults, histVars>>

\* Mutant of OrderRow: the trade is registered without its row.
OrderNoRow ==
  /\ pc = "orderRow" /\ Goto("orderReg")
  /\ UNCHANGED <<exchVars, rows, execStatus, sess, opVars, refreshFaults, histVars>>

OrderRow ==
  /\ pc = "orderRow" /\ Goto("orderReg")
  /\ rows' = rows \cup batch
  /\ UNCHANGED <<exchVars, execStatus, sess, opVars, refreshFaults, histVars>>

OrderRegister ==
  /\ pc = "orderReg"
  /\ \E t \in batch : Publish(RegisterIn(sess, t, work.snap[t]), NoSession.snap)
  /\ ours' = ours \cup batch
  /\ batch' = {} /\ work' = NoSession
  /\ UNCHANGED <<exchVars, rows, execStatus, acked, todo, refreshFaults>>

\* isolated_order_close and close_trades(side): some registered trades, in chunks.
CloseSome(S) ==
  /\ Begin("close")
  /\ S # {} /\ S \subseteq sess.running
  /\ todo' = S /\ work' = sess
  /\ UNCHANGED <<exchVars, rows, execStatus, sess, batch, acked, refreshFaults, histVars>>

CloseSend(S) ==
  /\ pc = "close"
  /\ S \subseteq todo
  /\ Cardinality(S) = Min({ChunkSize, Cardinality(todo)})
  /\ batch' = S /\ acked' = {}
  /\ Goto("closing")
  /\ UNCHANGED <<exchVars, rows, execStatus, sess, todo, work, refreshFaults, histVars>>

\* The requests of a chunk run concurrently; one for a closed trade gets no answer but
\* an error, which Abandon covers.
CloseAck(t) ==
  /\ pc = "closing" /\ t \in batch \ acked
  /\ Close(t)
  /\ acked' = acked \cup {t}
  /\ UNCHANGED <<rows, execStatus, sess, pc, batch, todo, work, refreshFaults, histVars>>

\* Mutant of CloseRows: rows go before every close of the chunk is confirmed.
CloseRowsEarly ==
  /\ pc = "closing"
  /\ rows' = rows \ batch
  /\ work' = CloseIn(work, acked)
  /\ todo' = todo \ batch
  /\ Goto(IF todo \ batch = {} THEN "closeReg" ELSE "close")
  /\ UNCHANGED <<exchVars, execStatus, sess, batch, acked, refreshFaults, histVars>>

CloseRows ==
  /\ pc = "closing" /\ acked = batch
  /\ rows' = rows \ batch
  /\ work' = CloseIn(work, batch)
  /\ todo' = todo \ batch
  /\ Goto(IF todo \ batch = {} THEN "closeReg" ELSE "close")
  /\ UNCHANGED <<exchVars, execStatus, sess, batch, acked, refreshFaults, histVars>>

CloseRegister ==
  /\ pc = "closeReg"
  /\ Publish(work, work.snap)
  /\ batch' = {} /\ acked' = {} /\ work' = NoSession
  /\ UNCHANGED <<exchVars, rows, execStatus, todo, refreshFaults, ours>>

\* isolated_order_close_all: the exchange closes what it runs, registered or not; the
\* rows stay until the next rebuild.
CloseAll ==
  /\ Begin("closeAll")
  /\ batch' = {}
  /\ UNCHANGED <<exchVars, rows, execStatus, sess, acked, todo, work, refreshFaults, histVars>>

CloseAllAck(t) ==
  /\ pc = "closeAll"
  /\ Close(t)
  /\ batch' = batch \cup {t}
  /\ UNCHANGED <<rows, execStatus, sess, pc, acked, todo, work, refreshFaults, histVars>>

CloseAllRegister ==
  /\ pc = "closeAll" /\ RunningTrades = {}
  /\ IF batch \subseteq sess.running
     THEN Publish(CloseIn(sess, batch), sess.snap)
     ELSE Goto("idle") /\ UNCHANGED <<sess, known, first>>   \* TradeNotRegistered
  /\ batch' = {}
  /\ UNCHANGED <<exchVars, rows, execStatus, acked, todo, work, refreshFaults, ours>>

\* An operation ends early: a request or a query failed, before or after it took effect,
\* or the operator's future was dropped. Status and session stay as they are.
Abandon ==
  /\ pc \in OrderPcs \cup ClosePcs
  /\ Goto("idle")
  /\ batch' = {} /\ acked' = {} /\ todo' = {} /\ work' = NoSession
  /\ UNCHANGED <<exchVars, rows, execStatus, sess, refreshFaults, histVars>>

-----------------------------------------------------------------------------
(* refresh_trading_session                                                 *)

Refreshed(s) == Publish(s, s.snap) /\ execStatus' = "Ready"

Refreshable == execStatus \in {"Starting", "WaitingForSync", "Ready", "Failed"}

\* An error expires the stored session, so that the next refresh rebuilds it.
RefreshError ==
  /\ sess' = [sess EXCEPT !.expired = TRUE]
  /\ execStatus' = "Failed"
  /\ Goto("idle")
  /\ UNCHANGED <<known, first>>

\* reevaluate: S is what the local price range says has closed.
Reevaluate(S) ==
  /\ pc = "idle" /\ Refreshable /\ ~sess.expired
  /\ S \subseteq sess.running
  /\ Goto("confirm") /\ batch' = S
  /\ UNCHANGED <<exchVars, rows, execStatus, sess, acked, todo, work, refreshFaults, histVars>>

\* UnexpectedClosedTrade or ClosedTradeNotConfirmed unless the page is exactly S (with S
\* empty nothing is asked). The new stop losses sent next may fail: RefreshFails.
ReevaluateConfirm ==
  /\ pc = "confirm"
  /\ IF RecentlyClosed(Cardinality(batch)) = batch
     THEN Refreshed(CloseIn(sess, batch))
     ELSE RefreshError
  /\ batch' = {}
  /\ UNCHANGED <<exchVars, rows, acked, todo, work, refreshFaults, ours>>

\* LiveTradingSession::new
Rebuild ==
  /\ pc = "idle" /\ Refreshable /\ sess.expired
  /\ Goto("rebuild")
  /\ UNCHANGED <<exchVars, rows, execStatus, sess, opVars, refreshFaults, histVars>>

\* get_trades_running; without recovery the session is already complete.
RebuildFetch ==
  /\ pc = "rebuild"
  /\ IF Recover
     THEN Goto("missed") /\ work' = Rebuilt /\ UNCHANGED <<sess, execStatus, known, first>>
     ELSE Refreshed(Rebuilt) /\ UNCHANGED work
  /\ UNCHANGED <<exchVars, rows, batch, acked, todo, refreshFaults, ours>>

\* Mutant of RebuildMissed: closures of the expired period are dropped.
RebuildForgetsMissed ==
  /\ pc = "missed"
  /\ Goto("readRows")
  /\ UNCHANGED <<exchVars, rows, execStatus, sess, opVars, refreshFaults, histVars>>

\* Reconcile what closed since the last evaluation: one page as long as the old session.
RebuildMissed ==
  /\ pc = "missed"
  /\ IF Missed \subseteq RecentlyClosed(Max({1, Cardinality(sess.running)}))
     THEN /\ work' = CloseMissed(work, Missed)
          /\ Goto("readRows")
          /\ UNCHANGED <<sess, execStatus, known, first>>
     ELSE RefreshError /\ work' = NoSession
  /\ UNCHANGED <<exchVars, rows, batch, acked, todo, refreshFaults, ours>>

\* get_running_trades_map: rows of trades that do not run are dangling.
RebuildReadRows ==
  /\ pc = "readRows"
  /\ batch' = rows \ work.running
  /\ Goto("prune")
  /\ UNCHANGED <<exchVars, rows, execStatus, sess, acked, todo, work, refreshFaults, histVars>>

RebuildPrune ==
  /\ pc = "prune"
  /\ rows' = rows \ batch
  /\ Refreshed(work)
  /\ batch' = {} /\ work' = NoSession
  /\ UNCHANGED <<exchVars, acked, todo, refreshFaults, ours>>

\* Any REST or database call of a refresh fails.
RefreshFails ==
  /\ pc \in RefreshPcs
  /\ refreshFaults < MaxRefreshFaults /\ refreshFaults' = refreshFaults + 1
  /\ RefreshError
  /\ batch' = {} /\ work' = NoSession
  /\ UNCHANGED <<exchVars, rows, acked, todo, ours>>

-----------------------------------------------------------------------------
(* Clock, sync status, shutdown, crash.                                    *)

\* Five minutes past the hour.
SessionExpires ==
  /\ pc = "idle" /\ execStatus \in {"Ready", "WaitingForSync"} /\ ~sess.expired
  /\ sess' = [sess EXCEPT !.expired = TRUE]
  /\ UNCHANGED <<exchVars, rows, execStatus, pc, opVars, refreshFaults, histVars>>

\* The sync processor was told of lost updates: Failed, without a refresh.
SyncLagged ==
  /\ pc = "idle" /\ Refreshable
  /\ RefreshError
  /\ UNCHANGED <<exchVars, rows, opVars, refreshFaults, ours>>

SyncLost ==
  /\ pc = "idle" /\ execStatus \in {"Starting", "Ready", "Failed"}
  /\ execStatus' = "WaitingForSync"
  /\ UNCHANGED <<exchVars, rows, sess, pc, opVars, refreshFaults, histVars>>

\* LiveProcess::shutdown after the operator's future was dropped: executor.shutdown()
\* cleans up when configured to and when the session has a registered trade, or a cross
\* position (cross), which is not modelled otherwise.
ShutdownBegin(cross) ==
  /\ pc = "idle" /\ Refreshable
  /\ IF StopClean /\ (sess.running # {} \/ cross)
     THEN Goto("cleanup") /\ execStatus' = "ShutdownInitiated"
     ELSE Goto("stopped") /\ execStatus' = "Shutdown"
  /\ UNCHANGED <<exchVars, rows, sess, opVars, refreshFaults, histVars>>

\* clean_up_all_api_trades, at launch or at shutdown.
CleanUpAck(t) ==
  /\ pc = "cleanup" \/ (pc = "launch" /\ StartClean)
  /\ Close(t)
  /\ UNCHANGED <<rows, execStatus, sess, pc, opVars, refreshFaults, histVars>>

CleanUpDone ==
  /\ pc = "cleanup"
  /\ execStatus' = "Terminated" \/ (execStatus' = "Shutdown" /\ RunningTrades = {})
  /\ Goto("stopped")
  /\ UNCHANGED <<exchVars, rows, sess, opVars, refreshFaults, histVars>>

Launched ==
  /\ pc = "launch" /\ (StartClean => RunningTrades = {})
  /\ Goto("idle")
  /\ UNCHANGED <<exchVars, rows, execStatus, sess, opVars, refreshFaults, histVars>>

\* The process ends, at any control point, and a new one is launched.
Restart ==
  /\ pc # "launch" /\ Goto("launch")
  /\ execStatus' = "Starting" /\ sess' = NoSession
  /\ batch' = {} /\ acked' = {} /\ todo' = {} /\ work' = NoSession
  /\ known' = {} /\ first' = [t \in Trades |-> 0]
  /\ UNCHANGED <<exchVars, rows, refreshFaults, ours>>

-----------------------------------------------------------------------------
Exchange == \E t \in Trades : ExchangeCloses(t) \/ Settle(t)

Operation ==
  \/ Order \/ (\E t \in Trades, f \in 0..MaxFunding : OrderSent(t, f)) \/ OrderRow \/ OrderRegister
  \/ \E S \in SUBSET Trades : CloseSome(S) \/ CloseSend(S)
  \/ \E t \in Trades : CloseAck(t) \/ CloseAllAck(t)
  \/ CloseRows \/ CloseRegister
  \/ CloseAll \/ CloseAllRegister
  \/ Abandon

Refresh ==
  \/ \E S \in SUBSET Trades : Reevaluate(S)
  \/ ReevaluateConfirm
  \/ Rebuild \/ RebuildFetch \/ RebuildMissed \/ RebuildReadRows \/ RebuildPrune
  \/ RefreshFails

Lifecycle ==
  \/ SessionExpires \/ SyncLagged \/ SyncLost
  \/ (\E cross \in BOOLEAN : ShutdownBegin(cross))
  \/ (\E t \in Trades : CleanUpAck(t)) \/ CleanUpDone
  \/ Launched \/ Restart

SessionNext == Exchange \/ Operation \/ Refresh \/ Lifecycle

SessionSpec == SessionInit /\ [][SessionNext]_sessionVars

-----------------------------------------------------------------------------
(* Properties.                                                             *)

\* A trade whose isolated_order() succeeded keeps its row, and with it its trailing
\* stop loss, for as long as it runs: through failed and cancelled closes, rebuilds,
\* crashes and restarts.
RowUntilClosed == \A t \in ours : exch[t] = "running" => t \in rows

\* With trade recovery, no trade a session has registered is forgotten and none is
\* recorded twice: it is in running_map or in closed_history, never in both; and a
\* trade in the history has closed at the exchange.
EveryTradeAccounted ==
  /\ known = sess.running \cup sess.closed
  /\ sess.running \cap sess.closed = {}
  /\ \A t \in sess.closed : exch[t] = "closed"

\* Every funding payment is counted once: funding_fees is what the registered trades
\* have paid between their registration and the session's last look at them, through
\* rebuilds that replace the snapshot and closures found by either path.
FeesCountedOnce ==
  sess.fees = Paid(sess.running, first, sess.snap) + Paid(sess.closed, first, funding)

=============================================================================
