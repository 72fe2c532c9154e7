---------------------------- MODULE BacktestEngine ----------------------------
(***************************************************************************)
(* A backtest (trade/backtest): the engine that replays the table of       *)
(* candles for its operators (single/engine.rs, and parallel/engine.rs of  *)
(* which it is the case of one operator), its consolidator of candles, and *)
(* the controller that aborts it and waits for it.  The engine is a task;  *)
(* the controller's callers run beside it.  What a candle or a settlement  *)
(* does to an account is in BacktestExecutor.                              *)
(*                                                                         *)
(* Time is in minutes; the cursor stands at the last second of its minute, *)
(* so that "candle.time > time_cursor" is c > cursor.                      *)
(***************************************************************************)
EXTENDS Integers, Sequences, FiniteSets, SequencesExt

CONSTANTS
  Start, End, Day,    \* the range, and the length of a day
  NumOperators,       \* operators are numbered in the order they were added
  Evaluators, Owner, Interval,      \* as in Replay
  Raw,                \* the evaluators that are raw operators
  Resolution, Period, \* the lookback of each evaluator
  BufferSize,         \* config.buffer_size
  Settlements,        \* the table of settlements, from Start to End
  Histories,          \* tables of candles: sets of minutes
  Unstable            \* the minutes whose rows are not stable

Operators == 1 .. NumOperators

NotInitiated == "NotInitiated"
Starting == "Starting"
Running == "Running"
Finished == "Finished"
Failed == "Failed"
Aborted == "Aborted"
Stopped == {Finished, Failed, Aborted}
Statuses == {NotInitiated, Starting, Running} \cup Stopped
None == "None"

ASSUME EngineAssumption ==
  /\ {Start, End, Day, NumOperators, BufferSize} \subseteq Nat \ {0}
  /\ Start + Day <= End
  /\ Evaluators # {} /\ Owner \in [Evaluators -> Operators] /\ Raw \subseteq Evaluators
  /\ \A e \in Evaluators : {Interval[e], Resolution[e], Period[e]} \subseteq Nat \ {0}
  /\ \A e \in Evaluators : Resolution[e] * Period[e] <= BufferSize
  /\ Settlements \subseteq Start .. End
  /\ Histories \subseteq SUBSET Nat /\ Unstable \subseteq Nat

\* A range has its first candle in its first day, or none that the first buffer reaches.
ASSUME HistoryAssumption ==
  \A h \in Histories :
    \/ \E c \in h : Start <= c /\ c < Start + Day
    \/ ~ \E c \in h : Start <= c /\ c <= Start + BufferSize

VARIABLES
  history,            \* the minutes in ohlc_candles
  pc,                 \* where the task of the engine is
  k,                  \* the operator it is at
  cursor,             \* time_cursor
  buffer,             \* minute_buffer: the index into it is the number of candles to cursor
  windows,            \* consolidator: of each resolution, its buckets and whether one is open
  pending,            \* the settlements still in the queue
  nextReport,         \* send_next_update_at
  outcome,            \* what run() returned
  at, settled, decided,    \* executors and operators, as in Replay
  status,             \* status_manager: the stored status
  engineSends, abortSends, \* a status that is stored and not yet broadcast
  abort,              \* where the call of abort() is
  waiter,             \* where a call of until_stopped() is, or the status it returned
  inbox,              \* the statuses its receiver has still to read
  errors              \* ghost: run() was ended by an error of a call it made

engine == <<pc, k, cursor, buffer, windows, pending, nextReport, outcome>>
accounts == <<at, settled, decided>>
control == <<status, engineSends, abortSends, abort, waiter, inbox>>
vars == <<history, engine, accounts, control, errors>>

-----------------------------------------------------------------------------
(* Candles and lookbacks. *)

Earliest(S) == CHOOSE m \in S : \A n \in S : m <= n
Least(a, b) == IF a <= b THEN a ELSE b

Duration(e) == Resolution[e] * Period[e]
Longest == CHOOSE e \in Evaluators : \A f \in Evaluators : Duration(f) <= Duration(e)
Floor(m, r) == m - (m % r)
StepBack(m, r, n) == Floor(m, r) - r * n

\* get_candles; both ends belong to it.
GetCandles(from, to) == {c \in history : from <= c /\ c <= to}

\* ORDER BY time ASC.
Ascending(S) == [i \in 1 .. Cardinality(S) |->
                   CHOOSE m \in S : Cardinality({n \in S : n < m}) = i - 1]

AllStable(minutes) == minutes \cap Unstable = {}

\* get_candles_consolidated: the buckets of a resolution, each with the minutes in it; stable if
\* they are and its time has elapsed.  Of one minute they are the rows as stored.
Consolidated(from, to, r) ==
  LET in(b) == {c \in GetCandles(from, to) : Floor(c, r) = b}
      bucket(b) == [time |-> b, minutes |-> in(b),
                    stable |-> AllStable(in(b)) /\ (r = 1 \/ b + r <= to)]
      times == Ascending({Floor(c, r) : c \in GetCandles(from, to)})
  IN [i \in DOMAIN times |-> bucket(times[i])]

Resolutions == {Resolution[e] : e \in Evaluators}

\* merge_resolution_map: operators share a window as long as the longest of them needs.
SharedPeriod(r) ==
  CHOOSE p \in {Period[e] : e \in Evaluators} :
    /\ \E e \in Evaluators : Resolution[e] = r /\ Period[e] = p
    /\ \A e \in Evaluators : Resolution[e] = r => Period[e] <= p

Trim(candles, r) == IF Len(candles) > SharedPeriod(r) THEN Tail(candles) ELSE candles

\* BucketAccumulator, with one candle; a later one is added to its minutes.
Bucket(r, c) == [time |-> Floor(c, r), minutes |-> {c}, stable |-> FALSE]
Replaced(bucket, c) == [bucket EXCEPT !.minutes = {c}]                \* mutant for the runs
AddCandle(bucket, c) == [bucket EXCEPT !.minutes = @ \cup {c}]

Closed(bucket) == [bucket EXCEPT !.stable = AllStable(bucket.minutes)]

\* finalize_current_bucket.
Finalized(w) ==
  IF w.open THEN [w.candles EXCEPT ![Len(w.candles)] = Closed(@)] ELSE w.candles

\* RuntimeConsolidator::push; candles only come in order.
Push(w, r, c) ==
  LET n == Len(w.candles)
  IN IF w.open /\ w.candles[n].time = Floor(c, r)
     THEN [w EXCEPT !.candles[n] = AddCandle(@, c)]
     ELSE [candles |-> Trim(Append(Finalized(w), Bucket(r, c)), r), open |-> TRUE]

\* RuntimeConsolidator::new: rows of one minute are taken as stored, and all as complete.
InitialWindow(r, candles) ==
  LET After(w, c) ==
        IF r = 1 THEN [candles |-> Trim(Append(w.candles, Closed(Bucket(1, c))), r), open |-> FALSE]
        ELSE Push(w, r, c)
      sorted == Ascending(candles)
      window[i \in 0 .. Len(sorted)] ==
        IF i = 0 THEN [candles |-> <<>>, open |-> FALSE]
        ELSE CHOOSE v \in {After(w, sorted[i]) : w \in {window[i - 1]}} : TRUE   \* evaluated once
  IN window[Len(sorted)]

\* What a raw operator is called with: the window of its resolution, which others may share.
RawContext(e) == windows[Resolution[e]].candles

\* What an evaluator of signals is called with: as many candles as it asked for.
SignalContext(e) ==
  LET w == windows[Resolution[e]].candles
  IN IF Len(w) <= Period[e] THEN w ELSE SubSeq(w, Len(w) - Period[e] + 1, Len(w))

Context(e) == IF e \in Raw THEN RawContext(e) ELSE SignalContext(e)

-----------------------------------------------------------------------------
(* The status, which the engine's task and abort() both write. *)

\* BacktestEngine::new: the table reaches from the lookback to the end.  It is without flagged
\* gaps, which are holes to download; holes that the exchange has itself are not flagged.
RangeAvailable ==
  /\ \E c \in history : c <= StepBack(Start, Resolution[Longest], Period[Longest] - 1)
  /\ \E c \in history : c >= End

Init ==
  /\ history \in Histories /\ RangeAvailable
  /\ pc = "start" /\ k = 1 /\ cursor = Start - 1 /\ buffer = {}
  /\ windows = [r \in Resolutions |-> [candles |-> <<>>, open |-> FALSE]]
  /\ pending = {} /\ nextReport = Start + Day - 1 /\ outcome = None
  /\ at = [o \in Operators |-> Start - 1]
  /\ settled = [o \in Operators |-> {}]
  /\ decided = [e \in Evaluators |-> 2 * Start]
  /\ status = NotInitiated /\ engineSends = None /\ abortSends = None
  /\ abort = "idle" /\ waiter = "idle" /\ inbox = <<>> /\ errors = FALSE

Store(s) == status' = s
Deliver(s) == inbox' = IF waiter \in {"subscribed", "waiting"} THEN Append(inbox, s) ELSE inbox

\* The broadcast comes after the mutex of the status is released.
EngineSends ==
  /\ engineSends # None
  /\ Deliver(engineSends) /\ engineSends' = None
  /\ UNCHANGED <<history, engine, accounts, status, abortSends, abort, waiter, errors>>

-----------------------------------------------------------------------------
(* The task of the engine.  Each action starts at an await and is never cut. *)

At(p) == pc = p /\ engineSends = None
Goto(p) == pc' = p

EndRun(result) == Goto("ending") /\ outcome' = result

StartRun ==
  /\ At("start")
  /\ Store(Starting) /\ engineSends' = Starting /\ Goto("load")
  /\ UNCHANGED <<history, k, cursor, buffer, windows, pending, nextReport, outcome, accounts,
                 abortSends, abort, waiter, inbox, errors>>

FirstCandleAfter(loaded) == Earliest({c \in loaded : c > Start})         \* mutant for the runs
FirstCandle(loaded) == Earliest({c \in loaded : c >= Start})

\* The candles for the lookback and the first of the range, at whose open the accounts start
\* while the windows already hold it whole; without one of the range the
\* backtest fails.  The buffer is not cut at the end of the range.
Load ==
  LET from == Start - Duration(Longest)
      loaded == GetCandles(from, from + BufferSize)
      first == FirstCandle(loaded)
  IN /\ At("load")
     /\ IF \E c \in loaded : c >= Start
        THEN /\ buffer' = loaded /\ cursor' = first
             /\ at' = [o \in Operators |-> first]
             /\ windows' = [r \in Resolutions |-> InitialWindow(r, {c \in loaded : c <= first})]
             /\ pending' = Settlements
             /\ Store(Running) /\ engineSends' = Running
             /\ Goto("iterate")
             /\ UNCHANGED outcome
        ELSE /\ EndRun(Failed)
             /\ UNCHANGED <<buffer, cursor, at, windows, pending, status, engineSends>>
     /\ UNCHANGED <<history, k, nextReport, settled, decided, abortSends, abort, waiter,
                    inbox, errors>>

Due(e) == 2 * cursor + 1 >= decided[e] + Interval[e]

\* The evaluators of operator k whose interval has passed are called, each with its window.
Iterate ==
  /\ At("iterate")
  /\ decided' = [e \in Evaluators |->
                   IF Owner[e] = k /\ Due(e) THEN 2 * cursor + 1 ELSE decided[e]]
  /\ IF k < NumOperators THEN k' = k + 1 /\ UNCHANGED pc
     ELSE k' = 1 /\ Goto(IF cursor >= nextReport THEN "report" ELSE "advance")
  /\ UNCHANGED <<history, cursor, buffer, windows, pending, nextReport, outcome, at, settled,
                 control, errors>>

\* The daily state is stamped with the midnight that ends the day; an account that has
\* already got a candle of the next day refuses to go back.
Report ==
  /\ At("report")
  /\ IF cursor > nextReport THEN EndRun(Failed) /\ UNCHANGED nextReport
     ELSE Goto("advance") /\ nextReport' = nextReport + Day /\ UNCHANGED outcome
  /\ UNCHANGED <<history, k, cursor, buffer, windows, pending, accounts, control, errors>>

\* The next buffer, when this one is exhausted.
Fetch == GetCandles(cursor + 1, Least(cursor + BufferSize, End))

\* The cursor goes to the next candle, over minutes that have none.
Advance ==
  LET left == {c \in buffer : c > cursor}
      next == IF left = {} THEN Fetch ELSE left
  IN /\ At("advance")
     /\ \/ cursor >= End - 1 /\ EndRun(Finished) /\ UNCHANGED <<buffer, cursor>>
        \/ cursor < End - 1 /\ next = {} /\ EndRun(Failed) /\ UNCHANGED <<buffer, cursor>>
        \/ /\ cursor < End - 1 /\ next # {}
           /\ buffer' = IF left = {} THEN Fetch ELSE buffer
           /\ cursor' = Earliest(next)
           /\ Goto("settle") /\ UNCHANGED outcome
     /\ UNCHANGED <<history, k, windows, pending, nextReport, accounts, control, errors>>

\* The settlements up to the cursor, each for every operator in turn.
Settle ==
  LET s == Earliest(pending)
  IN /\ At("settle")
     /\ IF pending = {} \/ s > cursor
        THEN Goto("update") /\ UNCHANGED <<k, pending, settled>>
        ELSE /\ settled' = [settled EXCEPT ![k] = @ \cup {s}]
             /\ k' = IF k < NumOperators THEN k + 1 ELSE 1
             /\ pending' = IF k < NumOperators THEN pending ELSE pending \ {s}
             /\ UNCHANGED pc
     /\ UNCHANGED <<history, cursor, buffer, windows, nextReport, outcome, at, decided, control,
                    errors>>

\* candle_update for operator k; after the last one, push.
Update ==
  /\ At("update")
  /\ at' = [at EXCEPT ![k] = cursor]
  /\ IF k < NumOperators THEN k' = k + 1 /\ UNCHANGED <<pc, windows>>
     ELSE /\ k' = 1 /\ Goto("iterate")
          /\ windows' = [r \in Resolutions |-> Push(windows[r], r, cursor)]
  /\ UNCHANGED <<history, cursor, buffer, pending, nextReport, outcome, settled, decided, control,
                 errors>>

\* An error that ends the run.
RunFails ==
  /\ EndRun(Failed) /\ errors' = TRUE
  /\ UNCHANGED <<history, k, cursor, buffer, windows, pending, nextReport, accounts, control>>

\* A query or an account returns an error.
Error ==
  /\ \E p \in {"load", "advance", "settle", "update"} : At(p)
  /\ RunFails

\* Operator k returns an error, or panics, which its wrapper turns into one: process_signal of
\* an operator of signals, after any of its evaluators.
SignalOperatorFails ==
  /\ At("iterate") /\ \E e \in Evaluators \ Raw : Owner[e] = k /\ Due(e)
  /\ RunFails

\* iterate of a raw operator.
RawOperatorFails ==
  /\ At("iterate") /\ \E e \in Raw : Owner[e] = k /\ Due(e)
  /\ RunFails

\* start() writes what run() returned, and the task is over.
Conclude ==
  /\ At("ending")
  /\ Store(outcome) /\ engineSends' = outcome /\ Goto("concluded")
  /\ UNCHANGED <<history, k, cursor, buffer, windows, pending, nextReport, outcome, accounts,
                 abortSends, abort, waiter, inbox, errors>>

Exit ==
  /\ At("concluded")
  /\ Goto("gone")
  /\ UNCHANGED <<history, k, cursor, buffer, windows, pending, nextReport, outcome, accounts,
                 control, errors>>

\* An aborted task is dropped at an await, which it may be a while from.
Cancelled ==
  /\ abort \in {"requested", "stored", "joining"}
  /\ \E p \in {"start", "load", "iterate", "report", "advance", "settle", "update"} : At(p)
  /\ Goto("gone")
  /\ UNCHANGED <<history, k, cursor, buffer, windows, pending, nextReport, outcome, accounts,
                 control, errors>>

Task ==
  \/ EngineSends \/ StartRun \/ Load \/ Iterate \/ Report \/ Advance \/ Settle \/ Update
  \/ Error \/ SignalOperatorFails \/ RawOperatorFails \/ Conclude \/ Exit \/ Cancelled

-----------------------------------------------------------------------------
(* The controller: abort(), once, and a call of until_stopped(). *)

Abort ==
  /\ abort = "idle"
  /\ abort' = IF pc = "gone" THEN "returned" ELSE "requested"
  /\ UNCHANGED <<history, engine, accounts, status, engineSends, abortSends, waiter, inbox, errors>>

AbortStores ==
  /\ abort = "requested"
  /\ Store(Aborted) /\ abortSends' = Aborted /\ abort' = "stored"
  /\ UNCHANGED <<history, engine, accounts, engineSends, waiter, inbox, errors>>

AbortSends ==
  /\ abort = "stored"
  /\ Deliver(abortSends) /\ abortSends' = None /\ abort' = "joining"
  /\ UNCHANGED <<history, engine, accounts, status, engineSends, waiter, errors>>

AbortReturns ==
  /\ abort = "joining" /\ pc = "gone"
  /\ abort' = "returned"
  /\ UNCHANGED <<history, engine, accounts, status, engineSends, abortSends, waiter, inbox, errors>>

\* The receiver is created before the status is read.
UntilStopped ==
  /\ waiter = "idle"
  /\ waiter' = "subscribed"
  /\ UNCHANGED <<history, engine, accounts, status, engineSends, abortSends, abort, inbox, errors>>

\* Mutant for the runs: only updates count.
SnapshotBlind ==
  /\ waiter = "subscribed"
  /\ waiter' = "waiting"
  /\ UNCHANGED <<history, engine, accounts, status, engineSends, abortSends, abort, inbox, errors>>

Snapshot ==
  /\ waiter = "subscribed"
  /\ IF status \in Stopped THEN waiter' = status /\ inbox' = <<>>
     ELSE waiter' = "waiting" /\ UNCHANGED inbox
  /\ UNCHANGED <<history, engine, accounts, status, engineSends, abortSends, abort, errors>>

\* Mutant for the runs: a failure is not taken for an end.
ReceiveSuccess ==
  /\ waiter = "waiting" /\ inbox # <<>>
  /\ IF Head(inbox) \in {Finished, Aborted} THEN waiter' = Head(inbox) /\ inbox' = <<>>
     ELSE inbox' = Tail(inbox) /\ UNCHANGED waiter
  /\ UNCHANGED <<history, engine, accounts, status, engineSends, abortSends, abort, errors>>

Receive ==
  /\ waiter = "waiting" /\ inbox # <<>>
  /\ IF Head(inbox) \in Stopped THEN waiter' = Head(inbox) /\ inbox' = <<>>
     ELSE inbox' = Tail(inbox) /\ UNCHANGED waiter
  /\ UNCHANGED <<history, engine, accounts, status, engineSends, abortSends, abort, errors>>

\* The receiver was overrun by trading states; the last statuses are never among what it lost.
Lag ==
  /\ waiter = "waiting" /\ inbox # <<>> /\ Head(inbox) \notin Stopped
  /\ IF status \in Stopped THEN waiter' = status /\ inbox' = <<>>
     ELSE inbox' = Tail(inbox) /\ UNCHANGED waiter
  /\ UNCHANGED <<history, engine, accounts, status, engineSends, abortSends, abort, errors>>

Controller == AbortStores \/ AbortSends \/ AbortReturns \/ Snapshot \/ Receive \/ Lag

Next == Task \/ Controller \/ Abort \/ UntilStopped

\* The runtime polls the task and the callers; nothing says that anybody calls.
Fairness == WF_vars(Task) /\ WF_vars(Controller)
Spec == Init /\ [][Next]_vars /\ Fairness

-----------------------------------------------------------------------------
(* Properties. *)

Buckets == [time : Nat, minutes : SUBSET Nat, stable : BOOLEAN]

TypeOK ==
  /\ history \in Histories
  /\ pc \in {"start", "load", "iterate", "report", "advance", "settle", "update", "ending",
             "concluded", "gone"}
  /\ k \in Operators /\ cursor \in {Start - 1} \cup history /\ buffer \subseteq history
  /\ \A r \in Resolutions :
       /\ windows[r].candles \in Seq(Buckets) /\ windows[r].open \in BOOLEAN
       /\ Len(windows[r].candles) <= SharedPeriod(r)
  /\ pending \subseteq Settlements /\ nextReport \in Nat /\ outcome \in {None, Finished, Failed}
  /\ \A o \in Operators : at[o] \in {Start - 1} \cup history /\ settled[o] \subseteq Settlements
  /\ decided \in [Evaluators -> Nat]
  /\ status \in Statuses /\ engineSends \in Statuses \cup {None} /\ abortSends \in {Aborted, None}
  /\ abort \in {"idle", "requested", "stored", "joining", "returned"}
  /\ waiter \in {"idle", "subscribed", "waiting"} \cup Stopped
  /\ inbox \in Seq(Statuses) /\ errors \in BOOLEAN

\* No order of buffers, operators and holes makes an operator miss a candle, get one twice, or
\* decide out of turn.
Replayed == INSTANCE Replay
              WITH history <- history, at <- at, settled <- settled, decided <- decided
RefinesReplay == Replayed!Spec

\* What the live engine's query returns at this minute, of the table as it is; but the last
\* row of one minute, which the query returns as stored, is not stable once a candle was pushed.
HasAdvanced == \E c \in history : Start <= c /\ c < cursor
Promised(e) ==
  LET r == Resolution[e]
      live == Consolidated(StepBack(cursor, r, Period[e] - 1), cursor, r)
  IN IF r = 1 /\ HasAdvanced THEN [live EXCEPT ![Len(live)].stable = FALSE] ELSE live

\* What an evaluator sees in a backtest is what it would have been shown live at that minute had
\* the rows been as they are now: the window built candle by candle ends with what Promised says,
\* to the flag of each candle, and has older ones before only where buckets are missing; it has
\* no more candles than asked for, but for raw operators that share it.
WindowsAgree ==
  pc = "iterate" =>
    \A e \in Evaluators :
      /\ IsSuffix(Promised(e), Context(e))
      /\ Len(Context(e)) <= Period[e] \/ e \in Raw

\* abort() has stored Aborted and broadcast it, and the run, before it was cancelled, stored
\* Starting or Running over it: who begins to wait from then on is never told.
Overtaken ==
  /\ pc = "gone" /\ outcome = None /\ abort \in {"joining", "returned"}
  /\ status \notin Stopped

\* When the backtest has stopped, by its status or because the task is gone, and until_stopped()
\* has not learnt of it, then a stop is in its receiver, or stored and not yet broadcast,
\* whichever of run() and abort() stored it, or abort() is about to store it; or it is Overtaken.
StopIsOnItsWay ==
  waiter = "waiting" /\ (status \in Stopped \/ pc = "gone") =>
    \/ {engineSends, abortSends} \cap Stopped # {}
    \/ \E i \in DOMAIN inbox : inbox[i] \in Stopped
    \/ status \notin Stopped /\ abort = "requested"
    \/ Overtaken

\* A backtest ends, and whoever was waiting for it before it was aborted is told.
WaiterIsTold == waiter = "waiting" /\ abort = "idle" ~> waiter \in Stopped

\* Contradicted by the code: "Advance time cursor to the end of the next candle's minute (skips
\* gaps in data)": that a range with a candle, and without errors, never fails over its holes.
HolesAreSkipped ==
  outcome = Failed /\ ~errors => ~ \E c \in history : Start <= c /\ c < End

\* Contradicted by the code: "Waits until the backtest has stopped and returns the final status."
UntilStoppedReturns == waiter = "subscribed" ~> waiter \in Stopped
=============================================================================
