---------------------------- MODULE SignalProcess ----------------------------
(***************************************************************************)
(* The live signal process: a recovery loop around rounds of evaluations,  *)
(* and the shutdown of its controller.                                     *)
(*                                                                         *)
(* A round waits for the next evaluation that is due, makes sure that the  *)
(* sync engine is synced, loads candles and calls the evaluators whose     *)
(* interval has passed. Signals and candles are left out: what is modelled *)
(* is when an evaluator is called.                                         *)
(*                                                                         *)
(* The sync engine is the environment: it stores a status and sends it. A  *)
(* reader that sees the one without the other finds itself in one of the   *)
(* states below, so they are one step here. The clock moves at any time    *)
(* and is never set back.                                                  *)
(***************************************************************************)
EXTENDS Integers, Sequences

CONSTANTS
  Evaluators,
  WithLookback, \* those that are given candles: they are called first
  Interval,     \* min_iteration_interval of each
  Second,       \* units of time in a second
  Far,          \* DateTime::MAX_UTC
  Capacity,     \* capacity of the sync engine's channel
  MaxTime       \* bound: where the clock stops

ASSUME EvaluatorsAssumption ==
  /\ WithLookback \subseteq Evaluators
  /\ Interval \in [Evaluators -> Nat \ {0}]
  /\ \E s \in Evaluators : \A e \in Evaluators : Interval[s] <= Interval[e]
ASSUME TimeAssumption ==
  /\ Second \in Nat \ {0} /\ MaxTime \in Nat
  /\ Far \in Nat /\ \A e \in Evaluators : MaxTime + Second + Interval[e] < Far
ASSUME CapacityAssumption == Capacity \in Nat \ {0}

VARIABLES
  now,        \* Utc::now()
  sync,       \* the status of the sync engine
  feed,       \* its updates in the receiver of the process
  lagged,     \* that receiver lost one and was not told yet
  pc,         \* control point of the process
  status,     \* LiveSignalStatusManager::status
  last,       \* last_eval of each evaluator
  nextEval,   \* next_eval
  round,      \* the `now` of the round
  todo,       \* evaluators the round has still to look at
  evaluated,  \* history: the time for which each evaluator was last called
  listening,  \* the process holds its receiver of the shutdown signal
  signal,     \* the shutdown signal waits in it
  aborted,    \* abort() on its handle: "no", "polling" (while it is polled), "yes"
  ctl         \* control point of LiveSignalController::shutdown

syncVars == <<sync, feed, lagged>>
roundVars == <<last, nextEval, round, todo, evaluated>>
ctlVars == <<ctl, signal>>
vars == <<now, syncVars, pc, status, roundVars, listening, aborted, ctlVars>>

-----------------------------------------------------------------------------
\* What ends the process when it is waiting for the sync engine.
SyncLost == {"Backfilled", "Terminated", "ShutdownInitiated", "Shutdown"}
SyncStatus == {"NotSynced", "Synced"} \cup SyncLost
SyncUpdate == SyncStatus \cup {"Data"}

Status == {"NotInitiated", "Starting", "WaitingForSync", "Failed", "Restarting",
           "Running", "ShutdownInitiated", "Shutdown", "Terminated"}

\* Where the future of the process is suspended: there it can be dropped, and there, or
\* when select! begins, the shutdown signal is seen.
Awaits == {"sleep", "waiting", "load", "evaluating", "pause"}
Suspended == Awaits \cup {"spawned"}
Interruptible == Awaits \cup {"begin"}

Points == Suspended \cup {"listen", "begin", "check", "wait", "snapshot", "subscribe",
                          "capture", "eval", "ended", "panicked"}

\* The handle is_finished().
Finished == pc \in {"ended", "panicked"}

MinInterval ==
  Interval[CHOOSE s \in Evaluators : \A e \in Evaluators : Interval[s] <= Interval[e]]

\* DateTimeExt::ceil_sec
CeilSec(t) == t + ((-t) % Second)

TypeOK ==
  /\ now \in 0..MaxTime
  /\ sync \in SyncStatus
  /\ feed \in Seq(SyncUpdate) /\ Len(feed) <= Capacity
  /\ lagged \in BOOLEAN
  /\ pc \in Points /\ status \in Status
  /\ last \in [Evaluators -> Nat] /\ nextEval \in Nat /\ round \in 0..now
  /\ todo \in SUBSET Evaluators
  /\ evaluated \in [Evaluators -> Int]
  /\ listening \in BOOLEAN /\ signal \in BOOLEAN
  /\ aborted \in {"no", "polling", "yes"}
  /\ ctl \in {"idle", "already", "init", "send", "join", "unsent", "ok", "error"}

Init ==
  /\ now = 0
  /\ sync \in SyncStatus /\ feed = <<>> /\ lagged = FALSE
  /\ pc = "spawned" /\ status = "NotInitiated"
  /\ last = [e \in Evaluators |-> 0] /\ nextEval = 0 /\ round = 0 /\ todo = {}
  /\ evaluated = [e \in Evaluators |-> -Interval[e]]
  /\ listening = FALSE /\ signal = FALSE /\ aborted = "no" /\ ctl = "idle"

-----------------------------------------------------------------------------
(* The environment: the clock and the sync engine.                         *)

Tick ==
  /\ now < MaxTime /\ now' = now + 1
  /\ UNCHANGED <<syncVars, pc, status, roundVars, listening, aborted, ctlVars>>

Push(u) ==
  IF Len(feed) < Capacity THEN feed' = Append(feed, u) /\ UNCHANGED lagged
  ELSE feed' = Append(Tail(feed), u) /\ lagged' = TRUE

\* To the receiver, while the process has one.
Send(u) == IF pc = "waiting" THEN Push(u) ELSE UNCHANGED <<feed, lagged>>

\* An error is never equal to another: a NotSynced may follow a NotSynced.
SyncChanges(s) ==
  /\ sync \notin {"Shutdown", "Terminated"}
  /\ s # sync \/ s = "NotSynced"
  /\ sync' = s /\ Send(s)
  /\ UNCHANGED <<now, pc, status, roundVars, listening, aborted, ctlVars>>

\* A price tick or a state of the history.
SyncData ==
  /\ pc = "waiting" /\ Send("Data")
  /\ UNCHANGED <<now, sync, pc, status, roundVars, listening, aborted, ctlVars>>

-----------------------------------------------------------------------------
(* The process.                                                            *)

\* A poll under way when abort() is called ends at the next await.
Polled ==
  /\ aborted = "yes" => pc \notin Suspended
  /\ aborted' = IF aborted = "polling" THEN "yes" ELSE aborted

ProcAt(p) == pc = p /\ Polled

Goto(p) == pc' = p

notProc == <<now, sync, ctlVars>>

Begin ==
  /\ ProcAt("spawned") /\ Goto("listen")
  /\ status' = "Starting"
  /\ UNCHANGED <<feed, lagged, roundVars, listening, notProc>>

Listen ==
  /\ ProcAt("listen") /\ Goto("begin")
  /\ listening' = TRUE
  /\ UNCHANGED <<feed, lagged, status, roundVars, notProc>>

\* How run() fails. The receiver of the sync engine goes with its future.
Fatal ==
  /\ Goto("ended") /\ status' = "Terminated"
  /\ feed' = <<>> /\ lagged' = FALSE
  /\ UNCHANGED <<roundVars, listening, notProc>>

Recoverable ==
  /\ Goto("pause") /\ status' = "Failed"
  /\ feed' = <<>> /\ lagged' = FALSE
  /\ UNCHANGED <<roundVars, listening, notProc>>

\* Mutant of RunStarts: a restarted process evaluates at once.
RunStartsAtOnce ==
  /\ ProcAt("begin") /\ Goto("check")
  /\ last' = [e \in Evaluators |-> 0]
  /\ nextEval' = now
  /\ UNCHANGED <<feed, lagged, status, round, todo, evaluated, listening, notProc>>

\* run() begins.
RunStarts ==
  /\ ProcAt("begin") /\ Goto("check")
  /\ last' = [e \in Evaluators |-> CeilSec(now)]
  /\ nextEval' = CeilSec(now) + MinInterval
  /\ UNCHANGED <<feed, lagged, status, round, todo, evaluated, listening, notProc>>

\* An evaluator panics where run() asks it for its interval or lookback.
EvaluatorPanics ==
  /\ pc \in {"begin", "eval"} /\ (pc = "eval" => todo # {}) /\ Polled
  /\ Fatal

\* `if Utc::now() < next_eval`
Check ==
  /\ ProcAt("check") /\ Goto(IF now < nextEval THEN "wait" ELSE "snapshot")
  /\ UNCHANGED <<feed, lagged, status, roundVars, listening, notProc>>

\* `next_eval - Utc::now()`: the clock is read again, and a negative duration is a panic.
Wait ==
  /\ ProcAt("wait") /\ Goto(IF now <= nextEval THEN "sleep" ELSE "panicked")
  /\ UNCHANGED <<feed, lagged, status, roundVars, listening, notProc>>

Wake ==
  /\ ProcAt("sleep") /\ now >= nextEval /\ Goto("snapshot")
  /\ UNCHANGED <<feed, lagged, status, roundVars, listening, notProc>>

\* Only NotSynced is waited for.
Snapshot ==
  /\ ProcAt("snapshot")
  /\ IF sync = "NotSynced" THEN status' = "WaitingForSync" /\ Goto("subscribe")
     ELSE UNCHANGED status /\ Goto("capture")
  /\ UNCHANGED <<feed, lagged, roundVars, listening, notProc>>

\* update_receiver(): what was sent before is not received.
Subscribe ==
  /\ ProcAt("subscribe") /\ Goto("waiting")
  /\ UNCHANGED <<feed, lagged, status, roundVars, listening, notProc>>

Stay(rest) ==
  /\ feed' = rest
  /\ UNCHANGED <<pc, lagged, roundVars, listening, notProc>>

\* What the loop does with an update, or with the status it read.
React(s, rest) ==
  \/ /\ s = "Synced" /\ Goto("capture") /\ feed' = <<>>
     /\ UNCHANGED <<status, lagged, roundVars, listening, notProc>>
  \/ s = "NotSynced" /\ status' = "WaitingForSync" /\ Stay(rest)
  \/ s = "Data" /\ UNCHANGED status /\ Stay(rest)
  \/ s \in SyncLost /\ Fatal

WaitRecv ==
  /\ ProcAt("waiting") /\ feed # <<>> /\ ~lagged
  /\ React(Head(feed), Tail(feed))

WaitLagged == ProcAt("waiting") /\ lagged /\ Recoverable

\* Mutant of WaitTimeout: the status is not read again.
WaitTimeoutBlind ==
  /\ ProcAt("waiting") /\ feed = <<>>
  /\ React("NotSynced", <<>>)

\* sync_update_timeout, which starts anew with each update received.
WaitTimeout ==
  /\ ProcAt("waiting") /\ feed = <<>>
  /\ React(sync, <<>>)

\* The round begins.
Capture ==
  /\ ProcAt("capture") /\ Goto(IF WithLookback = {} THEN "eval" ELSE "load")
  /\ status' = "Running"
  /\ round' = now /\ nextEval' = Far /\ todo' = Evaluators
  /\ UNCHANGED <<feed, lagged, last, evaluated, listening, notProc>>

Loaded ==
  /\ ProcAt("load") /\ Goto("eval")
  /\ UNCHANGED <<feed, lagged, status, roundVars, listening, notProc>>

\* Those without a lookback come last. (Resolutions are in no particular order.)
Turn == IF todo \cap WithLookback # {} THEN todo \cap WithLookback ELSE todo

Due(e) == round >= last[e] + Interval[e]

Skip(e) ==
  /\ ProcAt("eval") /\ e \in Turn /\ ~Due(e)
  /\ todo' = todo \ {e}
  /\ UNCHANGED <<feed, lagged, pc, status, last, nextEval, round, evaluated, listening, notProc>>

\* Mutant of Call: the clock is read again.
CallRereads(e) ==
  /\ ProcAt("eval") /\ e \in Turn /\ Due(e) /\ Goto("evaluating")
  /\ todo' = todo \ {e}
  /\ last' = [last EXCEPT ![e] = now]
  /\ nextEval' = IF round + Interval[e] < nextEval THEN round + Interval[e] ELSE nextEval
  /\ evaluated' = [evaluated EXCEPT ![e] = round]
  /\ UNCHANGED <<feed, lagged, status, round, listening, notProc>>

Call(e) ==
  /\ ProcAt("eval") /\ e \in Turn /\ Due(e) /\ Goto("evaluating")
  /\ todo' = todo \ {e}
  /\ last' = [last EXCEPT ![e] = round]
  /\ nextEval' = IF round + Interval[e] < nextEval THEN round + Interval[e] ELSE nextEval
  /\ evaluated' = [evaluated EXCEPT ![e] = round]
  /\ UNCHANGED <<feed, lagged, status, round, listening, notProc>>

\* The signal is sent.
Evaluate ==
  /\ ProcAt("evaluating") /\ Goto("eval")
  /\ UNCHANGED <<feed, lagged, status, roundVars, listening, notProc>>

\* A query fails, or an evaluator fails or panics.
RoundFails == (ProcAt("load") \/ ProcAt("evaluating")) /\ Recoverable

RoundEnds ==
  /\ ProcAt("eval") /\ todo = {} /\ Goto("check")
  /\ UNCHANGED <<feed, lagged, status, roundVars, listening, notProc>>

PauseEnds ==
  /\ ProcAt("pause") /\ Goto("begin")
  /\ status' = "Restarting"
  /\ UNCHANGED <<feed, lagged, roundVars, listening, notProc>>

\* The future is dropped, by select! or by abort().
Dropped ==
  /\ Goto("ended") /\ feed' = <<>> /\ lagged' = FALSE
  /\ UNCHANGED <<status, roundVars, listening, aborted, notProc>>

ProcShutdown == signal /\ pc \in Interruptible /\ Dropped

ProcDropped == aborted # "no" /\ pc \in Suspended /\ Dropped

-----------------------------------------------------------------------------
(* LiveSignalController::shutdown: the handle is consumed, so it runs once. *)

notCtl == <<now, syncVars, pc, roundVars, listening>>

CtlBegin ==
  /\ ctl = "idle" /\ ctl' = IF Finished THEN "already" ELSE "init"
  /\ UNCHANGED <<signal, aborted, status, notCtl>>

CtlInitiate ==
  /\ ctl = "init" /\ ctl' = "send"
  /\ status' = "ShutdownInitiated"
  /\ UNCHANGED <<signal, aborted, notCtl>>

Abort == aborted' \in IF aborted = "no" THEN {"polling", "yes"} ELSE {aborted}

CtlSend ==
  /\ ctl = "send"
  /\ IF listening /\ ~Finished
     THEN ctl' = "join" /\ signal' = TRUE /\ UNCHANGED aborted
     ELSE ctl' = "unsent" /\ Abort /\ UNCHANGED signal
  /\ UNCHANGED <<status, notCtl>>

CtlJoined ==
  /\ ctl = "join" /\ pc = "ended" /\ ctl' = "ok"
  /\ status' = "Shutdown"
  /\ UNCHANGED <<signal, aborted, notCtl>>

\* The signal was not sent, the process panicked, or the timeout passed.
CtlFails ==
  /\ \/ ctl = "unsent" /\ UNCHANGED aborted
     \/ ctl = "join" /\ pc = "panicked" /\ UNCHANGED aborted
     \/ ctl = "join" /\ ~Finished /\ Abort
  /\ ctl' = "error"
  /\ status' = "Terminated"
  /\ UNCHANGED <<signal, notCtl>>

-----------------------------------------------------------------------------
Environment == Tick \/ SyncData \/ \E s \in SyncStatus : SyncChanges(s)

Process ==
  \/ Begin \/ Listen \/ RunStarts \/ EvaluatorPanics
  \/ Check \/ Wait \/ Wake
  \/ Snapshot \/ Subscribe \/ WaitRecv \/ WaitLagged \/ WaitTimeout
  \/ Capture \/ Loaded \/ (\E e \in Evaluators : Skip(e) \/ Call(e))
  \/ Evaluate \/ RoundFails \/ RoundEnds \/ PauseEnds

Controller == CtlBegin \/ CtlInitiate \/ CtlSend \/ CtlJoined \/ CtlFails

Next == Environment \/ Process \/ ProcShutdown \/ ProcDropped \/ Controller

Spec == Init /\ [][Next]_vars

\* The task is scheduled, what it awaits returns, its timers elapse; an aborted or
\* signalled task ends. Nothing is asked of the sync engine or of shutdown().
FairSpec ==
  /\ Spec
  /\ WF_vars(Tick) /\ WF_vars(Process) /\ SF_vars(ProcShutdown) /\ SF_vars(ProcDropped)

-----------------------------------------------------------------------------
(* Properties.                                                             *)

\* The sleep between two rounds ends before any evaluator is late by the shortest of the
\* intervals, although evaluators that were skipped take no part in the choice of
\* next_eval, and never lasts for ever (Far).
NoneOverdue ==
  pc = "sleep" => \A e \in Evaluators : nextEval < last[e] + Interval[e] + MinInterval

\* Two calls of an evaluator are for times that are its interval apart, also when the
\* process was restarted in between and all it knew of earlier calls is lost.
CallsApart ==
  [][\A e \in Evaluators :
       evaluated'[e] # evaluated[e] => evaluated'[e] - evaluated[e] >= Interval[e]]_vars

\* What a successful shutdown() leaves: the process is gone and nobody writes a status
\* over Shutdown.
ShutdownIsFinal == ctl = "ok" => pc = "ended" /\ status = "Shutdown"

\* Whoever waits in shutdown() waits for a process that was told: it has the signal in its
\* receiver, has ended, or is aborted.
ShutdownIsHeard ==
  ctl \in {"join", "unsent", "error"} =>
    \/ Finished \/ (signal /\ listening)
    \/ aborted # "no" /\ ctl # "join"

\* A sync engine that is synced is noticed, at the latest by the timeout if its feed falls
\* silent.
SilenceIsResolved ==
  <>[](sync = "Synced" /\ feed = <<>>) => []<>(pc # "waiting")

=============================================================================
