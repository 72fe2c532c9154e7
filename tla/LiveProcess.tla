----------------------------- MODULE LiveProcess -----------------------------
(***************************************************************************)
(* The live trading process: what starts, restarts and stops the others.   *)
(*                                                                         *)
(*   - the process task starts the sync engine, launches the executor,     *)
(*     starts the operator (with its signal engine, or a raw one), and     *)
(*     runs the operator in a recovery loop until a fatal error or the     *)
(*     shutdown signal;                                                    *)
(*   - a task forwards the updates of the executor;                        *)
(*   - a caller of `LiveTradeController::shutdown`.                        *)
(*                                                                         *)
(* The sync engine, the signal process and the executor are modules of     *)
(* their own; here each is the status it shows, which changes on its own.  *)
(* A step of the process goes from one `.await` to the next.               *)
(***************************************************************************)
EXTENDS Naturals, Sequences

CONSTANTS
  Capacity,  \* capacity of the channel of signals (1_000 in the code)
  MaxFaults  \* bound: recoverable errors, and overflows of a channel

ASSUME BoundsAssumption == Capacity \in Nat \ {0} /\ MaxFaults \in Nat

VARIABLES
  mode,       \* the OperatorRunning: "signal" or "raw"
  status,     \* LiveTradeStatusManager::status
  pc,         \* control point of the process
  listening,  \* the process holds its receiver of the shutdown signal
  signalled,  \* the shutdown signal waits in that receiver
  aborted,    \* abort() on the process's handle: "no", "polling" (while it is polled), "yes"
  result,     \* what the process's task returned: "ok", "error", or "none" yet
  forwarder,  \* the task that forwards the executor's updates runs
  hearing,    \* the operator holds a receiver of signals
  feed,       \* the updates in it
  feedLag,    \* it lost one
  sync,       \* status of the sync engine
  sig,        \* status of the signal process
  exec,       \* status of the executor
  ctl,        \* control point of shutdown()
  faults,     \* failures so far
  fatal,      \* history: the process ended by a fatal error
  unheard     \* history: the end of the signal process was announced to nobody

procVars == <<pc, listening, signalled, aborted, result, forwarder>>
feedVars == <<hearing, feed, feedLag>>
depVars == <<sync, sig, exec>>
vars == <<mode, status, procVars, feedVars, depVars, ctl, faults, fatal, unheard>>

-----------------------------------------------------------------------------
\* LiveTradeStatus::is_stopped
Stopped == {"Shutdown", "Terminated"}

Waiting == {"WaitingForSync", "WaitingForSignal", "WaitingTradeExecutor"}

Status ==
  {"NotInitiated", "Starting", "Running", "Failed", "Restarting", "ShutdownInitiated"}
    \cup Waiting \cup Stopped

\* The awaits of a run of the operator.
SignalRun == {"recv", "state", "operate"}
RawRun == {"pause", "syncWait", "state", "fetch", "operate"}
Run == SignalRun \cup RawRun

\* The awaits at which the shutdown signal is seen (or before the first poll of a run).
Interruptible == Run \cup {"begin", "sleep"}

Stopping == {"stopExecutor", "stopOperator", "stopSync"}

\* Where the process's future is suspended, and abort() takes effect.
Suspended == Run \cup Stopping \cup {"spawned", "launch", "sleep"}

ControlPoints == Suspended \cup {"starting", "subscribe", "begin", "dying", "ended"}

Updates == {"NotRunning", "Running", "Terminated", "Signal"}

TypeOK ==
  /\ mode \in {"signal", "raw"} /\ status \in Status
  /\ pc \in ControlPoints
  /\ listening \in BOOLEAN /\ signalled \in BOOLEAN /\ forwarder \in BOOLEAN
  /\ hearing \in BOOLEAN /\ feedLag \in BOOLEAN /\ fatal \in BOOLEAN /\ unheard \in BOOLEAN
  /\ aborted \in {"no", "polling", "yes"}
  /\ result \in {"none", "ok", "error"}
  /\ result # "none" => pc \in {"stopOperator", "stopSync", "ended"}
  /\ feed \in Seq(Updates) /\ Len(feed) <= Capacity
  /\ hearing => pc \in SignalRun
  /\ sync \in {"NotSynced", "Synced", "Terminated", "Shutdown"}
  /\ sig \in {"none", "NotRunning", "Running", "Terminated", "Shutdown"}
  /\ exec \in {"none", "NotReady", "Ready", "Terminated", "Shutdown"}
  /\ ctl \in {"idle", "already", "init", "send", "join", "unsent", "ok", "error"}
  /\ faults \in 0..MaxFaults

Init ==
  /\ mode \in {"signal", "raw"} /\ status = "NotInitiated"
  /\ pc = "spawned" /\ listening = FALSE /\ signalled = FALSE /\ aborted = "no"
  /\ result = "none" /\ forwarder = FALSE
  /\ hearing = FALSE /\ feed = <<>> /\ feedLag = FALSE
  /\ sync = "NotSynced" /\ sig = "none" /\ exec = "none"
  /\ ctl = "idle" /\ faults = 0 /\ fatal = FALSE /\ unheard = FALSE

-----------------------------------------------------------------------------
(* The others. They run until the process is gone and has dropped them.    *)

Alive == pc \notin {"spawned", "ended"}

notDeps == <<mode, status, procVars, ctl, faults, fatal>>

SyncMoves ==
  /\ Alive /\ sync \in {"NotSynced", "Synced"}
  /\ sync' \in {"NotSynced", "Synced", "Terminated"} \ {sync}
  /\ UNCHANGED <<sig, exec, feedVars, unheard, notDeps>>

\* The executor ends by itself only when the sync engine has.
ExecutorMoves ==
  /\ Alive /\ exec \in {"NotReady", "Ready"}
  /\ \/ exec' \in {"NotReady", "Ready"} \ {exec}
     \/ exec' = "Terminated" /\ sync = "Terminated"
  /\ UNCHANGED <<sync, sig, feedVars, unheard, notDeps>>

\* An update of the signal process; who does not hold a receiver misses it.
SignalSends(u) ==
  /\ Alive /\ sig \in {"NotRunning", "Running"}
  /\ IF u = "Signal" THEN sig = "Running" /\ UNCHANGED sig ELSE u # sig /\ sig' = u
  /\ \/ /\ ~hearing
        /\ unheard' = (unheard \/ u = "Terminated") /\ UNCHANGED <<feedVars, faults>>
     \/ /\ hearing /\ Len(feed) < Capacity
        /\ feed' = Append(feed, u) /\ UNCHANGED <<hearing, feedLag, unheard, faults>>
     \/ /\ hearing /\ Len(feed) = Capacity /\ faults < MaxFaults
        /\ feed' = Append(Tail(feed), u) /\ feedLag' = TRUE /\ faults' = faults + 1
        /\ UNCHANGED <<hearing, unheard>>
  /\ UNCHANGED <<sync, exec, mode, status, procVars, ctl, fatal>>

-----------------------------------------------------------------------------
(* The process.                                                            *)

\* A step of the process. abort() during a poll takes effect at the next await.
Poll ==
  /\ aborted = "yes" => pc \notin Suspended
  /\ aborted' = IF aborted = "polling" THEN "yes" ELSE aborted

\* The run of the operator ends, and its receiver with it.
HangUp == hearing' = FALSE /\ feed' = <<>> /\ feedLag' = FALSE

\* What the receiver still held is lost.
LeaveRun ==
  HangUp /\ unheard' = (unheard \/ \E i \in DOMAIN feed : feed[i] = "Terminated")

Quiet == UNCHANGED <<feedVars, unheard>>

notProc == <<mode, depVars, ctl>>

\* Mutant of Fatal: the process goes on.
FatalIgnored ==
  status' = "Failed" /\ pc' = (IF pc = "launch" THEN "dying" ELSE "sleep") /\ UNCHANGED fatal

\* A fatal error is reported; then the task returns Ok.
Fatal == status' = "Terminated" /\ fatal' = TRUE /\ pc' = "dying"

\* spawn: the sync engine and the forwarder are started, the executor launched.
Spawned ==
  /\ pc = "spawned" /\ Poll /\ pc' = "launch" /\ forwarder' = TRUE
  /\ UNCHANGED <<status, listening, signalled, result, faults, fatal, notProc>> /\ Quiet

\* The executor is launched, and the operator started with its signal engine; each may fail.
Launched ==
  /\ pc = "launch" /\ Poll
  /\ \/ /\ pc' = "starting" /\ exec' = "NotReady"
        /\ sig' = IF mode = "signal" THEN "NotRunning" ELSE "none"
        /\ UNCHANGED <<status, fatal>>
     \/ Fatal /\ UNCHANGED <<exec, sig>>
  /\ UNCHANGED <<mode, sync, ctl, listening, signalled, result, forwarder, faults>> /\ Quiet

\* recovery_loop
Starting ==
  /\ pc = "starting" /\ Poll /\ status' = "Starting" /\ pc' = "subscribe"
  /\ UNCHANGED <<listening, signalled, result, forwarder, faults, fatal, notProc>> /\ Quiet

Subscribe ==
  /\ pc = "subscribe" /\ Poll /\ listening' = TRUE /\ pc' = "begin"
  /\ UNCHANGED <<status, signalled, result, forwarder, faults, fatal, notProc>> /\ Quiet

\* What a run does not change.
notRun == <<listening, signalled, result, forwarder, notProc>>

\* run_signal takes a new receiver; run_raw waits for its next iteration.
RunBegin ==
  /\ pc = "begin" /\ Poll
  /\ IF mode = "signal" THEN pc' = "recv" /\ hearing' = TRUE ELSE pc' = "pause" /\ UNCHANGED hearing
  /\ UNCHANGED <<status, feed, feedLag, faults, fatal, unheard, notRun>>

\* A recoverable error ends the run.
RunFails == status' = "Failed" /\ pc' = "sleep" /\ LeaveRun /\ UNCHANGED fatal

Recoverable == faults < MaxFaults /\ faults' = faults + 1 /\ RunFails

FatalInRun == Fatal /\ HangUp /\ UNCHANGED <<faults, unheard>>

\* The run goes on with status s.
GoOn(point, s) == status' = s /\ pc' = point /\ UNCHANGED <<faults, fatal, unheard>>

\* run_signal: an update, or the loss of one.
Receive ==
  /\ pc = "recv" /\ ~feedLag /\ feed # <<>> /\ Poll
  /\ IF Head(feed) = "Terminated" THEN FatalInRun
     ELSE /\ feed' = Tail(feed) /\ UNCHANGED <<hearing, feedLag>>
          /\ \/ Head(feed) = "Signal" /\ GoOn("state", status)
             \/ Head(feed) = "Running" /\ GoOn("recv", status)
             \/ Head(feed) = "NotRunning" /\ GoOn("recv", "WaitingForSignal")
  /\ UNCHANGED notRun

ReceiveLagged ==
  /\ pc = "recv" /\ feedLag /\ Poll
  /\ RunFails
  /\ UNCHANGED <<faults, notRun>>

\* run_raw: the next iteration is due. Only NotSynced is looked for.
IterationDue ==
  /\ pc = "pause" /\ Poll
  /\ IF sync = "NotSynced" THEN GoOn("syncWait", "WaitingForSync") ELSE GoOn("state", status)
  /\ UNCHANGED <<feedVars, notRun>>

\* wait_for_sync: an update of the sync engine, or its status after a timeout.
SyncKnown ==
  /\ pc = "syncWait" /\ Poll
  /\ \/ sync = "NotSynced" /\ GoOn("syncWait", "WaitingForSync") /\ UNCHANGED feedVars
     \/ sync = "Synced" /\ GoOn("pause", status) /\ UNCHANGED feedVars
     \/ sync \in {"Terminated", "Shutdown"} /\ FatalInRun
  /\ UNCHANGED notRun

\* An update that arrived before the engine's present one, or the loss of one.
SyncLate ==
  /\ pc = "syncWait" /\ Poll
  /\ \/ GoOn("pause", status) /\ UNCHANGED feedVars
     \/ Recoverable
  /\ UNCHANGED notRun

\* trade_executor.state_snapshot() returns.
StateKnown ==
  /\ pc = "state" /\ Poll
  /\ \/ /\ exec = "Ready" /\ UNCHANGED feedVars
        /\ GoOn(IF mode = "signal" THEN "operate" ELSE "fetch", "Running")
     \/ /\ exec = "NotReady" /\ UNCHANGED feedVars
        /\ GoOn(IF mode = "signal" THEN "recv" ELSE "pause", "WaitingTradeExecutor")
     \/ exec \in {"Terminated", "Shutdown"} /\ FatalInRun
  /\ UNCHANGED notRun

\* The candles are fetched; process_signal or iterate returns. Each may fail.
Fetched ==
  /\ pc = "fetch" /\ Poll
  /\ \/ GoOn("operate", status) /\ UNCHANGED feedVars
     \/ Recoverable
  /\ UNCHANGED notRun

Operated ==
  /\ pc = "operate" /\ Poll
  /\ \/ GoOn(IF mode = "signal" THEN "recv" ELSE "pause", status) /\ UNCHANGED feedVars
     \/ Recoverable
  /\ UNCHANGED notRun

\* The restart interval has elapsed.
SleepEnds ==
  /\ pc = "sleep" /\ Poll /\ pc' = "begin" /\ status' = "Restarting"
  /\ UNCHANGED <<faults, fatal, notRun>> /\ Quiet

\* The shutdown signal is seen; what the run awaits is dropped.
SeeShutdown ==
  /\ pc \in Interruptible /\ signalled /\ Poll
  /\ signalled' = FALSE /\ pc' = "stopExecutor" /\ forwarder' = FALSE
  /\ LeaveRun
  /\ UNCHANGED <<status, listening, result, faults, fatal, notProc>>

\* What the shutdown of a part leaves it in: one that ended by itself refuses, and any may
\* fail or run out of time (the executor may fail to close its trades).
Outcomes(part) == {"Terminated"} \cup (IF part = "Terminated" THEN {} ELSE {"Shutdown"})

\* What no step of the shutdown changes.
notStop == <<mode, status, signalled, forwarder, ctl, faults, fatal>>

\* The parts are shut down one after the other, whatever the ones before returned.
StopExecutor ==
  /\ pc = "stopExecutor" /\ Poll /\ pc' = "stopOperator"
  /\ exec' \in Outcomes(exec)
  /\ result' = IF exec' = "Shutdown" THEN result ELSE "error"
  /\ UNCHANGED <<listening, sync, sig, notStop>> /\ Quiet

StopOperator ==
  /\ pc = "stopOperator" /\ Poll /\ pc' = "stopSync"
  /\ sig' \in IF mode = "signal" THEN Outcomes(sig) ELSE {sig}
  /\ result' = IF sig' = "Terminated" THEN "error" ELSE result
  /\ UNCHANGED <<listening, sync, exec, notStop>> /\ Quiet

StopSync ==
  /\ pc = "stopSync" /\ Poll /\ pc' = "ended" /\ listening' = FALSE
  /\ sync' \in Outcomes(sync)
  /\ result' = IF sync' = "Shutdown" /\ result = "none" THEN "ok" ELSE "error"
  /\ UNCHANGED <<sig, exec, notStop>> /\ Quiet

\* The task returns after a fatal error. What it owned is dropped: nothing is shut down.
Exit ==
  /\ pc = "dying" /\ Poll /\ pc' = "ended"
  /\ result' = "ok" /\ listening' = FALSE /\ forwarder' = FALSE
  /\ UNCHANGED <<status, signalled, faults, fatal, notProc>> /\ Quiet

\* The aborted task is dropped where it is suspended.
Dropped ==
  /\ aborted # "no" /\ pc \in Suspended /\ pc' = "ended"
  /\ listening' = FALSE /\ forwarder' = FALSE /\ LeaveRun
  /\ UNCHANGED <<status, signalled, aborted, result, faults, fatal, notProc>>

\* The forwarder lost updates of the executor, and says so in the status, whatever it is.
UpdatesLag ==
  /\ forwarder /\ exec # "none" /\ faults < MaxFaults
  /\ faults' = faults + 1 /\ status' = "Failed"
  /\ UNCHANGED <<mode, procVars, depVars, ctl, fatal>> /\ Quiet

-----------------------------------------------------------------------------
(* LiveTradeController::shutdown                                           *)

notCtl == <<mode, pc, listening, result, forwarder, feedVars, depVars, faults, fatal, unheard>>

\* The handle is taken; a process that has ended is not shut down.
CtlBegin ==
  /\ ctl = "idle" /\ ctl' = IF pc = "ended" THEN "already" ELSE "init"
  /\ UNCHANGED <<status, signalled, aborted, notCtl>>

CtlInitiate ==
  /\ ctl = "init" /\ ctl' = "send" /\ status' = "ShutdownInitiated"
  /\ UNCHANGED <<signalled, aborted, notCtl>>

\* abort(): a task that is being polled goes on to its next await.
Abort == aborted' \in {"polling", "yes"}

\* Mutant of CtlSend: the process that cannot hear is not aborted.
CtlSendUnaborted ==
  /\ ctl = "send"
  /\ IF listening THEN ctl' = "join" /\ signalled' = TRUE ELSE ctl' = "unsent" /\ UNCHANGED signalled
  /\ UNCHANGED <<status, aborted, notCtl>>

\* The signal needs a receiver.
CtlSend ==
  /\ ctl = "send"
  /\ \/ listening /\ ctl' = "join" /\ signalled' = TRUE /\ UNCHANGED aborted
     \/ ~listening /\ ctl' = "unsent" /\ Abort /\ UNCHANGED signalled
  /\ UNCHANGED <<status, notCtl>>

\* Mutant of CtlJoined: what the task returned is not looked at.
CtlJoinedUnread ==
  /\ ctl = "join" /\ pc = "ended" /\ ctl' = "ok" /\ status' = "Shutdown"
  /\ UNCHANGED <<signalled, aborted, notCtl>>

CtlJoined ==
  /\ ctl = "join" /\ pc = "ended"
  /\ IF result = "ok" THEN ctl' = "ok" /\ status' = "Shutdown"
     ELSE ctl' = "error" /\ status' = "Terminated"
  /\ UNCHANGED <<signalled, aborted, notCtl>>

\* The shutdown has timed out, or the signal was not sent.
CtlGivesUp ==
  /\ \/ ctl = "join" /\ Abort
     \/ ctl = "unsent" /\ UNCHANGED aborted
  /\ ctl' = "error" /\ status' = "Terminated"
  /\ UNCHANGED <<signalled, notCtl>>

-----------------------------------------------------------------------------
Deps == SyncMoves \/ ExecutorMoves \/ \E u \in Updates : SignalSends(u)

Process ==
  \/ Spawned \/ Launched \/ Starting \/ Subscribe \/ RunBegin
  \/ Receive \/ ReceiveLagged
  \/ IterationDue \/ SyncKnown \/ SyncLate \/ Fetched
  \/ StateKnown \/ Operated \/ SleepEnds
  \/ SeeShutdown \/ StopExecutor \/ StopOperator \/ StopSync
  \/ Exit \/ Dropped

Controller == CtlBegin \/ CtlInitiate \/ CtlSend \/ CtlJoined \/ CtlGivesUp

Next == Deps \/ Process \/ UpdatesLag \/ Controller

\* The tasks are polled, what they await returns or fails, and intervals elapse.
Spec == Init /\ [][Next]_vars /\ WF_vars(Process) /\ WF_vars(ctl # "idle" /\ Controller)

-----------------------------------------------------------------------------
\* shutdown() answers Ok only when the process is gone and every part of it was shut down
\* (the executor's trades closed, the signal process and the sync engine stopped), or it had
\* died of a fatal error while the signal was on its way. The status then says Shutdown, and
\* nothing overwrites it any more.
ShutdownReport ==
  ctl = "ok" =>
    /\ pc = "ended" /\ status = "Shutdown"
    /\ fatal \/ (exec = "Shutdown" /\ sig \in {"none", "Shutdown"} /\ sync = "Shutdown")

\* The part the operator depends on is gone, and the process has not died of it yet.
PartIsDead ==
  ~fatal /\ IF mode = "signal" THEN sig = "Terminated" /\ ~unheard ELSE exec = "Terminated"

\* A signal process that ended while a run was listening is not missed: its end is in the
\* receiver of that run, behind everything else, until the process has died of it, whatever
\* overflows or is thrown away in between.
DeathIsHeard ==
  mode = "signal" /\ PartIsDead /\ ctl = "idle" =>
    hearing /\ feed # <<>> /\ feed[Len(feed)] = "Terminated"

\* When the signal process (or, for a raw operator, the executor) has ended by itself, the
\* live status says that trading stopped, unless a shutdown begins: whatever the operator
\* was doing, it is not left waiting. Excepted is the end of a signal process announced
\* between two runs of the operator, which no receiver hears. (The forwarder may replace the
\* status afterwards.)
DeathIsReported == PartIsDead ~> (status \in Stopped \/ ctl # "idle" \/ unheard)

\* Whoever waits in shutdown() waits for a process that was told: it has the signal in its
\* receiver, acts on it or is dying anyway, or it is aborted.
ShutdownIsHeard ==
  ctl \in {"join", "unsent", "error"} =>
    \/ pc \in Stopping \cup {"dying", "ended"} \/ (signalled /\ listening)
    \/ aborted # "no" /\ ctl # "join"

\* A caller of shutdown() has its answer, and the process is gone.
ShutdownEnds == ctl = "init" ~> (ctl \in {"ok", "error"} /\ pc = "ended")
=============================================================================
