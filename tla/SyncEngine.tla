----------------------------- MODULE SyncEngine -----------------------------
(***************************************************************************)
(* The life of a synchronisation process and of those who watch it.        *)
(*                                                                         *)
(*   - the process task: the recovery loop around one of the four modes;   *)
(*   - the real-time collection task it spawns when streaming: receives    *)
(*     ticks, stores them in batches, hands the stored ones to the process;*)
(*   - a caller of `SyncController::shutdown`, the second writer of the    *)
(*     status;                                                             *)
(*   - a caller of `SyncController::until_stopped`.                        *)
(*                                                                         *)
(* What the history and funding tasks do to the database is the subject of *)
(* other modules; here such a task is an await with an outcome. Ticks are  *)
(* counted, not told apart.                                                *)
(***************************************************************************)
EXTENDS Naturals, Sequences

CONSTANTS
  Capacity,   \* capacity of the update channel (1_000 in the code)
  TickLimit,  \* capacity of the tick channel (1_000 or 10_000)
  MaxPending  \* bound: ticks received and not yet in a database operation

ASSUME CapacityAssumption == Capacity \in Nat \ {0}
ASSUME TickAssumption == TickLimit \in Nat \ {0} /\ MaxPending \in Nat

VARIABLES
  mode,       \* the SyncMode
  stream,     \* SyncProcessConfig::stream_enabled
  status,     \* SyncStatusManager::status
  out,        \* per writer: updates stored and not yet broadcast
  pc,         \* control point of the process
  subscribed, \* the process holds its receiver of the shutdown signal
  signal,     \* the shutdown signal waits in that receiver
  aborted,    \* abort() on the process's handle: "no", "polling" (called while the task
              \* is being polled) or "yes"
  isSynced,   \* `is_synced` of the stream loop
  due,        \* the tick interval timer: "no", or elapsed while no tick was waiting
              \* to be read ("silent") or while one was ("unread")
  ticks,      \* ticks in the process's tick receiver
  tickLag,    \* that receiver lost a tick
  rt,         \* state of the real-time collection task
  rtSignal,   \* the shutdown signal waits in its receiver
  pending,    \* ticks in `pending_ticks`
  inFlight,   \* ticks in the spawned database operation
  ctl,        \* control point of shutdown()
  wait,       \* control point of until_stopped()
  waitResult, \* what until_stopped() returned, or "none"
  feed,       \* updates in the receiver of until_stopped()
  feedLag     \* that receiver lost an update and was not told yet

config == <<mode, stream>>
statusVars == <<status, out>>
procVars == <<pc, subscribed, isSynced, due>>
tickVars == <<ticks, tickLag>>
rtVars == <<rt, rtSignal, pending, inFlight>>
ctlVars == <<ctl, signal, aborted>>
waitVars == <<wait, waitResult>>
feedVars == <<feed, feedLag>>
vars == <<config, statusVars, procVars, tickVars, rtVars, ctlVars, waitVars, feedVars>>

-----------------------------------------------------------------------------
Modes == {"backfill", "live", "lookback", "full"}

NotSynced == {"NotInitiated", "Starting", "InProgress", "Failed", "Restarting"}

\* SyncStatus::is_stopped
Stopped == {"Shutdown", "Terminated"}
Status == NotSynced \cup Stopped \cup {"Synced", "Backfilled", "ShutdownInitiated"}

\* Where the process's future is suspended: abort() takes effect there, and the shutdown
\* signal is seen there (with "begin", where select! may look at it first).
Tasks == {"history", "funding", "resync", "polling"}
Suspended == Tasks \cup {"spawned", "connect", "feed", "poll", "pause", "wait"}
Interruptible == (Suspended \ {"spawned"}) \cup {"begin"}

\* The loops that follow the first synchronisation.
Loops == {"feed", "resync", "poll", "polling"}

Idle(w) == out[w] = <<>>

\* The handle is_finished().
Finished == pc = "ended" /\ Idle("proc")

TypeOK ==
  /\ mode \in Modes /\ stream \in BOOLEAN
  /\ status \in Status
  /\ out \in [{"proc", "ctl"} -> Seq(Status \cup {"Data"})]
  /\ pc \in Suspended \cup {"subscribe", "begin", "ended"}
  /\ subscribed \in BOOLEAN /\ signal \in BOOLEAN /\ isSynced \in BOOLEAN
  /\ tickLag \in BOOLEAN /\ rtSignal \in BOOLEAN /\ feedLag \in BOOLEAN
  /\ aborted \in {"no", "polling", "yes"} /\ due \in {"no", "silent", "unread"}
  /\ ticks \in 0..TickLimit
  /\ rt \in {"none", "connecting", "running", "flushing", "stopped", "failed", "aborting"}
  /\ pending \in 0..MaxPending /\ inFlight \in 0..(MaxPending + 1)
  /\ ctl \in {"idle", "already", "init", "send", "join", "unsent", "ok", "error"}
  /\ wait \in {"idle", "subscribed", "listening", "returned"}
  /\ waitResult \in Status \cup {"none"}
  /\ feed \in Seq(Status \cup {"Data"}) /\ Len(feed) <= Capacity

Init ==
  /\ mode \in Modes /\ stream \in BOOLEAN
  /\ status = "NotInitiated" /\ out = [w \in {"proc", "ctl"} |-> <<>>]
  /\ pc = "spawned" /\ subscribed = FALSE /\ isSynced = FALSE /\ due = "no"
  /\ ticks = 0 /\ tickLag = FALSE
  /\ rt = "none" /\ rtSignal = FALSE /\ pending = 0 /\ inFlight = 0
  /\ ctl = "idle" /\ signal = FALSE /\ aborted = "no"
  /\ wait = "idle" /\ waitResult = "none"
  /\ feed = <<>> /\ feedLag = FALSE

-----------------------------------------------------------------------------
(* SyncStatusManager::update: two writers share the mutex, not the send.   *)

\* Errors are compared by address: a new one always differs.
Store(w, s, more) ==
  IF s = status /\ s \notin {"Failed", "Terminated"}
  THEN out' = [out EXCEPT ![w] = more] /\ UNCHANGED status
  ELSE out' = [out EXCEPT ![w] = <<s>> \o more] /\ status' = s

Update(w, s) == Store(w, s, <<>>)

Push(u) ==
  IF wait \notin {"subscribed", "listening"}
  THEN UNCHANGED feedVars
  ELSE IF Len(feed) < Capacity
       THEN feed' = Append(feed, u) /\ UNCHANGED feedLag
       ELSE feed' = Append(Tail(feed), u) /\ feedLag' = TRUE

Broadcast(w) ==
  /\ ~Idle(w)
  /\ Push(Head(out[w]))
  /\ out' = [out EXCEPT ![w] = Tail(@)]
  /\ UNCHANGED <<config, status, procVars, tickVars, rtVars, ctlVars, waitVars>>

-----------------------------------------------------------------------------
(* The process: recovery_loop and run_mode.                                *)

\* A poll under way when abort() is called ends at the next await.
Polled ==
  /\ aborted = "yes" => pc \in {"subscribe", "begin"}
  /\ aborted' = IF aborted = "polling" THEN "yes" ELSE aborted

ProcAt(p) == pc = p /\ Idle("proc") /\ Polled

Goto(p) == pc' = p

notRun == <<config, subscribed, ctl, signal, waitVars, feedVars>>

\* AbortOnDropHandle: the future of the run is dropped, and the real-time task with it.
DropRt ==
  /\ rt' = IF rt \in {"running", "flushing", "aborting"} THEN "aborting" ELSE "none"
  /\ pending' = 0
  /\ ticks' = 0 /\ tickLag' = FALSE
  /\ UNCHANGED <<rtSignal, inFlight>>

ProcStart ==
  /\ ProcAt("spawned")
  /\ Update("proc", "Starting")
  /\ Goto("subscribe")
  /\ UNCHANGED <<isSynced, due, tickVars, rtVars, notRun>>

ProcSubscribe ==
  /\ ProcAt("subscribe")
  /\ subscribed' = TRUE
  /\ Goto("begin")
  /\ UNCHANGED <<config, statusVars, isSynced, due, tickVars, rtVars, ctl, signal, waitVars, feedVars>>

RunBegin ==
  /\ ProcAt("begin")
  /\ Update("proc", "InProgress")
  /\ Goto(IF mode = "live" /\ stream THEN "connect" ELSE "history")
  /\ UNCHANGED <<isSynced, due, tickVars, rtVars, notRun>>

\* What follows the initial tasks of a mode with a live feed.
GoLive ==
  IF stream THEN Goto("connect") /\ UNCHANGED statusVars
  ELSE Update("proc", "Synced") /\ Goto("poll")

HistoryDone ==
  /\ ProcAt("history")
  /\ IF mode \in {"backfill", "full"} THEN Goto("funding") /\ UNCHANGED statusVars ELSE GoLive
  /\ UNCHANGED <<isSynced, due, tickVars, rtVars, notRun>>

FundingDone ==
  /\ ProcAt("funding")
  /\ IF mode = "backfill" THEN Update("proc", "Backfilled") /\ Goto("pause") ELSE GoLive
  /\ UNCHANGED <<isSynced, due, tickVars, rtVars, notRun>>

PauseEnds ==
  /\ ProcAt("pause")
  /\ Update("proc", "InProgress")
  /\ Goto("history")
  /\ UNCHANGED <<isSynced, due, tickVars, rtVars, notRun>>

\* The stream client is reset and the real-time task spawned. (A task aborted by the
\* previous run is gone by then: the restart interval is seconds.)
Connect ==
  /\ ProcAt("connect") /\ rt = "none"
  /\ rt' = "connecting" /\ rtSignal' = FALSE /\ isSynced' = FALSE /\ due' = "no"
  /\ Goto("feed")
  /\ UNCHANGED <<pending, inFlight, statusVars, tickVars, notRun>>

FeedTick ==
  /\ ProcAt("feed") /\ ticks > 0 /\ ~tickLag
  /\ ticks' = ticks - 1 /\ due' = "no" /\ isSynced' = TRUE
  /\ IF isSynced THEN out' = [out EXCEPT !["proc"] = <<"Data">>] /\ UNCHANGED status
     ELSE Store("proc", "Synced", <<"Data">>)
  /\ UNCHANGED <<pc, tickLag, rtVars, notRun>>

\* The re-sync timer or the funding timer: its task is awaited inside the arm.
ResyncStart ==
  /\ ProcAt("feed") /\ mode \in {"lookback", "full"}
  /\ Goto("resync")
  /\ UNCHANGED <<statusVars, isSynced, due, tickVars, rtVars, notRun>>

ResyncDone ==
  /\ ProcAt("resync")
  /\ Goto("feed")
  /\ UNCHANGED <<statusVars, isSynced, due, tickVars, rtVars, notRun>>

PollStart ==
  /\ ProcAt("poll")
  /\ Goto("polling")
  /\ UNCHANGED <<statusVars, isSynced, due, tickVars, rtVars, notRun>>

PollDone ==
  /\ ProcAt("polling")
  /\ Goto("poll")
  /\ UNCHANGED <<statusVars, isSynced, due, tickVars, rtVars, notRun>>

\* The tick interval timer elapses. A process waiting in its select! reads a tick that
\* is there long before the interval has passed.
TickTimer ==
  /\ due = "no"
  /\ due' = IF ticks = 0 /\ ~tickLag THEN "silent" ELSE "unread"
  /\ (pc = "feed" /\ due' = "silent") \/ pc = "resync"
  /\ UNCHANGED <<config, statusVars, pc, subscribed, isSynced, tickVars, rtVars, ctlVars, waitVars, feedVars>>

\* Mutant of RunFails: the error is not reported before the pause.
RunFailsSilently ==
  /\ DropRt
  /\ Goto("wait") /\ UNCHANGED statusVars
  /\ UNCHANGED <<isSynced, due, notRun>>

RunFails ==
  /\ DropRt
  /\ Update("proc", "Failed") /\ Goto("wait")
  /\ UNCHANGED <<isSynced, due, notRun>>

RunFatal ==
  /\ DropRt
  /\ Update("proc", "Terminated") /\ Goto("ended")
  /\ UNCHANGED <<isSynced, due, notRun>>

TaskFails == \E p \in Tasks : ProcAt(p) /\ (RunFails \/ RunFatal)

FeedLagged == ProcAt("feed") /\ tickLag /\ RunFails

FeedRtEnded == ProcAt("feed") /\ rt \in {"failed", "stopped"} /\ RunFails

FeedTimeout == ProcAt("feed") /\ due # "no" /\ RunFails

WaitEnds ==
  /\ ProcAt("wait")
  /\ Update("proc", "Restarting")
  /\ Goto("begin")
  /\ UNCHANGED <<isSynced, due, tickVars, rtVars, notRun>>

\* Mutant of ProcShutdown: the signal is looked at between two runs only.
ProcShutdownBetweenRuns ==
  /\ ProcAt("wait") /\ signal
  /\ Goto("ended")
  /\ UNCHANGED <<statusVars, isSynced, due, tickVars, rtVars, notRun>>

ProcShutdown ==
  /\ signal /\ subscribed
  /\ pc \in Interruptible /\ Idle("proc")
  /\ DropRt
  /\ Goto("ended")
  /\ UNCHANGED <<statusVars, isSynced, due, aborted, notRun>>

ProcDropped ==
  /\ aborted # "no"
  /\ pc \in Suspended /\ Idle("proc")
  /\ DropRt
  /\ Goto("ended")
  /\ UNCHANGED <<statusVars, isSynced, due, aborted, notRun>>

-----------------------------------------------------------------------------
(* RealTimeCollectionTask::run                                             *)

notRt == <<config, statusVars, procVars, ctlVars, waitVars, feedVars>>

RtSubscribe ==
  /\ rt = "connecting" /\ rt' = "running"
  /\ UNCHANGED <<rtSignal, pending, inFlight, tickVars, notRt>>

RtFails ==
  /\ rt \in {"connecting", "running", "flushing"} /\ rt' = "failed"
  /\ pending' = 0
  /\ UNCHANGED <<rtSignal, inFlight, tickVars, notRt>>

\* A tick arrives; an operation is started unless one is under way.
RtTick ==
  /\ rt = "running"
  /\ IF inFlight = 0 THEN inFlight' = pending + 1 /\ pending' = 0
     ELSE pending < MaxPending /\ pending' = pending + 1 /\ UNCHANGED inFlight
  /\ UNCHANGED <<rt, rtSignal, tickVars, notRt>>

\* The stored ticks go to the process.
Deliver(n) ==
  IF ticks + n <= TickLimit THEN ticks' = ticks + n /\ UNCHANGED tickLag
  ELSE ticks' = TickLimit /\ tickLag' = TRUE

RtStored ==
  /\ rt = "running" /\ inFlight > 0
  /\ Deliver(inFlight)
  /\ inFlight' = pending /\ pending' = 0
  /\ UNCHANGED <<rt, rtSignal, notRt>>

RtShutdown ==
  /\ rt = "running" /\ rtSignal /\ rt' = "flushing"
  /\ UNCHANGED <<rtSignal, pending, inFlight, tickVars, notRt>>

\* First the operation under way, then the pending ticks.
RtFlush ==
  /\ rt = "flushing"
  /\ IF inFlight > 0
     THEN Deliver(inFlight) /\ inFlight' = 0 /\ UNCHANGED <<rt, pending>>
     ELSE Deliver(pending) /\ pending' = 0 /\ rt' = "stopped" /\ UNCHANGED inFlight
  /\ UNCHANGED <<rtSignal, notRt>>

\* The database operation is a task of its own: it ends also when nobody waits for it.
OrphanStored ==
  /\ rt \notin {"running", "flushing"} /\ inFlight > 0 /\ inFlight' = 0
  /\ UNCHANGED <<rt, rtSignal, pending, tickVars, notRt>>

RtDropped ==
  /\ rt = "aborting" /\ rt' = "none"
  /\ UNCHANGED <<rtSignal, pending, inFlight, tickVars, notRt>>

-----------------------------------------------------------------------------
(* SyncController::shutdown: the handle is consumed, so it runs once.      *)

notCtl == <<config, procVars, tickVars, rt, pending, inFlight, waitVars, feedVars>>

CtlBegin ==
  /\ ctl = "idle"
  /\ ctl' = IF Finished THEN "already" ELSE "init"
  /\ UNCHANGED <<signal, aborted, rtSignal, statusVars, notCtl>>

CtlInitiate ==
  /\ ctl = "init" /\ ctl' = "send"
  /\ Update("ctl", "ShutdownInitiated")
  /\ UNCHANGED <<signal, aborted, rtSignal, notCtl>>

\* The process and the real-time task each have a receiver, or no longer.
ProcListens == subscribed /\ ~Finished
RtListens == rt \in {"running", "flushing", "aborting"}

Abort == aborted' \in IF aborted = "no" THEN {"polling", "yes"} ELSE {aborted}

CtlSend ==
  /\ ctl = "send" /\ Idle("ctl")
  /\ IF ProcListens \/ RtListens
     THEN ctl' = "join" /\ UNCHANGED aborted
     ELSE ctl' = "unsent" /\ Abort
  /\ signal' = ProcListens /\ rtSignal' = RtListens
  /\ UNCHANGED <<statusVars, notCtl>>

\* Mutant of CtlJoined: shutdown() does not wait for the process.
CtlNotJoined ==
  /\ ctl = "join" /\ ctl' = "ok"
  /\ Update("ctl", "Shutdown")
  /\ UNCHANGED <<signal, aborted, rtSignal, notCtl>>

CtlJoined ==
  /\ ctl = "join" /\ Finished /\ ctl' = "ok"
  /\ Update("ctl", "Shutdown")
  /\ UNCHANGED <<signal, aborted, rtSignal, notCtl>>

\* ShutdownTimeout or SendShutdownSignalFailed.
CtlGivesUp ==
  /\ ctl = "unsent" \/ (ctl = "join" /\ ~Finished)
  /\ ctl' = "error" /\ Abort
  /\ Update("ctl", "Terminated")
  /\ UNCHANGED <<signal, rtSignal, notCtl>>

-----------------------------------------------------------------------------
(* SyncController::until_stopped                                           *)

notWait == <<config, statusVars, procVars, tickVars, rtVars, ctlVars>>

WaitReturns(s) == wait' = "returned" /\ waitResult' = s

WaitSubscribe ==
  /\ wait = "idle" /\ wait' = "subscribed"
  /\ UNCHANGED <<waitResult, feedVars, notWait>>

\* Mutant of WaitSnapshot: only updates count.
WaitNoSnapshot ==
  /\ wait = "subscribed" /\ wait' = "listening"
  /\ UNCHANGED <<waitResult, feedVars, notWait>>

WaitSnapshot ==
  /\ wait = "subscribed"
  /\ IF status \in Stopped THEN WaitReturns(status) ELSE wait' = "listening" /\ UNCHANGED waitResult
  /\ UNCHANGED <<feedVars, notWait>>

WaitRecv ==
  /\ wait = "listening" /\ ~feedLag /\ feed # <<>>
  /\ feed' = Tail(feed)
  /\ IF Head(feed) \in Stopped THEN WaitReturns(Head(feed)) ELSE UNCHANGED waitVars
  /\ UNCHANGED <<feedLag, notWait>>

WaitLagged ==
  /\ wait = "listening" /\ feedLag /\ feedLag' = FALSE
  /\ IF status \in Stopped THEN WaitReturns(status) ELSE UNCHANGED waitVars
  /\ UNCHANGED <<feed, notWait>>

-----------------------------------------------------------------------------
RunStep ==
  \/ RunBegin \/ HistoryDone \/ FundingDone \/ PauseEnds
  \/ Connect \/ FeedTick \/ ResyncStart \/ ResyncDone \/ PollStart \/ PollDone
  \/ TaskFails \/ FeedLagged \/ FeedRtEnded \/ FeedTimeout
  \/ WaitEnds

Process == ProcStart \/ ProcSubscribe \/ RunStep \/ ProcShutdown \/ ProcDropped

RealTime ==
  \/ RtSubscribe \/ RtFails \/ RtTick \/ RtStored
  \/ RtShutdown \/ RtFlush \/ OrphanStored \/ RtDropped

Controller == CtlBegin \/ CtlInitiate \/ CtlSend \/ CtlJoined \/ CtlGivesUp

Waiter == WaitSubscribe \/ WaitSnapshot \/ WaitRecv \/ WaitLagged

Next ==
  \/ Process \/ TickTimer \/ RealTime \/ Controller \/ Waiter
  \/ Broadcast("proc") \/ Broadcast("ctl")

Spec == Init /\ [][Next]_vars

\* Tasks are scheduled, awaited calls return, timers elapse, an aborted task is dropped
\* and the shutdown arm, once ready, is ready at every poll. Nothing is asked of the
\* stream, of failures, of shutdown() being called or of its timeout.
Fairness ==
  /\ WF_vars(ProcStart) /\ WF_vars(ProcSubscribe) /\ WF_vars(RunStep)
  /\ SF_vars(ProcShutdown) /\ SF_vars(ProcDropped)
  /\ WF_vars(OrphanStored) /\ WF_vars(RtDropped)
  /\ WF_vars(CtlInitiate) /\ WF_vars(CtlSend) /\ WF_vars(CtlJoined)
  /\ WF_vars(Broadcast("proc")) /\ WF_vars(Broadcast("ctl"))
  /\ WF_vars(WaitSnapshot) /\ SF_vars(WaitRecv) /\ SF_vars(WaitLagged)

FairSpec == Spec /\ Fairness

-----------------------------------------------------------------------------
(* Properties.                                                             *)

\* Synced is never left over: until a shutdown begins, the status says Synced only while
\* the process is in the loop that follows the first synchronisation of its present
\* run, and with the stream only once a tick of this run arrived.
SyncedIsCurrent ==
  status = "Synced" /\ ctl \in {"idle", "init"} =>
    pc \in Loops /\ (stream => isSynced)

\* What a successful shutdown() leaves: the process has ended and the status is Shutdown,
\* whatever the process was doing and whichever of the two wrote last before.
ShutdownIsFinal == ctl = "ok" => status = "Shutdown" /\ Finished

Holds(queue) == \E i \in DOMAIN queue : queue[i] \in Stopped

\* A stop that until_stopped() has not learnt of is on its way to it, whichever writer
\* stored it and whatever came in between: in its receiver, stored and not yet broadcast, or
\* behind a lag, after which the status is read again.
StopIsOnItsWay ==
  wait = "listening" /\ status \in Stopped =>
    feedLag \/ Holds(feed) \/ \E w \in DOMAIN out : Holds(out[w])

\* Whoever waits in shutdown() waits for a process that was told: it has the signal in its
\* receiver, or is aborted. That the real-time task alone took the signal is not enough.
ShutdownIsHeard ==
  ctl \in {"join", "unsent", "error"} =>
    \/ pc = "ended" \/ (signal /\ subscribed)
    \/ aborted # "no" /\ ctl # "join"

\* until_stopped() returns when the process has stopped for good: the receiver exists
\* before the status is read, and after a lag the status is read again.
StopIsReported == <>[](status \in Stopped) => (wait = "subscribed" ~> wait = "returned")

\* Once shutdown() signalled or aborted the process it ends, at whatever await it is, without
\* help of the timeout.
ProcessEnds == ctl \in {"join", "unsent"} ~> pc = "ended"

=============================================================================
