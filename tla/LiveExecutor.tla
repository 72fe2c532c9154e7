---------------------------- MODULE LiveExecutor ----------------------------
(***************************************************************************)
(* The readiness protocol of the live trade executor.                      *)
(*                                                                         *)
(* Four parties meet at one mutex (`LiveTradeExecutorStateManager::state`):*)
(*   - the sync engine, which stores its status, then broadcasts it on a   *)
(*     bounded channel together with price ticks;                          *)
(*   - the sync processor, the task that turns that feed into readiness    *)
(*     and rebuilds the trading session on a timer;                        *)
(*   - the callers of the `TradeExecutor` methods (operators);             *)
(*   - `LiveTradeExecutor::shutdown`.                                      *)
(*                                                                         *)
(* An `.await` is where another party may run and where a task can be      *)
(* cancelled. What a task does between two awaits is one action, except    *)
(* where the code releases the mutex or reads shared state in between.     *)
(* What the trading session holds is the subject of LiveSession; here it   *)
(* is only present or absent.                                              *)
(***************************************************************************)
EXTENDS Naturals, Sequences, FiniteSets

CONSTANTS
  Clients,    \* callers of the executor's methods
  Capacity,   \* capacity of the sync update channel (1_000 in the code)
  CleanUp,    \* LiveTradeExecutorConfig::shutdown_clean_up_trades
  MaxFaults,  \* bound: how often a session refresh may fail
  None        \* no owner, nothing to send

ASSUME CapacityAssumption == Capacity \in Nat \ {0}
ASSUME FaultsAssumption == MaxFaults \in Nat
ASSUME CleanUpAssumption == CleanUp \in BOOLEAN
ASSUME ClientsAssumption == Clients \cap {"proc", "shut", None} = {}
ASSUME NoneAssumption == None \notin
  {"proc", "shut", "WaitingForSync", "Failed"} \cup
  {"NotSynced", "Synced", "Terminated", "ShutdownInitiated", "Shutdown"}

VARIABLES
  syncStatus,    \* SyncStatusManager::status
  unsent,        \* a status stored and not yet broadcast, or None
  feed,          \* updates the processor's receiver has still to read
  lagged,        \* the receiver lost an update and has not been told yet
  lagSeen,       \* history: an update was lost at some time
  status,        \* LiveTradeExecutorState::status
  hasSession,    \* LiveTradeExecutorState::trading_session.is_some()
  owner,         \* who holds the state mutex
  waiting,       \* who waits for the state mutex
  procPc,        \* control point of the sync processor
  pending,       \* the not-ready status the processor is about to write, or None
  isSynced,      \* the processor's `is_synced`
  shouldRefresh, \* the processor's `should_refresh`
  aborted,       \* abort() was called on the processor's handle
  clientPc,      \* control point of each caller
  shutPc,        \* control point of `LiveTradeExecutor::shutdown`
  finalStatus,   \* the status `shutdown` ends with
  faults         \* refresh failures so far

syncVars == <<syncStatus, unsent>>
feedVars == <<feed, lagged, lagSeen>>
lockVars == <<owner, waiting>>
stateVars == <<status, hasSession>>
flagVars == <<isSynced, shouldRefresh>>
procVars == <<procPc, pending, flagVars>>
shutVars == <<shutPc, finalStatus, aborted>>

\* What the sync engine, the processor, a caller and shutdown() never change.
notSync == <<stateVars, lockVars, procVars, shutVars, clientPc, faults>>
notProc == <<syncVars, shutVars, clientPc>>
notClient == <<syncVars, feedVars, procVars, shutVars, faults>>
notShut == <<syncVars, feedVars, procVars, clientPc, faults>>

vars == <<syncVars, feedVars, stateVars, lockVars, procVars, shutVars, clientPc, faults>>

-----------------------------------------------------------------------------
SyncStatus == {"NotSynced", "Synced", "Terminated", "ShutdownInitiated", "Shutdown"}
SyncStopped == {"Terminated", "ShutdownInitiated", "Shutdown"}

\* "Data" is SyncUpdate::PriceTick or PriceHistoryState; "Other" is an update the
\* processor ignores (FundingSettlementsState, SyncStatus::Backfilled).
Update == SyncStatus \cup {"Data", "Other"}

NotReady == {"Starting", "WaitingForSync", "Failed", "Terminated", "ShutdownInitiated", "Shutdown"}
Status == NotReady \cup {"Ready"}

Actors == Clients \cup {"proc", "shut"}

\* Control points of the processor at which its future is suspended: abort() takes
\* effect there. At the others the task runs until its next suspension.
Suspended == {"spawned", "select", "setQueued", "refreshQueued", "fetching"}
Running == {"snapshot", "setting", "draining", "refresh"}
Ended == {"done", "dropped"}

ShutEnded == {"returned", "alreadyTerminated", "timedOut"}
ShutPcs == ShutEnded \cup {"idle", "init", "abort", "check", "cleanup", "final"}

TypeOK ==
  /\ syncStatus \in SyncStatus
  /\ unsent \in SyncStatus \cup {None}
  /\ feed \in Seq(Update)
  /\ Len(feed) <= Capacity
  /\ lagged \in BOOLEAN /\ lagSeen \in BOOLEAN
  /\ status \in Status
  /\ hasSession \in BOOLEAN
  /\ owner \in Actors \cup {None}
  /\ waiting \in SUBSET Actors
  /\ procPc \in Suspended \cup Running \cup Ended
  /\ pending \in {"WaitingForSync", "Failed", "Terminated", None}
  /\ isSynced \in BOOLEAN /\ shouldRefresh \in BOOLEAN
  /\ aborted \in BOOLEAN
  /\ clientPc \in [Clients -> {"idle", "locking", "acting"}]
  /\ shutPc \in ShutPcs
  /\ finalStatus \in {"Shutdown", "Terminated"}
  /\ faults \in 0..MaxFaults

\* The executor is launched by the live process after the sync engine was started.
Init ==
  /\ syncStatus \in {"NotSynced", "Synced"}
  /\ unsent = None
  /\ feed = <<>> /\ lagged = FALSE /\ lagSeen = FALSE
  /\ status = "Starting" /\ hasSession = FALSE
  /\ owner = None /\ waiting = {}
  /\ procPc = "spawned" /\ pending = None
  /\ isSynced = FALSE /\ shouldRefresh = FALSE
  /\ aborted = FALSE
  /\ clientPc = [c \in Clients |-> "idle"]
  /\ shutPc = "idle" /\ finalStatus = "Shutdown"
  /\ faults = 0

-----------------------------------------------------------------------------
(* The mutex (tokio::sync::Mutex). The order of its queue is left open.    *)

Free == owner = None /\ waiting = {}

Request(a) == waiting' = waiting \cup {a} /\ UNCHANGED owner

Release == owner' = None /\ UNCHANGED waiting

\* A future that is dropped gives up its place in the queue, or the mutex.
GiveUp(a) ==
  /\ waiting' = waiting \ {a}
  /\ owner' = IF owner = a THEN None ELSE owner

Grant(a) ==
  /\ owner = None /\ a \in waiting
  /\ owner' = a
  /\ waiting' = waiting \ {a}
  /\ UNCHANGED <<syncVars, feedVars, stateVars, procVars, shutVars, clientPc, faults>>

-----------------------------------------------------------------------------
(* The sync engine, as its readers see it.                                 *)

\* broadcast::Sender::send: without a receiver the update is lost, with a full
\* channel the oldest one is.
Push(u) ==
  IF procPc \in Ended \cup {"spawned"}
  THEN UNCHANGED feedVars
  ELSE IF Len(feed) < Capacity
       THEN feed' = Append(feed, u) /\ UNCHANGED <<lagged, lagSeen>>
       ELSE feed' = Append(Tail(feed), u) /\ lagged' = TRUE /\ lagSeen' = TRUE

\* SyncStatusManager::update stores under its own mutex ...
SyncStore(s) ==
  /\ unsent = None
  /\ IF syncStatus = "ShutdownInitiated" THEN s \in {"Shutdown", "Terminated"}
     ELSE syncStatus \notin SyncStopped /\ s # "Shutdown"
  /\ s = syncStatus => s = "NotSynced"   \* only NotSynced(_) has distinct values
  /\ syncStatus' = s /\ unsent' = s
  /\ UNCHANGED <<feedVars, notSync>>

\* ... and broadcasts once that mutex is released.
SyncSend ==
  /\ unsent # None
  /\ Push(unsent)
  /\ unsent' = None
  /\ UNCHANGED <<syncStatus, notSync>>

SyncData(u) ==
  /\ unsent = None /\ syncStatus \notin SyncStopped
  /\ Push(u)
  /\ UNCHANGED <<syncVars, notSync>>

-----------------------------------------------------------------------------
(* The sync processor.                                                     *)

\* The receiver exists before the status is read, so no change is missed.
ProcSubscribe ==
  /\ procPc = "spawned" /\ ~aborted
  /\ procPc' = "snapshot"
  /\ UNCHANGED <<pending, flagVars, feedVars, stateVars, lockVars, faults, notProc>>

\* Mutant of ProcSnapshot: only updates count.
ProcSnapshotBlind ==
  /\ procPc = "snapshot"
  /\ isSynced' = FALSE /\ shouldRefresh' = FALSE
  /\ procPc' = "select"
  /\ UNCHANGED <<pending, feedVars, stateVars, lockVars, faults, notProc>>

ProcSnapshot ==
  /\ procPc = "snapshot"
  /\ isSynced' = (syncStatus = "Synced")
  /\ shouldRefresh' = (syncStatus = "Synced")
  /\ procPc' = "select"
  /\ UNCHANGED <<pending, feedVars, stateVars, lockVars, faults, notProc>>

\* The arms of the match on a received update, up to their next await.
SetNotReady(s) == pending' = s /\ procPc' = "setting"

\* Mutant of OnNotSynced: a refresh that was armed stays armed.
OnNotSyncedStaysArmed ==
  isSynced' = FALSE /\ UNCHANGED shouldRefresh /\ SetNotReady("WaitingForSync")

OnNotSynced == isSynced' = FALSE /\ shouldRefresh' = FALSE /\ SetNotReady("WaitingForSync")

OnStopped == SetNotReady("Terminated") /\ UNCHANGED flagVars

OnSynced == isSynced' = TRUE /\ shouldRefresh' = TRUE /\ UNCHANGED <<procPc, pending>>

\* Mutant of OnData: price data does not arm a refresh.
OnDataIgnored == UNCHANGED procVars

OnData == shouldRefresh' = isSynced /\ UNCHANGED <<procPc, pending, isSynced>>

Handle(u) ==
  \/ u = "NotSynced" /\ OnNotSynced
  \/ u \in SyncStopped /\ OnStopped
  \/ u = "Synced" /\ OnSynced
  \/ u = "Data" /\ OnData
  \/ u = "Other" /\ UNCHANGED procVars

ProcRecv ==
  /\ procPc = "select" /\ ~aborted
  /\ ~lagged /\ feed # <<>>
  /\ Handle(Head(feed))
  /\ feed' = Tail(feed)
  /\ UNCHANGED <<lagged, lagSeen, stateVars, lockVars, faults, notProc>>

\* RecvError::Lagged
ProcRecvLagged ==
  /\ procPc = "select" /\ ~aborted
  /\ lagged /\ lagged' = FALSE
  /\ SetNotReady("Failed")
  /\ UNCHANGED <<feed, lagSeen, flagVars, stateVars, lockVars, faults, notProc>>

\* LockedLiveTradeExecutorState::update_status_not_ready
WriteNotReady(s) == status' = s /\ UNCHANGED hasSession

\* The processor writes `pending` and goes on behind the await.
WritePending ==
  /\ WriteNotReady(pending)
  /\ pending' = None
  /\ procPc' = CASE pending = "WaitingForSync" -> "select"
                 [] pending = "Failed" -> "draining"
                 [] pending = "Terminated" -> "done"
  /\ UNCHANGED <<flagVars, feedVars, faults, notProc>>

\* Mutant of ProcSetNow: the status is written without taking the mutex.
ProcSetUnlocked == procPc = "setting" /\ WritePending /\ UNCHANGED lockVars

\* The mutex is free: taken, written under and released without suspending.
ProcSetNow == procPc = "setting" /\ Free /\ WritePending /\ UNCHANGED lockVars

ProcSetQueue ==
  /\ procPc = "setting" /\ ~Free
  /\ Request("proc")
  /\ procPc' = "setQueued"
  /\ UNCHANGED <<pending, flagVars, feedVars, stateVars, faults, notProc>>

ProcSetGranted ==
  procPc = "setQueued" /\ owner = "proc" /\ ~aborted /\ WritePending /\ Release

\* "Drain all remaining messages to catch up to current state": the updates are
\* thrown away, is_synced and should_refresh keep their values.
ProcDrain ==
  /\ procPc = "draining"
  /\ feed' = <<>> /\ lagged' = FALSE
  /\ procPc' = "select"
  /\ UNCHANGED <<lagSeen, pending, flagVars, stateVars, lockVars, faults, notProc>>

\* The refresh timer fires (with should_refresh unset it is only armed again).
ProcTimer ==
  /\ procPc = "select" /\ ~aborted
  /\ shouldRefresh /\ shouldRefresh' = FALSE
  /\ procPc' = "refresh"
  /\ UNCHANGED <<pending, isSynced, feedVars, stateVars, lockVars, faults, notProc>>

\* Mutant of RefreshLock: the session is fetched without the mutex.
RefreshUnlocked ==
  /\ procPc = "refresh" /\ procPc' = "fetching"
  /\ UNCHANGED <<pending, flagVars, feedVars, stateVars, lockVars, faults, notProc>>

\* refresh_trading_session keeps the mutex through its REST and database calls.
RefreshLock ==
  /\ procPc = "refresh"
  /\ IF Free
     THEN owner' = "proc" /\ procPc' = "fetching" /\ UNCHANGED waiting
     ELSE Request("proc") /\ procPc' = "refreshQueued"
  /\ UNCHANGED <<pending, flagVars, feedVars, stateVars, faults, notProc>>

RefreshGranted ==
  /\ procPc = "refreshQueued" /\ owner = "proc" /\ ~aborted
  /\ procPc' = "fetching"
  /\ UNCHANGED <<pending, flagVars, feedVars, stateVars, lockVars, faults, notProc>>

\* LockedLiveTradeExecutorState::update_status_ready
WriteReady == status' = "Ready" /\ hasSession' = TRUE

RefreshOk ==
  /\ procPc = "fetching" /\ ~aborted
  /\ WriteReady /\ Release
  /\ procPc' = "select"
  /\ UNCHANGED <<pending, flagVars, feedVars, faults, notProc>>

RefreshErr ==
  /\ procPc = "fetching" /\ ~aborted
  /\ faults < MaxFaults /\ faults' = faults + 1
  /\ WriteNotReady("Failed") /\ Release
  /\ procPc' = "select"
  /\ UNCHANGED <<pending, flagVars, feedVars, notProc>>

\* The runtime drops an aborted task at a suspension point, receiver included.
ProcDropped ==
  /\ aborted /\ procPc \in Suspended
  /\ procPc' = "dropped" /\ pending' = None
  /\ GiveUp("proc")
  /\ feed' = <<>> /\ lagged' = FALSE
  /\ UNCHANGED <<lagSeen, flagVars, stateVars, faults, notProc>>

-----------------------------------------------------------------------------
(* A call of a TradeExecutor method.                                       *)

ClientGoto(c, pc) == clientPc' = [clientPc EXCEPT ![c] = pc]

ClientCall(c) ==
  /\ clientPc[c] = "idle" /\ ClientGoto(c, "locking")
  /\ Request(c)
  /\ UNCHANGED <<stateVars, notClient>>

\* try_lock_ready_state
ClientTryLockReady(c) ==
  /\ clientPc[c] = "locking" /\ owner = c
  /\ IF status = "Ready" /\ hasSession
     THEN ClientGoto(c, "acting") /\ UNCHANGED lockVars
     ELSE ClientGoto(c, "idle") /\ Release
  /\ UNCHANGED <<stateVars, notClient>>

\* The method ends with update_trading_session ...
ClientDone(c) ==
  /\ clientPc[c] = "acting" /\ ClientGoto(c, "idle")
  /\ WriteReady /\ Release
  /\ UNCHANGED notClient

\* ... or with an error, or its future is dropped (LiveProcess::recovery_loop leaves
\* its select!): nothing is written.
ClientLeaves(c) ==
  /\ clientPc[c] # "idle" /\ ClientGoto(c, "idle")
  /\ GiveUp(c)
  /\ UNCHANGED <<stateVars, notClient>>

-----------------------------------------------------------------------------
(* LiveTradeExecutor::shutdown: the handle is consumed, so it runs once.   *)

ShutBegin ==
  /\ shutPc = "idle"
  /\ shutPc' = IF procPc = "done" THEN "alreadyTerminated" ELSE "init"
  /\ UNCHANGED <<finalStatus, aborted, stateVars, lockVars, notShut>>

ShutRequest ==
  /\ shutPc \in {"init", "final"} \/ (shutPc = "check" /\ CleanUp)
  /\ owner # "shut" /\ "shut" \notin waiting
  /\ Request("shut")
  /\ UNCHANGED <<shutVars, stateVars, notShut>>

ShutInitiate ==
  /\ shutPc = "init" /\ owner = "shut"
  /\ WriteNotReady("ShutdownInitiated") /\ Release
  /\ shutPc' = "abort"
  /\ UNCHANGED <<finalStatus, aborted, notShut>>

\* Mutant of ShutAbort: the processor is left running.
ShutNoAbort ==
  /\ shutPc = "abort" /\ shutPc' = "check"
  /\ UNCHANGED <<finalStatus, aborted, stateVars, lockVars, notShut>>

\* Mutant of ShutAbort: the end of the processor is awaited instead.
ShutJoins ==
  /\ shutPc = "abort" /\ procPc \in Ended /\ shutPc' = "check"
  /\ UNCHANGED <<finalStatus, aborted, stateVars, lockVars, notShut>>

ShutAbort ==
  /\ shutPc = "abort" /\ shutPc' = "check"
  /\ aborted' = TRUE
  /\ UNCHANGED <<finalStatus, stateVars, lockVars, notShut>>

\* Without clean-up `has_registered_running_trades` is not evaluated.
ShutSkipCleanUp ==
  /\ shutPc = "check" /\ ~CleanUp
  /\ shutPc' = "final"
  /\ UNCHANGED <<finalStatus, aborted, stateVars, lockVars, notShut>>

ShutCheckTrades(registered) ==
  /\ shutPc = "check" /\ owner = "shut"
  /\ registered => hasSession
  /\ shutPc' = IF registered THEN "cleanup" ELSE "final"
  /\ Release
  /\ UNCHANGED <<finalStatus, aborted, stateVars, notShut>>

\* clean_up_all_trades: four REST calls made without the mutex.
ShutCleanUp(s) ==
  /\ shutPc = "cleanup" /\ shutPc' = "final"
  /\ finalStatus' = s
  /\ UNCHANGED <<aborted, stateVars, lockVars, notShut>>

ShutFinish ==
  /\ shutPc = "final" /\ owner = "shut"
  /\ WriteNotReady(finalStatus) /\ Release
  /\ shutPc' = "returned"
  /\ UNCHANGED <<finalStatus, aborted, notShut>>

\* The live controller's shutdown_timeout aborts the live process: this future is
\* dropped, and with it the processor's AbortOnDropHandle.
ShutTimeout ==
  /\ shutPc \in {"init", "check", "cleanup", "final"}
  /\ shutPc' = "timedOut" /\ aborted' = TRUE
  /\ GiveUp("shut")
  /\ UNCHANGED <<finalStatus, stateVars, notShut>>

-----------------------------------------------------------------------------
Sync ==
  \/ \E s \in SyncStatus : SyncStore(s)
  \/ SyncSend
  \/ \E u \in {"Data", "Other"} : SyncData(u)

Processor ==
  \/ ProcSubscribe \/ ProcSnapshot
  \/ ProcRecv \/ ProcRecvLagged
  \/ ProcSetNow \/ ProcSetQueue \/ ProcSetGranted \/ ProcDrain
  \/ ProcTimer \/ RefreshLock \/ RefreshGranted \/ RefreshOk \/ RefreshErr
  \/ ProcDropped

Client(c) == ClientCall(c) \/ ClientTryLockReady(c) \/ ClientDone(c) \/ ClientLeaves(c)

\* The steps of shutdown() that its caller's task takes by itself.
ShutStep ==
  \/ ShutRequest \/ ShutInitiate \/ ShutAbort \/ ShutSkipCleanUp
  \/ \E b \in BOOLEAN : ShutCheckTrades(b)
  \/ \E s \in {"Shutdown", "Terminated"} : ShutCleanUp(s)
  \/ ShutFinish

Shutdown == ShutBegin \/ ShutStep \/ ShutTimeout

Next ==
  \/ Sync
  \/ Processor
  \/ \E c \in Clients : Client(c)
  \/ Shutdown
  \/ \E a \in Actors : Grant(a)

Spec == Init /\ [][Next]_vars

\* Tasks are scheduled, REST calls return (the client has a timeout), the mutex is
\* FIFO, `select!` picks among ready arms at random, and a live feed keeps delivering
\* (a silent one makes the sync engine leave Synced).
TaskFairness ==
  /\ WF_vars(Processor)
  /\ SF_vars(ProcRecv) /\ SF_vars(ProcTimer)
  /\ \A a \in Actors : SF_vars(Grant(a))
  /\ \A c \in Clients : WF_vars(ClientTryLockReady(c)) /\ WF_vars(ClientDone(c))
  /\ WF_vars(ShutStep)

Fairness == TaskFairness /\ WF_vars(SyncSend) /\ WF_vars(SyncData("Data"))

FairSpec == Spec /\ Fairness

-----------------------------------------------------------------------------
(* Safety.                                                                 *)

\* A method that passed try_lock_ready_state works on a ready state with a session to
\* its end, whatever the other parties do: LockedLiveTradeExecutorStateReady::
\* trading_session() cannot reach its panic nor its unwrap.
ReadyGuardHolds ==
  \A c \in Clients : clientPc[c] = "acting" => status = "Ready" /\ hasSession

\* "Mutating executor actions cannot interleave with the rebuild's reads": while a
\* refresh fetches, no method is between its guard and its end, and no two methods are.
RefreshExcludesActions ==
  \A c \in Clients :
    clientPc[c] = "acting" =>
      /\ procPc # "fetching"
      /\ \A d \in Clients \ {c} : clientPc[d] # "acting"

\* As long as the receiver never lagged, a ready executor is backed by a synced
\* engine, or the change that will withdraw readiness is on its way to the processor
\* (stored and not sent, queued, or being written). The subscription made before the
\* status is read, and the reset of should_refresh, are what this rests on.
ReadyIsBacked ==
  status = "Ready" /\ ~lagSeen /\ procPc \notin Ended =>
    \/ syncStatus = "Synced"
    \/ unsent # None
    \/ \E i \in DOMAIN feed : feed[i] \in {"NotSynced"} \cup SyncStopped
    \/ procPc \in {"setting", "setQueued"}

\* The other way round, an executor that is still waiting for an engine that is synced does
\* not wait in vain: the processor has a refresh armed or under way, or Synced is on its way
\* to it (stored and not sent, or queued behind whatever NotSynced came before).
SyncedIsAwaited ==
  /\ status \in {"Starting", "WaitingForSync"} /\ syncStatus = "Synced" /\ ~lagSeen
  /\ procPc \notin Ended \cup {"spawned", "snapshot"}
  => \/ unsent # None
     \/ \E i \in DOMAIN feed : feed[i] = "Synced"
     \/ shouldRefresh \/ procPc \in {"refresh", "refreshQueued", "fetching"}

\* Once shutdown() returned, the executor is not ready, and never again becomes so:
\* aborting the processor and the last status write leave it no way to finish a refresh.
NoReadyAfterShutdown == shutPc = "returned" => status # "Ready"

-----------------------------------------------------------------------------
(* Liveness.                                                               *)

\* If the engine stays synced, no update is lost and nobody shuts the executor down, it
\* gets ready and stays so, failed refreshes included: price data arms the next attempt.
EventuallyReady ==
  <>[](syncStatus = "Synced" /\ ~lagSeen /\ shutPc = "idle") => <>[](status = "Ready")

\* shutdown() is not blocked for ever by the mutex: whoever holds it finishes, fails
\* or is cancelled, and then lets go of it.
ShutdownCompletes == shutPc = "init" ~> shutPc \in ShutEnded

=============================================================================
