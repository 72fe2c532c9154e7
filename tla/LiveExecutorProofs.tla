------------------------- MODULE LiveExecutorProofs -------------------------
(***************************************************************************)
(* Safety of the live executor: of its readiness protocol, for any number  *)
(* of callers, any channel capacity and any number of refresh failures,    *)
(* and of the session behind it, what it promises about its rows and its   *)
(* trades, for any finite set of trades, chunk size and bound.             *)
(***************************************************************************)
EXTENDS LiveExecutor, LiveSession, SetLemmas, TLAPS

-----------------------------------------------------------------------------
(* The readiness protocol.                                                 *)

\* Who is behind the guard, or fetching, holds the mutex.
LockInv ==
  /\ \A c \in Clients : clientPc[c] = "acting" => owner = c
  /\ procPc = "fetching" => owner = "proc"

\* The processor that is writing has a status to write.
PendingInv == procPc \in {"setting", "setQueued"} => pending # None

\* Behind handle.abort() the processor is aborted.
AbortInv == shutPc \in {"check", "cleanup", "final", "returned"} => aborted

LEMMA NoneIsNew ==
  /\ None \notin {"proc", "shut", "WaitingForSync", "Failed", "Terminated"}
  /\ None \notin SyncStatus
  /\ None \notin Clients
  /\ "proc" \notin Clients
  /\ "shut" \notin Clients
BY NoneAssumption, ClientsAssumption DEF SyncStatus

\* The initial states are well typed.
LEMMA InitType == Init => TypeOK
<1> SUFFICES ASSUME Init PROVE TypeOK
  OBVIOUS
<1>1. syncStatus \in SyncStatus /\ unsent \in SyncStatus \cup {None}
  BY DEF Init, SyncStatus
<1>2. feed \in Seq(Update) /\ Len(feed) <= Capacity
  BY CapacityAssumption DEF Init
<1>3. lagged \in BOOLEAN /\ lagSeen \in BOOLEAN /\ hasSession \in BOOLEAN
      /\ isSynced \in BOOLEAN /\ shouldRefresh \in BOOLEAN /\ aborted \in BOOLEAN
  BY Zenon DEF Init
<1>4. status \in Status /\ procPc \in Suspended \cup Running \cup Ended
      /\ shutPc \in ShutPcs
  BY DEF Init, Status, NotReady, Suspended, ShutPcs
<1>5. owner \in Actors \cup {None} /\ waiting \in SUBSET Actors
  BY DEF Init
<1>6. pending \in {"WaitingForSync", "Failed", "Terminated", None}
      /\ finalStatus \in {"Shutdown", "Terminated"}
  BY DEF Init
<1>7. clientPc \in [Clients -> {"idle", "locking", "acting"}]
  BY DEF Init
<1>8. faults \in 0..MaxFaults
  BY FaultsAssumption DEF Init
<1> QED
  BY <1>1, <1>2, <1>3, <1>4, <1>5, <1>6, <1>7, <1>8 DEF TypeOK


LEMMA EmptyFeed == <<>> \in Seq(Update) /\ Len(<<>>) <= Capacity
BY CapacityAssumption

\* What a send does to the feed.
LEMMA PushType ==
  ASSUME TypeOK, NEW u \in Update, Push(u)
  PROVE  feed' \in Seq(Update) /\ Len(feed') <= Capacity /\ lagged' \in BOOLEAN /\ lagSeen' \in BOOLEAN
<1> SUFFICES ASSUME procPc \notin Ended \cup {"spawned"}
             PROVE  /\ feed' \in Seq(Update) /\ Len(feed') <= Capacity
                    /\ lagged' \in BOOLEAN /\ lagSeen' \in BOOLEAN
  BY DEF TypeOK, Push, feedVars
<1>1. CASE Len(feed) < Capacity
  <2>1. feed' = Append(feed, u) /\ UNCHANGED <<lagged, lagSeen>>
    BY <1>1 DEF Push
  <2> QED
    BY <1>1, <2>1, CapacityAssumption DEF TypeOK
<1>2. CASE ~(Len(feed) < Capacity)
  <2>1. feed' = Append(Tail(feed), u) /\ lagged' = TRUE /\ lagSeen' = TRUE
    BY <1>2 DEF Push
  <2>2. feed \in Seq(Update) /\ feed # <<>> /\ Len(feed) <= Capacity
    BY <1>2, CapacityAssumption DEF TypeOK
  <2>3. feed' \in Seq(Update) /\ Len(feed') <= Capacity
    BY <2>1, <2>2, CapacityAssumption
  <2> QED
    BY <2>1, <2>3
<1> QED
  BY <1>1, <1>2

\* The sync engine preserves types.
LEMMA SyncType ==
  ASSUME TypeOK, PendingInv, Sync
  PROVE  TypeOK' /\ PendingInv'
<1> USE DEF syncVars, feedVars, notSync, stateVars, lockVars, procVars, flagVars, shutVars
<1>1. CASE \E s \in SyncStatus : SyncStore(s)
  BY <1>1 DEF SyncStore, TypeOK, PendingInv
<1>2. CASE SyncSend
  BY <1>2, PushType DEF SyncSend, TypeOK, PendingInv, Update
<1>3. CASE \E u \in {"Data", "Other"} : SyncData(u)
  BY <1>3, PushType DEF SyncData, TypeOK, PendingInv, Update
<1> QED
  BY <1>1, <1>2, <1>3 DEF Sync

\* A caller preserves types.
LEMMA ClientType ==
  ASSUME TypeOK, PendingInv, NEW c \in Clients, Client(c)
  PROVE  TypeOK' /\ PendingInv'
<1> USE DEF syncVars, feedVars, notClient, stateVars, lockVars, procVars, flagVars, shutVars, ClientGoto, Actors
<1>1. CASE ClientCall(c)
  BY <1>1 DEF ClientCall, Request, TypeOK, PendingInv
<1>2. CASE ClientTryLockReady(c)
  BY <1>2 DEF ClientTryLockReady, Release, TypeOK, PendingInv
<1>3. CASE ClientDone(c)
  BY <1>3 DEF ClientDone, WriteReady, Release, TypeOK, PendingInv, Status
<1>4. CASE ClientLeaves(c)
  BY <1>4 DEF ClientLeaves, GiveUp, TypeOK, PendingInv
<1> QED
  BY <1>1, <1>2, <1>3, <1>4 DEF Client

\* shutdown() preserves types.
LEMMA ShutType ==
  ASSUME TypeOK, PendingInv, Shutdown
  PROVE  TypeOK' /\ PendingInv'
<1> USE DEF syncVars, feedVars, notShut, stateVars, lockVars, procVars, flagVars, shutVars, Actors, ShutPcs, ShutEnded, TypeOK, PendingInv
<1>1. CASE ShutBegin
  BY <1>1 DEF ShutBegin
<1>2. CASE ShutRequest
  BY <1>2 DEF ShutRequest, Request
<1>3. CASE ShutInitiate
  BY <1>3 DEF ShutInitiate, WriteNotReady, Release, Status, NotReady
<1>4. CASE ShutAbort
  BY <1>4 DEF ShutAbort
<1>5. CASE ShutSkipCleanUp
  BY <1>5 DEF ShutSkipCleanUp
<1>6. CASE \E b \in BOOLEAN : ShutCheckTrades(b)
  BY <1>6 DEF ShutCheckTrades, Release
<1>7. CASE \E s \in {"Shutdown", "Terminated"} : ShutCleanUp(s)
  BY <1>7 DEF ShutCleanUp
<1>8. CASE ShutFinish
  BY <1>8 DEF ShutFinish, WriteNotReady, Release, Status, NotReady
<1>9. CASE ShutTimeout
  BY <1>9 DEF ShutTimeout, GiveUp
<1> QED
  BY <1>1, <1>2, <1>3, <1>4, <1>5, <1>6, <1>7, <1>8, <1>9 DEF Shutdown, ShutStep

\* The processor preserves types.
LEMMA ProcessorType ==
  ASSUME TypeOK, PendingInv, Processor
  PROVE  TypeOK' /\ PendingInv'
<1> USE NoneIsNew DEF syncVars, feedVars, notProc, stateVars, lockVars, procVars, flagVars, shutVars,
        Suspended, Running, Ended, TypeOK, PendingInv
<1>1. CASE ProcSubscribe
  BY <1>1 DEF ProcSubscribe
<1>2. CASE ProcSnapshot
  BY <1>2 DEF ProcSnapshot
<1>3. CASE ProcRecv
  <2>1. feed' \in Seq(Update) /\ Len(feed') <= Capacity
    BY <1>3, CapacityAssumption DEF ProcRecv
  <2>2. PICK u \in Update : Handle(u) /\ procPc = "select"
    BY <1>3 DEF ProcRecv
  <2>3. /\ pending' \in {"WaitingForSync", "Failed", "Terminated", None}
        /\ procPc' \in {"setting", "select"}
        /\ procPc' = "setting" => pending' # None
    BY <2>2 DEF Handle, OnNotSynced, OnStopped, OnSynced, OnData, SetNotReady
  <2>4. isSynced' \in BOOLEAN /\ shouldRefresh' \in BOOLEAN
    BY <2>2 DEF Handle, OnNotSynced, OnStopped, OnSynced, OnData, SetNotReady
  <2> QED
    BY <1>3, <2>1, <2>3, <2>4 DEF ProcRecv
<1>4. CASE ProcRecvLagged
  BY <1>4 DEF ProcRecvLagged, SetNotReady
<1>5. CASE WritePending /\ UNCHANGED lockVars /\ procPc \in {"setting", "setQueued"}
  BY <1>5 DEF WritePending, WriteNotReady, Status, NotReady
<1>6. CASE ProcSetQueue
  BY <1>6 DEF ProcSetQueue, Request, Actors
<1>7. CASE ProcSetGranted
  BY <1>7 DEF ProcSetGranted, Release, WritePending, WriteNotReady, Status, NotReady
<1>8. CASE ProcDrain
  BY <1>8, EmptyFeed DEF ProcDrain
<1>9. CASE ProcTimer
  BY <1>9 DEF ProcTimer
<1>10. CASE RefreshLock
  BY <1>10 DEF RefreshLock, Request, Actors
<1>11. CASE RefreshGranted
  BY <1>11 DEF RefreshGranted
<1>12. CASE RefreshOk
  BY <1>12 DEF RefreshOk, WriteReady, Release, Status
<1>13. CASE RefreshErr
  BY <1>13, FaultsAssumption DEF RefreshErr, WriteNotReady, Release, Status, NotReady
<1>14. CASE ProcDropped
  BY <1>14, EmptyFeed DEF ProcDropped, GiveUp
<1> QED
  BY <1>1, <1>2, <1>3, <1>4, <1>5, <1>6, <1>7, <1>8, <1>9, <1>10, <1>11, <1>12, <1>13, <1>14
  DEF Processor, ProcSetNow

\* Every step preserves types.
LEMMA TypeStep == TypeOK /\ PendingInv /\ [Next]_vars => TypeOK' /\ PendingInv'
<1> SUFFICES ASSUME TypeOK, PendingInv, [Next]_vars PROVE TypeOK' /\ PendingInv'
  OBVIOUS
<1>1. CASE \E a \in Actors : Grant(a)
  BY <1>1 DEF Grant, TypeOK, PendingInv, syncVars, feedVars, stateVars, procVars, flagVars, shutVars
<1>2. CASE UNCHANGED vars
  BY <1>2 DEF vars, TypeOK, PendingInv, syncVars, feedVars, stateVars, lockVars, procVars, flagVars, shutVars
<1> QED
  BY <1>1, <1>2, SyncType, ProcessorType, ClientType, ShutType DEF Next

\* Every variable keeps its type; in particular the channel never holds more than its
\* capacity and the processor never writes a status it has not chosen.
THEOREM TypeInvariant == Spec => []TypeOK
<1>1. Init => TypeOK /\ PendingInv
  BY InitType DEF Init, PendingInv
<1> QED
  BY <1>1, TypeStep, PTL DEF Spec

-----------------------------------------------------------------------------
(* Mutual exclusion and the guard. The inductive part: who acts or fetches *)
(* holds the mutex, and a status is only written by who holds it.          *)

GuardInv == LockInv /\ ReadyGuardHolds

\* No method is behind its guard while the mutex is free or held by another party.
LEMMA NobodyActs ==
  ASSUME GuardInv, owner \in {None, "proc", "shut"}
  PROVE  \A c \in Clients : clientPc[c] # "acting"
BY NoneIsNew DEF GuardInv, LockInv

\* A status is written only by a party that leaves nobody behind the guard.
LEMMA ProcessorGuard ==
  ASSUME TypeOK, PendingInv, GuardInv, Processor
  PROVE  GuardInv'
<1> USE DEF syncVars, feedVars, notProc, stateVars, lockVars, procVars, flagVars, shutVars
<1>1. CASE ProcSubscribe \/ ProcSnapshot \/ ProcRecv \/ ProcRecvLagged \/ ProcSetQueue \/ ProcDrain \/ ProcTimer
  BY <1>1 DEF ProcSubscribe, ProcSnapshot, ProcRecv, Handle, OnNotSynced, OnStopped, OnSynced, OnData,
     SetNotReady, ProcRecvLagged, ProcSetQueue, Request, ProcDrain, ProcTimer, GuardInv, LockInv, ReadyGuardHolds
<1>2. CASE ProcSetNow
  <2>1. owner = None
    BY <1>2 DEF ProcSetNow, Free
  <2>2. clientPc' = clientPc /\ procPc' # "fetching"
    BY <1>2 DEF ProcSetNow, WritePending, TypeOK, PendingInv
  <2> QED
    BY <2>1, <2>2, NobodyActs DEF GuardInv, LockInv, ReadyGuardHolds
<1>3. CASE ProcSetGranted
  <2>1. owner = "proc"
    BY <1>3 DEF ProcSetGranted
  <2>2. clientPc' = clientPc /\ procPc' # "fetching"
    BY <1>3 DEF ProcSetGranted, WritePending, TypeOK, PendingInv
  <2> QED
    BY <2>1, <2>2, NobodyActs DEF GuardInv, LockInv, ReadyGuardHolds
<1>4. CASE RefreshLock
  BY <1>4, NobodyActs DEF RefreshLock, Free, Request, GuardInv, LockInv, ReadyGuardHolds
<1>5. CASE RefreshGranted
  BY <1>5 DEF RefreshGranted, GuardInv, LockInv, ReadyGuardHolds
<1>6. CASE RefreshOk \/ RefreshErr
  BY <1>6, NobodyActs DEF RefreshOk, RefreshErr, Release, GuardInv, LockInv, ReadyGuardHolds
<1>7. CASE ProcDropped
  BY <1>7, NoneIsNew DEF ProcDropped, GiveUp, GuardInv, LockInv, ReadyGuardHolds
<1> QED
  BY <1>1, <1>2, <1>3, <1>4, <1>5, <1>6, <1>7 DEF Processor

\* A caller acts only behind try_lock_ready_state, with the mutex.
LEMMA ClientGuard ==
  ASSUME TypeOK, GuardInv, NEW c \in Clients, Client(c)
  PROVE  GuardInv'
<1> USE NoneIsNew DEF notClient, stateVars, lockVars, procVars, ClientGoto, TypeOK, GuardInv, LockInv, ReadyGuardHolds
<1>1. CASE ClientCall(c)
  BY <1>1 DEF ClientCall, Request
<1>2. CASE ClientTryLockReady(c)
  BY <1>2 DEF ClientTryLockReady, Release
<1>3. CASE ClientDone(c)
  BY <1>3 DEF ClientDone, WriteReady, Release
<1>4. CASE ClientLeaves(c)
  BY <1>4 DEF ClientLeaves, GiveUp
<1> QED
  BY <1>1, <1>2, <1>3, <1>4 DEF Client

\* shutdown() writes a status only while it holds the mutex.
LEMMA ShutGuard ==
  ASSUME TypeOK, GuardInv, Shutdown
  PROVE  GuardInv'
<1> USE NoneIsNew DEF notShut, stateVars, lockVars, procVars
<1>1. CASE ShutBegin \/ ShutRequest \/ ShutAbort \/ ShutSkipCleanUp
           \/ \E s \in {"Shutdown", "Terminated"} : ShutCleanUp(s)
  BY <1>1 DEF ShutBegin, ShutRequest, Request, ShutAbort, ShutSkipCleanUp, ShutCleanUp, GuardInv, LockInv, ReadyGuardHolds
<1>2. CASE ShutInitiate \/ ShutFinish \/ \E b \in BOOLEAN : ShutCheckTrades(b)
  BY <1>2, NobodyActs DEF ShutInitiate, ShutFinish, ShutCheckTrades, Release, GuardInv, LockInv, ReadyGuardHolds
<1>3. CASE ShutTimeout
  BY <1>3 DEF ShutTimeout, GiveUp, GuardInv, LockInv, ReadyGuardHolds
<1> QED
  BY <1>1, <1>2, <1>3 DEF Shutdown, ShutStep

LEMMA GuardStep == TypeOK /\ PendingInv /\ GuardInv /\ [Next]_vars => GuardInv'
<1> SUFFICES ASSUME TypeOK, PendingInv, GuardInv, [Next]_vars PROVE GuardInv'
  OBVIOUS
<1>1. CASE Sync
  <2>1. UNCHANGED notSync
    BY <1>1 DEF Sync, SyncStore, SyncSend, SyncData
  <2> QED
    BY <2>1 DEF notSync, stateVars, lockVars, procVars, GuardInv, LockInv, ReadyGuardHolds
<1>2. CASE \E a \in Actors : Grant(a)
  BY <1>2, NobodyActs, NoneIsNew DEF Grant, stateVars, procVars, GuardInv, LockInv, ReadyGuardHolds
<1>3. CASE UNCHANGED vars
  BY <1>3 DEF vars, stateVars, lockVars, procVars, GuardInv, LockInv, ReadyGuardHolds
<1> QED
  BY <1>1, <1>2, <1>3, ProcessorGuard, ClientGuard, ShutGuard DEF Next

LEMMA InitGuard == Init => GuardInv
BY DEF Init, GuardInv, LockInv, ReadyGuardHolds

\* A method behind try_lock_ready_state works on a ready state with a session, whatever
\* the processor, shutdown() and the other callers do: trading_session() cannot panic.
THEOREM GuardTheorem == Spec => []ReadyGuardHolds
<1>1. Init => TypeOK /\ PendingInv /\ GuardInv
  BY InitType, InitGuard DEF Init, PendingInv
<1>2. TypeOK /\ PendingInv /\ GuardInv /\ [Next]_vars => (TypeOK /\ PendingInv /\ GuardInv)'
  BY TypeStep, GuardStep
<1>3. GuardInv => ReadyGuardHolds
  BY DEF GuardInv
<1> QED
  BY <1>1, <1>2, <1>3, PTL DEF Spec

\* A rebuild of the session never overlaps a method that is behind its guard, nor do two
\* methods overlap.
THEOREM ExclusionTheorem == Spec => []RefreshExcludesActions
<1>1. Init => TypeOK /\ PendingInv /\ GuardInv
  BY InitType, InitGuard DEF Init, PendingInv
<1>2. TypeOK /\ PendingInv /\ GuardInv /\ [Next]_vars => (TypeOK /\ PendingInv /\ GuardInv)'
  BY TypeStep, GuardStep
<1>3. GuardInv => RefreshExcludesActions
  BY NoneIsNew DEF GuardInv, LockInv, RefreshExcludesActions
<1> QED
  BY <1>1, <1>2, <1>3, PTL DEF Spec

-----------------------------------------------------------------------------
(* Shutdown. handle.abort() comes before the last status write, and an     *)
(* aborted processor finishes no refresh.                                  *)

ShutInv == AbortInv /\ NoReadyAfterShutdown

LEMMA ShutStepInv ==
  TypeOK /\ PendingInv /\ GuardInv /\ ShutInv /\ [Next]_vars => ShutInv'
<1> SUFFICES ASSUME TypeOK, PendingInv, GuardInv, ShutInv, [Next]_vars PROVE ShutInv'
  OBVIOUS
<1> USE DEF ShutInv, AbortInv, NoReadyAfterShutdown
<1>1. CASE Sync
  BY <1>1 DEF Sync, SyncStore, SyncSend, SyncData, notSync, stateVars, shutVars
<1>2. CASE Processor
  <2>1. UNCHANGED shutVars
    BY <1>2 DEF Processor, ProcSubscribe, ProcSnapshot, ProcRecv, ProcRecvLagged, ProcSetNow,
       WritePending, ProcSetQueue, ProcSetGranted, ProcDrain, ProcTimer, RefreshLock,
       RefreshGranted, RefreshOk, RefreshErr, ProcDropped, notProc
  <2>2. aborted => status' # "Ready" \/ status' = status
    <3>1. CASE ProcSetNow \/ ProcSetGranted
      BY <3>1 DEF ProcSetNow, ProcSetGranted, WritePending, WriteNotReady, TypeOK, PendingInv
    <3>2. CASE RefreshErr
      BY <3>2 DEF RefreshErr, WriteNotReady
    <3> QED
      BY <1>2, <3>1, <3>2 DEF Processor, ProcSubscribe, ProcSnapshot, ProcRecv, ProcRecvLagged,
         ProcSetQueue, ProcDrain, ProcTimer, RefreshLock, RefreshGranted, RefreshOk, ProcDropped,
         stateVars
  <2> QED
    BY <2>1, <2>2 DEF shutVars
<1>3. CASE \E c \in Clients : Client(c)
  <2>1. PICK c \in Clients : Client(c)
    BY <1>3
  <2>2. UNCHANGED shutVars
    BY <2>1 DEF Client, ClientCall, ClientTryLockReady, ClientDone, ClientLeaves, notClient
  <2>3. status' = status \/ status = "Ready"
    BY <2>1 DEF Client, ClientCall, ClientTryLockReady, ClientDone, ClientLeaves, stateVars,
       GuardInv, ReadyGuardHolds
  <2> QED
    BY <2>2, <2>3 DEF shutVars
<1>4. CASE Shutdown
  BY <1>4 DEF Shutdown, ShutStep, ShutBegin, ShutRequest, ShutInitiate, ShutAbort, ShutSkipCleanUp,
     ShutCheckTrades, ShutCleanUp, ShutFinish, ShutTimeout, WriteNotReady, stateVars, shutVars,
     TypeOK, ShutPcs, ShutEnded
<1>5. CASE \E a \in Actors : Grant(a)
  BY <1>5 DEF Grant, stateVars, shutVars
<1>6. CASE UNCHANGED vars
  BY <1>6 DEF vars, stateVars, shutVars
<1> QED
  BY <1>1, <1>2, <1>3, <1>4, <1>5, <1>6 DEF Next

\* Once shutdown() returned the executor is not ready, and no refresh or late method call
\* makes it ready again.
THEOREM ShutdownTheorem == Spec => []NoReadyAfterShutdown
<1> DEFINE I == TypeOK /\ PendingInv /\ GuardInv /\ ShutInv
<1>1. Init => I
  BY InitType, InitGuard DEF Init, PendingInv, ShutInv, AbortInv, NoReadyAfterShutdown
<1>2. I /\ [Next]_vars => I'
  BY TypeStep, GuardStep, ShutStepInv
<1>3. I => NoReadyAfterShutdown
  BY DEF ShutInv
<1> QED
  BY <1>1, <1>2, <1>3, PTL DEF Spec

-----------------------------------------------------------------------------
(* Readiness is backed. What ties the status to the engine is the          *)
(* processor's is_synced: it is behind the engine only by updates that are *)
(* on their way, and the status is behind it only while one is written.    *)

\* What an update at place i of the feed says of the engine still holds, or a later
\* update (i = 0: any) takes it back.
Corrected(i) ==
  \/ syncStatus = "Synced"
  \/ unsent # None
  \/ \E j \in DOMAIN feed : j > i /\ feed[j] \in {"NotSynced"} \cup SyncStopped

FeedInv == \A i \in DOMAIN feed : feed[i] = "Synced" => Corrected(i)

\* The same of is_synced.
SyncedInv == isSynced => Corrected(0) \/ pending # None

\* A refresh is armed or under way only with is_synced set.
RefreshInv ==
  shouldRefresh \/ procPc \in {"refresh", "refreshQueued", "fetching"} => isSynced

\* Before the snapshot nothing is known; then Ready needs is_synced.
StatusInv ==
  /\ procPc = "spawned" => feed = <<>>
  /\ procPc \in {"spawned", "snapshot"} => ~isSynced /\ status # "Ready"
  /\ status = "Ready" => isSynced \/ pending # None

\* No update was lost.
NoLagInv == ~lagged /\ pending # "Failed" /\ procPc # "draining"

\* A status to write is chosen on leaving select and written before returning to it.
WritingInv ==
  /\ pending # None => procPc \in {"setting", "setQueued"}
  /\ pending = "WaitingForSync" => ~isSynced

LocalInv == RefreshInv /\ StatusInv /\ NoLagInv /\ WritingInv

\* Only a status of the engine is on its way to the channel.
UnsentInv == unsent # None => unsent = syncStatus

BackInv ==
  /\ UnsentInv
  /\ ~lagSeen /\ procPc \notin Ended => FeedInv /\ SyncedInv /\ LocalInv

LEMMA AppendIs ==
  ASSUME NEW S, NEW s \in Seq(S), NEW e \in S
  PROVE  /\ DOMAIN Append(s, e) = 1..(Len(s) + 1)
         /\ DOMAIN s = 1..Len(s)
         /\ \A i \in 1..Len(s) : Append(s, e)[i] = s[i]
         /\ Append(s, e)[Len(s) + 1] = e
         /\ Len(s) \in Nat
OBVIOUS

LEMMA TailIs ==
  ASSUME NEW S, NEW s \in Seq(S), s # <<>>
  PROVE  /\ Len(s) \in Nat \ {0}
         /\ DOMAIN Tail(s) = 1..(Len(s) - 1)
         /\ DOMAIN s = 1..Len(s)
         /\ \A i \in 1..(Len(s) - 1) : Tail(s)[i] = s[i + 1]
         /\ Head(s) = s[1]
OBVIOUS

\* Without a loss, a send appends to the feed.
LEMMA PushAppends ==
  ASSUME TypeOK, NEW u, Push(u), ~lagSeen', procPc \notin Ended \cup {"spawned"}
  PROVE  feed' = Append(feed, u) /\ lagged' = lagged /\ ~lagSeen
BY DEF Push, TypeOK

\* The engine: a status reaches the feed behind everything it overtakes.
LEMMA SyncBack ==
  ASSUME TypeOK, BackInv, Sync
  PROVE  BackInv'
<1> USE NoneIsNew
<1>1. CASE \E s \in SyncStatus : SyncStore(s)
  BY <1>1 DEF SyncStore, BackInv, UnsentInv, FeedInv, SyncedInv, Corrected, LocalInv, RefreshInv,
     StatusInv, NoLagInv, WritingInv, feedVars, notSync, stateVars, procVars, flagVars
<1>2. ASSUME NEW u \in Update, Push(u), UNCHANGED <<syncStatus, notSync>>, unsent' = None,
             \/ unsent # None /\ u = unsent
             \/ unsent = None /\ u \in {"Data", "Other"}
      PROVE  BackInv'
  <2>1. UnsentInv'
    BY <1>2 DEF BackInv, UnsentInv
  <2> SUFFICES ASSUME ~lagSeen', procPc \notin Ended
               PROVE  (FeedInv /\ SyncedInv /\ LocalInv)'
    BY <2>1, <1>2 DEF BackInv, notSync, procVars
  <2>2. CASE procPc = "spawned"
    BY <1>2, <2>2 DEF Push, BackInv, FeedInv, SyncedInv, LocalInv, RefreshInv, StatusInv, NoLagInv,
       WritingInv, feedVars, notSync, stateVars, procVars, flagVars
  <2>3. CASE procPc # "spawned"
    <3>1. feed' = Append(feed, u) /\ lagged' = lagged /\ ~lagSeen
      BY <1>2, <2>3, PushAppends
    <3>2. FeedInv /\ SyncedInv /\ LocalInv /\ UnsentInv
      BY <3>1 DEF BackInv
    <3>3. LocalInv'
      BY <1>2, <2>3, <3>1, <3>2 DEF LocalInv, RefreshInv, StatusInv, NoLagInv, WritingInv,
         notSync, stateVars, procVars, flagVars
    <3>4. /\ DOMAIN feed' = 1..(Len(feed) + 1) /\ DOMAIN feed = 1..Len(feed) /\ Len(feed) \in Nat
          /\ \A i \in 1..Len(feed) : feed'[i] = feed[i]
          /\ feed'[Len(feed) + 1] = u
      BY <1>2, <3>1, AppendIs DEF TypeOK
    <3>5. \A i \in 0..Len(feed) : Corrected(i) => Corrected(i)'
      BY <1>2, <3>2, <3>4 DEF Corrected, UnsentInv, TypeOK, SyncStatus, SyncStopped
    <3>6. SyncedInv'
      BY <1>2, <3>2, <3>4, <3>5 DEF SyncedInv, notSync, procVars, flagVars
    <3>7. u = "Synced" => syncStatus' = "Synced"
      BY <1>2, <3>2 DEF UnsentInv
    <3>8. FeedInv'
      <4> SUFFICES ASSUME NEW i \in 1..(Len(feed) + 1), feed'[i] = "Synced"
                   PROVE  Corrected(i)'
        BY <3>4 DEF FeedInv
      <4>1. CASE i \in 1..Len(feed)
        BY <4>1, <3>2, <3>4, <3>5 DEF FeedInv
      <4>2. CASE i = Len(feed) + 1
        BY <4>2, <3>4, <3>7 DEF Corrected
      <4> QED
        BY <4>1, <4>2, <3>4
    <3> QED
      BY <3>3, <3>6, <3>8
  <2> QED
    BY <2>2, <2>3
<1>3. CASE SyncSend
  BY <1>3, <1>2 DEF SyncSend, TypeOK, Update
<1>4. CASE \E u \in {"Data", "Other"} : SyncData(u)
  BY <1>4, <1>2 DEF SyncData, syncVars, Update
<1> QED
  BY <1>1, <1>3, <1>4 DEF Sync

\* The processor: what it takes from the feed it acts on before it reads again.
LEMMA ProcessorBack ==
  ASSUME TypeOK, PendingInv, GuardInv, BackInv, Processor
  PROVE  BackInv'
<1> USE NoneIsNew
<1> SUFFICES ASSUME ~lagSeen', procPc' \notin Ended
             PROVE  (FeedInv /\ SyncedInv /\ LocalInv)'
  <2>1. UNCHANGED syncVars
    BY DEF Processor, ProcSubscribe, ProcSnapshot, ProcRecv, ProcRecvLagged, ProcSetNow,
       WritePending, ProcSetQueue, ProcSetGranted, ProcDrain, ProcTimer, RefreshLock,
       RefreshGranted, RefreshOk, RefreshErr, ProcDropped, notProc
  <2> QED
    BY <2>1 DEF BackInv, UnsentInv, syncVars
<1>1. FeedInv /\ SyncedInv /\ LocalInv /\ ~lagSeen
  BY DEF Processor, ProcSubscribe, ProcSnapshot, ProcRecv, ProcRecvLagged, ProcSetNow,
     WritePending, ProcSetQueue, ProcSetGranted, ProcDrain, ProcTimer, RefreshLock,
     RefreshGranted, RefreshOk, RefreshErr, ProcDropped, feedVars, BackInv, Ended, Suspended
<1> USE DEF LocalInv, RefreshInv, StatusInv, NoLagInv, WritingInv
<1>2. CASE ProcRecv
  <2>1. feed # <<>> /\ feed' = Tail(feed) /\ procPc = "select" /\ Handle(Head(feed))
        /\ UNCHANGED <<lagged, lagSeen, stateVars, syncVars>>
    BY <1>2 DEF ProcRecv, notProc
  <2>2. /\ Len(feed) \in Nat \ {0}
        /\ DOMAIN feed' = 1..(Len(feed) - 1) /\ DOMAIN feed = 1..Len(feed)
        /\ \A i \in 1..(Len(feed) - 1) : feed'[i] = feed[i + 1]
        /\ Head(feed) = feed[1]
    BY <2>1, TailIs DEF TypeOK
  <2>3. \A i \in 1..Len(feed) : Corrected(i) => Corrected(i - 1)'
    <3> SUFFICES ASSUME NEW i \in 1..Len(feed), Corrected(i) PROVE Corrected(i - 1)'
      OBVIOUS
    <3>1. CASE syncStatus = "Synced" \/ unsent # None
      BY <3>1, <2>1 DEF Corrected, syncVars
    <3>2. ASSUME NEW j \in DOMAIN feed, j > i, feed[j] \in {"NotSynced"} \cup SyncStopped
          PROVE  Corrected(i - 1)'
      <4>1. j - 1 \in DOMAIN feed' /\ j - 1 > i - 1 /\ feed'[j - 1] = feed[j]
        BY <3>2, <2>2
      <4> QED
        BY <4>1, <3>2 DEF Corrected
    <3> QED
      BY <3>1, <3>2 DEF Corrected
  <2>4. FeedInv'
    <3> SUFFICES ASSUME NEW i \in 1..(Len(feed) - 1), feed'[i] = "Synced" PROVE Corrected(i)'
      BY <2>2 DEF FeedInv
    <3>1. i + 1 \in 1..Len(feed) /\ feed[i + 1] = "Synced"
      BY <2>2
    <3>2. Corrected(i + 1)
      BY <1>1, <2>2, <3>1 DEF FeedInv
    <3>3. Corrected(i + 1 - 1)'
      BY <2>3, <3>1, <3>2
    <3>4. i + 1 - 1 = i
      BY <2>2
    <3> QED
      BY <3>3, <3>4
  <2>5. LocalInv'
    BY <1>1, <2>1 DEF Handle, OnNotSynced, OnStopped, OnSynced, OnData, SetNotReady,
       stateVars, procVars, flagVars, TypeOK
  <2>6. SyncedInv'
    <3>1. CASE Head(feed) = "Synced"
      <4>1. Corrected(1)
        BY <3>1, <1>1, <2>2 DEF FeedInv
      <4>2. Corrected(0)'
        BY <4>1, <2>2, <2>3
      <4> QED
        BY <4>2 DEF SyncedInv
    <3>2. CASE Head(feed) \in {"Data", "Other"}
      <4>1. Corrected(0) => Corrected(1)
        BY <3>2, <2>2 DEF Corrected, SyncStopped
      <4>2. Corrected(1) => Corrected(0)'
        BY <2>2, <2>3
      <4>3. UNCHANGED <<isSynced, pending>>
        BY <3>2, <2>1 DEF Handle, OnData, procVars, flagVars, SyncStopped
      <4> QED
        BY <4>1, <4>2, <4>3, <1>1 DEF SyncedInv
    <3>3. CASE Head(feed) \in {"NotSynced"} \cup SyncStopped
      BY <3>3, <2>1 DEF Handle, OnNotSynced, OnStopped, SetNotReady, SyncedInv, SyncStopped
    <3> QED
      BY <3>1, <3>2, <3>3, <2>1 DEF Handle
  <2> QED
    BY <2>4, <2>5, <2>6
<1>3. CASE ProcSubscribe \/ ProcSetQueue \/ ProcTimer \/ RefreshLock \/ RefreshGranted \/ RefreshOk \/ RefreshErr
  <2>1. UNCHANGED <<syncVars, feedVars, pending, isSynced>>
    BY <1>3 DEF ProcSubscribe, ProcSetQueue, ProcTimer, RefreshLock, RefreshGranted, RefreshOk,
       RefreshErr, flagVars, notProc
  <2>2. (FeedInv /\ SyncedInv)'
    BY <1>1, <2>1 DEF FeedInv, SyncedInv, Corrected, syncVars, feedVars
  <2>3. LocalInv'
    BY <1>1, <1>3, <2>1 DEF ProcSubscribe, ProcSetQueue, ProcTimer, RefreshLock, RefreshGranted,
       RefreshOk, RefreshErr, WriteReady, WriteNotReady, stateVars, flagVars, feedVars, TypeOK
  <2> QED
    BY <2>2, <2>3
<1>4. CASE ProcSnapshot
  BY <1>1, <1>4 DEF ProcSnapshot, FeedInv, SyncedInv, Corrected, syncVars, feedVars, stateVars, notProc
<1>5. CASE ProcSetNow \/ ProcSetGranted
  <2>1. /\ UNCHANGED <<syncVars, feedVars, flagVars>>
        /\ pending' = None /\ status' = pending
        /\ procPc \in {"setting", "setQueued"}
        /\ pending = "WaitingForSync" /\ procPc' = "select"
    BY <1>1, <1>5 DEF ProcSetNow, ProcSetGranted, WritePending, WriteNotReady, notProc, TypeOK,
       PendingInv, Ended
  <2> QED
    BY <1>1, <2>1 DEF FeedInv, SyncedInv, Corrected, syncVars, feedVars, flagVars
<1>6. CASE ProcRecvLagged \/ ProcDrain \/ ProcDropped
  BY <1>1, <1>6 DEF ProcRecvLagged, ProcDrain, ProcDropped, Ended
<1> QED
  BY <1>2, <1>3, <1>4, <1>5, <1>6 DEF Processor

\* Callers, shutdown() and the mutex touch nothing of it but the status, which they
\* never turn to Ready from anything else.
LEMMA OthersBack ==
  ASSUME TypeOK, GuardInv, BackInv,
         (\E c \in Clients : Client(c)) \/ Shutdown \/ (\E a \in Actors : Grant(a)) \/ UNCHANGED vars
  PROVE  BackInv'
<1>1. UNCHANGED <<syncVars, feedVars, procVars>>
  BY DEF Client, ClientCall, ClientTryLockReady, ClientDone, ClientLeaves, notClient, Shutdown, ShutStep,
     ShutBegin, ShutRequest, ShutInitiate, ShutAbort, ShutSkipCleanUp, ShutCheckTrades, ShutCleanUp,
     ShutFinish, ShutTimeout, notShut, Grant, vars
<1>2. status' = "Ready" => status = "Ready"
  <2>1. CASE \E c \in Clients : Client(c)
    BY <2>1 DEF Client, ClientCall, ClientTryLockReady, ClientDone, ClientLeaves, stateVars,
       GuardInv, ReadyGuardHolds
  <2>2. CASE Shutdown
    BY <2>2 DEF Shutdown, ShutStep, ShutBegin, ShutRequest, ShutInitiate, ShutAbort, ShutSkipCleanUp,
       ShutCheckTrades, ShutCleanUp, ShutFinish, ShutTimeout, WriteNotReady, stateVars, TypeOK
  <2>3. CASE (\E a \in Actors : Grant(a)) \/ UNCHANGED vars
    BY <2>3 DEF Grant, vars, stateVars
  <2> QED
    BY <2>1, <2>2, <2>3
<1> QED
  BY <1>1, <1>2 DEF BackInv, UnsentInv, FeedInv, SyncedInv, Corrected, LocalInv, RefreshInv, StatusInv,
     NoLagInv, WritingInv, syncVars, feedVars, procVars, flagVars

\* As long as no update was lost, a ready executor is backed by a synced engine, or the
\* update that withdraws its readiness is on its way.
THEOREM BackTheorem == Spec => []ReadyIsBacked
<1> DEFINE I == TypeOK /\ PendingInv /\ GuardInv /\ BackInv
<1>1. Init => I
  <2>1. Init => BackInv
    BY NoneIsNew DEF Init, BackInv, UnsentInv, FeedInv, SyncedInv, LocalInv, RefreshInv, StatusInv,
       NoLagInv, WritingInv
  <2> QED
    BY <2>1, InitType, InitGuard DEF Init, PendingInv
<1>2. I /\ [Next]_vars => I'
  <2>1. TypeOK /\ PendingInv /\ GuardInv /\ BackInv /\ [Next]_vars => BackInv'
    BY SyncBack, ProcessorBack, OthersBack DEF Next
  <2> QED
    BY <2>1, TypeStep, GuardStep
<1>3. I => ReadyIsBacked
  BY DEF BackInv, LocalInv, StatusInv, WritingInv, SyncedInv, Corrected, ReadyIsBacked
<1> QED
  BY <1>1, <1>2, <1>3, PTL DEF Spec

-----------------------------------------------------------------------------
(* A synced engine is not missed: what the processor may yet be told to    *)
(* forget is taken back behind it.                                         *)

\* Each NotSynced in the feed is followed by the Synced that the engine has reached since.
Renewed(i) == \E j \in DOMAIN feed : j > i /\ feed[j] = "Synced"

Arrived == syncStatus = "Synced" /\ unsent = None

RenewedInv == Arrived => \A i \in DOMAIN feed : feed[i] = "NotSynced" => Renewed(i)

\* From the snapshot on the processor knows that the engine is synced, or will read it.
KnownInv == Arrived /\ procPc \notin {"spawned", "snapshot"} => isSynced \/ Renewed(0)

\* A processor that knows works at leaving Starting and WaitingForSync.
ArmedInv ==
  isSynced /\ status \in {"Starting", "WaitingForSync"} =>
    shouldRefresh \/ procPc \in {"refresh", "refreshQueued", "fetching"}

AwaitInv == ~lagSeen /\ procPc \notin Ended => RenewedInv /\ KnownInv /\ ArmedInv

\* The engine: what is sent behind a Synced leaves it where it is.
LEMMA SyncAwait ==
  ASSUME TypeOK, BackInv, AwaitInv, Sync
  PROVE  AwaitInv'
<1> USE NoneIsNew
<1>1. CASE \E s \in SyncStatus : SyncStore(s)
  BY <1>1 DEF SyncStore, AwaitInv, RenewedInv, KnownInv, ArmedInv, Arrived, feedVars, notSync,
     stateVars, procVars, flagVars
<1>2. ASSUME NEW u \in Update, Push(u), UNCHANGED <<syncStatus, notSync>>, unsent' = None,
             \/ unsent # None /\ u = unsent
             \/ unsent = None /\ u \in {"Data", "Other"}
      PROVE  AwaitInv'
  <2> SUFFICES ASSUME ~lagSeen', procPc \notin Ended
               PROVE  (RenewedInv /\ KnownInv /\ ArmedInv)'
    BY <1>2 DEF AwaitInv, notSync, procVars
  <2>1. CASE procPc = "spawned"
    <3>1. feed' = <<>> /\ ~isSynced' /\ procPc' = "spawned"
      BY <1>2, <2>1 DEF Push, BackInv, LocalInv, StatusInv, feedVars, notSync, procVars, flagVars
    <3> QED
      BY <3>1 DEF RenewedInv, KnownInv, ArmedInv
  <2>2. CASE procPc # "spawned"
    <3>1. feed' = Append(feed, u) /\ ~lagSeen
      BY <1>2, <2>2, PushAppends
    <3>2. RenewedInv /\ KnownInv /\ ArmedInv /\ UnsentInv
      BY <3>1 DEF BackInv, AwaitInv
    <3>3. ArmedInv'
      BY <1>2, <3>2 DEF ArmedInv, notSync, stateVars, procVars, flagVars
    <3>4. /\ DOMAIN feed' = 1..(Len(feed) + 1) /\ DOMAIN feed = 1..Len(feed) /\ Len(feed) \in Nat
          /\ \A i \in 1..Len(feed) : feed'[i] = feed[i]
          /\ feed'[Len(feed) + 1] = u
      BY <1>2, <3>1, AppendIs DEF TypeOK
    <3>5. \A i \in 0..Len(feed) : Renewed(i) => Renewed(i)'
      BY <3>4 DEF Renewed
    <3>6. CASE unsent # None /\ syncStatus' = "Synced"
      <4>1. u = "Synced"
        BY <1>2, <3>2, <3>6 DEF UnsentInv
      <4>2. \A i \in 0..Len(feed) : Renewed(i)'
        BY <3>4, <4>1 DEF Renewed
      <4> QED
        BY <3>3, <3>4, <4>1, <4>2 DEF RenewedInv, KnownInv
    <3>7. CASE unsent = None
      <4>1. Arrived' => Arrived
        BY <1>2, <3>7 DEF Arrived
      <4>2. RenewedInv'
        BY <1>2, <3>2, <3>4, <3>5, <3>7, <4>1 DEF RenewedInv
      <4>3. KnownInv'
        BY <1>2, <3>2, <3>4, <3>5, <4>1 DEF KnownInv, notSync, procVars, flagVars
      <4> QED
        BY <3>3, <4>2, <4>3
    <3>8. CASE syncStatus' # "Synced"
      BY <3>3, <3>8 DEF RenewedInv, KnownInv, Arrived
    <3> QED
      BY <3>6, <3>7, <3>8
  <2> QED
    BY <2>1, <2>2
<1>3. CASE SyncSend
  BY <1>3, <1>2 DEF SyncSend, TypeOK, Update
<1>4. CASE \E u \in {"Data", "Other"} : SyncData(u)
  BY <1>4, <1>2 DEF SyncData, syncVars, Update
<1> QED
  BY <1>1, <1>3, <1>4 DEF Sync

\* The processor: it forgets only at a NotSynced, and writes WaitingForSync only then.
LEMMA ProcessorAwait ==
  ASSUME TypeOK, PendingInv, BackInv, AwaitInv, Processor
  PROVE  AwaitInv'
<1> USE NoneIsNew
<1> SUFFICES ASSUME ~lagSeen', procPc' \notin Ended
             PROVE  (RenewedInv /\ KnownInv /\ ArmedInv)'
  BY DEF AwaitInv
<1>1. FeedInv /\ LocalInv /\ RenewedInv /\ KnownInv /\ ArmedInv
  BY DEF Processor, ProcSubscribe, ProcSnapshot, ProcRecv, ProcRecvLagged, ProcSetNow,
     WritePending, ProcSetQueue, ProcSetGranted, ProcDrain, ProcTimer, RefreshLock,
     RefreshGranted, RefreshOk, RefreshErr, ProcDropped, feedVars, BackInv, AwaitInv, Ended,
     Suspended
<1> USE DEF LocalInv, StatusInv, NoLagInv, WritingInv
<1>2. CASE ProcRecv
  <2>1. feed # <<>> /\ feed' = Tail(feed) /\ procPc = "select" /\ Handle(Head(feed))
        /\ UNCHANGED <<stateVars, syncVars>>
    BY <1>2 DEF ProcRecv, notProc
  <2>2. /\ Len(feed) \in Nat \ {0}
        /\ DOMAIN feed' = 1..(Len(feed) - 1) /\ DOMAIN feed = 1..Len(feed)
        /\ \A i \in 1..(Len(feed) - 1) : feed'[i] = feed[i + 1]
        /\ Head(feed) = feed[1]
    BY <2>1, TailIs DEF TypeOK
  <2>3. Arrived' = Arrived
    BY <2>1 DEF Arrived, syncVars
  <2>4. \A i \in 1..Len(feed) : Renewed(i) => Renewed(i - 1)'
    <3> SUFFICES ASSUME NEW i \in 1..Len(feed), Renewed(i) PROVE Renewed(i - 1)'
      OBVIOUS
    <3>1. PICK j \in DOMAIN feed : j > i /\ feed[j] = "Synced"
      BY DEF Renewed
    <3>2. j - 1 \in DOMAIN feed' /\ j - 1 > i - 1 /\ feed'[j - 1] = feed[j]
      BY <2>2, <3>1
    <3> QED
      BY <3>1, <3>2 DEF Renewed
  <2>5. RenewedInv'
    <3> SUFFICES ASSUME Arrived, NEW i \in 1..(Len(feed) - 1), feed'[i] = "NotSynced"
                 PROVE  Renewed(i)'
      BY <2>2, <2>3 DEF RenewedInv
    <3>1. i + 1 \in 1..Len(feed) /\ feed[i + 1] = "NotSynced" /\ i + 1 - 1 = i
      BY <2>2
    <3>2. Renewed(i + 1)
      BY <1>1, <2>2, <3>1 DEF RenewedInv
    <3> QED
      BY <2>4, <3>1, <3>2
  <2>6. KnownInv'
    <3> SUFFICES ASSUME Arrived PROVE isSynced' \/ Renewed(0)'
      BY <2>3 DEF KnownInv
    <3>1. CASE Head(feed) = "NotSynced"
      <4>1. Renewed(1)
        BY <1>1, <2>2, <3>1 DEF RenewedInv
      <4> QED
        BY <2>2, <2>4, <4>1
    <3>2. CASE Head(feed) = "Synced"
      BY <2>1, <3>2 DEF Handle, OnSynced, SyncStopped
    <3>3. CASE Head(feed) \notin {"NotSynced", "Synced"}
      <4>1. isSynced' = isSynced
        BY <2>1, <3>3 DEF Handle, OnStopped, OnData, procVars, flagVars
      <4>2. Renewed(0) => Renewed(1)
        BY <2>2, <3>3 DEF Renewed
      <4>3. Renewed(1) => Renewed(0)'
        BY <2>2, <2>4
      <4> QED
        BY <1>1, <2>1, <4>1, <4>2, <4>3 DEF KnownInv
    <3> QED
      BY <3>1, <3>2, <3>3
  <2>7. ArmedInv'
    <3>1. status' = status /\ (isSynced /\ status \in {"Starting", "WaitingForSync"} => shouldRefresh)
      BY <1>1, <2>1 DEF ArmedInv, stateVars
    <3>2. CASE Head(feed) = "Data"
      <4>1. shouldRefresh' = isSynced /\ isSynced' = isSynced
        BY <2>1, <3>2 DEF Handle, OnData, SyncStopped
      <4> QED
        BY <4>1 DEF ArmedInv
    <3>3. CASE Head(feed) # "Data"
      <4>1. isSynced' => shouldRefresh' \/ (shouldRefresh' = shouldRefresh /\ isSynced)
        BY <2>1, <3>3 DEF Handle, OnNotSynced, OnStopped, OnSynced, procVars, flagVars
      <4> QED
        BY <3>1, <4>1 DEF ArmedInv
    <3> QED
      BY <3>2, <3>3
  <2> QED
    BY <2>5, <2>6, <2>7
<1>3. CASE ProcSubscribe \/ ProcSetQueue \/ ProcTimer \/ RefreshLock \/ RefreshGranted \/ RefreshOk
           \/ RefreshErr
  <2>1. UNCHANGED <<syncVars, feedVars, isSynced>>
    BY <1>3 DEF ProcSubscribe, ProcSetQueue, ProcTimer, RefreshLock, RefreshGranted, RefreshOk,
       RefreshErr, flagVars, notProc
  <2>2. procPc' \in {"spawned", "snapshot"} \/ procPc \notin {"spawned", "snapshot"}
    BY <1>3 DEF ProcSubscribe, ProcSetQueue, ProcTimer, RefreshLock, RefreshGranted, RefreshOk,
       RefreshErr
  <2>3. (RenewedInv /\ KnownInv)'
    BY <1>1, <2>1, <2>2 DEF RenewedInv, KnownInv, Renewed, Arrived, syncVars, feedVars
  <2>4. ArmedInv'
    BY <1>1, <1>3, <2>1 DEF ArmedInv, ProcSubscribe, ProcSetQueue, ProcTimer, RefreshLock,
       RefreshGranted, RefreshOk, RefreshErr, WriteReady, WriteNotReady, stateVars, flagVars
  <2> QED
    BY <2>3, <2>4
<1>4. CASE ProcSnapshot
  BY <1>1, <1>4 DEF ProcSnapshot, RenewedInv, KnownInv, ArmedInv, Renewed, Arrived, syncVars,
     feedVars, stateVars, notProc
<1>5. CASE ProcSetNow \/ ProcSetGranted
  <2>1. /\ UNCHANGED <<syncVars, feedVars, flagVars>>
        /\ procPc \in {"setting", "setQueued"}
        /\ pending = "WaitingForSync" /\ procPc' = "select"
    BY <1>1, <1>5 DEF ProcSetNow, ProcSetGranted, WritePending, WriteNotReady, notProc, TypeOK,
       PendingInv, Ended
  <2> QED
    BY <1>1, <2>1 DEF RenewedInv, KnownInv, ArmedInv, Renewed, Arrived, syncVars, feedVars, flagVars
<1>6. CASE ProcRecvLagged \/ ProcDrain \/ ProcDropped
  BY <1>1, <1>6 DEF ProcRecvLagged, ProcDrain, ProcDropped, Ended
<1> QED
  BY <1>2, <1>3, <1>4, <1>5, <1>6 DEF Processor

\* Callers and shutdown() never bring Starting or WaitingForSync back.
LEMMA OthersAwait ==
  ASSUME TypeOK, AwaitInv,
         (\E c \in Clients : Client(c)) \/ Shutdown \/ (\E a \in Actors : Grant(a)) \/ UNCHANGED vars
  PROVE  AwaitInv'
<1>1. UNCHANGED <<syncVars, feedVars, procVars>>
  BY DEF Client, ClientCall, ClientTryLockReady, ClientDone, ClientLeaves, notClient, Shutdown, ShutStep,
     ShutBegin, ShutRequest, ShutInitiate, ShutAbort, ShutSkipCleanUp, ShutCheckTrades, ShutCleanUp,
     ShutFinish, ShutTimeout, notShut, Grant, vars
<1>2. status' = status \/ status' \notin {"Starting", "WaitingForSync"}
  <2>1. CASE \E c \in Clients : Client(c)
    BY <2>1 DEF Client, ClientCall, ClientTryLockReady, ClientDone, ClientLeaves, WriteReady, stateVars
  <2>2. CASE Shutdown
    BY <2>2 DEF Shutdown, ShutStep, ShutBegin, ShutRequest, ShutInitiate, ShutAbort, ShutSkipCleanUp,
       ShutCheckTrades, ShutCleanUp, ShutFinish, ShutTimeout, WriteNotReady, stateVars, TypeOK
  <2>3. CASE (\E a \in Actors : Grant(a)) \/ UNCHANGED vars
    BY <2>3 DEF Grant, vars, stateVars
  <2> QED
    BY <2>1, <2>2, <2>3
<1> QED
  BY <1>1, <1>2 DEF AwaitInv, RenewedInv, KnownInv, ArmedInv, Renewed, Arrived, syncVars, feedVars,
     procVars, flagVars

\* As long as no update was lost, an executor that waits for an engine that is synced has a
\* refresh armed or under way, or has that Synced still to read: the receiver exists before
\* the status is read, and no NotSynced is acted on that a Synced does not follow.
THEOREM AwaitTheorem == Spec => []SyncedIsAwaited
<1> DEFINE I == TypeOK /\ PendingInv /\ GuardInv /\ BackInv /\ AwaitInv
<1>1. Init => I
  <2>1. Init => BackInv
    BY NoneIsNew DEF Init, BackInv, UnsentInv, FeedInv, SyncedInv, LocalInv, RefreshInv, StatusInv,
       NoLagInv, WritingInv
  <2>2. Init => AwaitInv
    BY DEF Init, AwaitInv, RenewedInv, KnownInv, ArmedInv
  <2> QED
    BY <2>1, <2>2, InitType, InitGuard DEF Init, PendingInv
<1>2. I /\ [Next]_vars => I'
  <2>1. TypeOK /\ PendingInv /\ GuardInv /\ BackInv /\ [Next]_vars => BackInv'
    BY SyncBack, ProcessorBack, OthersBack DEF Next
  <2>2. TypeOK /\ PendingInv /\ BackInv /\ AwaitInv /\ [Next]_vars => AwaitInv'
    BY SyncAwait, ProcessorAwait, OthersAwait DEF Next
  <2> QED
    BY <2>1, <2>2, TypeStep, GuardStep
<1>3. I => SyncedIsAwaited
  BY DEF AwaitInv, KnownInv, ArmedInv, Renewed, Arrived, SyncedIsAwaited
<1> QED
  BY <1>1, <1>2, <1>3, PTL DEF Spec

-----------------------------------------------------------------------------
(* The session: its rows, its trades and the fees it has counted.          *)

Closed == {t \in Trades : exch[t] = "closed"}

\* The fields of a session.
IsSession(s) ==
  /\ DOMAIN s = {"running", "closed", "fees", "snap", "expired"}
  /\ s = [f \in DOMAIN s |-> s[f]]
  /\ s.running \subseteq Trades /\ s.closed \subseteq Trades

ShapeInv ==
  /\ exch \in [Trades -> {"none", "running", "closed"}]
  /\ log \in Seq(Trades)
  /\ IsSession(sess) /\ IsSession(work)
  /\ batch \subseteq Trades /\ acked \subseteq Trades /\ todo \subseteq Trades
  /\ rows \subseteq Trades /\ ours \subseteq Trades

LEMMA NoSessionShape == IsSession(NoSession)
BY DEF IsSession, NoSession

LEMMA SnapShape ==
  ASSUME NEW t \in Trades, NEW f
  PROVE  IsSession([NoSession EXCEPT !.snap[t] = f])
BY DEF IsSession, NoSession

LEMMA CloseInIs ==
  ASSUME NEW s, IsSession(s), NEW S \in SUBSET Trades
  PROVE  /\ IsSession(CloseIn(s, S))
         /\ CloseIn(s, S).running = s.running \ S
         /\ CloseIn(s, S).closed = s.closed \cup S
BY DEF IsSession, CloseIn

LEMMA RegisterInIs ==
  ASSUME NEW s, IsSession(s), NEW t \in Trades, NEW f
  PROVE  /\ IsSession(RegisterIn(s, t, f))
         /\ RegisterIn(s, t, f).running = s.running \cup {t}
         /\ RegisterIn(s, t, f).closed = s.closed
BY DEF IsSession, RegisterIn

LEMMA RebuiltIs ==
  ASSUME ShapeInv
  PROVE  /\ IsSession(Rebuilt)
         /\ Rebuilt.running = IF Recover THEN RunningTrades ELSE {}
         /\ Rebuilt.closed = sess.closed
BY DEF IsSession, Rebuilt, ShapeInv, RunningTrades

LEMMA ExpiredIs ==
  ASSUME NEW s, IsSession(s)
  PROVE  LET e == [s EXCEPT !.expired = TRUE]
         IN  IsSession(e) /\ e.running = s.running /\ e.closed = s.closed
BY DEF IsSession

LEMMA CloseMissedIs ==
  ASSUME NEW s, IsSession(s), NEW S \in SUBSET Trades
  PROVE  /\ IsSession(CloseMissed(s, S))
         /\ CloseMissed(s, S).running = s.running
         /\ CloseMissed(s, S).closed = s.closed \cup S
BY DEF IsSession, CloseMissed

LEMMA MissedIs ==
  ASSUME ShapeInv
  PROVE  Missed \in SUBSET Trades /\ (Recover => Missed = sess.running \ work.running)
BY DEF Missed, ShapeInv, IsSession

\* A trade in the exchange's log has closed.
LogInv == \A i \in DOMAIN log : log[i] \in Closed

\* What a close does to the exchange.
LEMMA CloseIs ==
  ASSUME ShapeInv, LogInv, NEW t \in Trades, Close(t)
  PROVE  /\ exch' \in [Trades -> {"none", "running", "closed"}] /\ log' \in Seq(Trades)
         /\ RunningTrades' = RunningTrades \ {t} /\ Closed' = Closed \cup {t} /\ t \in RunningTrades
         /\ LogInv'
<1>1. exch' \in [Trades -> {"none", "running", "closed"}] /\ log' \in Seq(Trades)
  BY DEF ShapeInv, Close
<1>2. RunningTrades' = RunningTrades \ {t} /\ Closed' = Closed \cup {t} /\ t \in RunningTrades
  BY DEF ShapeInv, Close, RunningTrades, Closed
<1>3. LogInv'
  BY <1>2 DEF ShapeInv, Close, LogInv
<1> QED
  BY <1>1, <1>2, <1>3

\* The page of closed trades holds closed trades.
LEMMA RecentIsClosed ==
  ASSUME ShapeInv, LogInv, NEW n
  PROVE  RecentlyClosed(n) \subseteq Closed
BY DEF RecentlyClosed, LogInv

LEMMA FunctionIsSeq ==
  ASSUME NEW S, NEW n \in Nat, NEW f \in [1..n -> S]
  PROVE  f \in Seq(S)
OBVIOUS

\* The initial states have sessions of the right shape and a log of closed trades.
LEMMA InitShape == SessionInit => ShapeInv /\ LogInv
<1> SUFFICES ASSUME SessionInit PROVE ShapeInv /\ LogInv
  OBVIOUS
<1>1. PICK order \in [1..Cardinality({t \in Trades : exch[t] = "closed"}) -> Trades] :
        /\ log = order
        /\ {order[i] : i \in DOMAIN order} = {t \in Trades : exch[t] = "closed"}
  BY DEF SessionInit
<1>2. LogInv
  BY <1>1 DEF LogInv, Closed
<1>3. {t \in Trades : exch[t] = "closed"} \subseteq Trades
  OBVIOUS
<1>4. Cardinality({t \in Trades : exch[t] = "closed"}) \in Nat
  BY <1>3, TradesAssumption, FS_Subset, FS_CardinalityType
<1>5. log \in Seq(Trades)
  BY <1>1, <1>4, FunctionIsSeq
<1> QED
  BY <1>2, <1>5, NoSessionShape DEF SessionInit, ShapeInv

\* Every step keeps the shape and the log.
LEMMA ShapeStep == ShapeInv /\ LogInv /\ [SessionNext]_sessionVars => (ShapeInv /\ LogInv)'
<1> SUFFICES ASSUME ShapeInv, LogInv, [SessionNext]_sessionVars PROVE (ShapeInv /\ LogInv)'
  OBVIOUS
<1> USE NoSessionShape DEF exchVars, opVars, histVars, Goto
<1>1. ASSUME NEW t \in Trades, Close(t), UNCHANGED <<sess, rows, acked, todo, work, ours>>,
             batch' \in {batch, batch \cup {t}}
      PROVE  (ShapeInv /\ LogInv)'
  BY <1>1, CloseIs DEF ShapeInv
<1>2. CASE Exchange
  <2>1. ASSUME NEW t \in Trades, Settle(t) PROVE (ShapeInv /\ LogInv)'
    BY <2>1 DEF Settle, ShapeInv, LogInv, Closed
  <2> QED
    BY <1>1, <1>2, <2>1 DEF Exchange, ExchangeCloses
<1>3. CASE Operation
  <2>1. CASE Order \/ OrderRow \/ CloseAll \/ Abandon
    BY <2>1 DEF Order, OrderRow, CloseAll, Abandon, Begin, ShapeInv, LogInv, Closed
  <2>2. ASSUME NEW t \in Trades, NEW f \in 0..MaxFunding, OrderSent(t, f) PROVE (ShapeInv /\ LogInv)'
    BY <2>2, SnapShape DEF OrderSent, ShapeInv, LogInv, Closed
  <2>3. CASE OrderRegister
    <3>1. PICK t \in Trades : sess' = RegisterIn(sess, t, work.snap[t])
      BY <2>3 DEF OrderRegister, Publish, ShapeInv
    <3> QED
      BY <2>3, <3>1, RegisterInIs DEF OrderRegister, ShapeInv, LogInv, Closed
  <2>4. ASSUME NEW S \in SUBSET Trades, CloseSome(S) \/ CloseSend(S) PROVE (ShapeInv /\ LogInv)'
    BY <2>4 DEF CloseSome, CloseSend, Begin, ShapeInv, LogInv, Closed
  <2>5. ASSUME NEW t \in Trades, CloseAck(t) PROVE (ShapeInv /\ LogInv)'
    BY <2>5, CloseIs DEF CloseAck, ShapeInv
  <2>6. ASSUME NEW t \in Trades, CloseAllAck(t) PROVE (ShapeInv /\ LogInv)'
    BY <2>6, <1>1 DEF CloseAllAck
  <2>7. CASE CloseRows
    BY <2>7, CloseInIs DEF CloseRows, ShapeInv, LogInv, Closed
  <2>8. CASE CloseRegister
    BY <2>8 DEF CloseRegister, Publish, ShapeInv, LogInv, Closed
  <2>9. CASE CloseAllRegister
    BY <2>9, CloseInIs DEF CloseAllRegister, Publish, ShapeInv, LogInv, Closed
  <2> QED
    BY <1>3, <2>1, <2>2, <2>3, <2>4, <2>5, <2>6, <2>7, <2>8, <2>9 DEF Operation
<1>4. CASE Refresh
  <2>1. ASSUME NEW S \in SUBSET Trades, Reevaluate(S) PROVE (ShapeInv /\ LogInv)'
    BY <2>1 DEF Reevaluate, Refreshed, Publish, ShapeInv, LogInv, Closed
  <2>2. CASE ReevaluateConfirm
    BY <2>2, CloseInIs, ExpiredIs DEF ReevaluateConfirm, Refreshed, RefreshError, Publish, ShapeInv, LogInv, Closed
  <2>3. CASE Rebuild \/ RebuildReadRows
    BY <2>3 DEF Rebuild, RebuildReadRows, ShapeInv, LogInv, Closed
  <2>4. CASE RebuildFetch
    BY <2>4, RebuiltIs DEF RebuildFetch, Refreshed, Publish, ShapeInv, LogInv, Closed
  <2>5. CASE RebuildMissed
    BY <2>5, MissedIs, CloseMissedIs, ExpiredIs
    DEF RebuildMissed, RefreshError, ShapeInv, LogInv, Closed
  <2>6. CASE RebuildPrune
    BY <2>6 DEF RebuildPrune, Refreshed, Publish, ShapeInv, LogInv, Closed
  <2>7. CASE RefreshFails
    BY <2>7, ExpiredIs DEF RefreshFails, RefreshError, ShapeInv, LogInv, Closed
  <2> QED
    BY <1>4, <2>1, <2>2, <2>3, <2>4, <2>5, <2>6, <2>7 DEF Refresh
<1>5. CASE Lifecycle
  <2>1. CASE SessionExpires \/ SyncLagged
    BY <2>1, ExpiredIs DEF SessionExpires, SyncLagged, RefreshError, ShapeInv, LogInv, Closed
  <2>2. CASE SyncLost \/ (\E cross \in BOOLEAN : ShutdownBegin(cross)) \/ CleanUpDone \/ Launched \/ Restart
    BY <2>2 DEF SyncLost, ShutdownBegin, CleanUpDone, Launched, Restart, ShapeInv, LogInv, Closed
  <2>3. ASSUME NEW t \in Trades, CleanUpAck(t) PROVE (ShapeInv /\ LogInv)'
    BY <2>3, <1>1 DEF CleanUpAck
  <2> QED
    BY <1>5, <2>1, <2>2, <2>3 DEF Lifecycle
<1>6. CASE UNCHANGED sessionVars
  BY <1>6 DEF sessionVars, ShapeInv, LogInv, Closed
<1> QED
  BY <1>2, <1>3, <1>4, <1>5, <1>6 DEF SessionNext

-----------------------------------------------------------------------------
(* Rows. A row is added before the order is acknowledged and removed after *)
(* the close is; a rebuild removes rows of trades that had ended when it   *)
(* asked, and a closed trade never runs again.                             *)

RowInv ==
  /\ ours \cap RunningTrades \subseteq rows /\ ours \subseteq RunningTrades \cup Closed
  /\ pc \in {"orderRow", "orderReg"} => batch \subseteq RunningTrades \cup Closed
  /\ pc = "orderReg" => batch \cap RunningTrades \subseteq rows
  /\ pc = "closing" => acked \subseteq Closed
  /\ pc \in {"missed", "readRows"} => RunningTrades \subseteq work.running
  /\ pc = "prune" => batch \cap RunningTrades = {}

LEMMA RowStep == ShapeInv /\ LogInv /\ RowInv /\ [SessionNext]_sessionVars => RowInv'
<1> SUFFICES ASSUME ShapeInv, LogInv, RowInv, [SessionNext]_sessionVars PROVE RowInv'
  OBVIOUS
<1> USE DEF exchVars, opVars, histVars, Goto
<1>1. ASSUME NEW t \in Trades, Close(t), UNCHANGED <<rows, work, ours, pc>>,
             batch' \in {batch, batch \cup {t}}, pc \in {"orderRow", "orderReg", "prune"} => UNCHANGED batch,
             acked' \in {acked, acked \cup {t}}
      PROVE  RowInv'
  BY <1>1, CloseIs DEF RowInv
<1>2. CASE Exchange
  <2>1. ASSUME NEW t \in Trades, Settle(t) PROVE RowInv'
    BY <2>1 DEF Settle, RowInv, RunningTrades, Closed
  <2> QED
    BY <1>1, <1>2, <2>1 DEF Exchange, ExchangeCloses
<1>3. CASE Operation
  <2>1. CASE Order \/ CloseAll \/ Abandon
    BY <2>1 DEF Order, CloseAll, Abandon, Begin, RowInv, RunningTrades, Closed
  <2>2. ASSUME NEW t \in Trades, NEW f \in 0..MaxFunding, OrderSent(t, f) PROVE RowInv'
    BY <2>2 DEF OrderSent, RowInv, RunningTrades, Closed, ShapeInv
  <2>3. CASE OrderRow
    BY <2>3 DEF OrderRow, RowInv, RunningTrades, Closed
  <2>4. CASE OrderRegister
    BY <2>4 DEF OrderRegister, Publish, RowInv, RunningTrades, Closed
  <2>5. ASSUME NEW S \in SUBSET Trades, CloseSome(S) \/ CloseSend(S) PROVE RowInv'
    BY <2>5 DEF CloseSome, CloseSend, Begin, RowInv, RunningTrades, Closed
  <2>6. ASSUME NEW t \in Trades, CloseAck(t) \/ CloseAllAck(t) PROVE RowInv'
    BY <2>6, <1>1 DEF CloseAck, CloseAllAck
  <2>7. CASE CloseRows
    BY <2>7 DEF CloseRows, RowInv, RunningTrades, Closed
  <2>8. CASE CloseRegister
    BY <2>8 DEF CloseRegister, Publish, RowInv, RunningTrades, Closed
  <2>9. CASE CloseAllRegister
    BY <2>9 DEF CloseAllRegister, Publish, RowInv, RunningTrades, Closed
  <2> QED
    BY <1>3, <2>1, <2>2, <2>3, <2>4, <2>5, <2>6, <2>7, <2>8, <2>9 DEF Operation
<1>4. CASE Refresh
  <2>1. ASSUME NEW S \in SUBSET Trades, Reevaluate(S) PROVE RowInv'
    BY <2>1 DEF Reevaluate, Refreshed, Publish, RowInv, RunningTrades, Closed
  <2>2. CASE ReevaluateConfirm
    BY <2>2 DEF ReevaluateConfirm, Refreshed, RefreshError, Publish, RowInv, RunningTrades, Closed
  <2>3. CASE Rebuild
    BY <2>3 DEF Rebuild, RowInv, RunningTrades, Closed
  <2>4. CASE RebuildFetch
    BY <2>4, RebuiltIs DEF RebuildFetch, Refreshed, Publish, RowInv, RunningTrades, Closed
  <2>5. CASE RebuildMissed
    BY <2>5, MissedIs, CloseMissedIs
    DEF RebuildMissed, RefreshError, ShapeInv, RowInv, RunningTrades, Closed
  <2>6. CASE RebuildReadRows
    BY <2>6 DEF RebuildReadRows, RowInv, RunningTrades, Closed
  <2>7. CASE RebuildPrune
    BY <2>7 DEF RebuildPrune, Refreshed, Publish, RowInv, RunningTrades, Closed
  <2>8. CASE RefreshFails
    BY <2>8 DEF RefreshFails, RefreshError, RowInv, RunningTrades, Closed
  <2> QED
    BY <1>4, <2>1, <2>2, <2>3, <2>4, <2>5, <2>6, <2>7, <2>8 DEF Refresh
<1>5. CASE Lifecycle
  <2>1. CASE SessionExpires \/ SyncLost \/ SyncLagged
    BY <2>1 DEF SessionExpires, SyncLost, SyncLagged, RefreshError, RowInv, RunningTrades, Closed
  <2>2. CASE (\E cross \in BOOLEAN : ShutdownBegin(cross)) \/ CleanUpDone \/ Launched \/ Restart
    BY <2>2 DEF ShutdownBegin, CleanUpDone, Launched, Restart, RowInv, RunningTrades, Closed
  <2>3. ASSUME NEW t \in Trades, CleanUpAck(t) PROVE RowInv'
    BY <2>3, <1>1 DEF CleanUpAck
  <2> QED
    BY <1>5, <2>1, <2>2, <2>3 DEF Lifecycle
<1>6. CASE UNCHANGED sessionVars
  BY <1>6 DEF sessionVars, RowInv, RunningTrades, Closed
<1> QED
  BY <1>2, <1>3, <1>4, <1>5, <1>6 DEF SessionNext

\* A trade whose isolated_order() succeeded keeps its row while it runs.
THEOREM RowTheorem == SessionSpec => []RowUntilClosed
<1>1. SessionInit => ShapeInv /\ LogInv /\ RowInv
  BY InitShape DEF SessionInit, RowInv
<1>2. ShapeInv /\ LogInv /\ RowInv /\ [SessionNext]_sessionVars => (ShapeInv /\ LogInv /\ RowInv)'
  BY ShapeStep, RowStep
<1>3. ShapeInv /\ RowInv => RowUntilClosed
  BY DEF ShapeInv, RowInv, RunningTrades, RowUntilClosed
<1> QED
  BY <1>1, <1>2, <1>3, PTL DEF SessionSpec

-----------------------------------------------------------------------------
(* Accounts, with trade recovery. The published session partitions the     *)
(* trades it knows; an operation's working copy does too at every await.   *)

Opened == RunningTrades \cup Closed

\* s holds each of the trades of K once, the closed ones among the closed.
Partition(s, K) ==
  /\ K = s.running \cup s.closed
  /\ s.running \cap s.closed = {}
  /\ s.closed \subseteq Closed

AccountInv ==
  /\ Partition(sess, known) /\ known \subseteq Opened
  /\ pc \in {"orderRow", "orderReg"} => batch \cap known = {} /\ batch \subseteq Opened
  /\ pc \in {"close", "closing", "closeReg"} => Partition(work, known)
  /\ pc \in {"close", "closing"} => todo \subseteq work.running
  /\ pc = "closing" => batch \subseteq todo /\ acked \subseteq Closed
  /\ pc = "closeAll" => batch \subseteq Closed
  /\ pc = "confirm" => batch \subseteq sess.running
  /\ pc = "missed" => /\ work.closed = sess.closed /\ work.running \cap sess.closed = {}
                      /\ work.running \subseteq Opened
  /\ pc \in {"readRows", "prune"} => /\ Partition(work, known \cup work.running)
                                     /\ work.running \subseteq Opened

LEMMA AccountInit == SessionInit => AccountInv
<1>1. ASSUME SessionInit PROVE sess.running = {} /\ sess.closed = {} /\ known = {} /\ pc = "launch"
  BY <1>1 DEF SessionInit, NoSession
<1> QED
  BY <1>1 DEF AccountInv, Partition

LEMMA AccountStep ==
  ASSUME Recover
  PROVE  ShapeInv /\ LogInv /\ AccountInv /\ [SessionNext]_sessionVars => AccountInv'
<1> SUFFICES ASSUME ShapeInv, LogInv, AccountInv, [SessionNext]_sessionVars PROVE AccountInv'
  OBVIOUS
<1> USE DEF exchVars, opVars, histVars, Goto, Opened, Partition
<1>1. ASSUME NEW t \in Trades, Close(t), UNCHANGED <<sess, work, todo, known, pc>>,
             batch' = batch \/ (pc = "closeAll" /\ batch' = batch \cup {t}),
             acked' \in {acked, acked \cup {t}}
      PROVE  AccountInv'
  <2>1. RunningTrades' = RunningTrades \ {t} /\ Closed' = Closed \cup {t} /\ t \in RunningTrades
    BY <1>1, CloseIs
  <2> QED
    BY <1>1, <2>1 DEF AccountInv
<1>2. CASE Exchange
  <2>1. ASSUME NEW t \in Trades, Settle(t) PROVE AccountInv'
    BY <2>1 DEF Settle, AccountInv, RunningTrades, Closed
  <2> QED
    BY <1>1, <1>2, <2>1 DEF Exchange, ExchangeCloses
<1>3. CASE Operation
  <2>1. CASE Order \/ CloseAll \/ OrderRow
    BY <2>1 DEF Order, CloseAll, OrderRow, Begin, AccountInv, RunningTrades, Closed
  <2>2. CASE Abandon
    BY <2>2 DEF Abandon, AccountInv, RunningTrades, Closed
  <2>3. ASSUME NEW t \in Trades, NEW f \in 0..MaxFunding, OrderSent(t, f) PROVE AccountInv'
    <3>1. RunningTrades' = RunningTrades \cup {t} /\ Closed' = Closed /\ t \notin Opened
      BY <2>3 DEF OrderSent, RunningTrades, Closed, ShapeInv
    <3> QED
      BY <2>3, <3>1 DEF OrderSent, AccountInv
  <2>4. CASE OrderRegister
    <3>1. PICK t \in batch : Publish(RegisterIn(sess, t, work.snap[t]), NoSession.snap)
      BY <2>4 DEF OrderRegister
    <3>2. /\ sess'.running = sess.running \cup {t} /\ sess'.closed = sess.closed
          /\ known' = known \cup sess'.running /\ pc' = "idle"
      BY <3>1, RegisterInIs DEF Publish, ShapeInv
    <3>3. UNCHANGED <<RunningTrades, Closed>>
      BY <2>4 DEF OrderRegister, RunningTrades, Closed
    <3> QED
      BY <2>4, <3>2, <3>3 DEF OrderRegister, AccountInv
  <2>5. ASSUME NEW S \in SUBSET Trades, CloseSome(S) \/ CloseSend(S) PROVE AccountInv'
    BY <2>5 DEF CloseSome, CloseSend, Begin, AccountInv, RunningTrades, Closed
  <2>6. ASSUME NEW t \in Trades, CloseAck(t) \/ CloseAllAck(t) PROVE AccountInv'
    BY <2>6, <1>1 DEF CloseAck, CloseAllAck
  <2>7. CASE CloseRows
    <3>1. work'.running = work.running \ batch /\ work'.closed = work.closed \cup batch
      BY <2>7, CloseInIs DEF CloseRows, ShapeInv
    <3>2. UNCHANGED <<RunningTrades, Closed>>
      BY <2>7 DEF CloseRows, RunningTrades, Closed
    <3> QED
      BY <2>7, <3>1, <3>2 DEF CloseRows, AccountInv
  <2>8. CASE CloseRegister
    BY <2>8 DEF CloseRegister, Publish, AccountInv, RunningTrades, Closed
  <2>9. CASE CloseAllRegister
    <3>1. /\ CloseIn(sess, batch).running = sess.running \ batch
          /\ CloseIn(sess, batch).closed = sess.closed \cup batch
      BY CloseInIs DEF ShapeInv
    <3>2. UNCHANGED <<RunningTrades, Closed>>
      BY <2>9 DEF CloseAllRegister, RunningTrades, Closed
    <3> QED
      BY <2>9, <3>1, <3>2 DEF CloseAllRegister, Publish, AccountInv
  <2> QED
    BY <1>3, <2>1, <2>2, <2>3, <2>4, <2>5, <2>6, <2>7, <2>8, <2>9 DEF Operation
<1>4. CASE Refresh
  <2>1. ASSUME NEW S \in SUBSET Trades, Reevaluate(S) PROVE AccountInv'
    BY <2>1 DEF Reevaluate, Refreshed, Publish, AccountInv, RunningTrades, Closed
  <2>2. ASSUME RefreshError, UNCHANGED exchVars PROVE AccountInv'
    <3>1. UNCHANGED <<RunningTrades, Closed>>
      BY <2>2 DEF RunningTrades, Closed
    <3>2. sess'.running = sess.running /\ sess'.closed = sess.closed
      BY <2>2, ExpiredIs DEF RefreshError, ShapeInv
    <3> QED
      BY <2>2, <3>1, <3>2 DEF RefreshError, AccountInv
  <2>3. CASE ReevaluateConfirm
    <3>1. CASE RecentlyClosed(Cardinality(batch)) = batch
      <4>1. /\ CloseIn(sess, batch).running = sess.running \ batch
            /\ CloseIn(sess, batch).closed = sess.closed \cup batch
        BY CloseInIs DEF ShapeInv
      <4>2. batch \subseteq Closed
        BY <3>1, RecentIsClosed
      <4>3. UNCHANGED <<RunningTrades, Closed>>
        BY <2>3 DEF ReevaluateConfirm, RunningTrades, Closed
      <4> QED
        BY <2>3, <3>1, <4>1, <4>2, <4>3 DEF ReevaluateConfirm, Refreshed, Publish, AccountInv
    <3> QED
      BY <2>2, <2>3, <3>1 DEF ReevaluateConfirm
  <2>4. CASE Rebuild
    BY <2>4 DEF Rebuild, AccountInv, RunningTrades, Closed
  <2>5. CASE RebuildFetch
    <3>1. RunningTrades \cap Closed = {} /\ UNCHANGED <<RunningTrades, Closed>>
      BY <2>5 DEF RebuildFetch, RunningTrades, Closed
    <3> QED
      BY <2>5, <3>1, RebuiltIs DEF RebuildFetch, AccountInv
  <2>6. CASE RebuildMissed
    <3>1. UNCHANGED <<RunningTrades, Closed>>
      BY <2>6 DEF RebuildMissed, RunningTrades, Closed
    <3>2. CASE Missed \subseteq RecentlyClosed(Max({1, Cardinality(sess.running)}))
      <4>1. Missed \subseteq Closed /\ Missed = sess.running \ work.running
        BY <3>2, RecentIsClosed, MissedIs
      <4>2. work'.running = work.running /\ work'.closed = work.closed \cup Missed
        BY <2>6, <3>2, CloseMissedIs, MissedIs DEF RebuildMissed, ShapeInv
      <4> QED
        BY <2>6, <3>1, <3>2, <4>1, <4>2 DEF RebuildMissed, AccountInv
    <3> QED
      BY <2>2, <2>6, <3>2 DEF RebuildMissed
  <2>7. CASE RebuildReadRows
    BY <2>7 DEF RebuildReadRows, AccountInv, RunningTrades, Closed
  <2>8. CASE RebuildPrune
    BY <2>8 DEF RebuildPrune, Refreshed, Publish, AccountInv, RunningTrades, Closed
  <2>9. CASE RefreshFails
    BY <2>9, <2>2 DEF RefreshFails
  <2> QED
    BY <1>4, <2>1, <2>3, <2>4, <2>5, <2>6, <2>7, <2>8, <2>9 DEF Refresh
<1>5. CASE Lifecycle
  <2>1. CASE SessionExpires \/ SyncLagged
    <3>1. UNCHANGED <<RunningTrades, Closed>>
      BY <2>1 DEF SessionExpires, SyncLagged, RunningTrades, Closed
    <3> QED
      BY <2>1, <3>1, ExpiredIs DEF SessionExpires, SyncLagged, RefreshError, ShapeInv, AccountInv
  <2>2. CASE SyncLost \/ (\E cross \in BOOLEAN : ShutdownBegin(cross)) \/ CleanUpDone \/ Launched
    BY <2>2 DEF SyncLost, ShutdownBegin, CleanUpDone, Launched, AccountInv, RunningTrades, Closed
  <2>3. CASE Restart
    BY <2>3 DEF Restart, NoSession, AccountInv
  <2>4. ASSUME NEW t \in Trades, CleanUpAck(t) PROVE AccountInv'
    BY <2>4, <1>1 DEF CleanUpAck
  <2> QED
    BY <1>5, <2>1, <2>2, <2>3, <2>4 DEF Lifecycle
<1>6. CASE UNCHANGED sessionVars
  BY <1>6 DEF sessionVars, AccountInv, RunningTrades, Closed
<1> QED
  BY <1>2, <1>3, <1>4, <1>5, <1>6 DEF SessionNext

\* With trade recovery no trade a session has registered is forgotten or recorded twice,
\* and none is recorded as closed that still runs.
THEOREM AccountTheorem ==
  ASSUME Recover
  PROVE  SessionSpec => []EveryTradeAccounted
<1> DEFINE I == ShapeInv /\ LogInv /\ AccountInv
<1>1. SessionInit => I
  BY AccountInit, InitShape
<1>2. I /\ [SessionNext]_sessionVars => I'
  BY ShapeStep, AccountStep
<1>3. I => EveryTradeAccounted
  BY DEF AccountInv, Partition, Closed, EveryTradeAccounted
<1> QED
  BY <1>1, <1>2, <1>3, PTL DEF SessionSpec

-----------------------------------------------------------------------------
(* What Paid counts, and the types of a session.                           *)

LEMMA PaidType ==
  ASSUME NEW S \in SUBSET Trades, NEW a, NEW b, \A t \in S : a[t] \in Int /\ b[t] \in Int
  PROVE  Paid(S, a, b) \in Int
<1> DEFINE f == [t \in Trades |-> b[t] - a[t]]
<1>1. IsFiniteSet(S)
  BY TradesAssumption, FS_Subset
<1>2. \A t \in S : f[t] \in Int
  OBVIOUS
<1> HIDE DEF f
<1>3. SumFunctionOnSet(f, S) \in Int
  BY <1>1, <1>2, SumOnType
<1> QED
  BY <1>3 DEF f, Paid

\* What was paid from a to b and from b to c was paid from a to c.
LEMMA PaidAdds ==
  ASSUME NEW S \in SUBSET Trades, NEW a, NEW b, NEW c,
         \A t \in S : a[t] \in Int /\ b[t] \in Int /\ c[t] \in Int
  PROVE  Paid(S, a, c) = Paid(S, a, b) + Paid(S, b, c)
<1> DEFINE f == [t \in Trades |-> b[t] - a[t]]
           g == [t \in Trades |-> c[t] - b[t]]
           h == [t \in Trades |-> c[t] - a[t]]
<1>1. IsFiniteSet(S)
  BY TradesAssumption, FS_Subset
<1>2. \A t \in S : f[t] \in Int /\ g[t] \in Int /\ h[t] = f[t] + g[t]
  OBVIOUS
<1> HIDE DEF f, g, h
<1>3. SumFunctionOnSet(h, S) = SumFunctionOnSet(f, S) + SumFunctionOnSet(g, S)
  BY <1>1, <1>2, SumOnAdds
<1> QED
  BY <1>3 DEF f, g, h, Paid

\* What two sets of trades paid that have none in common.
LEMMA PaidSplits ==
  ASSUME NEW S \in SUBSET Trades, NEW T \in SUBSET Trades, S \cap T = {}, NEW a, NEW b,
         \A t \in S \cup T : a[t] \in Int /\ b[t] \in Int
  PROVE  Paid(S \cup T, a, b) = Paid(S, a, b) + Paid(T, a, b)
<1> DEFINE f == [t \in Trades |-> b[t] - a[t]]
<1>1. IsFiniteSet(S) /\ IsFiniteSet(T)
  BY TradesAssumption, FS_Subset
<1>2. \A t \in S \cup T : f[t] \in Int
  OBVIOUS
<1> HIDE DEF f
<1>3. SumFunctionOnSet(f, S \cup T) = SumFunctionOnSet(f, S) + SumFunctionOnSet(f, T)
  BY <1>1, <1>2, SumOnUnion
<1> QED
  BY <1>3 DEF f, Paid

\* Only the trades of the set matter.
LEMMA PaidAgrees ==
  ASSUME NEW S \in SUBSET Trades, NEW a, NEW b, NEW c, NEW d,
         \A t \in S : a[t] = c[t] /\ b[t] = d[t]
  PROVE  Paid(S, a, b) = Paid(S, c, d)
<1> DEFINE f == [t \in Trades |-> b[t] - a[t]]
           g == [t \in Trades |-> d[t] - c[t]]
<1>1. IsFiniteSet(S)
  BY TradesAssumption, FS_Subset
<1>2. \A t \in S : f[t] = g[t]
  OBVIOUS
<1> HIDE DEF f, g
<1>3. SumFunctionOnSet(f, S) = SumFunctionOnSet(g, S)
  BY <1>1, <1>2, SumOnCongruent
<1> QED
  BY <1>3 DEF f, g, Paid

\* A trade that starts at the present sum has paid nothing.
LEMMA PaidNothing ==
  ASSUME NEW S \in SUBSET Trades, NEW a, NEW b, \A t \in S : a[t] \in Int /\ a[t] = b[t]
  PROVE  Paid(S, a, b) = 0
<1> DEFINE f == [t \in Trades |-> b[t] - a[t]]
<1>1. IsFiniteSet(S)
  BY TradesAssumption, FS_Subset
<1>2. \A t \in S : f[t] = 0
  OBVIOUS
<1> HIDE DEF f
<1>3. SumFunctionOnSet(f, S) = 0
  BY <1>1, <1>2, SumOnZero
<1> QED
  BY <1>3 DEF f, Paid

\* What the operations of a session make of one is a session.
LEMMA SessionsAre ==
  ASSUME SessionTypeOK
  PROVE  /\ \A s \in Session, S \in SUBSET Trades : CloseIn(s, S) \in Session
         /\ \A s \in Session, S \in SUBSET Trades : CloseMissed(s, S) \in Session
         /\ \A s \in Session, t \in Trades, f \in Nat : RegisterIn(s, t, f) \in Session
         /\ \A s \in Session : [s EXCEPT !.expired = TRUE] \in Session
         /\ Rebuilt \in Session /\ NoSession \in Session
         /\ \A t \in Trades, f \in Nat : [NoSession EXCEPT !.snap[t] = f] \in Session
<1>1. funding \in [Trades -> Nat] /\ sess \in Session
  BY BoundsAssumption DEF SessionTypeOK
<1>2. ASSUME NEW s \in Session, NEW S \in SUBSET Trades PROVE FundingDelta(S, s.snap) \in Int
  <2>1. \A t \in S : s.snap[t] \in Int /\ funding[t] \in Int
    BY <1>1 DEF Session
  <2> QED
    BY <2>1, PaidType DEF FundingDelta
<1> DEFINE Fields(s) == /\ s.running \in SUBSET Trades /\ s.closed \in SUBSET Trades
                        /\ s.fees \in Int /\ s.snap \in [Trades -> Nat]
<1>9. \A s \in Session : Fields(s)
  BY DEF Session
<1>3. ASSUME NEW s \in Session, NEW S \in SUBSET Trades PROVE CloseIn(s, S) \in Session
  <2>1. Fields(s) /\ s.fees + FundingDelta(S, s.snap) \in Int
    BY <1>2, <1>9
  <2>2. s.running \ S \in SUBSET Trades /\ s.closed \cup S \in SUBSET Trades
    BY <2>1
  <2> QED
    BY <2>1, <2>2 DEF CloseIn, Session
<1>4. ASSUME NEW s \in Session, NEW S \in SUBSET Trades PROVE CloseMissed(s, S) \in Session
  <2>1. Fields(s) /\ s.fees + FundingDelta(S, sess.snap) \in Int
    BY <1>1, <1>2, <1>9
  <2>2. s.closed \cup S \in SUBSET Trades
    BY <2>1
  <2> QED
    BY <2>1, <2>2 DEF CloseMissed, Session
<1>5. Rebuilt \in Session
  <2>1. sess.running \in SUBSET Trades /\ sess.closed \in SUBSET Trades /\ sess.fees \in Int
    BY <1>1 DEF Session
  <2>2. FundingDelta(RunningTrades \cap sess.running, sess.snap) \in Int
    BY <1>1, <1>2, <2>1
  <2> QED
    BY <1>1, <2>1, <2>2 DEF Rebuilt, Session, RunningTrades
<1>6. ASSUME NEW s \in Session, NEW t \in Trades, NEW f \in Nat PROVE RegisterIn(s, t, f) \in Session
  <2>1. Fields(s) /\ s.fees + f \in Int /\ s.running \cup {t} \in SUBSET Trades
    BY <1>9
  <2>2. [s.snap EXCEPT ![t] = f] \in [Trades -> Nat]
    BY <2>1
  <2> QED
    BY <2>1, <2>2 DEF RegisterIn, Session
<1>7. NoSession \in Session
  BY DEF NoSession, Session
<1>10. ASSUME NEW t \in Trades, NEW f \in Nat PROVE [NoSession EXCEPT !.snap[t] = f] \in Session
  <2>1. [NoSession.snap EXCEPT ![t] = f] \in [Trades -> Nat]
    BY <1>7, <1>9
  <2> QED
    BY <1>7, <2>1 DEF Session
<1>8. \A s \in Session : [s EXCEPT !.expired = TRUE] \in Session
  BY DEF Session
<1> QED
  BY <1>3, <1>4, <1>5, <1>6, <1>7, <1>8, <1>10

\* The fields a step of a session may change besides those of the shape.
Rest ==
  /\ funding \in [Trades -> 0..MaxFunding]
  /\ execStatus \in {"Starting", "WaitingForSync", "Ready", "Failed", "ShutdownInitiated",
                     "Shutdown", "Terminated"}
  /\ sess \in Session /\ work \in Session
  /\ pc \in {"idle"} \cup OrderPcs \cup ClosePcs \cup RefreshPcs \cup StopPcs
  /\ refreshFaults \in 0..MaxRefreshFaults
  /\ known \in SUBSET Trades
  /\ first \in [Trades -> Nat]

\* Publishing a session keeps the types of the histories.
LEMMA PublishType ==
  ASSUME SessionTypeOK, NEW s \in Session, NEW paid \in [Trades -> Nat], Publish(s, paid)
  PROVE  sess' \in Session /\ known' \in SUBSET Trades /\ first' \in [Trades -> Nat] /\ pc' = "idle"
BY DEF Publish, SessionTypeOK, Session, Goto

LEMMA RestStep == SessionTypeOK /\ [SessionNext]_sessionVars => Rest'
<1> SUFFICES ASSUME SessionTypeOK, [SessionNext]_sessionVars PROVE Rest'
  OBVIOUS
<1> USE DEF exchVars, opVars, histVars, Goto, OrderPcs, ClosePcs, RefreshPcs, StopPcs
<1>0. /\ sess \in Session /\ work \in Session /\ Rest
      /\ \A s \in Session : s.snap \in [Trades -> Nat]
      /\ batch \in SUBSET Trades
  BY DEF SessionTypeOK, Session, Rest
<1>1. CASE Exchange
  <2>1. ASSUME NEW t \in Trades, Settle(t) PROVE Rest'
    <3>1. funding \in [Trades -> 0..MaxFunding] /\ funding[t] \in 0..MaxFunding
      BY <1>0 DEF Rest
    <3>2. funding' \in [Trades -> 0..MaxFunding]
      BY <2>1, <3>1, BoundsAssumption DEF Settle
    <3> QED
      BY <2>1, <1>0, <3>2 DEF Settle, Rest
  <2>2. ASSUME NEW t \in Trades, ExchangeCloses(t) PROVE Rest'
    BY <2>2, <1>0 DEF ExchangeCloses, Close, Rest
  <2> QED
    BY <1>1, <2>1, <2>2 DEF Exchange
<1>2. CASE Operation
  <2>1. CASE Order \/ OrderRow \/ CloseAll
    BY <2>1, <1>0 DEF Order, OrderRow, CloseAll, Begin, Rest
  <2>2. ASSUME NEW t \in Trades, NEW f \in 0..MaxFunding, OrderSent(t, f) PROVE Rest'
    <3>1. work' \in Session
      BY <2>2, BoundsAssumption, SessionsAre DEF OrderSent
    <3> QED
      BY <2>2, <1>0, <3>1 DEF OrderSent, Rest
  <2>3. CASE OrderRegister
    <3>1. PICK t \in batch : Publish(RegisterIn(sess, t, work.snap[t]), NoSession.snap)
      BY <2>3 DEF OrderRegister
    <3>2. RegisterIn(sess, t, work.snap[t]) \in Session /\ NoSession \in Session
      BY <1>0, SessionsAre
    <3>3. sess' \in Session /\ known' \in SUBSET Trades /\ first' \in [Trades -> Nat] /\ pc' = "idle"
      BY <1>0, <3>1, <3>2, PublishType
    <3> QED
      BY <2>3, <1>0, <3>2, <3>3 DEF OrderRegister, Rest
  <2>4. ASSUME NEW S \in SUBSET Trades, CloseSome(S) \/ CloseSend(S) PROVE Rest'
    BY <2>4, <1>0 DEF CloseSome, CloseSend, Begin, Rest
  <2>5. ASSUME NEW t \in Trades, CloseAck(t) \/ CloseAllAck(t) PROVE Rest'
    BY <2>5, <1>0 DEF CloseAck, CloseAllAck, Close, Rest
  <2>6. CASE CloseRows
    BY <2>6, <1>0, SessionsAre DEF CloseRows, Rest
  <2>7. CASE CloseRegister
    <3>1. sess' \in Session /\ known' \in SUBSET Trades /\ first' \in [Trades -> Nat] /\ pc' = "idle"
      BY <2>7, <1>0, PublishType DEF CloseRegister
    <3> QED
      BY <2>7, <1>0, <3>1, SessionsAre DEF CloseRegister, Rest
  <2>8. CASE CloseAllRegister
    <3>1. CASE batch \subseteq sess.running
      <4>1. sess' \in Session /\ known' \in SUBSET Trades /\ first' \in [Trades -> Nat] /\ pc' = "idle"
        BY <2>8, <3>1, <1>0, SessionsAre, PublishType DEF CloseAllRegister
      <4> QED
        BY <2>8, <1>0, <4>1 DEF CloseAllRegister, Rest
    <3> QED
      BY <2>8, <1>0, <3>1 DEF CloseAllRegister, Rest
  <2>9. CASE Abandon
    BY <2>9, <1>0, SessionsAre DEF Abandon, Rest
  <2> QED
    BY <1>2, <2>1, <2>2, <2>3, <2>4, <2>5, <2>6, <2>7, <2>8, <2>9 DEF Operation
<1>3. CASE Refresh
  <2>1. ASSUME RefreshError, UNCHANGED funding, work' \in Session, refreshFaults' \in 0..MaxRefreshFaults
        PROVE Rest'
    BY <2>1, <1>0, SessionsAre DEF RefreshError, Rest
  <2>2. ASSUME NEW s \in Session, Refreshed(s), UNCHANGED <<funding, refreshFaults>>, work' \in Session
        PROVE Rest'
    <3>1. sess' \in Session /\ known' \in SUBSET Trades /\ first' \in [Trades -> Nat] /\ pc' = "idle"
      BY <2>2, <1>0, PublishType DEF Refreshed
    <3> QED
      BY <2>2, <1>0, <3>1 DEF Refreshed, Rest
  <2>3. ASSUME NEW S \in SUBSET Trades, Reevaluate(S) PROVE Rest'
    BY <2>3, <1>0 DEF Reevaluate, Rest
  <2>4. CASE ReevaluateConfirm
    BY <2>4, <2>1, <2>2, <1>0, SessionsAre DEF ReevaluateConfirm, Rest
  <2>5. CASE Rebuild \/ RebuildReadRows
    BY <2>5, <1>0 DEF Rebuild, RebuildReadRows, Rest
  <2>6. CASE RebuildFetch
    BY <2>6, <2>2, <1>0, SessionsAre DEF RebuildFetch, Rest
  <2>7. CASE RebuildMissed
    <3>1. Missed \in SUBSET Trades
      BY <1>0 DEF Missed, Session
    <3>2. CASE Missed \subseteq RecentlyClosed(Max({1, Cardinality(sess.running)}))
      BY <2>7, <3>1, <3>2, <1>0, SessionsAre DEF RebuildMissed, Rest
    <3> QED
      BY <2>7, <2>1, <3>2, <1>0, SessionsAre DEF RebuildMissed, Rest
  <2>8. CASE RebuildPrune
    BY <2>8, <2>2, <1>0, SessionsAre DEF RebuildPrune
  <2>9. CASE RefreshFails
    <3>1. refreshFaults' \in 0..MaxRefreshFaults
      BY <2>9, <1>0, BoundsAssumption DEF RefreshFails, Rest
    <3> QED
      BY <2>9, <2>1, <3>1, SessionsAre DEF RefreshFails
  <2> QED
    BY <1>3, <2>3, <2>4, <2>5, <2>6, <2>7, <2>8, <2>9 DEF Refresh
<1>4. CASE Lifecycle
  <2>1. CASE SessionExpires \/ SyncLagged
    BY <2>1, <1>0, SessionsAre DEF SessionExpires, SyncLagged, RefreshError, Rest
  <2>2. CASE SyncLost \/ (\E cross \in BOOLEAN : ShutdownBegin(cross)) \/ CleanUpDone \/ Launched
    BY <2>2, <1>0 DEF SyncLost, ShutdownBegin, CleanUpDone, Launched, Rest
  <2>3. CASE Restart
    BY <2>3, <1>0, SessionsAre DEF Restart, Rest
  <2>4. ASSUME NEW t \in Trades, CleanUpAck(t) PROVE Rest'
    BY <2>4, <1>0 DEF CleanUpAck, Close, Rest
  <2> QED
    BY <1>4, <2>1, <2>2, <2>3, <2>4 DEF Lifecycle
<1>5. CASE UNCHANGED sessionVars
  BY <1>5, <1>0 DEF sessionVars, Rest
<1> QED
  BY <1>1, <1>2, <1>3, <1>4, <1>5 DEF SessionNext

LEMMA SessionInitType == SessionInit => SessionTypeOK
<1> SUFFICES ASSUME SessionInit PROVE SessionTypeOK
  OBVIOUS
<1>1. ShapeInv
  BY InitShape
<1>2. NoSession \in Session /\ [t \in Trades |-> 0] \in [Trades -> Nat]
  BY DEF NoSession, Session
<1> QED
  BY <1>1, <1>2, BoundsAssumption DEF SessionInit, ShapeInv, SessionTypeOK, StopPcs

LEMMA SessionTypeStep ==
  ShapeInv /\ LogInv /\ SessionTypeOK /\ [SessionNext]_sessionVars => SessionTypeOK'
<1>1. (ShapeInv /\ Rest => SessionTypeOK)'
  BY DEF ShapeInv, Rest, SessionTypeOK
<1> QED
  BY <1>1, ShapeStep, RestStep

\* Every state of a session is well typed, the fees it has counted included.
THEOREM SessionTypeTheorem == SessionSpec => []SessionTypeOK
<1> DEFINE I == ShapeInv /\ LogInv /\ SessionTypeOK
<1>1. SessionInit => I
  BY InitShape, SessionInitType
<1>2. I /\ [SessionNext]_sessionVars => I'
  BY ShapeStep, SessionTypeStep
<1> QED
  BY <1>1, <1>2, PTL DEF SessionSpec

-----------------------------------------------------------------------------
(* Every funding payment is counted once, with trade recovery.             *)

\* The fees of s are what its trades paid between the sums in `from` and the session's last
\* look at them, which for a closed one is its sum in `paid`.
Counted(s, from, paid) ==
  s.fees = Paid(s.running, from, s.snap) + Paid(s.closed, from, paid)

\* Between the two reads of a rebuild the fees of the trades that run are up to date, those of
\* the others are the old session's; afterwards a trade first seen has not counted anything.
FeesInv ==
  /\ Counted(sess, first, funding)
  /\ pc \in {"close", "closing", "closeReg"} => Counted(work, first, funding)
  /\ pc = "missed" =>
       work.fees = Paid(sess.running \cap work.running, first, work.snap)
                 + Paid(sess.running \ work.running, first, sess.snap)
                 + Paid(sess.closed, first, funding)
  /\ pc \in {"readRows", "prune"} =>
       work.fees = Paid(known \cap work.running, first, work.snap)
                 + Paid(work.closed, first, funding)

SessionInv == ShapeInv /\ LogInv /\ SessionTypeOK /\ AccountInv /\ FeesInv

\* Values of a session's fields.
LEMMA ValuesAre ==
  ASSUME SessionTypeOK
  PROVE  /\ \A s \in Session : /\ s.running \in SUBSET Trades /\ s.closed \in SUBSET Trades
                               /\ s.fees \in Int /\ \A t \in Trades : s.snap[t] \in Int
         /\ \A t \in Trades : first[t] \in Int /\ funding[t] \in Int
         /\ sess \in Session /\ work \in Session
<1>1. \A t \in Trades : first[t] \in Int
  BY DEF SessionTypeOK
<1>2. \A t \in Trades : funding[t] \in Int
  BY BoundsAssumption DEF SessionTypeOK
<1> QED
  BY <1>1, <1>2 DEF SessionTypeOK, Session

\* Only the sums of the session's trades matter.
LEMMA CountedAgrees ==
  ASSUME NEW s \in Session, NEW a, NEW b, NEW c, NEW d,
         \A t \in s.running \cup s.closed : a[t] = c[t],
         \A t \in s.closed : b[t] = d[t],
         Counted(s, a, b)
  PROVE  Counted(s, c, d)
<1>1. s.running \in SUBSET Trades /\ s.closed \in SUBSET Trades
  BY DEF Session
<1>2. Paid(s.running, a, s.snap) = Paid(s.running, c, s.snap)
  BY <1>1, PaidAgrees
<1>3. Paid(s.closed, a, b) = Paid(s.closed, c, d)
  BY <1>1, PaidAgrees
<1> QED
  BY <1>2, <1>3 DEF Counted

\* Closing registered trades moves what they paid to the closed ones, with the last payments.
LEMMA CloseCounts ==
  ASSUME SessionTypeOK, NEW s \in Session, NEW S \in SUBSET s.running,
         s.running \cap s.closed = {}, Counted(s, first, funding)
  PROVE  Counted(CloseIn(s, S), first, funding)
<1> DEFINE R == s.running \ S
           C == s.closed
<1>1. /\ S \in SUBSET Trades /\ R \in SUBSET Trades /\ C \in SUBSET Trades /\ s.fees \in Int
      /\ \A t \in Trades : first[t] \in Int /\ funding[t] \in Int /\ s.snap[t] \in Int
  BY ValuesAre
<1>2. s.running = R \cup S /\ R \cap S = {} /\ C \cap S = {}
  OBVIOUS
<1>3. CloseIn(s, S).running = R /\ CloseIn(s, S).closed = C \cup S /\ CloseIn(s, S).snap = s.snap
      /\ CloseIn(s, S).fees = s.fees + Paid(S, s.snap, funding)
  BY DEF CloseIn, Session, FundingDelta
<1> HIDE DEF R, C
<1>4. Paid(s.running, first, s.snap) = Paid(R, first, s.snap) + Paid(S, first, s.snap)
  BY <1>1, <1>2, PaidSplits
<1>5. Paid(C \cup S, first, funding) = Paid(C, first, funding) + Paid(S, first, funding)
  BY <1>1, <1>2, PaidSplits
<1>6. Paid(S, first, funding) = Paid(S, first, s.snap) + Paid(S, s.snap, funding)
  BY <1>1, PaidAdds
<1>7. /\ Paid(R, first, s.snap) \in Int /\ Paid(S, first, s.snap) \in Int
      /\ Paid(C, first, funding) \in Int /\ Paid(S, s.snap, funding) \in Int
  BY <1>1, PaidType
<1>8. s.fees = Paid(s.running, first, s.snap) + Paid(C, first, funding)
  BY DEF Counted, C
<1>9. s.fees + Paid(S, s.snap, funding) = Paid(R, first, s.snap) + Paid(C \cup S, first, funding)
  BY <1>1, <1>4, <1>5, <1>6, <1>7, <1>8
<1> QED
  BY <1>3, <1>9 DEF Counted

\* A session without trades has counted nothing.
LEMMA NothingCounted == \A a, b : Counted(NoSession, a, b)
<1> SUFFICES ASSUME NEW a, NEW b PROVE Counted(NoSession, a, b)
  OBVIOUS
<1>1. \A c, d : Paid({}, c, d) = 0
  BY PaidNothing
<1> QED
  BY <1>1 DEF Counted, NoSession

\* Publishing a session whose trades are all known changes no first look.
LEMMA PublishKnown ==
  ASSUME SessionTypeOK, NEW s \in Session, s.running \subseteq known, NEW paid, Publish(s, paid)
  PROVE  sess' = s /\ first' = first /\ pc' = "idle"
<1>1. \A t \in Trades : first'[t] = first[t]
  BY DEF Publish
<1>2. first' = [t \in Trades |-> first'[t]] /\ first = [t \in Trades |-> first[t]]
  BY DEF Publish, SessionTypeOK
<1> QED
  BY <1>1, <1>2 DEF Publish, Goto

\* A step that publishes nothing and at most lets running trades pay.
LEMMA QuietCounts ==
  ASSUME SessionInv, SessionTypeOK', UNCHANGED <<first, known>>,
         \A t \in Closed : funding'[t] = funding[t],
         sess' = sess \/ sess' = [sess EXCEPT !.expired = TRUE],
         pc' \in {"close", "closing", "closeReg"} =>
           pc \in {"close", "closing", "closeReg"} /\ work' = work,
         pc' = "missed" => pc = "missed" /\ work' = work,
         pc' \in {"readRows", "prune"} => pc \in {"readRows", "prune"} /\ work' = work
  PROVE  FeesInv'
<1> USE DEF SessionInv
<1>1. /\ sess'.running = sess.running /\ sess'.closed = sess.closed
      /\ sess'.fees = sess.fees /\ sess'.snap = sess.snap
  BY DEF SessionTypeOK, Session
<1>2. /\ sess \in Session /\ work \in Session
      /\ \A s \in Session : s.running \in SUBSET Trades /\ s.closed \in SUBSET Trades
  BY ValuesAre
<1>3. sess.closed \subseteq Closed
  BY DEF AccountInv, Partition
<1>4. Counted(sess, first', funding')
  BY <1>2, <1>3, CountedAgrees DEF FeesInv
<1>5. Counted(sess', first', funding')
  BY <1>1, <1>4 DEF Counted
<1>6. ASSUME pc' \in {"close", "closing", "closeReg"} PROVE Counted(work', first', funding')
  <2>1. work.closed \subseteq Closed /\ Counted(work, first, funding) /\ work' = work
    BY <1>6 DEF AccountInv, Partition, FeesInv
  <2> QED
    BY <1>2, <2>1, CountedAgrees
<1>7. Paid(sess.closed, first, funding') = Paid(sess.closed, first, funding)
  BY <1>2, <1>3, PaidAgrees
<1>8. ASSUME pc' \in {"readRows", "prune"}
      PROVE  Paid(work.closed, first, funding') = Paid(work.closed, first, funding)
  <2>1. work.closed \subseteq Closed
    BY <1>8 DEF AccountInv, Partition
  <2> QED
    BY <1>2, <2>1, PaidAgrees
<1> QED
  BY <1>1, <1>5, <1>6, <1>7, <1>8 DEF FeesInv

\* What one trade paid.
LEMMA PaidOne ==
  ASSUME NEW t \in Trades, NEW a, NEW b, a[t] \in Int, b[t] \in Int
  PROVE  Paid({t}, a, b) = b[t] - a[t]
<1> DEFINE f == [u \in Trades |-> b[u] - a[u]]
<1>1. IsFiniteSet({t}) /\ {t} \ {t} = {}
  BY FS_Singleton
<1>2. f[t] = b[t] - a[t] /\ \A u \in {t} : f[u] \in Int
  OBVIOUS
<1> HIDE DEF f
<1>3. SumFunctionOnSet(f, {t}) = f[t] + SumFunctionOnSet(f, {t} \ {t})
  BY <1>1, <1>2, SumOnTakesOff
<1>4. SumFunctionOnSet(f, {t} \ {t}) = 0
  BY <1>1, SumEmpty
<1>5. SumFunctionOnSet(f, {t}) = b[t] - a[t]
  BY <1>2, <1>3, <1>4
<1> QED
  BY <1>5 DEF f, Paid

\* A new trade brings what it had paid before it was registered.
LEMMA RegisterCounts ==
  ASSUME SessionInv, NEW t \in Trades, t \notin known, NEW f \in Nat,
         Publish(RegisterIn(sess, t, f), NoSession.snap), UNCHANGED funding
  PROVE  Counted(sess', first', funding)
<1> USE DEF SessionInv
<1> DEFINE R == sess.running
           C == sess.closed
           s == RegisterIn(sess, t, f)
<1>1. /\ R \in SUBSET Trades /\ C \in SUBSET Trades /\ sess.fees \in Int
      /\ \A u \in Trades : first[u] \in Int /\ funding[u] \in Int /\ sess.snap[u] \in Int
  BY ValuesAre
<1>2. known = R \cup C
  BY DEF AccountInv, Partition
<1>3. /\ s.running = R \cup {t} /\ s.closed = C /\ s.fees = sess.fees + f
      /\ s.snap = [sess.snap EXCEPT ![t] = f] /\ s.snap[t] = f
      /\ \A u \in R : s.snap[u] = sess.snap[u]
  BY <1>2 DEF RegisterIn, Session, SessionTypeOK
<1>4. /\ sess' = s /\ first'[t] = 0
      /\ \A u \in R \cup C : first'[u] = first[u]
  BY <1>1, <1>2, <1>3 DEF Publish, NoSession
<1> HIDE DEF R, C, s
<1>5. Paid(R \cup {t}, first', s.snap) = Paid(R, first', s.snap) + Paid({t}, first', s.snap)
  <2>1. R \cap {t} = {} /\ {t} \in SUBSET Trades
    BY <1>2
  <2>2. \A u \in R \cup {t} : first'[u] \in Int /\ s.snap[u] \in Int
    BY <1>1, <1>3, <1>4
  <2> QED
    BY <1>1, <2>1, <2>2, PaidSplits
<1>6. Paid(R, first', s.snap) = Paid(R, first, sess.snap)
  <2>1. \A u \in R : first'[u] = first[u] /\ s.snap[u] = sess.snap[u]
    BY <1>3, <1>4
  <2> QED
    BY <1>1, <2>1, PaidAgrees
<1>7. Paid({t}, first', s.snap) = f
  <2>1. first'[t] = 0 /\ s.snap[t] = f /\ first'[t] \in Int /\ s.snap[t] \in Int
    BY <1>3, <1>4
  <2>2. Paid({t}, first', s.snap) = s.snap[t] - first'[t]
    BY <2>1, PaidOne
  <2> QED
    BY <2>1, <2>2
<1>8. Paid(C, first', funding) = Paid(C, first, funding)
  BY <1>1, <1>4, PaidAgrees
<1>9. Paid(R, first, sess.snap) \in Int /\ Paid(C, first, funding) \in Int
  BY <1>1, PaidType
<1>10. sess.fees = Paid(R, first, sess.snap) + Paid(C, first, funding)
  BY DEF FeesInv, Counted, R, C
<1>11. s.fees = Paid(R \cup {t}, first', s.snap) + Paid(C, first', funding)
  BY <1>3, <1>5, <1>6, <1>7, <1>8, <1>9, <1>10
<1> QED
  BY <1>3, <1>4, <1>11 DEF Counted

\* A rebuilt session brings the trades that run up to date.
LEMMA RebuildCounts ==
  ASSUME SessionInv, Recover
  PROVE  Rebuilt.fees = Paid(sess.running \cap Rebuilt.running, first, Rebuilt.snap)
                      + Paid(sess.running \ Rebuilt.running, first, sess.snap)
                      + Paid(sess.closed, first, funding)
<1> USE DEF SessionInv
<1> DEFINE K == sess.running \cap RunningTrades
           M == sess.running \ RunningTrades
           C == sess.closed
<1>1. /\ K \in SUBSET Trades /\ M \in SUBSET Trades /\ C \in SUBSET Trades
      /\ \A t \in Trades : first[t] \in Int /\ funding[t] \in Int /\ sess.snap[t] \in Int
  BY ValuesAre
<1>2. sess.running = K \cup M /\ K \cap M = {}
  OBVIOUS
<1>3. /\ Rebuilt.running = RunningTrades /\ Rebuilt.snap = funding
      /\ Rebuilt.fees = sess.fees + Paid(K, sess.snap, funding)
  <2>1. RunningTrades \cap sess.running = K
    OBVIOUS
  <2> QED
    BY <2>1 DEF Rebuilt, FundingDelta
<1>4. sess.running \cap Rebuilt.running = K /\ sess.running \ Rebuilt.running = M
  BY <1>3
<1>5. sess.fees = Paid(sess.running, first, sess.snap) + Paid(C, first, funding)
  BY DEF FeesInv, Counted
<1> HIDE DEF K, M, C
<1>6. Paid(sess.running, first, sess.snap) = Paid(K, first, sess.snap) + Paid(M, first, sess.snap)
  BY <1>1, <1>2, PaidSplits
<1>7. Paid(K, first, funding) = Paid(K, first, sess.snap) + Paid(K, sess.snap, funding)
  BY <1>1, PaidAdds
<1>8. /\ Paid(K, first, sess.snap) \in Int /\ Paid(M, first, sess.snap) \in Int
      /\ Paid(C, first, funding) \in Int /\ Paid(K, sess.snap, funding) \in Int
  BY <1>1, PaidType
<1>9. Rebuilt.fees = Paid(K, first, funding) + Paid(M, first, sess.snap) + Paid(C, first, funding)
  BY <1>3, <1>5, <1>6, <1>7, <1>8
<1> QED
  BY <1>3, <1>4, <1>9 DEF C

\* Then the trades it has missed.
LEMMA MissedCounts ==
  ASSUME SessionInv, Recover, pc = "missed"
  PROVE  CloseMissed(work, Missed).fees
           = Paid(known \cap work.running, first, work.snap)
           + Paid(work.closed \cup Missed, first, funding)
<1> USE DEF SessionInv
<1> DEFINE K == sess.running \cap work.running
           M == sess.running \ work.running
           C == sess.closed
<1>1. /\ K \in SUBSET Trades /\ M \in SUBSET Trades /\ C \in SUBSET Trades
      /\ \A t \in Trades : /\ first[t] \in Int /\ funding[t] \in Int
                           /\ sess.snap[t] \in Int /\ work.snap[t] \in Int
  BY ValuesAre
<1>2. /\ known \cap work.running = K /\ work.closed = C /\ C \cap M = {}
  BY DEF AccountInv, Partition
<1>3. Missed = M /\ CloseMissed(work, Missed).fees = work.fees + Paid(M, sess.snap, funding)
  BY DEF Missed, CloseMissed, FundingDelta, SessionTypeOK, Session
<1>4. work.fees = Paid(K, first, work.snap) + Paid(M, first, sess.snap) + Paid(C, first, funding)
  BY DEF FeesInv
<1> HIDE DEF K, M, C
<1>5. Paid(C \cup M, first, funding) = Paid(C, first, funding) + Paid(M, first, funding)
  BY <1>1, <1>2, PaidSplits
<1>6. Paid(M, first, funding) = Paid(M, first, sess.snap) + Paid(M, sess.snap, funding)
  BY <1>1, PaidAdds
<1>7. /\ Paid(K, first, work.snap) \in Int /\ Paid(M, first, sess.snap) \in Int
      /\ Paid(C, first, funding) \in Int /\ Paid(M, sess.snap, funding) \in Int
  BY <1>1, PaidType
<1>8. work.fees + Paid(M, sess.snap, funding)
        = Paid(K, first, work.snap) + Paid(C \cup M, first, funding)
  BY <1>4, <1>5, <1>6, <1>7
<1> QED
  BY <1>2, <1>3, <1>8

\* Then it is published, and what it has found starts at its present sum.
LEMMA PruneCounts ==
  ASSUME SessionInv, pc = "prune", Publish(work, work.snap), UNCHANGED funding
  PROVE  Counted(sess', first', funding)
<1> USE DEF SessionInv
<1> DEFINE K == known \cap work.running
           N == work.running \ known
           C == work.closed
<1>1. /\ K \in SUBSET Trades /\ N \in SUBSET Trades /\ C \in SUBSET Trades
      /\ \A t \in Trades : first[t] \in Int /\ funding[t] \in Int /\ work.snap[t] \in Int
  BY ValuesAre
<1>2. work.running = K \cup N /\ K \cap N = {} /\ C \cap N = {}
  BY DEF AccountInv, Partition
<1>3. /\ sess' = work
      /\ \A t \in K \cup C : first'[t] = first[t]
      /\ \A t \in N : first'[t] = work.snap[t]
  BY <1>1, <1>2 DEF Publish
<1>4. work.fees = Paid(K, first, work.snap) + Paid(C, first, funding)
  BY DEF FeesInv
<1> HIDE DEF K, N, C
<1>5. Paid(K \cup N, first', work.snap) = Paid(K, first', work.snap) + Paid(N, first', work.snap)
  <2>1. \A t \in K \cup N : first'[t] \in Int /\ work.snap[t] \in Int
    BY <1>1, <1>3
  <2> QED
    BY <1>1, <1>2, <2>1, PaidSplits
<1>6. Paid(K, first', work.snap) = Paid(K, first, work.snap)
  BY <1>1, <1>3, PaidAgrees
<1>7. Paid(N, first', work.snap) = 0
  BY <1>1, <1>3, PaidNothing
<1>8. Paid(C, first', funding) = Paid(C, first, funding)
  BY <1>1, <1>3, PaidAgrees
<1>9. Paid(K, first, work.snap) \in Int
  BY <1>1, PaidType
<1>10. work.fees = Paid(K \cup N, first', work.snap) + Paid(C, first', funding)
  BY <1>4, <1>5, <1>6, <1>7, <1>8, <1>9
<1> QED
  BY <1>2, <1>3, <1>10 DEF Counted, C

LEMMA FeesStep ==
  ASSUME Recover
  PROVE  SessionInv /\ SessionTypeOK' /\ [SessionNext]_sessionVars => FeesInv'
<1> SUFFICES ASSUME SessionInv, SessionTypeOK', [SessionNext]_sessionVars PROVE FeesInv'
  OBVIOUS
<1> USE DEF exchVars, opVars, histVars, Goto
<1>0. /\ ShapeInv /\ SessionTypeOK /\ AccountInv /\ FeesInv
      /\ sess \in Session /\ work \in Session
      /\ sess.running \cap sess.closed = {} /\ sess.running \subseteq known
      /\ Counted(sess, first, funding)
  BY ValuesAre DEF SessionInv, AccountInv, Partition, FeesInv
<1>1. ASSUME NEW t \in Trades, Close(t), UNCHANGED <<sess, work, first, known, pc>> PROVE FeesInv'
  BY <1>1, QuietCounts DEF Close
<1>2. CASE Exchange
  <2>1. ASSUME NEW t \in Trades, Settle(t) PROVE FeesInv'
    <3>1. t \notin Closed /\ \A u \in Closed : funding'[u] = funding[u]
      BY <2>1, <1>0 DEF Settle, Closed, RunningTrades, SessionTypeOK
    <3> QED
      BY <2>1, <3>1, QuietCounts DEF Settle
  <2> QED
    BY <1>1, <1>2, <2>1 DEF Exchange, ExchangeCloses
\* A session published by itself, idle afterwards.
<1>3. ASSUME NEW s \in Session, s.running \subseteq known, NEW paid, Publish(s, paid),
             Counted(s, first, funding), UNCHANGED funding
      PROVE  FeesInv'
  BY <1>3, <1>0, PublishKnown DEF FeesInv
<1>4. CASE Operation
  <2>1. CASE Order \/ CloseAll \/ OrderRow \/ Abandon
    BY <2>1, QuietCounts DEF Order, CloseAll, OrderRow, Abandon, Begin
  <2>2. ASSUME NEW t \in Trades, NEW f \in 0..MaxFunding, OrderSent(t, f) PROVE FeesInv'
    <3>1. t \notin Closed /\ \A u \in Closed : funding'[u] = funding[u]
      BY <2>2, <1>0 DEF OrderSent, Closed, SessionTypeOK
    <3> QED
      BY <2>2, <3>1, QuietCounts DEF OrderSent
  <2>3. CASE OrderRegister
    <3>1. PICK t \in batch : Publish(RegisterIn(sess, t, work.snap[t]), NoSession.snap)
      BY <2>3 DEF OrderRegister
    <3>2. t \in Trades /\ t \notin known /\ work.snap[t] \in Nat
      BY <2>3, <1>0 DEF OrderRegister, AccountInv, SessionTypeOK, Session
    <3>3. UNCHANGED funding
      BY <2>3 DEF OrderRegister
    <3>4. Counted(sess', first', funding)
      BY <3>1, <3>2, <3>3, RegisterCounts
    <3> QED
      BY <3>1, <3>3, <3>4 DEF FeesInv, Publish
  <2>4. ASSUME NEW S \in SUBSET Trades, CloseSome(S) PROVE FeesInv'
    BY <2>4, <1>0 DEF CloseSome, Begin, FeesInv, Counted
  <2>5. ASSUME NEW S \in SUBSET Trades, CloseSend(S) PROVE FeesInv'
    BY <2>5, QuietCounts DEF CloseSend
  <2>6. ASSUME NEW t \in Trades, CloseAck(t) \/ CloseAllAck(t) PROVE FeesInv'
    BY <2>6, <1>1 DEF CloseAck, CloseAllAck
  <2>7. CASE CloseRows
    <3>1. /\ batch \in SUBSET work.running /\ work.running \cap work.closed = {}
          /\ Counted(work, first, funding)
      BY <2>7, <1>0 DEF CloseRows, AccountInv, Partition, FeesInv
    <3>2. Counted(work', first, funding)
      BY <2>7, <1>0, <3>1, CloseCounts DEF CloseRows
    <3> QED
      BY <2>7, <1>0, <3>2 DEF CloseRows, FeesInv
  <2>8. CASE CloseRegister
    <3>1. work.running \subseteq known /\ Counted(work, first, funding)
      BY <2>8, <1>0 DEF CloseRegister, AccountInv, Partition, FeesInv
    <3> QED
      BY <2>8, <1>0, <1>3, <3>1 DEF CloseRegister
  <2>9. CASE CloseAllRegister
    <3>1. CASE batch \subseteq sess.running
      <4>1. CloseIn(sess, batch) \in Session /\ CloseIn(sess, batch).running \subseteq known
        BY <1>0, SessionsAre, CloseInIs DEF ShapeInv
      <4>2. Counted(CloseIn(sess, batch), first, funding)
        BY <1>0, <3>1, CloseCounts
      <4> QED
        BY <2>9, <1>3, <3>1, <4>1, <4>2 DEF CloseAllRegister
    <3> QED
      BY <2>9, <3>1, QuietCounts DEF CloseAllRegister
  <2> QED
    BY <1>4, <2>1, <2>2, <2>3, <2>4, <2>5, <2>6, <2>7, <2>8, <2>9 DEF Operation
<1>5. CASE Refresh
  <2>1. ASSUME RefreshError, UNCHANGED funding PROVE FeesInv'
    BY <2>1, QuietCounts DEF RefreshError
  <2>2. ASSUME NEW S \in SUBSET Trades, Reevaluate(S) PROVE FeesInv'
    BY <2>2, QuietCounts DEF Reevaluate
  <2>3. CASE ReevaluateConfirm
    <3>1. CASE RecentlyClosed(Cardinality(batch)) = batch
      <4>1. CloseIn(sess, batch) \in Session /\ CloseIn(sess, batch).running \subseteq known
        BY <1>0, SessionsAre, CloseInIs DEF ShapeInv
      <4>2. batch \subseteq sess.running
        BY <2>3, <1>0 DEF ReevaluateConfirm, AccountInv
      <4>3. Counted(CloseIn(sess, batch), first, funding)
        BY <1>0, <4>2, CloseCounts
      <4> QED
        BY <2>3, <1>3, <3>1, <4>1, <4>3 DEF ReevaluateConfirm, Refreshed
    <3> QED
      BY <2>1, <2>3, <3>1 DEF ReevaluateConfirm
  <2>4. CASE Rebuild \/ RebuildReadRows
    BY <2>4, QuietCounts DEF Rebuild, RebuildReadRows
  <2>5. CASE RebuildFetch
    BY <2>5, <1>0, RebuildCounts DEF RebuildFetch, FeesInv
  <2>6. CASE RebuildMissed
    <3>1. CASE Missed \subseteq RecentlyClosed(Max({1, Cardinality(sess.running)}))
      <4>1. /\ work' = CloseMissed(work, Missed) /\ pc = "missed" /\ pc' = "readRows"
            /\ UNCHANGED <<funding, known, first, sess>>
        BY <2>6, <3>1 DEF RebuildMissed
      <4>2. /\ work'.running = work.running /\ work'.closed = work.closed \cup Missed
            /\ work'.snap = work.snap
        BY <1>0, <4>1 DEF CloseMissed, Session
      <4>3. work'.fees = Paid(known \cap work.running, first, work.snap)
                       + Paid(work.closed \cup Missed, first, funding)
        BY <4>1, MissedCounts
      <4> QED
        BY <1>0, <4>1, <4>2, <4>3 DEF FeesInv
    <3> QED
      BY <2>1, <2>6, <3>1 DEF RebuildMissed
  <2>7. CASE RebuildPrune
    <3>1. Counted(sess', first', funding)
      BY <2>7, PruneCounts DEF RebuildPrune, Refreshed
    <3> QED
      BY <2>7, <3>1 DEF RebuildPrune, Refreshed, Publish, FeesInv
  <2>8. CASE RefreshFails
    BY <2>1, <2>8 DEF RefreshFails
  <2> QED
    BY <1>5, <2>2, <2>3, <2>4, <2>5, <2>6, <2>7, <2>8 DEF Refresh
<1>6. CASE Lifecycle
  <2>1. CASE SessionExpires \/ SyncLagged
    BY <2>1, QuietCounts DEF SessionExpires, SyncLagged, RefreshError
  <2>2. CASE SyncLost \/ (\E cross \in BOOLEAN : ShutdownBegin(cross)) \/ CleanUpDone \/ Launched
    BY <2>2, QuietCounts DEF SyncLost, ShutdownBegin, CleanUpDone, Launched
  <2>3. CASE Restart
    BY <2>3, NothingCounted DEF Restart, FeesInv
  <2>4. ASSUME NEW t \in Trades, CleanUpAck(t) PROVE FeesInv'
    BY <2>4, <1>1 DEF CleanUpAck
  <2> QED
    BY <1>6, <2>1, <2>2, <2>3, <2>4 DEF Lifecycle
<1>7. CASE UNCHANGED sessionVars
  BY <1>7, <1>0 DEF sessionVars, FeesInv, Counted
<1> QED
  BY <1>2, <1>4, <1>5, <1>6, <1>7 DEF SessionNext

\* The trades of a session are accounted for and their funding is counted once, through closures
\* found by either path and rebuilds that replace the snapshot.
THEOREM FeesTheorem ==
  ASSUME Recover
  PROVE  SessionSpec => []FeesCountedOnce
<1>1. SessionInit => AccountInv /\ FeesInv
  <2> SUFFICES ASSUME SessionInit PROVE FeesInv
    BY AccountInit
  <2>1. sess = NoSession /\ pc = "launch" /\ Counted(NoSession, first, funding)
    BY NothingCounted DEF SessionInit
  <2> QED
    BY <2>1 DEF FeesInv
<1>2. SessionInv /\ [SessionNext]_sessionVars => SessionInv'
  BY ShapeStep, AccountStep, FeesStep, SessionTypeStep DEF SessionInv
<1>3. SessionInv => FeesCountedOnce
  BY DEF SessionInv, FeesInv, Counted, FeesCountedOnce
<1>4. SessionInit => SessionInv
  BY <1>1, InitShape, SessionInitType DEF SessionInv
<1> QED
  BY <1>2, <1>3, <1>4, PTL DEF SessionSpec

=============================================================================
