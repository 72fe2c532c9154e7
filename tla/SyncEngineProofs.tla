-------------------------- MODULE SyncEngineProofs --------------------------
(***************************************************************************)
(* What the status of the sync engine says of its process, in every mode   *)
(* and for every capacity of the channels; and what the funding            *)
(* settlements task, which that process runs, says of its table.           *)
(***************************************************************************)
EXTENDS SyncEngine, FundingHistory, SetLemmas, TLAPS

USE DEF Suspended, Tasks, Interruptible, Status, NotSynced, Stopped

-----------------------------------------------------------------------------
(* Type correctness.                                                       *)

\* What is sent on the channel.
Updates == Status \cup {"Data"}

LEMMA InitType == Init => TypeOK
<1> SUFFICES ASSUME Init PROVE TypeOK
  OBVIOUS
<1>1. feed \in Seq(Updates) /\ Len(feed) <= Capacity
  BY CapacityAssumption DEF Init
<1>2. out \in [{"proc", "ctl"} -> Seq(Updates)]
  BY DEF Init
<1>3. ticks \in 0..TickLimit /\ pending \in 0..MaxPending /\ inFlight \in 0..(MaxPending + 1)
  BY TickAssumption DEF Init
<1> QED
  BY <1>1, <1>2, <1>3 DEF Init, TypeOK, Modes, Updates

\* What a writer stores is a status, and what waits to be sent are updates.
LEMMA StoreType ==
  ASSUME TypeOK, NEW w \in {"proc", "ctl"}, NEW s \in Status, NEW more \in Seq(Updates),
         Store(w, s, more)
  PROVE  status' \in Status /\ out' \in [{"proc", "ctl"} -> Seq(Updates)]
<1>1. <<s>> \in Seq(Updates)
  BY DEF Updates
<1>2. <<s>> \o more \in Seq(Updates)
  BY <1>1
<1>3. out \in [{"proc", "ctl"} -> Seq(Updates)] /\ status \in Status
  BY DEF TypeOK, Updates
<1>4. CASE s = status /\ s \notin {"Failed", "Terminated"}
  BY <1>3, <1>4 DEF Store
<1>5. CASE ~(s = status /\ s \notin {"Failed", "Terminated"})
  BY <1>2, <1>3, <1>5 DEF Store
<1> QED
  BY <1>4, <1>5

LEMMA UpdateType ==
  ASSUME TypeOK, NEW w \in {"proc", "ctl"}, NEW s \in Status, Update(w, s)
  PROVE  status' \in Status /\ out' \in [{"proc", "ctl"} -> Seq(Updates)]
<1>1. <<>> \in Seq(Updates)
  OBVIOUS
<1> QED
  BY <1>1, StoreType DEF Update

LEMMA BroadcastType ==
  ASSUME TypeOK, NEW w \in {"proc", "ctl"}, Broadcast(w)
  PROVE  TypeOK'
<1>1. out \in [{"proc", "ctl"} -> Seq(Updates)] /\ out[w] # <<>> /\ feed \in Seq(Updates)
  BY DEF TypeOK, Broadcast, Idle, Updates
<1>2. out[w] \in Seq(Updates)
  BY <1>1
<1>3. Head(out[w]) \in Updates /\ Tail(out[w]) \in Seq(Updates)
  BY <1>1, <1>2
<1>4. out' \in [{"proc", "ctl"} -> Seq(Updates)]
  BY <1>1, <1>3 DEF Broadcast
<1>5. feed' \in Seq(Updates) /\ Len(feed') <= Capacity /\ feedLag' \in BOOLEAN
  <2>1. CASE wait \notin {"subscribed", "listening"}
    BY <2>1, <1>1 DEF Broadcast, Push, TypeOK, feedVars
  <2>2. CASE wait \in {"subscribed", "listening"} /\ Len(feed) < Capacity
    <3>1. feed' = Append(feed, Head(out[w])) /\ feedLag' = feedLag
      BY <2>2 DEF Broadcast, Push
    <3> QED
      BY <3>1, <2>2, <1>1, <1>3, CapacityAssumption DEF TypeOK
  <2>3. CASE wait \in {"subscribed", "listening"} /\ ~(Len(feed) < Capacity)
    <3>1. feed' = Append(Tail(feed), Head(out[w])) /\ feedLag' = TRUE
      BY <2>3 DEF Broadcast, Push
    <3>2. Len(feed) = Capacity /\ feed # <<>>
      BY <2>3, <1>1, CapacityAssumption DEF TypeOK
    <3> QED
      BY <3>1, <3>2, <1>1, <1>3, CapacityAssumption
  <2> QED
    BY <2>1, <2>2, <2>3
<1> QED
  BY <1>4, <1>5 DEF TypeOK, Updates, Broadcast, config, procVars, tickVars, rtVars, ctlVars, waitVars

LEMMA PolledType == TypeOK /\ Polled => aborted' \in {"no", "polling", "yes"}
BY DEF TypeOK, Polled

LEMMA DropRtType ==
  ASSUME TypeOK, DropRt
  PROVE  /\ rt' \in {"none", "connecting", "running", "flushing", "stopped", "failed", "aborting"}
         /\ pending' \in 0..MaxPending /\ inFlight' \in 0..(MaxPending + 1)
         /\ ticks' \in 0..TickLimit /\ tickLag' \in BOOLEAN /\ rtSignal' \in BOOLEAN
<1>1. pending' \in 0..MaxPending /\ inFlight' \in 0..(MaxPending + 1) /\ ticks' \in 0..TickLimit
  BY TickAssumption DEF TypeOK, DropRt
<1>2. rt' \in {"none", "connecting", "running", "flushing", "stopped", "failed", "aborting"}
  BY DEF DropRt
<1>3. tickLag' \in BOOLEAN /\ rtSignal' \in BOOLEAN
  BY DEF TypeOK, DropRt
<1> QED
  BY <1>1, <1>2, <1>3

\* A run that fails, for now or for good.
LEMMA FailType ==
  ASSUME TypeOK, Polled, RunFails \/ RunFatal
  PROVE  TypeOK'
<1>1. status' \in Status /\ out' \in [{"proc", "ctl"} -> Seq(Updates)]
  BY UpdateType DEF RunFails, RunFatal
<1>2. DropRt /\ pc' \in {"wait", "ended"} /\ UNCHANGED <<isSynced, due, notRun>>
  BY DEF RunFails, RunFatal, Goto
<1> QED
  BY <1>1, <1>2, PolledType, DropRtType DEF TypeOK, Updates, notRun, config, waitVars, feedVars

LEMMA ProcessType == TypeOK /\ (Process \/ TickTimer) => TypeOK'
<1> SUFFICES ASSUME TypeOK, Process \/ TickTimer PROVE TypeOK'
  OBVIOUS
<1> USE DEF ProcAt, Goto, notRun, config, tickVars, rtVars, waitVars, feedVars
<1>0. ASSUME TypeOK, status' \in Status, out' \in [{"proc", "ctl"} -> Seq(Updates)], Polled,
             pc' \in Suspended \cup {"subscribe", "begin", "ended"},
             UNCHANGED <<tickVars, rtVars, isSynced, due, notRun>>
      PROVE  TypeOK'
  BY <1>0, PolledType DEF TypeOK, Updates
<1>1. CASE ProcStart
  BY <1>1, <1>0, UpdateType DEF ProcStart
<1>2. CASE RunBegin \/ PauseEnds \/ WaitEnds
  BY <1>2, <1>0, UpdateType DEF RunBegin, PauseEnds, WaitEnds
<1>3. CASE GoLive /\ Polled /\ UNCHANGED <<tickVars, rtVars, isSynced, due, notRun>>
  <2>1. CASE stream
    BY <1>3, <2>1, <1>0 DEF GoLive, statusVars, TypeOK, Updates
  <2>2. CASE ~stream
    BY <1>3, <2>2, <1>0, UpdateType DEF GoLive
  <2> QED
    BY <2>1, <2>2
<1>4. CASE HistoryDone
  <2>1. CASE mode \in {"backfill", "full"}
    BY <1>4, <2>1, <1>0 DEF HistoryDone, statusVars, TypeOK, Updates
  <2>2. CASE ~(mode \in {"backfill", "full"})
    BY <1>4, <2>2, <1>3 DEF HistoryDone
  <2> QED
    BY <2>1, <2>2
<1>5. CASE FundingDone
  <2>1. CASE mode = "backfill"
    BY <1>5, <2>1, <1>0, UpdateType DEF FundingDone
  <2>2. CASE mode # "backfill"
    BY <1>5, <2>2, <1>3 DEF FundingDone
  <2> QED
    BY <2>1, <2>2
<1>6. CASE ResyncStart \/ ResyncDone \/ PollStart \/ PollDone
  BY <1>6, <1>0 DEF ResyncStart, ResyncDone, PollStart, PollDone, statusVars, TypeOK, Updates
<1>7. CASE ProcSubscribe
  BY <1>7, PolledType DEF ProcSubscribe, statusVars, TypeOK
<1>8. CASE Connect
  <2>1. /\ pc' = "feed" /\ rt' = "connecting" /\ due' = "no"
        /\ rtSignal' = FALSE /\ isSynced' = FALSE
        /\ UNCHANGED <<pending, inFlight, status, out, ticks, tickLag, mode, stream, subscribed>>
        /\ UNCHANGED <<ctl, signal, wait, waitResult, feed, feedLag>>
    BY <1>8 DEF Connect, statusVars
  <2>2. aborted' \in {"no", "polling", "yes"}
    BY <1>8, PolledType DEF Connect
  <2>3. rtSignal' \in BOOLEAN /\ isSynced' \in BOOLEAN
    BY <2>1
  <2> QED
    BY <2>1, <2>2, <2>3 DEF TypeOK
<1>9. CASE FeedTick
  <2>1. ticks' \in 0..TickLimit /\ due' = "no" /\ isSynced' = TRUE /\ pc' = pc
    BY <1>9, TickAssumption DEF FeedTick, TypeOK
  <2>2. status' \in Status /\ out' \in [{"proc", "ctl"} -> Seq(Updates)]
    <3>1. <<"Data">> \in Seq(Updates)
      BY DEF Updates
    <3>2. CASE isSynced
      BY <1>9, <3>1, <3>2 DEF FeedTick, TypeOK, Updates
    <3>3. CASE ~isSynced
      BY <1>9, <3>1, <3>3, StoreType DEF FeedTick
    <3> QED
      BY <3>2, <3>3
  <2> QED
    BY <1>9, <2>1, <2>2, PolledType DEF FeedTick, TypeOK, Updates
<1>10. CASE TaskFails \/ FeedLagged \/ FeedRtEnded \/ FeedTimeout
  BY <1>10, FailType DEF TaskFails, FeedLagged, FeedRtEnded, FeedTimeout
<1>11. CASE ProcShutdown \/ ProcDropped
  BY <1>11, DropRtType DEF ProcShutdown, ProcDropped, statusVars, TypeOK
<1>12. CASE TickTimer
  BY <1>12 DEF TickTimer, statusVars, ctlVars, TypeOK
<1> QED
  BY <1>1, <1>2, <1>4, <1>5, <1>6, <1>7, <1>8, <1>9, <1>10, <1>11, <1>12 DEF Process, RunStep

LEMMA RealTimeType == TypeOK /\ RealTime => TypeOK'
<1> SUFFICES ASSUME TypeOK, RealTime PROVE TypeOK'
  OBVIOUS
<1> USE DEF notRt, config, statusVars, procVars, tickVars, ctlVars, waitVars, feedVars
<1>1. ticks \in Nat /\ pending \in Nat /\ inFlight \in Nat
  BY TickAssumption DEF TypeOK
<1>2. ASSUME NEW n \in Nat, Deliver(n)
      PROVE  ticks' \in 0..TickLimit /\ tickLag' \in BOOLEAN
  <2>1. CASE ticks + n <= TickLimit
    <3>1. ticks' = ticks + n /\ tickLag' = tickLag
      BY <1>2, <2>1 DEF Deliver
    <3> QED
      BY <1>1, <2>1, <3>1, TickAssumption DEF TypeOK
  <2>2. CASE ~(ticks + n <= TickLimit)
    <3>1. ticks' = TickLimit /\ tickLag' = TRUE
      BY <1>2, <2>2 DEF Deliver
    <3> QED
      BY <3>1, TickAssumption
  <2> QED
    BY <2>1, <2>2
<1>3. CASE RtSubscribe \/ RtFails \/ RtShutdown \/ RtDropped \/ OrphanStored
  BY <1>3, TickAssumption DEF RtSubscribe, RtFails, RtShutdown, RtDropped, OrphanStored, TypeOK
<1>4. CASE RtTick
  BY <1>4, TickAssumption DEF RtTick, TypeOK
<1>5. CASE RtStored
  <2>1. ticks' \in 0..TickLimit /\ tickLag' \in BOOLEAN
    BY <1>1, <1>2, <1>5 DEF RtStored
  <2>2. pending' \in 0..MaxPending /\ inFlight' \in 0..(MaxPending + 1)
    BY <1>5, TickAssumption DEF RtStored, TypeOK
  <2> QED
    BY <1>5, <2>1, <2>2 DEF RtStored, TypeOK
<1>6. CASE RtFlush
  <2>1. ticks' \in 0..TickLimit /\ tickLag' \in BOOLEAN
    BY <1>1, <1>2, <1>6 DEF RtFlush
  <2>2. pending' \in 0..MaxPending /\ inFlight' \in 0..(MaxPending + 1) /\ rt' \in {"flushing", "stopped"}
    BY <1>6, TickAssumption DEF RtFlush, TypeOK
  <2> QED
    BY <1>6, <2>1, <2>2 DEF RtFlush, TypeOK
<1> QED
  BY <1>3, <1>4, <1>5, <1>6 DEF RealTime

LEMMA ControllerType == TypeOK /\ Controller => TypeOK'
<1> SUFFICES ASSUME TypeOK, Controller PROVE TypeOK'
  OBVIOUS
<1> USE DEF notCtl, config, procVars, tickVars, waitVars, feedVars, Abort
<1>1. CASE CtlBegin \/ CtlSend
  <2>1. ctl' \in {"already", "init", "join", "unsent"} /\ aborted' \in {"no", "polling", "yes"}
    BY <1>1 DEF CtlBegin, CtlSend, TypeOK
  <2>2. signal' \in BOOLEAN /\ rtSignal' \in BOOLEAN
    <3>1. ProcListens \in BOOLEAN /\ RtListens \in BOOLEAN
      BY DEF ProcListens, RtListens, Finished, Idle, TypeOK
    <3> QED
      BY <1>1, <3>1 DEF CtlBegin, CtlSend, TypeOK
  <2>3. UNCHANGED <<statusVars, notCtl>>
    BY <1>1 DEF CtlBegin, CtlSend
  <2> QED
    BY <2>1, <2>2, <2>3 DEF statusVars, TypeOK
<1>2. CASE CtlInitiate \/ CtlJoined \/ CtlGivesUp
  <2>1. status' \in Status /\ out' \in [{"proc", "ctl"} -> Seq(Updates)]
    BY <1>2, UpdateType DEF CtlInitiate, CtlJoined, CtlGivesUp
  <2> QED
    BY <1>2, <2>1 DEF CtlInitiate, CtlJoined, CtlGivesUp, TypeOK, Updates
<1> QED
  BY <1>1, <1>2 DEF Controller

LEMMA WaiterType == TypeOK /\ Waiter => TypeOK'
<1> SUFFICES ASSUME TypeOK, Waiter PROVE TypeOK'
  OBVIOUS
<1> USE DEF notWait, config, statusVars, procVars, tickVars, rtVars, ctlVars, WaitReturns
<1>1. CASE WaitSubscribe \/ WaitSnapshot \/ WaitLagged
  <2>1. wait' \in {"subscribed", "listening", "returned"} /\ waitResult' \in Status \cup {"none"}
    BY <1>1 DEF WaitSubscribe, WaitSnapshot, WaitLagged, waitVars, TypeOK
  <2>2. feed' = feed /\ feedLag' \in BOOLEAN
    BY <1>1 DEF WaitSubscribe, WaitSnapshot, WaitLagged, feedVars, TypeOK
  <2>3. UNCHANGED notWait
    BY <1>1 DEF WaitSubscribe, WaitSnapshot, WaitLagged
  <2> QED
    BY <2>1, <2>2, <2>3 DEF TypeOK
<1>2. CASE WaitRecv
  <2>1. feed \in Seq(Updates) /\ feed # <<>> /\ Len(feed) <= Capacity
    BY <1>2 DEF WaitRecv, TypeOK, Updates
  <2>2. feed' \in Seq(Updates) /\ Len(feed') <= Capacity
    BY <1>2, <2>1, CapacityAssumption DEF WaitRecv
  <2> QED
    BY <1>2, <2>2 DEF WaitRecv, waitVars, TypeOK, Updates
<1> QED
  BY <1>1, <1>2 DEF Waiter

LEMMA NextType == TypeOK /\ [Next]_vars => TypeOK'
<1> SUFFICES ASSUME TypeOK, [Next]_vars PROVE TypeOK'
  OBVIOUS
<1>1. CASE UNCHANGED vars
  BY <1>1 DEF vars, config, statusVars, procVars, tickVars, rtVars, ctlVars, waitVars, feedVars,
              TypeOK
<1> QED
  BY <1>1, ProcessType, RealTimeType, ControllerType, WaiterType, BroadcastType DEF Next

\* Types hold in every reachable state: the queue of until_stopped() stays within the
\* channel's capacity, the tick receiver and the batches within theirs.
THEOREM TypeInvariant == Spec => []TypeOK
BY InitType, NextType, PTL DEF Spec

-----------------------------------------------------------------------------
(* The end of the process and the end of shutdown().                       *)

\* What an outside write, or the end of shutdown(), can rely on: the process is only told
\* to stop once the controller has said so, and it has ended when the controller joined it.
EndInv ==
  /\ signal \/ aborted # "no" => ctl \notin {"idle", "already", "init", "send"}
  /\ ctl = "ok" => status = "Shutdown" /\ pc = "ended" /\ out["proc"] = <<>>

LEMMA EndStep == TypeOK /\ EndInv /\ [Next]_vars => EndInv'
<1> SUFFICES ASSUME TypeOK, EndInv, [Next]_vars PROVE EndInv'
  OBVIOUS
<1> USE DEF EndInv, config, statusVars, tickVars, rtVars, waitVars, feedVars
<1>0. DOMAIN out = {"proc", "ctl"}
  BY DEF TypeOK
<1>1. CASE Process
  <2>1. UNCHANGED <<ctl, signal>> /\ (aborted = "no" => aborted' = "no")
    BY <1>1 DEF Process, ProcStart, ProcSubscribe, RunStep, RunBegin, HistoryDone, FundingDone,
       PauseEnds, Connect, FeedTick, ResyncStart, ResyncDone, PollStart, PollDone, TaskFails,
       FeedLagged, FeedRtEnded, FeedTimeout, WaitEnds, ProcShutdown, ProcDropped, RunFails,
       RunFatal, ProcAt, Polled, notRun
  <2>2. pc # "ended"
    BY <1>1 DEF Process, ProcStart, ProcSubscribe, RunStep, RunBegin, HistoryDone, FundingDone,
       PauseEnds, Connect, FeedTick, ResyncStart, ResyncDone, PollStart, PollDone, TaskFails,
       FeedLagged, FeedRtEnded, FeedTimeout, WaitEnds, ProcShutdown, ProcDropped, ProcAt
  <2> QED
    BY <2>1, <2>2
<1>2. CASE TickTimer \/ RealTime \/ Waiter
  BY <1>2 DEF TickTimer, RealTime, RtSubscribe, RtFails, RtTick, RtStored, RtShutdown, RtFlush,
     OrphanStored, RtDropped, Waiter, WaitSubscribe, WaitSnapshot, WaitRecv, WaitLagged, notRt,
     notWait, procVars, ctlVars
<1>3. CASE CtlBegin \/ CtlSend
  BY <1>3 DEF CtlBegin, CtlSend, Abort, notCtl, procVars
<1>4. CASE CtlInitiate \/ CtlGivesUp
  BY <1>4 DEF CtlInitiate, CtlGivesUp, Abort, notCtl
<1>5. CASE CtlJoined
  <2>1. status' = "Shutdown" /\ out'["proc"] = out["proc"]
    BY <1>5, <1>0 DEF CtlJoined, Update, Store, TypeOK
  <2> QED
    BY <1>5, <2>1 DEF CtlJoined, Finished, Idle, notCtl, procVars
<1>6. CASE \E w \in {"proc", "ctl"} : Broadcast(w)
  <2>1. PICK w \in {"proc", "ctl"} : Broadcast(w)
    BY <1>6
  <2>2. out["proc"] = <<>> => out'["proc"] = <<>>
    BY <2>1, <1>0 DEF Broadcast, Idle, TypeOK
  <2> QED
    BY <2>1, <2>2 DEF Broadcast, procVars, ctlVars
<1>7. CASE UNCHANGED vars
  BY <1>7 DEF vars, procVars, ctlVars
<1> QED
  BY <1>1, <1>2, <1>3, <1>4, <1>5, <1>6, <1>7 DEF Next, Controller

LEMMA EndInvariant == Spec => [](TypeOK /\ EndInv)
<1>1. Init => EndInv
  BY DEF Init, EndInv
<1> QED
  BY <1>1, InitType, NextType, EndStep, PTL DEF Spec

\* A successful shutdown() leaves an ended process and the status Shutdown, whatever the
\* process was doing and whichever of the two wrote last before.
THEOREM ShutdownTheorem == Spec => []ShutdownIsFinal
<1>1. EndInv => ShutdownIsFinal
  BY DEF EndInv, ShutdownIsFinal, Finished, Idle
<1> QED
  BY <1>1, EndInvariant, PTL

-----------------------------------------------------------------------------
(* What until_stopped() and shutdown() wait for.                           *)

LEMMA HoldsAppend ==
  ASSUME NEW queue \in Seq(Updates), NEW u \in Updates, Holds(queue) \/ u \in Stopped
  PROVE  Holds(Append(queue, u))
<1>1. CASE Holds(queue)
  <2>1. PICK i \in DOMAIN queue : queue[i] \in Stopped
    BY <1>1 DEF Holds
  <2>2. i \in DOMAIN Append(queue, u) /\ Append(queue, u)[i] = queue[i]
    BY <2>1
  <2> QED
    BY <2>1, <2>2 DEF Holds
<1>2. CASE u \in Stopped
  <2>1. Len(queue) + 1 \in DOMAIN Append(queue, u) /\ Append(queue, u)[Len(queue) + 1] = u
    OBVIOUS
  <2> QED
    BY <1>2, <2>1 DEF Holds
<1> QED
  BY <1>1, <1>2

LEMMA HoldsTail ==
  ASSUME NEW queue \in Seq(Updates), queue # <<>>, Holds(queue), Head(queue) \notin Stopped
  PROVE  Holds(Tail(queue))
<1>1. PICK i \in DOMAIN queue : queue[i] \in Stopped
  BY DEF Holds
<1>2. i \in 1..Len(queue) /\ i # 1
  BY <1>1
<1>3. i - 1 \in DOMAIN Tail(queue) /\ Tail(queue)[i - 1] = queue[i]
  BY <1>2
<1> QED
  BY <1>1, <1>3 DEF Holds

\* The end of shutdown() finds the controller's earlier update broadcast.
WaiterInv ==
  /\ ctl \in {"join", "unsent"} => Idle("ctl")
  /\ StopIsOnItsWay

\* What a writer with nothing waiting stores does not hide an earlier stop.
LEMMA StoreKeepsStop ==
  ASSUME TypeOK, StopIsOnItsWay, NEW w \in {"proc", "ctl"}, NEW s \in Status,
         NEW more \in Seq(Updates), Idle(w) \/ s \notin Stopped, Store(w, s, more),
         UNCHANGED <<wait, feed, feedLag>>
  PROVE  StopIsOnItsWay'
<1> SUFFICES ASSUME wait = "listening", status' \in Stopped, ~feedLag, ~Holds(feed)
             PROVE  \E v \in DOMAIN out' : Holds(out'[v])
  BY DEF StopIsOnItsWay, Holds
<1>0. DOMAIN out = {"proc", "ctl"}
  BY DEF TypeOK
<1>1. CASE s = status /\ s \notin {"Failed", "Terminated"}
  <2>1. out' = [out EXCEPT ![w] = more] /\ s \in Stopped
    BY <1>1 DEF Store
  <2>2. PICK v \in {"proc", "ctl"} : Holds(out[v])
    BY <1>0, <1>1, <2>1 DEF StopIsOnItsWay
  <2>3. v # w
    BY <2>1, <2>2 DEF Idle, Holds
  <2> QED
    BY <1>0, <2>1, <2>2, <2>3
<1>2. CASE ~(s = status /\ s \notin {"Failed", "Terminated"})
  <2>1. out' = [out EXCEPT ![w] = <<s>> \o more] /\ s \in Stopped
    BY <1>2 DEF Store
  <2>2. out'[w] = <<s>> \o more /\ w \in DOMAIN out'
    BY <1>0, <2>1
  <2>3. 1 \in DOMAIN out'[w] /\ out'[w][1] = s
    BY <2>2
  <2> QED
    BY <2>1, <2>2, <2>3 DEF Holds
<1> QED
  BY <1>1, <1>2

LEMMA BroadcastKeepsStop ==
  ASSUME TypeOK, StopIsOnItsWay, NEW w \in {"proc", "ctl"}, Broadcast(w)
  PROVE  StopIsOnItsWay'
<1> SUFFICES ASSUME wait' = "listening", status' \in Stopped, feedLag' = FALSE
             PROVE  Holds(feed') \/ \E v \in DOMAIN out' : Holds(out'[v])
  BY DEF StopIsOnItsWay, Holds, TypeOK, Broadcast, Push, feedVars
<1>0. /\ DOMAIN out = {"proc", "ctl"}
      /\ feed \in Seq(Updates) /\ out[w] \in Seq(Updates) /\ out[w] # <<>>
  BY DEF TypeOK, Broadcast, Idle, Updates
<1>1. wait = "listening" /\ status \in Stopped
  BY DEF Broadcast, waitVars
<1>2. feed' = Append(feed, Head(out[w])) /\ feedLag' = feedLag
  BY <1>1 DEF Broadcast, Push
<1>3. out' = [out EXCEPT ![w] = Tail(out[w])]
  BY DEF Broadcast
<1>4. CASE Holds(feed) \/ Head(out[w]) \in Stopped
  BY <1>0, <1>2, <1>4, HoldsAppend
<1>5. CASE ~(Holds(feed) \/ Head(out[w]) \in Stopped)
  <2>1. PICK v \in {"proc", "ctl"} : Holds(out[v])
    BY <1>0, <1>1, <1>2, <1>5 DEF StopIsOnItsWay
  <2>2. CASE v = w
    <3>1. Holds(Tail(out[w]))
      BY <1>0, <1>5, <2>1, <2>2, HoldsTail
    <3> QED
      BY <1>0, <1>3, <3>1
  <2>3. CASE v # w
    BY <1>0, <1>3, <2>1, <2>3
  <2> QED
    BY <2>2, <2>3
<1> QED
  BY <1>4, <1>5

LEMMA WaiterStep == TypeOK /\ WaiterInv /\ [Next]_vars => WaiterInv'
<1> SUFFICES ASSUME TypeOK, WaiterInv, [Next]_vars PROVE WaiterInv'
  OBVIOUS
<1> USE DEF WaiterInv, config, tickVars, rtVars
<1>0. /\ DOMAIN out = {"proc", "ctl"} /\ status \in Status
      /\ <<>> \in Seq(Updates) /\ <<"Data">> \in Seq(Updates)
  BY DEF TypeOK, Updates
<1>1. ASSUME UNCHANGED <<status, out, wait, feed, feedLag>>
      PROVE  StopIsOnItsWay'
  BY <1>1 DEF StopIsOnItsWay, Holds
<1>2. ASSUME UNCHANGED <<ctl, out>>
      PROVE  (ctl \in {"join", "unsent"} => Idle("ctl"))'
  BY <1>2 DEF Idle
<1>3. CASE Process
  <2> USE DEF ProcAt, Goto, notRun, waitVars, feedVars
  <2>1. UNCHANGED <<ctl, wait, feed, feedLag>> /\ Idle("proc")
    BY <1>3 DEF Process, ProcStart, ProcSubscribe, RunStep, RunBegin, HistoryDone, FundingDone,
       PauseEnds, Connect, FeedTick, ResyncStart, ResyncDone, PollStart, PollDone, TaskFails,
       FeedLagged, FeedRtEnded, FeedTimeout, WaitEnds, ProcShutdown, ProcDropped, RunFails,
       RunFatal
  <2>2. ASSUME NEW s \in Status, NEW more \in Seq(Updates), Store("proc", s, more)
        PROVE  WaiterInv'
    <3>1. out'["ctl"] = out["ctl"]
      BY <1>0, <2>2 DEF Store
    <3>2. StopIsOnItsWay'
      BY <2>1, <2>2, StoreKeepsStop
    <3> QED
      BY <2>1, <3>1, <3>2 DEF Idle
  <2>3. ASSUME NEW s \in Status, Update("proc", s) PROVE WaiterInv'
    BY <1>0, <2>2, <2>3 DEF Update
  <2>4. CASE ProcStart \/ RunBegin \/ PauseEnds \/ WaitEnds
    BY <2>3, <2>4 DEF ProcStart, RunBegin, PauseEnds, WaitEnds
  <2>5. CASE HistoryDone \/ FundingDone
    BY <1>1, <1>2, <2>1, <2>3, <2>5 DEF HistoryDone, FundingDone, GoLive, statusVars
  <2>6. CASE ProcSubscribe \/ Connect \/ ResyncStart \/ ResyncDone \/ PollStart \/ PollDone
             \/ ProcShutdown \/ ProcDropped
    BY <1>1, <1>2, <2>1, <2>6 DEF ProcSubscribe, Connect, ResyncStart, ResyncDone, PollStart,
       PollDone, ProcShutdown, ProcDropped, statusVars
  <2>7. CASE FeedTick /\ isSynced
    <3>1. out' = [out EXCEPT !["proc"] = <<"Data">>] /\ status' = status
      BY <2>7 DEF FeedTick
    <3>2. \A v \in DOMAIN out : Holds(out[v]) => v = "ctl"
      BY <1>0, <2>1 DEF Idle, Holds
    <3>3. DOMAIN out' = DOMAIN out /\ out'["ctl"] = out["ctl"]
      BY <1>0, <3>1
    <3>4. StopIsOnItsWay'
      BY <2>1, <3>1, <3>2, <3>3 DEF StopIsOnItsWay, Holds
    <3> QED
      BY <2>1, <3>3, <3>4 DEF Idle
  <2>8. CASE FeedTick /\ ~isSynced
    BY <1>0, <2>2, <2>8 DEF FeedTick
  <2>9. CASE TaskFails \/ FeedLagged \/ FeedRtEnded \/ FeedTimeout
    BY <2>3, <2>9 DEF TaskFails, FeedLagged, FeedRtEnded, FeedTimeout, RunFails, RunFatal
  <2> QED
    BY <1>3, <2>4, <2>5, <2>6, <2>7, <2>8, <2>9 DEF Process, RunStep
<1>4. CASE TickTimer \/ RealTime
  BY <1>1, <1>2, <1>4 DEF TickTimer, RealTime, RtSubscribe, RtFails, RtTick, RtStored, RtShutdown,
     RtFlush, OrphanStored, RtDropped, notRt, statusVars, ctlVars, waitVars, feedVars
<1>5. CASE CtlBegin \/ CtlSend
  <2>1. StopIsOnItsWay'
    BY <1>1, <1>5 DEF CtlBegin, CtlSend, notCtl, statusVars, waitVars, feedVars
  <2> QED
    BY <1>5, <2>1 DEF CtlBegin, CtlSend, statusVars, Idle
<1>6. CASE CtlInitiate \/ CtlJoined \/ CtlGivesUp
  <2> USE DEF notCtl, waitVars, feedVars, Update
  <2>1. CASE CtlInitiate
    BY <1>0, <2>1, StoreKeepsStop DEF CtlInitiate
  <2>2. CASE CtlJoined
    BY <1>0, <2>2, StoreKeepsStop DEF CtlJoined
  <2>3. CASE CtlGivesUp
    BY <1>0, <2>3, StoreKeepsStop DEF CtlGivesUp
  <2> QED
    BY <1>6, <2>1, <2>2, <2>3
<1>7. CASE Waiter
  <2> USE DEF notWait, statusVars, ctlVars, feedVars, waitVars, WaitReturns
  <2>1. UNCHANGED <<status, out, ctl>>
    BY <1>7 DEF Waiter, WaitSubscribe, WaitSnapshot, WaitRecv, WaitLagged
  <2>2. CASE WaitSubscribe \/ WaitSnapshot \/ WaitLagged
    <3>1. StopIsOnItsWay'
      BY <2>2 DEF WaitSubscribe, WaitSnapshot, WaitLagged, StopIsOnItsWay
    <3> QED
      BY <1>2, <2>1, <3>1
  <2>3. CASE WaitRecv
    <3>1. feed \in Seq(Updates) /\ feed # <<>> /\ feed' = Tail(feed) /\ feedLag' = feedLag
      BY <2>3 DEF WaitRecv, TypeOK, Updates
    <3>2. CASE Head(feed) \in Stopped
      BY <1>2, <2>1, <2>3, <3>2 DEF WaitRecv, StopIsOnItsWay
    <3>3. CASE Head(feed) \notin Stopped
      <4>1. Holds(feed) => Holds(feed')
        BY <3>1, <3>3, HoldsTail
      <4>2. wait' = wait
        BY <2>3, <3>3 DEF WaitRecv
      <4>3. StopIsOnItsWay'
        BY <2>1, <3>1, <4>1, <4>2 DEF StopIsOnItsWay, Holds
      <4> QED
        BY <1>2, <2>1, <4>3
    <3> QED
      BY <3>2, <3>3
  <2> QED
    BY <1>7, <2>2, <2>3 DEF Waiter
<1>8. CASE \E w \in {"proc", "ctl"} : Broadcast(w)
  <2>1. PICK w \in {"proc", "ctl"} : Broadcast(w)
    BY <1>8
  <2>2. out["ctl"] = <<>> => out'["ctl"] = <<>>
    BY <1>0, <2>1 DEF Broadcast, Idle
  <2> QED
    BY <2>1, <2>2, BroadcastKeepsStop DEF Broadcast, Idle, ctlVars
<1>9. CASE UNCHANGED vars
  BY <1>1, <1>2, <1>9 DEF vars, statusVars, ctlVars, waitVars, feedVars
<1> QED
  BY <1>3, <1>4, <1>5, <1>6, <1>7, <1>8, <1>9 DEF Next, Controller

\* until_stopped() never waits for a stop it can no longer learn of: whatever the
\* controller and the process stored, and however far its receiver lagged, the last stop is
\* still to come, or the status is read again.
THEOREM WaiterTheorem == Spec => []StopIsOnItsWay
<1>1. Init => WaiterInv
  BY DEF Init, WaiterInv, StopIsOnItsWay
<1>2. WaiterInv => StopIsOnItsWay
  BY DEF WaiterInv
<1> QED
  BY <1>1, <1>2, WaiterStep, TypeInvariant, PTL DEF Spec

\* The receiver of the process exists before any run does, and is never given back.
HeardInv ==
  /\ pc \notin {"spawned", "subscribe", "ended"} => subscribed
  /\ rt # "none" => subscribed
  /\ ShutdownIsHeard

LEMMA HeardStep == TypeOK /\ HeardInv /\ [Next]_vars => HeardInv'
<1> SUFFICES ASSUME TypeOK, HeardInv, [Next]_vars PROVE HeardInv'
  OBVIOUS
<1> USE DEF HeardInv, ShutdownIsHeard, config, statusVars, tickVars, rtVars, waitVars, feedVars
<1>1. CASE Process
  <2> USE DEF ProcAt, Goto, notRun, DropRt
  <2>1. UNCHANGED <<ctl, signal>> /\ (aborted # "no" => aborted' # "no") /\ pc # "ended"
    BY <1>1 DEF Process, ProcStart, ProcSubscribe, RunStep, RunBegin, HistoryDone, FundingDone,
       PauseEnds, Connect, FeedTick, ResyncStart, ResyncDone, PollStart, PollDone, TaskFails,
       FeedLagged, FeedRtEnded, FeedTimeout, WaitEnds, ProcShutdown, ProcDropped, RunFails,
       RunFatal, Polled
  <2>2. subscribed => subscribed'
    BY <1>1 DEF Process, ProcStart, ProcSubscribe, RunStep, RunBegin, HistoryDone, FundingDone,
       PauseEnds, Connect, FeedTick, ResyncStart, ResyncDone, PollStart, PollDone, TaskFails,
       FeedLagged, FeedRtEnded, FeedTimeout, WaitEnds, ProcShutdown, ProcDropped, RunFails,
       RunFatal
  <2>3. ShutdownIsHeard'
    BY <2>1, <2>2
  <2>4. CASE ProcStart \/ ProcSubscribe \/ ProcShutdown \/ ProcDropped
    BY <2>2, <2>3, <2>4 DEF ProcStart, ProcSubscribe, ProcShutdown, ProcDropped
  <2>5. CASE RunStep
    <3>1. subscribed
      BY <2>5 DEF RunStep, RunBegin, HistoryDone, FundingDone, PauseEnds, Connect, FeedTick,
         ResyncStart, ResyncDone, PollStart, PollDone, TaskFails, FeedLagged, FeedRtEnded,
         FeedTimeout, WaitEnds
    <3> QED
      BY <2>2, <2>3, <3>1
  <2> QED
    BY <1>1, <2>4, <2>5 DEF Process
<1>2. CASE TickTimer \/ Waiter
  BY <1>2 DEF TickTimer, Waiter, WaitSubscribe, WaitSnapshot, WaitRecv, WaitLagged, notWait,
     procVars, ctlVars
<1>3. CASE RealTime
  <2>1. rt # "none" \/ rt' = rt
    BY <1>3 DEF RealTime, RtSubscribe, RtFails, RtTick, RtStored, RtShutdown, RtFlush,
       OrphanStored, RtDropped
  <2>2. UNCHANGED <<procVars, ctlVars>>
    BY <1>3 DEF RealTime, RtSubscribe, RtFails, RtTick, RtStored, RtShutdown, RtFlush,
       OrphanStored, RtDropped, notRt
  <2> QED
    BY <2>1, <2>2 DEF procVars, ctlVars
<1>4. CASE CtlSend
  <2>1. UNCHANGED <<pc, subscribed, rt>>
    BY <1>4 DEF CtlSend, notCtl, procVars
  <2>2. CASE ProcListens \/ RtListens
    <3>1. subscribed
      BY <2>2 DEF ProcListens, RtListens
    <3>2. pc = "ended" \/ signal'
      BY <1>4, <3>1 DEF CtlSend, ProcListens, Finished
    <3> QED
      BY <2>1, <3>1, <3>2
  <2>3. CASE ~(ProcListens \/ RtListens)
    <3>1. ctl' = "unsent" /\ aborted' # "no"
      BY <1>4, <2>3 DEF CtlSend, Abort
    <3> QED
      BY <2>1, <3>1
  <2> QED
    BY <2>2, <2>3
<1>5. CASE CtlBegin \/ CtlInitiate \/ CtlJoined
  BY <1>5 DEF CtlBegin, CtlInitiate, CtlJoined, notCtl, procVars
<1>6. CASE CtlGivesUp
  BY <1>6 DEF CtlGivesUp, Abort, notCtl, procVars
<1>7. CASE \E w \in {"proc", "ctl"} : Broadcast(w)
  BY <1>7 DEF Broadcast, procVars, ctlVars
<1>8. CASE UNCHANGED vars
  BY <1>8 DEF vars, procVars, ctlVars
<1> QED
  BY <1>1, <1>2, <1>3, <1>4, <1>5, <1>6, <1>7, <1>8 DEF Next, Controller

\* shutdown() never waits for a process that was not told to stop: that the real-time task
\* counts as a receiver of the signal cannot hide that the process has none.
THEOREM HeardTheorem == Spec => []ShutdownIsHeard
<1>1. Init => HeardInv
  BY DEF Init, HeardInv, ShutdownIsHeard
<1>2. HeardInv => ShutdownIsHeard
  BY DEF HeardInv
<1> QED
  BY <1>1, <1>2, HeardStep, TypeInvariant, PTL DEF Spec

-----------------------------------------------------------------------------
(* What Synced says.                                                       *)

\* Every way out of the loops writes another status first, or was told to by shutdown().
LEMMA CurrentStep ==
  TypeOK /\ EndInv /\ SyncedIsCurrent /\ [Next]_vars => SyncedIsCurrent'
<1> SUFFICES ASSUME TypeOK, EndInv, SyncedIsCurrent, [Next]_vars,
                    status' = "Synced", ctl' \in {"idle", "init"}
             PROVE  pc' \in Loops /\ (stream' => isSynced')
  BY DEF SyncedIsCurrent
<1> USE DEF SyncedIsCurrent, Loops, config, statusVars, tickVars, rtVars, waitVars, feedVars
<1>0. CASE UNCHANGED <<stream, pc, isSynced, status>> /\ ctl \in {"idle", "init"}
  BY <1>0
<1>1. CASE Process
  <2> USE DEF ProcAt, Goto, notRun
  <2>0. ctl \in {"idle", "init"} /\ stream' = stream
    BY <1>1 DEF Process, ProcStart, ProcSubscribe, RunStep, RunBegin, HistoryDone, FundingDone,
       PauseEnds, Connect, FeedTick, ResyncStart, ResyncDone, PollStart, PollDone, TaskFails,
       FeedLagged, FeedRtEnded, FeedTimeout, WaitEnds, ProcShutdown, ProcDropped, RunFails,
       RunFatal
  <2>1. ASSUME NEW s \in Status, Update("proc", s) PROVE s = "Synced"
    BY <2>1 DEF Update, Store
  <2>2. CASE ProcStart \/ RunBegin \/ PauseEnds \/ WaitEnds
    BY <2>1, <2>2 DEF ProcStart, RunBegin, PauseEnds, WaitEnds
  <2>3. CASE HistoryDone \/ FundingDone
    BY <2>0, <2>1, <2>3 DEF HistoryDone, FundingDone, GoLive
  <2>4. CASE ResyncStart \/ ResyncDone \/ PollStart \/ PollDone
    BY <2>0, <2>4 DEF ResyncStart, ResyncDone, PollStart, PollDone
  <2>5. CASE ProcSubscribe \/ Connect
    BY <2>0, <2>5 DEF ProcSubscribe, Connect
  <2>6. CASE FeedTick
    BY <2>6 DEF FeedTick
  <2>7. CASE TaskFails \/ FeedLagged \/ FeedRtEnded \/ FeedTimeout
    BY <2>1, <2>7 DEF TaskFails, FeedLagged, FeedRtEnded, FeedTimeout, RunFails, RunFatal
  <2>8. CASE ProcShutdown \/ ProcDropped
    BY <2>0, <2>8 DEF EndInv, ProcShutdown, ProcDropped
  <2> QED
    BY <1>1, <2>2, <2>3, <2>4, <2>5, <2>6, <2>7, <2>8 DEF Process, RunStep
<1>2. CASE TickTimer \/ RealTime \/ Waiter
  BY <1>0, <1>2 DEF TickTimer, RealTime, RtSubscribe, RtFails, RtTick, RtStored, RtShutdown,
     RtFlush, OrphanStored, RtDropped, Waiter, WaitSubscribe, WaitSnapshot, WaitRecv, WaitLagged,
     notRt, notWait, procVars, ctlVars
<1>3. CASE Controller
  BY <1>0, <1>3 DEF Controller, CtlBegin, CtlInitiate, CtlSend, CtlJoined, CtlGivesUp, notCtl,
     procVars
<1>4. CASE \E w \in {"proc", "ctl"} : Broadcast(w)
  BY <1>0, <1>4 DEF Broadcast, procVars, ctlVars
<1>5. CASE UNCHANGED vars
  BY <1>0, <1>5 DEF vars, procVars, ctlVars
<1> QED
  BY <1>1, <1>2, <1>3, <1>4, <1>5 DEF Next

\* Until a shutdown begins, Synced is never left over from an earlier run or from a feed
\* that was given up.
THEOREM CurrentTheorem == Spec => []SyncedIsCurrent
<1>1. Init => SyncedIsCurrent
  BY DEF Init, SyncedIsCurrent
<1> QED
  BY <1>1, CurrentStep, EndInvariant, PTL DEF Spec

-----------------------------------------------------------------------------
(* The funding settlements: the grid of their times.                       *)

\* The settlements by the schedule.
OnGrid(t) ==
  \/ AStart <= t /\ t <= AEnd /\ t % 24 = 8
  \/ BStart <= t /\ t <= BEnd /\ t % 8 = 4
  \/ CStart <= t /\ t % 8 = 0

\* The hours at which the code lets a series start: IsValid holds of one more than the grid, and
\* of some before it.
Anchor(t) == OnGrid(t) \/ t = BEnd + 8 \/ t < AStart

PhaseTypes ==
  /\ AStart \in Nat /\ AEnd \in Nat /\ BStart \in Nat /\ BEnd \in Nat /\ CStart \in Nat
  /\ AStart % 24 = 8 /\ AEnd % 24 = 8 /\ AStart <= AEnd
  /\ BStart = AEnd + 12 /\ BEnd % 24 = 4 /\ BStart < BEnd /\ CStart = BEnd + 12

\* The three phases, with the hours of the day as numbers.
LEMMA Phases == PhaseTypes
BY PhasesAssumption DEF PhaseTypes, Day

\* Remainders by 24 and by 8.
LEMMA Remainders ==
  ASSUME NEW t \in Int
  PROVE  /\ t % 24 \in 0 .. 23 /\ t % 8 \in 0 .. 7 /\ (t % 24) % 8 = t % 8
         /\ \E q \in Int : t = 24 * q + (t % 24)
         /\ \E q \in Int : t = 8 * q + (t % 8)
<1>1. t = 24 * (t \div 24) + (t % 24) /\ t % 24 \in 0 .. 23 /\ t \div 24 \in Int
  OBVIOUS
<1>2. t = 8 * (t \div 8) + (t % 8) /\ t % 8 \in 0 .. 7 /\ t \div 8 \in Int
  OBVIOUS
<1>3. (t % 24) % 8 = t % 8
  BY <1>1, <1>2
<1> QED
  BY <1>1, <1>2, <1>3

\* The times of a series.
LEMMA SeriesIs ==
  ASSUME NEW from \in Int, NEW to \in Int, NEW t
  PROVE  /\ t \in Series(from, to, 8) <=> t \in Int /\ from <= t /\ t <= to /\ t % 8 = from % 8
         /\ t \in Series(from, to, 24) <=> t \in Int /\ from <= t /\ t <= to /\ t % 24 = from % 24
BY DEF Series

\* A series of settlements from an anchor has the settlements there are by the schedule.
LEMMA GridPointsIs ==
  ASSUME NEW from \in Int, NEW to \in Int, Anchor(from), NEW t
  PROVE  t \in GridPoints(from, to) <=> t \in Int /\ OnGrid(t) /\ from <= t /\ t <= to
<1> USE Phases DEF PhaseTypes
<1> DEFINE A == IF from <= AEnd THEN Series(Later(from, AStart), Sooner(to, AEnd), Day) ELSE {}
           B == IF from <= BEnd /\ to >= BStart
                THEN Series(Later(from, BStart), Sooner(to, BEnd), Interval) ELSE {}
           C == IF to >= CStart THEN Series(Later(from, CStart), to, Interval) ELSE {}
<1>1. t \in GridPoints(from, to) <=> t \in A \/ t \in B \/ t \in C
  BY DEF GridPoints
<1>2. t \in A <=> t \in Int /\ from <= t /\ t <= to /\ AStart <= t /\ t <= AEnd /\ t % 24 = 8
  <2>1. CASE from <= AEnd
    <3> DEFINE f == Later(from, AStart)
               l == Sooner(to, AEnd)
    <3>1. f \in Int /\ f % 24 = 8 /\ \A x \in Int : f <= x <=> from <= x /\ AStart <= x
      BY <2>1 DEF Anchor, OnGrid, Later
    <3>2. l \in Int /\ \A x \in Int : x <= l <=> x <= to /\ x <= AEnd
      BY DEF Sooner
    <3>3. A = Series(f, l, 24)
      BY <2>1 DEF Day
    <3> HIDE DEF f, l, A
    <3>4. t \in A <=> t \in Int /\ f <= t /\ t <= l /\ t % 24 = f % 24
      BY <3>1, <3>2, <3>3, SeriesIs
    <3> QED
      BY <3>1, <3>2, <3>4
  <2>2. CASE ~(from <= AEnd)
    BY <2>2
  <2> QED
    BY <2>1, <2>2
<1>3. t \in B <=> t \in Int /\ from <= t /\ t <= to /\ BStart <= t /\ t <= BEnd /\ t % 8 = 4
  <2>1. CASE from <= BEnd
    <3> DEFINE f == Later(from, BStart)
    <3>1. f \in Int /\ f % 8 = 4 /\ \A x \in Int : f <= x <=> from <= x /\ BStart <= x
      BY <2>1 DEF Anchor, OnGrid, Later
    <3>2. Sooner(to, BEnd) \in Int /\ \A x \in Int : x <= Sooner(to, BEnd) <=> x <= to /\ x <= BEnd
      BY DEF Sooner
    <3> DEFINE l == Sooner(to, BEnd)
    <3>3. CASE to >= BStart
      <4>1. B = Series(f, l, 8)
        BY <2>1, <3>3 DEF Interval
      <4>2. f \in Int /\ l \in Int
        BY <3>1, <3>2
      <4> HIDE DEF f, l, B
      <4>3. t \in B <=> t \in Int /\ f <= t /\ t <= l /\ t % 8 = f % 8
        BY <4>1, <4>2, SeriesIs
      <4> QED
        BY <3>1, <3>2, <4>3 DEF l
    <3>4. CASE ~(to >= BStart)
      <4>1. B = {}
        BY <3>4
      <4> HIDE DEF B
      <4> QED
        BY <4>1, <3>4
    <3> QED
      BY <3>3, <3>4
  <2>2. CASE ~(from <= BEnd)
    BY <2>2
  <2> QED
    BY <2>1, <2>2
<1>4. t \in C <=> t \in Int /\ from <= t /\ t <= to /\ CStart <= t /\ t % 8 = 0
  <2> DEFINE f == Later(from, CStart)
  <2>1. f \in Int /\ f % 8 = 0 /\ \A x \in Int : f <= x <=> from <= x /\ CStart <= x
    BY DEF Anchor, OnGrid, Later
  <2>2. CASE to >= CStart
    <3>1. C = Series(f, to, 8)
      BY <2>2 DEF Interval
    <3>2. f \in Int
      BY <2>1
    <3> HIDE DEF f, C
    <3>3. t \in C <=> t \in Int /\ f <= t /\ t <= to /\ t % 8 = f % 8
      BY <3>1, <3>2, SeriesIs
    <3> QED
      BY <2>1, <3>3
  <2>3. CASE ~(to >= CStart)
    <3>1. C = {}
      BY <2>3
    <3> HIDE DEF C
    <3> QED
      BY <2>3, <3>1
  <2> QED
    BY <2>2, <2>3
<1> HIDE DEF A, B, C
<1> QED
  BY <1>1, <1>2, <1>3, <1>4 DEF OnGrid

\* Which hours the code takes for settlements.
LEMMA ValidIs ==
  ASSUME NEW x \in Int
  PROVE  IsValid(x) <=> \/ x < BStart /\ x % 24 = 8
                        \/ BStart <= x /\ x < CStart /\ x % 8 = 4
                        \/ CStart <= x /\ x % 8 = 0
<1> USE Phases DEF PhaseTypes
<1>1. Hour(x) = x % 24 /\ Hour(x) % 8 = x % 8
  BY Remainders DEF Hour, Day
<1>2. BStart < CStart
  OBVIOUS
<1>3. CASE x < BStart
  <2>1. ~(x >= BStart) /\ ~(x >= CStart) /\ IsValid(x) = (Hour(x) = 8)
    BY <1>2, <1>3 DEF IsValid
  <2> QED
    BY <1>1, <1>3, <2>1
<1>4. CASE BStart <= x /\ x < CStart
  <2>1. ~(x < BStart) /\ ~(x >= CStart) /\ IsValid(x) = (Hour(x) % 8 = 4)
    BY <1>2, <1>4 DEF IsValid, Interval
  <2> QED
    BY <1>1, <1>4, <2>1
<1>5. CASE CStart <= x
  <2>1. ~(x < BStart) /\ ~(x < CStart) /\ IsValid(x) = (Hour(x) % 8 = 0)
    BY <1>2, <1>5 DEF IsValid, Interval
  <2> QED
    BY <1>1, <1>5, <2>1
<1> QED
  BY <1>3, <1>4, <1>5

\* Between the phases there are none but one, and some before the first.
LEMMA ValidAnchors ==
  ASSUME NEW x \in Int, IsValid(x)
  PROVE  Anchor(x)
<1> USE Phases DEF PhaseTypes
<1>1. \/ x < BStart /\ x % 24 = 8
      \/ BStart <= x /\ x < CStart /\ x % 8 = 4
      \/ CStart <= x /\ x % 8 = 0
  BY ValidIs
<1>2. CASE x < BStart /\ x % 24 = 8
  <2>1. x <= AEnd
    BY <1>2
  <2> QED
    BY <1>2, <2>1 DEF Anchor, OnGrid
<1>3. CASE BStart <= x /\ x < CStart /\ x % 8 = 4
  <2>1. x <= BEnd \/ x = BEnd + 8
    BY <1>3
  <2> QED
    BY <1>3, <2>1 DEF Anchor, OnGrid
<1>4. CASE CStart <= x /\ x % 8 = 0
  BY <1>4 DEF Anchor, OnGrid
<1> QED
  BY <1>1, <1>2, <1>3, <1>4

\* What is on the grid is valid.
LEMMA GridIsValid ==
  ASSUME NEW x \in Int, OnGrid(x)
  PROVE  IsValid(x) /\ x >= AStart
BY Phases, ValidIs DEF PhaseTypes, OnGrid

\* The slot of an hour.
LEMMA SlotIs ==
  ASSUME NEW x \in Int
  PROVE  LET y == Midnight(x) + Slot(x)
         IN y \in Int /\ y <= x /\ x < y + 8 /\ y % 8 = IF x < CStart THEN 4 ELSE 0
<1> DEFINE o == IF x < CStart THEN 4 ELSE 0
           h == x % 24
           s == (h - o) \div 8
           y == Midnight(x) + Slot(x)
<1>1. h \in 0 .. 23 /\ (x - h) % 8 = 0
  <2>1. PICK q \in Int : x = 24 * q + h
    BY Remainders
  <2>2. h \in 0 .. 23
    OBVIOUS
  <2>3. x - h = 8 * (3 * q)
    BY <2>1, <2>2
  <2> QED
    BY <2>2, <2>3
<1>2. o \in {0, 4}
  OBVIOUS
<1>3. y = (x - h) + (s * 8 + o)
  BY DEF Midnight, Slot, Offset, Hour, Day, Interval
<1> HIDE DEF h, o, y
<1>4. s \in Int /\ 8 * s <= h - o /\ h - o < 8 * s + 8
  BY <1>1, <1>2
<1> HIDE DEF s
<1>5. y \in Int /\ y <= x /\ x < y + 8 /\ y % 8 = o
  BY <1>1, <1>2, <1>3, <1>4
<1> QED
  BY <1>5 DEF y, o

\* The first settlement at or after an hour.
LEMMA CeilIs ==
  ASSUME NEW x \in Nat
  PROVE  /\ Ceil(x) \in Nat /\ Ceil(x) >= x /\ Anchor(Ceil(x))
         /\ \A t \in Int : OnGrid(t) /\ x <= t => Ceil(x) <= t
<1> USE Phases DEF PhaseTypes
<1> DEFINE Right(c) == /\ c \in Nat /\ c >= x /\ Anchor(c)
                       /\ \A t \in Int : OnGrid(t) /\ x <= t => c <= t
<1>1. CASE IsValid(x)
  <2>1. Ceil(x) = x
    BY <1>1 DEF Ceil
  <2> QED
    BY <1>1, <2>1, ValidAnchors
<1>2. CASE ~IsValid(x) /\ x > AEnd /\ x < BStart
  <2>1. Ceil(x) = BStart
    BY <1>2 DEF Ceil
  <2>2. BStart % 8 = 4
    OBVIOUS
  <2>3. Right(BStart)
    BY <1>2, <2>2 DEF Anchor, OnGrid
  <2> QED
    BY <2>1, <2>3
<1>3. CASE ~IsValid(x) /\ x > BEnd /\ x < CStart
  <2>1. Ceil(x) = CStart
    BY <1>3 DEF Ceil
  <2>2. CStart % 8 = 0
    OBVIOUS
  <2>3. Right(CStart)
    BY <1>3, <2>2 DEF Anchor, OnGrid
  <2> QED
    BY <2>1, <2>3
<1>4. CASE ~IsValid(x) /\ x <= AEnd
  <2> DEFINE h == x % 24
             c == x - h + 8 + (IF h <= 8 THEN 0 ELSE 24)
  <2>1. h \in 0 .. 23 /\ h # 8
    BY <1>4, ValidIs
  <2>2. c \in Nat /\ c >= x /\ c % 24 = 8 /\ c < x + 24
    BY <2>1
  <2>3. c <= AEnd
    BY <1>4, <2>2
  <2>4. Ceil(x) = c
    BY <1>4, <2>3 DEF Ceil, SnapToB, Midnight, Hour, Day
  <2> HIDE DEF c
  <2>5. \A t \in Int : OnGrid(t) /\ x <= t => c <= t
    BY <2>2, <2>3 DEF OnGrid
  <2> QED
    BY <1>4, <2>2, <2>3, <2>4, <2>5 DEF Anchor, OnGrid
<1>5. CASE ~IsValid(x) /\ (x \in BStart .. BEnd \/ x >= CStart)
  <2> DEFINE y == Midnight(x) + Slot(x)
             c == y + 8
  <2>1. y \in Int /\ y <= x /\ x < y + 8 /\ y % 8 = IF x < CStart THEN 4 ELSE 0
    BY SlotIs
  <2>2. Ceil(x) = SnapToC(c)
    BY <1>5 DEF Ceil, Interval
  <2> HIDE DEF y
  <2>3. CASE x \in BStart .. BEnd
    <3>1. c % 8 = 4 /\ c <= BEnd /\ c \in Nat
      <4>1. x # BEnd
        BY <1>5, <2>3, ValidIs
      <4> QED
        BY <2>1, <2>3, <4>1
    <3>2. SnapToC(c) = c
      BY <3>1 DEF SnapToC
    <3> HIDE DEF c
    <3>3. c >= x /\ c - 8 < x
      BY <1>5, <2>1, <2>3, ValidIs DEF c
    <3>4. ASSUME NEW t \in Int, OnGrid(t), x <= t PROVE c <= t
      <4>1. CASE t % 8 = 4
        BY <3>1, <3>3, <3>4, <4>1
      <4>2. CASE t % 8 = 0 /\ CStart <= t
        BY <3>1, <4>2
      <4>3. ~(t <= AEnd)
        BY <2>3, <3>4
      <4> QED
        BY <3>4, <4>1, <4>2, <4>3 DEF OnGrid
    <3> QED
      BY <2>2, <2>3, <3>1, <3>2, <3>3, <3>4 DEF Anchor, OnGrid
  <2>4. CASE x >= CStart
    <3>1. c % 8 = 0 /\ c \in Nat /\ c >= x
      BY <2>1, <2>4
    <3>2. SnapToC(c) = c
      BY <3>1, <2>4 DEF SnapToC
    <3> HIDE DEF c
    <3>3. ASSUME NEW t \in Int, OnGrid(t), x <= t PROVE c <= t
      <4>1. t % 8 = 0
        BY <2>4, <3>3 DEF OnGrid
      <4>2. c - 8 < x
        BY <1>5, <2>1, <2>4, ValidIs DEF c
      <4> QED
        BY <3>1, <3>3, <4>1, <4>2
    <3> QED
      BY <2>2, <2>4, <3>1, <3>2, <3>3 DEF Anchor, OnGrid
  <2> QED
    BY <1>5, <2>3, <2>4
<1> QED
  BY <1>1, <1>2, <1>3, <1>4, <1>5

\* The last settlement at or before an hour.
LEMMA FloorIs ==
  ASSUME NEW x \in Int, x >= AStart - 1
  PROVE  /\ Floor(x) \in Int /\ Floor(x) <= x
         /\ \A t \in Int : OnGrid(t) /\ t <= x => t <= Floor(x)
<1> USE Phases DEF PhaseTypes
<1>1. CASE IsValid(x)
  BY <1>1 DEF Floor
<1>2. CASE ~IsValid(x) /\ x > AEnd /\ x < BStart
  <2>1. Floor(x) = AEnd
    BY <1>2 DEF Floor
  <2> QED
    BY <1>2, <2>1 DEF OnGrid
<1>3. CASE ~IsValid(x) /\ x > BEnd /\ x < CStart
  <2>1. Floor(x) = BEnd
    BY <1>3 DEF Floor
  <2> QED
    BY <1>3, <2>1 DEF OnGrid
<1>4. CASE ~IsValid(x) /\ x <= AEnd
  <2> DEFINE h == x % 24
             c == x - h + 8 - (IF h >= 8 THEN 0 ELSE 24)
  <2>1. h \in 0 .. 23
    BY Remainders
  <2>2. c \in Int /\ c <= x /\ c % 24 = 8 /\ x < c + 24
    BY <2>1
  <2>4. Floor(x) = c
    BY <1>4 DEF Floor, Midnight, Hour, Day
  <2> HIDE DEF c
  <2>5. \A t \in Int : OnGrid(t) /\ t <= x => t <= c
    BY <1>4, <2>2 DEF OnGrid
  <2> QED
    BY <2>2, <2>4, <2>5
<1>5. CASE ~IsValid(x) /\ (x \in BStart .. BEnd \/ x >= CStart)
  <2> DEFINE y == Midnight(x) + Slot(x)
  <2>1. y \in Int /\ y <= x /\ x < y + 8 /\ y % 8 = IF x < CStart THEN 4 ELSE 0
    BY SlotIs
  <2>2. Floor(x) = y
    BY <1>5 DEF Floor
  <2> HIDE DEF y
  <2>3. \A t \in Int : OnGrid(t) /\ t <= x => t <= y
    BY <1>5, <2>1 DEF OnGrid
  <2> QED
    BY <2>1, <2>2, <2>3
<1> QED
  BY <1>1, <1>2, <1>3, <1>4, <1>5

\* The greatest element of a table, a page or a scan.
LEMMA GreatestIs ==
  ASSUME NEW S \in SUBSET Int, IsFiniteSet(S), S # {}
  PROVE  Greatest(S) \in S /\ \A x \in S : x <= Greatest(S)
BY GreatestExists DEF Greatest

\* So has its least element.
LEMMA LeastIs ==
  ASSUME NEW S \in SUBSET Int, IsFiniteSet(S), S # {}
  PROVE  Least(S) \in S /\ \A x \in S : Least(S) <= x
BY MinIs DEF Least, Min

\* The end of the clock.
LEMMA ClockEnd ==
  ASSUME now \in Clock
  PROVE  /\ Greatest(Clock) \in Nat /\ now \in Nat /\ now >= CStart
         /\ \A t \in Clock : t <= Greatest(Clock)
<1>1. Clock \in SUBSET Int /\ IsFiniteSet(Clock) /\ Clock # {}
  BY ClockAssumption
<1> QED
  BY <1>1, ClockAssumption, GreatestIs

\* The settlements until a time of the clock.
LEMMA UntilIs ==
  ASSUME now \in Clock, NEW x \in Int, NEW t
  PROVE  /\ t \in Until(x) => t \in Int /\ OnGrid(t) /\ t <= x
         /\ t \in Int /\ OnGrid(t) /\ t <= x /\ x <= Greatest(Clock) => t \in Until(x)
<1>1. AStart \in Int /\ Anchor(AStart) /\ \A u \in Int : OnGrid(u) => AStart <= u
  BY Phases DEF PhaseTypes, Anchor, OnGrid
<1>2. t \in Schedule <=> t \in Int /\ OnGrid(t) /\ AStart <= t /\ t <= Greatest(Clock)
  BY <1>1, ClockEnd, GridPointsIs DEF Schedule, Settlements
<1>3. t \in Until(x) <=> t \in Schedule /\ t <= x
  BY DEF Until
<1> QED
  BY <1>1, <1>2, <1>3, ClockEnd

\* The settlements there have been.
LEMMA GridIs ==
  ASSUME now \in Clock
  PROVE  /\ \A t : t \in Grid <=> t \in Int /\ OnGrid(t) /\ t <= now
         /\ Grid \in SUBSET Nat /\ IsFiniteSet(Grid)
         /\ \A t \in Grid : t >= AStart /\ t # None
<1>1. ASSUME NEW t PROVE t \in Grid <=> t \in Int /\ OnGrid(t) /\ t <= now
  BY ClockEnd, UntilIs DEF Grid
<1>2. \A t \in Int : OnGrid(t) => t \in Nat /\ t >= AStart /\ t # 0
  BY Phases DEF PhaseTypes, OnGrid
<1>3. Grid \subseteq 0 .. now
  BY <1>1, <1>2, ClockEnd
<1>4. IsFiniteSet(0 .. now)
  BY ClockEnd, FS_Interval
<1>5. IsFiniteSet(Grid)
  BY <1>3, <1>4, FS_Subset
<1> QED
  BY <1>1, <1>2, <1>5 DEF None

\* What can be in the table has been reported by now.
LEMMA StorableIs ==
  ASSUME now \in Clock, odd \subseteq OddTimes
  PROVE  /\ Grid \subseteq Storable /\ Storable \in SUBSET Nat /\ IsFiniteSet(Storable)
         /\ \A t \in Storable : t # None /\ t <= now
<1>1. now \in Nat /\ Grid \in SUBSET Nat /\ \A t \in Grid : t <= now /\ t # None
  BY ClockEnd, GridIs
<1>2. \A t \in Astray : t \in Nat /\ t <= now
  BY ConfigAssumption DEF Astray
<1>3. ~IsValid(0)
  BY Phases, ValidIs DEF PhaseTypes
<1>4. \A t \in Storable : t \in Nat /\ t <= now /\ t # None
  BY <1>1, <1>2, <1>3 DEF Storable, None
<1>5. Storable \subseteq 0 .. now
  BY <1>1, <1>4
<1>6. IsFiniteSet(0 .. now)
  BY <1>1, FS_Interval
<1>7. IsFiniteSet(Storable)
  BY <1>5, <1>6, FS_Subset
<1> QED
  BY <1>4, <1>7 DEF Storable

\* The ends of the table.
LEMMA TableIs ==
  ASSUME now \in Clock, odd \subseteq OddTimes, stored \subseteq Storable, stored # {}
  PROVE  /\ First \in stored /\ Last \in stored /\ First \in Nat /\ Last \in Nat
         /\ First # None /\ Last <= now /\ First <= Last
         /\ \A t \in stored : t \in Nat /\ First <= t /\ t <= Last
<1>1. stored \in SUBSET Int /\ IsFiniteSet(stored)
  BY StorableIs, FS_Subset
<1> QED
  BY <1>1, StorableIs, GreatestIs, LeastIs DEF First, Last

\* What a scan finds, and that it overlooks nothing.
LEMMA MissingIs ==
  ASSUME now \in Clock, odd \subseteq OddTimes, stored \subseteq Storable, NEW scan \in BOOLEAN,
         NEW cut \in {None} \cup Grid, cut # None /\ stored # {} => cut <= Last
  PROVE  /\ Missing(scan, cut) \subseteq Grid
         /\ Missing(scan, cut) # {} => scan /\ stored # {}
         /\ \A t \in Missing(scan, cut) :
              t >= Later(now - FlagRange, First) /\ t <= Last /\ (cut = None \/ t < cut)
         /\ scan /\ stored # {} =>
              \A t \in Until(Last) :
                t >= Later(now - FlagRange, First) /\ (cut = None \/ t < cut)
                  => t \in stored \cup Missing(scan, cut)
<1> DEFINE x == Later(now - FlagRange, First)
           from == Ceil(x)
           to == IF cut = None THEN Last ELSE Floor(cut - 1)
<1>1. CASE ~scan \/ stored = {}
  BY <1>1 DEF Missing
<1>2. CASE scan /\ stored # {}
  <2>1. /\ First \in stored /\ Last \in stored /\ First \in Nat /\ Last \in Nat
        /\ Last <= now /\ First <= Last
        /\ \A t \in stored : t \in Nat /\ First <= t /\ t <= Last
    BY <1>2, TableIs
  <2>2. now \in Nat /\ FlagRange \in Nat /\ AStart \in Nat
    BY ClockEnd, ConfigAssumption, Phases DEF PhaseTypes
  <2>3. x \in Nat /\ x >= First
    BY <2>1, <2>2 DEF Later
  <2> HIDE DEF x
  <2>4. /\ from \in Nat /\ from >= x /\ Anchor(from)
        /\ \A t \in Int : OnGrid(t) /\ x <= t => from <= t
    BY <2>3, CeilIs
  <2>5. /\ to \in Int /\ to <= Last
        /\ cut # None => to < cut
        /\ \A t \in Int : OnGrid(t) /\ t <= Last /\ (cut = None \/ t < cut) => t <= to
    <3>1. CASE cut = None
      BY <2>1, <3>1
    <3>2. CASE cut # None
      <4>1. cut \in Nat /\ cut >= AStart /\ cut <= Last
        BY <1>2, <3>2, GridIs
      <4>2. cut - 1 \in Int /\ cut - 1 >= AStart - 1
        BY <2>2, <4>1
      <4>3. /\ Floor(cut - 1) \in Int /\ Floor(cut - 1) <= cut - 1
            /\ \A t \in Int : OnGrid(t) /\ t <= cut - 1 => t <= Floor(cut - 1)
        BY <4>2, FloorIs
      <4>4. to = Floor(cut - 1)
        BY <3>2
      <4> HIDE DEF to
      <4> QED
        BY <2>1, <3>2, <4>1, <4>3, <4>4
    <3> QED
      BY <3>1, <3>2
  <2> HIDE DEF from, to
  <2>6. \A t : t \in GridPoints(from, to) <=> t \in Int /\ OnGrid(t) /\ from <= t /\ t <= to
    BY <2>4, <2>5, GridPointsIs
  <2>7. Missing(scan, cut) = IF ~Single /\ from <= to THEN GridPoints(from, to) \ stored ELSE {}
    BY <1>2 DEF Missing, from, to, x
  <2>8. \A t \in Missing(scan, cut) :
          t \in Int /\ OnGrid(t) /\ from <= t /\ t <= to
    BY <2>6, <2>7
  <2>9. \A t \in Missing(scan, cut) :
          t \in Int /\ OnGrid(t) /\ t >= x /\ t <= Last /\ t <= now /\ (cut = None \/ t < cut)
    <3>1. cut \in Int
      BY GridIs DEF None
    <3> QED
      BY <2>1, <2>2, <2>3, <2>4, <2>5, <2>8, <3>1
  <2>10. ASSUME NEW t \in Until(Last), t >= x, cut = None \/ t < cut
         PROVE  t \in stored \cup Missing(scan, cut)
    <3>1. t \in Int /\ OnGrid(t) /\ t <= Last
      BY <2>1, UntilIs
    <3>2. from <= t /\ t <= to
      BY <2>4, <2>5, <2>10, <3>1
    <3>3. CASE ~Single
      <4>1. from <= to
        BY <2>4, <2>5, <3>1, <3>2
      <4> QED
        BY <2>6, <2>7, <3>1, <3>2, <3>3, <4>1
    <3>4. CASE Single
      <4>1. PICK r : stored = {r}
        <5>1. IsFiniteSet(stored)
          BY StorableIs, FS_Subset
        <5> QED
          BY <3>4, <5>1, FS_Singleton DEF Single
      <4>2. First = r /\ Last = r
        BY <2>1, <4>1
      <4>3. t = r
        BY <2>1, <2>3, <2>10, <3>1, <4>2
      <4> QED
        BY <4>1, <4>3
    <3> QED
      BY <3>3, <3>4
  <2>11. Missing(scan, cut) \subseteq Grid
    BY <2>9, GridIs
  <2> QED
    BY <1>2, <2>9, <2>10, <2>11 DEF x
<1> QED
  BY <1>1, <1>2

\* The latest group has the latest missing settlement.
LEMMA GroupIs ==
  ASSUME NEW S \in SUBSET Int, IsFiniteSet(S), S # {}
  PROVE  /\ LatestGroup(S) \subseteq S /\ LatestGroup(S) # {}
         /\ Greatest(LatestGroup(S)) = Greatest(S)
         /\ Least(LatestGroup(S)) \in S /\ Least(LatestGroup(S)) <= Greatest(S)
<1> DEFINE g == Greatest(S)
           G == LatestGroup(S)
<1>1. g \in S /\ \A x \in S : x <= g
  BY GreatestIs
<1>2. g \in G /\ G \subseteq S
  <2>1. g \in Int
    BY <1>1
  <2> HIDE DEF g
  <2>2. \A u \in S : ~(u > g)
    BY <1>1, <2>1
  <2> QED
    BY <1>1, <2>2 DEF LatestGroup
<1> HIDE DEF g, G
<1>3. G \in SUBSET Int /\ IsFiniteSet(G) /\ G # {}
  BY <1>2, FS_Subset
<1>4. Greatest(G) \in G /\ (\A x \in G : x <= Greatest(G)) /\ Least(G) \in G /\ \A x \in G : Least(G) <= x
  BY <1>3, GreatestIs, LeastIs
<1> DEFINE h == Greatest(G)
<1>5. h = g
  <2>1. h \in G /\ \A x \in G : x <= h
    BY <1>4
  <2> HIDE DEF h
  <2> QED
    BY <1>1, <1>2, <1>3, <2>1
<1> QED
  BY <1>1, <1>2, <1>4, <1>5 DEF g, G

-----------------------------------------------------------------------------
(* The funding settlements: what a scan may leave out.                     *)

\* What is in the table, or was found not to be had.
Known == stored \cup refused \cup opened

\* All from x up to the end of the table is.
Told(x) == \A t \in Until(Last) : t >= x => t \in Known

\* A scan is cut short only above what is known, and by the run that scans.
CutInv ==
  /\ taskPc \in {"idle", "begin", "wait"} => exclude = None
  /\ exclude # None => stored # {} /\ flag /\ exclude <= Last /\ Told(exclude)

\* Above the latest settlement that is missing all is known.
LostInv ==
  taskPc = "request" /\ missing # {} =>
    stored # {} /\ flag /\ Greatest(missing) <= Last /\ Told(Greatest(missing) + 1)

\* What the page that waits to be saved says about the times it was asked for.
RangeInv ==
  taskPc = "save" =>
    /\ range.kind = "Latest" => stored = {}
    /\ range.kind # "Latest" => stored # {}
    /\ range.kind = "Missing" =>
         /\ flag /\ range.to # None /\ range.to <= Last /\ Told(range.to + 1)
         /\ range.to \in page \cup refused /\ \A b \in page : b <= range.to
    /\ range.kind = "LowerBound" => \A b \in page : b <= First
    /\ range.kind = "UpperBound" /\ exclude # None =>
         \A b \in page, t \in Schedule : Last <= t /\ t <= b => t \in page \cup refused \cup opened

\* Once it is saved, all from the end of its range up is known.
ReviewInv ==
  taskPc = "review" /\ range.kind = "Missing" =>
    stored # {} /\ flag /\ range.to # None /\ range.to <= Last /\ Told(range.to)

\* A run that ended has something in the table.
WaitInv == taskPc = "wait" => stored # {}

\* The invariant.
FundingInv ==
  FundingTypeOK /\ CutInv /\ LostInv /\ RangeInv /\ ReviewInv /\ WaitInv /\ SyncedIsComplete

-----------------------------------------------------------------------------
(* Types.                                                                  *)

\* The first state.
LEMMA FundingInitType == FundingInit => FundingTypeOK
<1> SUFFICES ASSUME FundingInit PROVE FundingTypeOK
  OBVIOUS
<1>1. now \in Clock /\ Grid \subseteq Nat
  BY GridIs DEF FundingInit
<1>2. MaxFaults \in Nat
  BY BoundsAssumption
<1>3. flag \in BOOLEAN /\ synced \in BOOLEAN
  BY DEF FundingInit
<1>4. exclude = None /\ range.kind = "Latest" /\ range.from = None /\ range.to = None
  BY DEF FundingInit, Whole
<1>5. nextRun = 0 /\ faults \in 0 .. MaxFaults
  BY <1>2 DEF FundingInit
<1> QED
  BY <1>1, <1>3, <1>4, <1>5 DEF FundingInit, FundingTypeOK, ControlPoints

\* The end of a process leaves it in its types.
LEMMA EndType ==
  ASSUME FundingTypeOK, NEW result \in {"failed", "stopped", "fatal"}, End(result),
         UNCHANGED <<now, lacking, odd, syncMode, stored>>, faults' \in 0 .. MaxFaults
  PROVE  FundingTypeOK'
BY DEF FundingTypeOK, End, RunOver, Whole, ControlPoints, Storable, Astray, Grid, Until, None

\* Time goes on and adds settlements.
LEMMA TickType ==
  ASSUME FundingTypeOK, Tick
  PROVE  FundingTypeOK' /\ now \in Nat /\ now' \in Nat /\ now <= now'
<1>1. now \in Nat /\ now' \in Nat /\ now < now' /\ now' \in Clock /\ now \in Clock
  BY ClockAssumption DEF FundingTypeOK, Tick
<1>2. \A t \in Schedule : t \in Nat
  <2>1. \A t \in Schedule : t \in Int /\ OnGrid(t)
    <3>1. AStart \in Int /\ Anchor(AStart)
      BY Phases DEF PhaseTypes, Anchor, OnGrid
    <3> QED
      BY <1>1, <3>1, ClockEnd, GridPointsIs DEF Schedule, Settlements
  <2> QED
    BY <2>1, Phases DEF OnGrid, PhaseTypes
<1>3. Grid \subseteq Grid'
  BY <1>1, <1>2 DEF Grid, Until
<1>4. lacking' \subseteq Nat
  BY <1>2 DEF Tick, FundingTypeOK, Until
<1>5. Astray \subseteq Astray'
  <2>1. odd' = odd /\ odd \subseteq Nat
    BY ConfigAssumption DEF Tick, FundingTypeOK
  <2>2. \A t \in Nat : t <= now => t <= now'
    BY <1>1
  <2>3. Astray' = {t \in odd : t <= now'}
    BY <2>1 DEF Astray
  <2> QED
    BY <2>1, <2>2, <2>3 DEF Astray
<1>6. Storable \subseteq Storable'
  BY <1>3, <1>5 DEF Storable
<1> QED
  BY <1>1, <1>3, <1>4, <1>5, <1>6 DEF FundingTypeOK, Tick, taskVars, callVars, histVars

\* What the task asks for next.
LEMMA NextRangeType ==
  ASSUME FundingTypeOK
  PROVE  /\ NextRange(missing).kind \in {"Latest", "UpperBound", "Missing", "LowerBound"}
         /\ {NextRange(missing).from, NextRange(missing).to} \subseteq {None} \cup Storable
<1>1. /\ now \in Clock /\ odd \subseteq OddTimes /\ stored \subseteq Storable
      /\ missing \subseteq Grid /\ Grid \subseteq Storable
  BY DEF FundingTypeOK, Storable
<1>2. CASE stored = {}
  BY <1>2 DEF NextRange, Whole
<1>3. CASE stored # {} /\ missing # {}
  <2>1. missing \in SUBSET Int /\ IsFiniteSet(missing)
    BY <1>1, GridIs, FS_Subset
  <2>2. Least(LatestGroup(missing)) \in missing /\ Greatest(LatestGroup(missing)) \in missing
    BY <1>3, <2>1, GroupIs, GreatestIs
  <2>3. NextRange(missing) = [kind |-> "Missing", from |-> Least(LatestGroup(missing)),
                              to |-> Greatest(LatestGroup(missing))]
    BY <1>3 DEF NextRange
  <2> QED
    BY <1>1, <2>2, <2>3
<1>4. CASE stored # {} /\ missing = {}
  <2>1. First \in Storable /\ Last \in Storable /\ First \in Nat
    BY <1>1, <1>4, TableIs
  <2>2. Reach < First \/ First <= Reach
    BY <2>1, ConfigAssumption
  <2>3. \/ NextRange(missing) = [kind |-> "LowerBound", from |-> None, to |-> First]
        \/ NextRange(missing) = [kind |-> "UpperBound", from |-> Last, to |-> None]
    <3>1. CASE Reach < First
      <4>1. ~(First <= Reach)
        BY <2>1, <3>1, ConfigAssumption
      <4> QED
        BY <1>4, <3>1, <4>1 DEF NextRange
    <3>2. CASE First <= Reach
      <4>1. ~(Reach < First)
        BY <2>1, <3>2, ConfigAssumption
      <4> QED
        BY <1>4, <3>2, <4>1 DEF NextRange
    <3> QED
      BY <2>2, <3>1, <3>2
  <2> QED
    BY <2>1, <2>3
<1> QED
  BY <1>2, <1>3, <1>4

\* When the timer fires next.
LEMMA NextSettlementType ==
  ASSUME now \in Clock
  PROVE  NextSettlement \in Nat
<1>1. now \in Nat
  BY ClockEnd
<1> QED
  BY <1>1, CeilIs DEF NextSettlement, Interval

\* The next round, or the end of a run.
LEMMA ConcludeType ==
  ASSUME FundingTypeOK, NEW lost \in SUBSET Grid, Conclude(lost),
         UNCHANGED <<now, lacking, odd, syncMode, stored, flag, outcome, faults, refused, opened>>
  PROVE  FundingTypeOK'
<1>1. UNCHANGED <<Grid, Storable, Astray>>
  BY DEF Grid, Storable, Astray, Until
<1>2. CASE taskPc' = "request" /\ missing' = lost /\ UNCHANGED <<exclude, range, page, synced, nextRun>>
  BY <1>1, <1>2 DEF FundingTypeOK, ControlPoints
<1>3. CASE /\ taskPc' = "wait" /\ synced' = CaughtUp
           /\ nextRun' = IF syncMode = "full" /\ (CaughtUp \/ flag) THEN NextSettlement ELSE now
           /\ RunOver
  <2>1. nextRun' \in Nat
    BY <1>3, NextSettlementType, ClockEnd DEF FundingTypeOK
  <2>2. synced' \in BOOLEAN
    BY <1>3 DEF CaughtUp
  <2> QED
    BY <1>1, <1>3, <2>1, <2>2 DEF FundingTypeOK, ControlPoints, RunOver, Whole
<1> QED
  BY <1>2, <1>3 DEF Conclude

\* What is missing are settlements there have been.
LEMMA LostType ==
  ASSUME FundingTypeOK, CutInv
  PROVE  Missing(flag, exclude) \in SUBSET Grid /\ Missing(flag, None) \in SUBSET Grid
<1>1. /\ now \in Clock /\ odd \subseteq OddTimes /\ stored \subseteq Storable
      /\ flag \in BOOLEAN /\ exclude \in {None} \cup Grid
  BY DEF FundingTypeOK
<1>2. exclude # None /\ stored # {} => exclude <= Last
  BY DEF CutInv
<1> QED
  BY <1>1, <1>2, MissingIs

\* Time moves the range of the scan upwards.
LEMMA LaterGrows ==
  ASSUME NEW m \in Nat, NEW n \in Nat, m <= n, NEW f \in Int, NEW t \in Int,
         t >= Later(n - FlagRange, f)
  PROVE  t >= Later(m - FlagRange, f)
BY ConfigAssumption DEF Later

\* Time, and what is late, change nothing that the invariant speaks of but the range.
LEMMA TickStep ==
  ASSUME FundingInv, Tick
  PROVE  FundingInv'
<1> USE DEF FundingInv
<1>1. FundingTypeOK' /\ now \in Nat /\ now' \in Nat /\ now <= now'
  BY TickType
<1>2. UNCHANGED <<syncMode, stored, taskPc, flag, exclude, missing, range, page, synced, refused, opened>>
  BY DEF Tick, taskVars, callVars, histVars
<1>3. UNCHANGED <<First, Last, Known>> /\ (\A x : Until(x)' = Until(x)) /\ \A x : Told(x)' = Told(x)
  BY <1>2 DEF First, Last, Known, Told, Until
<1>4. CutInv'
  BY <1>2, <1>3 DEF CutInv
<1>5. LostInv'
  BY <1>2, <1>3 DEF LostInv
<1>6. RangeInv'
  BY <1>2, <1>3 DEF RangeInv
<1>7. ReviewInv'
  BY <1>2, <1>3 DEF ReviewInv
<1>8. WaitInv'
  BY <1>2 DEF WaitInv
<1>9. SyncedIsComplete'
  <2>1. SUFFICES ASSUME taskPc = "wait", flag, synced
                 PROVE  /\ First <= Reach
                        /\ \A t \in Until(Last) : t >= Later(now' - FlagRange, First) => t \in Known
    BY <1>2, <1>3 DEF SyncedIsComplete, Known
  <2>2. First \in Int /\ Last \in Int
    BY <2>1, TableIs DEF WaitInv, FundingTypeOK
  <2>3. /\ First <= Reach
        /\ \A t \in Until(Last) : t >= Later(now - FlagRange, First) => t \in Known
    BY <2>1 DEF SyncedIsComplete, Known
  <2>4. ASSUME NEW t \in Until(Last), t >= Later(now' - FlagRange, First)
        PROVE  t >= Later(now - FlagRange, First)
    <3>1. t \in Int
      BY <2>2, UntilIs DEF FundingTypeOK
    <3> QED
      BY <1>1, <2>2, <2>4, <3>1, LaterGrows
  <2> QED
    BY <2>3, <2>4
<1> QED
  BY <1>1, <1>4, <1>5, <1>6, <1>7, <1>8, <1>9

\* A settlement that turns up changes only what the exchange has.
LEMMA ArriveStep ==
  ASSUME FundingInv, NEW t \in lacking, Arrive(t)
  PROVE  FundingInv'
<1> USE DEF FundingInv
<1>1. UNCHANGED <<now, odd, syncMode, stored, taskVars, callVars, faults, histVars>>
  BY DEF Arrive
<1> USE <1>1 DEF taskVars, callVars, histVars
<1>2. FundingTypeOK'
  BY DEF Arrive, FundingTypeOK, Storable, Astray, Grid, Until
<1>3. UNCHANGED <<First, Last, Known>> /\ (\A x : Until(x)' = Until(x)) /\ \A x : Told(x)' = Told(x)
  BY DEF First, Last, Known, Told, Until
<1>4. CutInv' /\ LostInv' /\ ReviewInv' /\ WaitInv'
  BY <1>3 DEF CutInv, LostInv, ReviewInv, WaitInv
<1>5. RangeInv'
  BY <1>3 DEF RangeInv
<1>6. SyncedIsComplete'
  BY <1>3 DEF SyncedIsComplete
<1> QED
  BY <1>2, <1>4, <1>5, <1>6

\* The end of a process.
LEMMA FundingEndStep ==
  ASSUME FundingInv, NEW result \in {"failed", "stopped", "fatal"}, End(result),
         UNCHANGED <<now, lacking, odd, syncMode, stored>>, faults' \in 0 .. MaxFaults
  PROVE  FundingInv'
<1>1. FundingTypeOK'
  BY EndType DEF FundingInv
<1>2. taskPc' = "idle" /\ exclude' = None
  BY DEF End, RunOver
<1> QED
  BY <1>1, <1>2 DEF FundingInv, CutInv, LostInv, RangeInv, ReviewInv, WaitInv, SyncedIsComplete

\* What a scan has left out: everything above the greatest of what it finds missing is known.
LEMMA LostIs ==
  ASSUME FundingInv, NEW cut \in {None, exclude}, Missing(flag, cut) # {}
  PROVE  /\ stored # {} /\ flag /\ Greatest(Missing(flag, cut)) <= Last
         /\ Told(Greatest(Missing(flag, cut)) + 1)
<1> DEFINE lost == Missing(flag, cut)
<1>1. /\ now \in Clock /\ odd \subseteq OddTimes /\ stored \subseteq Storable
      /\ flag \in BOOLEAN /\ cut \in {None} \cup Grid
      /\ (cut # None /\ stored # {} => cut <= Last) /\ (cut # None => Told(cut))
  BY DEF FundingInv, FundingTypeOK, CutInv
<1>2. /\ lost \in SUBSET Grid /\ flag /\ stored # {}
      /\ \A t \in lost : t >= Later(now - FlagRange, First) /\ t <= Last /\ (cut = None \/ t < cut)
      /\ \A t \in Until(Last) : t >= Later(now - FlagRange, First) /\ (cut = None \/ t < cut)
                                  => t \in stored \cup lost
  BY <1>1, MissingIs
<1> HIDE DEF lost
<1>3. Grid \in SUBSET Nat /\ IsFiniteSet(Grid)
  BY <1>1, GridIs
<1>4. lost \in SUBSET Int /\ IsFiniteSet(lost) /\ lost # {}
  <2>1. lost # {}
    BY DEF lost
  <2>2. IsFiniteSet(lost)
    BY <1>2, <1>3, FS_Subset
  <2> QED
    BY <1>2, <1>3, <2>1, <2>2
<1> DEFINE g == Greatest(lost)
<1>5. g \in lost /\ \A t \in lost : t <= g
  BY <1>4, GreatestIs
<1> HIDE DEF g
<1>6. Last \in Int /\ First \in Int
  BY <1>1, <1>2, TableIs
<1>7. ASSUME NEW t \in Until(Last), t >= g + 1 PROVE t \in Known
  <2>1. t \in Int /\ g \in Int
    BY <1>1, <1>4, <1>5, <1>6, UntilIs
  <2>2. CASE cut # None /\ ~(t < cut)
    <3>1. cut \in Int
      <4>1. cut \in Grid
        BY <1>1, <2>2
      <4> QED
        BY <1>3, <4>1
    <3> QED
      BY <1>1, <2>1, <2>2, <3>1 DEF Told
  <2>3. CASE cut = None \/ t < cut
    <3>1. Later(now - FlagRange, First) \in Int
      BY <1>1, <1>6, ClockEnd, ConfigAssumption DEF Later
    <3>2. t >= Later(now - FlagRange, First)
      BY <1>2, <1>5, <1>7, <2>1, <3>1
    <3>3. t \notin lost
      BY <1>5, <1>7, <2>1
    <3> QED
      BY <1>2, <2>3, <3>2, <3>3 DEF Known
  <2> QED
    BY <2>2, <2>3
<1> QED
  BY <1>2, <1>5, <1>7 DEF Told, g, lost

\* A run goes on with what a scan found missing.
LEMMA MoreStep ==
  ASSUME FundingInv, NEW cut \in {None, exclude}, taskPc' = "request", missing' = Missing(flag, cut),
         UNCHANGED <<stored, flag, exclude, refused, opened>>, FundingTypeOK'
  PROVE  FundingInv'
<1>1. UNCHANGED <<Last, Known>> /\ (\A x : Until(x)' = Until(x)) /\ \A x : Told(x)' = Told(x)
  BY DEF Last, Known, Told, Until
<1>2. CutInv'
  BY <1>1 DEF CutInv, FundingInv
<1>3. LostInv'
  BY <1>1, LostIs DEF LostInv
<1> QED
  BY <1>2, <1>3 DEF FundingInv, RangeInv, ReviewInv, WaitInv, SyncedIsComplete

\* A run ends when the scan finds nothing.
LEMMA ConcludeStep ==
  ASSUME FundingInv, Conclude(Missing(flag, exclude)), taskPc \in {"review", "rescan"},
         UNCHANGED <<now, lacking, odd, syncMode, stored, flag, outcome, faults, refused, opened>>
  PROVE  FundingInv'
<1> DEFINE lost == Missing(flag, exclude)
<1>1. lost \in SUBSET Grid
  BY LostType DEF FundingInv
<1>2. FundingTypeOK'
  BY <1>1, ConcludeType DEF FundingInv
<1>3. CASE taskPc' = "request" /\ missing' = lost /\ UNCHANGED exclude
  <2> DEFINE cut == exclude
  <2> QED
    BY <1>2, <1>3, MoreStep
<1>4. CASE ~HasMissing(lost) /\ taskPc' = "wait" /\ RunOver
  <2>1. stored # {} /\ lost = {} /\ ~(Reach < First)
    BY <1>4 DEF HasMissing
  <2>2. UNCHANGED <<First, Last, Known>> /\ \A x : Until(x)' = Until(x)
    BY DEF First, Last, Known, Until
  <2>3. /\ now \in Clock /\ odd \subseteq OddTimes /\ stored \subseteq Storable
        /\ flag \in BOOLEAN /\ exclude \in {None} \cup Grid
        /\ (exclude # None /\ stored # {} => exclude <= Last) /\ (exclude # None => Told(exclude))
    BY DEF FundingInv, FundingTypeOK, CutInv
  <2>4. flag => \A t \in Until(Last) : 
                  t >= Later(now - FlagRange, First) /\ (exclude = None \/ t < exclude) => t \in stored
    BY <2>1, <2>3, MissingIs
  <2>5. First \in Int /\ Last \in Int
    BY <2>1, <2>3, TableIs
  <2>6. First <= Reach
    BY <2>1, <2>5, ConfigAssumption
  <2>7. ASSUME flag, NEW t \in Until(Last), t >= Later(now - FlagRange, First) PROVE t \in Known
    <3>1. CASE exclude = None \/ t < exclude
      BY <2>4, <2>7, <3>1 DEF Known
    <3>2. CASE exclude # None /\ ~(t < exclude)
      <4>1. t \in Int /\ exclude \in Int
        BY <2>3, <2>5, <3>2, UntilIs, GridIs
      <4> QED
        BY <2>3, <3>2, <4>1 DEF Told
    <3> QED
      BY <3>1, <3>2
  <2>8. SyncedIsComplete'
    BY <2>2, <2>6, <2>7 DEF SyncedIsComplete, Known
  <2>9. WaitInv'
    BY <2>1 DEF WaitInv
  <2> QED
    BY <1>2, <1>4, <2>8, <2>9
    DEF FundingInv, CutInv, LostInv, RangeInv, ReviewInv, RunOver
<1> QED
  BY <1>3, <1>4 DEF Conclude

\* The bound on failures.
LEMMA FaultTypes == FundingInv => faults \in 0 .. MaxFaults
BY DEF FundingInv, FundingTypeOK

\* A process starts, or finds the table beyond repair.
LEMMA StartStep ==
  ASSUME FundingInv, Start
  PROVE  FundingInv'
<1>1. CASE End("fatal") /\ UNCHANGED <<exchVars, syncMode, stored, faults>>
  BY <1>1, FundingEndStep, FaultTypes DEF exchVars
<1>2. CASE taskPc' = "begin" /\ UNCHANGED <<exchVars, syncMode, stored, faults, flag, exclude, missing, range,
                                        page, callVars, histVars>>
  <2> USE <1>2 DEF exchVars, callVars, histVars
  <2>1. FundingTypeOK'
    BY DEF FundingInv, FundingTypeOK, Storable, Astray, Grid, Until, ControlPoints
  <2>2. taskPc = "idle"
    BY DEF Start
  <2>3. CutInv'
    BY <2>2 DEF FundingInv, CutInv
  <2> QED
    BY <2>1, <2>3 DEF FundingInv, LostInv, RangeInv, ReviewInv, WaitInv, SyncedIsComplete
<1> QED
  BY <1>1, <1>2 DEF Start

\* The first evaluation of a run.
LEMMA BeginStep ==
  ASSUME FundingInv, Begin
  PROVE  FundingInv'
<1>1. CASE End("fatal") /\ UNCHANGED <<exchVars, syncMode, stored, faults>>
  BY <1>1, FundingEndStep, FaultTypes DEF exchVars
<1>2. CASE taskPc' = "request" /\ missing' = Missing(flag, None)
           /\ UNCHANGED <<exchVars, syncMode, stored, faults, flag, exclude, range, page, callVars, histVars>>
  <2> USE <1>2 DEF exchVars, callVars, histVars
  <2>1. missing' \in SUBSET Grid
    BY LostType DEF FundingInv
  <2>2. FundingTypeOK'
    BY <2>1 DEF FundingInv, FundingTypeOK, Storable, Astray, Grid, Until, ControlPoints
  <2> DEFINE cut == None
  <2> QED
    BY <2>2, MoreStep
<1> QED
  BY <1>1, <1>2 DEF Begin

\* The timer fires.
LEMMA WakeStep ==
  ASSUME FundingInv, Wake
  PROVE  FundingInv'
<1>1. FundingTypeOK'
  BY DEF FundingInv, FundingTypeOK, Wake, exchVars, Storable, Astray, Grid, Until, ControlPoints
<1>2. CutInv'
  BY DEF FundingInv, CutInv, Wake
<1> QED
  BY <1>1, <1>2 DEF FundingInv, LostInv, RangeInv, ReviewInv, WaitInv, SyncedIsComplete, Wake

\* A failure ends the process.
LEMMA FailStep ==
  ASSUME FundingInv, Fail
  PROVE  FundingInv'
<1>1. faults' \in 0 .. MaxFaults
  BY FaultTypes, BoundsAssumption DEF Fail
<1>2. UNCHANGED <<exchVars, syncMode, stored>>
  BY DEF Fail
<1>3. CASE taskPc = "request"
  BY <1>1, <1>2, <1>3, FundingEndStep DEF Fail, exchVars
<1>4. CASE taskPc # "request"
  BY <1>1, <1>2, <1>4, FundingEndStep DEF Fail, exchVars
<1> QED
  BY <1>3, <1>4

\* After the scan was cut.
LEMMA RescanStep ==
  ASSUME FundingInv, Rescan
  PROVE  FundingInv'
<1>1. CASE End("fatal") /\ UNCHANGED <<exchVars, syncMode, stored, faults>>
  BY <1>1, FundingEndStep, FaultTypes DEF exchVars
<1>2. CASE Conclude(Missing(flag, exclude))
           /\ UNCHANGED <<exchVars, syncMode, stored, faults, flag, outcome, histVars>>
  <2>1. taskPc \in {"review", "rescan"}
    BY DEF Rescan
  <2> QED
    BY <1>2, <2>1, ConcludeStep DEF exchVars, histVars
<1> QED
  BY <1>1, <1>2 DEF Rescan

\* The latest settlement asked for is not in the page: the scan is cut there.
LEMMA ExcludeStep ==
  ASSUME FundingInv, taskPc = "review", range.kind = "Missing", range.to \in Missing(flag, exclude),
         Exclude(Missing(flag, exclude)),
         UNCHANGED <<exchVars, syncMode, stored, flag, range, page, callVars, faults, histVars>>
  PROVE  FundingInv'
<1> USE DEF exchVars, callVars, histVars
<1>1. /\ missing' \in SUBSET Grid /\ taskPc' = "rescan"
      /\ exclude' = range.to /\ range.to \in Grid
  BY LostType DEF FundingInv, Exclude
<1>2. FundingTypeOK'
  BY <1>1 DEF FundingInv, FundingTypeOK, Storable, Astray, Grid, Until, ControlPoints
<1>3. UNCHANGED <<Last, Known>> /\ (\A x : Until(x)' = Until(x)) /\ \A x : Told(x)' = Told(x)
  BY DEF Last, Known, Told, Until
<1>4. stored # {} /\ flag /\ range.to # None /\ range.to <= Last /\ Told(range.to)
  BY DEF FundingInv, ReviewInv
<1>5. exclude' <= Last /\ \A t \in Until(Last) : t >= exclude' => t \in Known
  BY <1>1, <1>4 DEF Told
<1>6. CutInv'
  BY <1>1, <1>3, <1>4, <1>5 DEF CutInv, Told
<1> QED
  BY <1>1, <1>2, <1>6 DEF FundingInv, LostInv, RangeInv, ReviewInv, WaitInv, SyncedIsComplete

\* After a page was saved.
LEMMA ReviewStep ==
  ASSUME FundingInv, Review
  PROVE  FundingInv'
<1> DEFINE lost == Missing(flag, exclude)
           cutAt == range.kind = "Missing" /\ range.to \in lost
<1>1. taskPc = "review" /\ UNCHANGED <<exchVars, syncMode, stored, faults>>
  BY DEF Review
<1>2. \/ End("fatal")
      \/ cutAt /\ Exclude(lost) /\ UNCHANGED <<flag, range, page, callVars, histVars>>
      \/ Conclude(lost) /\ UNCHANGED <<flag, outcome, histVars>>
  <2>1. CASE Unreachable(lost)
    BY <2>1 DEF Review
  <2>2. CASE ~Unreachable(lost) /\ cutAt
    BY <2>2 DEF Review
  <2>3. CASE ~Unreachable(lost) /\ ~cutAt
    BY <2>3 DEF Review
  <2> QED
    BY <2>1, <2>2, <2>3
<1>3. CASE End("fatal")
  BY <1>1, <1>3, FundingEndStep, FaultTypes DEF exchVars
<1>4. CASE cutAt /\ Exclude(lost) /\ UNCHANGED <<flag, range, page, callVars, histVars>>
  BY <1>1, <1>4, ExcludeStep
<1>5. CASE Conclude(lost) /\ UNCHANGED <<flag, outcome, histVars>>
  BY <1>1, <1>5, ConcludeStep DEF exchVars, histVars
<1> QED
  BY <1>2, <1>3, <1>4, <1>5

\* The page that a request brings, and what it leaves out.
Asked == Within(NextRange(missing), Grid)
There == Within(NextRange(missing), Available)
Got == Newest(Page, There)
Left == Spanned(Asked, Got) \ Got

\* A request, in these names.
LEMMA RequestIs ==
  ASSUME Request
  PROVE  /\ taskPc = "request" /\ taskPc' = "save"
         /\ range' = NextRange(missing) /\ page' = Got
         /\ refused' = (IF flag THEN refused \cup Left ELSE refused)
         /\ opened' = (IF flag /\ exclude # None /\ NextRange(missing).kind = "UpperBound"
                       THEN opened \cup (Asked \ (Got \cup Left)) ELSE opened)
         /\ UNCHANGED <<now, lacking, odd, syncMode, stored, flag, exclude, missing, synced, nextRun, outcome, faults>>
BY DEF Request, Asked, There, Got, Left, exchVars, callVars

\* What was asked for, and what came.
LEMMA PageIs ==
  ASSUME FundingTypeOK
  PROVE  /\ Got \subseteq There /\ There \subseteq Grid \cup Astray /\ Asked \subseteq Grid
         /\ Left \subseteq Asked
         /\ Got \in SUBSET Nat /\ IsFiniteSet(Got) /\ \A b \in Got : b <= now
         /\ \A t \in Grid : t \in Asked <=> /\ NextRange(missing).from <= t
                                            /\ NextRange(missing).to = None \/ t <= NextRange(missing).to
         /\ \A b \in Got : /\ NextRange(missing).from <= b
                           /\ NextRange(missing).to = None \/ b <= NextRange(missing).to
<1>1. now \in Clock /\ odd \subseteq Nat
  BY ConfigAssumption DEF FundingTypeOK
<1>2. now \in Nat /\ Grid \subseteq Nat /\ \A t \in Grid : t <= now
  BY <1>1, ClockEnd, GridIs
<1>3. Available \subseteq Grid \cup Astray /\ \A b \in Available : b \in Nat /\ b <= now
  BY <1>1, <1>2 DEF Available, Astray
<1>4. Got \subseteq There /\ There \subseteq Available
  BY DEF Got, Newest, There, Within
<1>5. Got \subseteq 0 .. now
  BY <1>2, <1>3, <1>4
<1>6. IsFiniteSet(0 .. now)
  BY <1>2, FS_Interval
<1>7. IsFiniteSet(Got)
  BY <1>5, <1>6, FS_Subset
<1>8. Asked \subseteq Grid /\ Left \subseteq Asked
  BY DEF Asked, Within, Left, Spanned
<1>9. \A t \in Grid : t \in Asked <=> /\ NextRange(missing).from <= t
                                      /\ NextRange(missing).to = None \/ t <= NextRange(missing).to
  BY DEF Asked, Within
<1>10. \A b \in Got : /\ NextRange(missing).from <= b
                      /\ NextRange(missing).to = None \/ b <= NextRange(missing).to
  BY <1>4 DEF There, Within
<1> QED
  BY <1>3, <1>4, <1>5, <1>7, <1>8, <1>9, <1>10

\* The kind of a range.
LEMMA KindIs ==
  ASSUME FundingTypeOK, missing # {} => stored # {}
  PROVE  LET r == NextRange(missing)
         IN /\ stored = {} => r = Whole
            /\ stored # {} /\ missing # {} =>
                 r = [kind |-> "Missing", from |-> Least(LatestGroup(missing)),
                      to |-> Greatest(LatestGroup(missing))]
            /\ stored # {} /\ missing = {} =>
                 \/ r = [kind |-> "LowerBound", from |-> None, to |-> First]
                 \/ r = [kind |-> "UpperBound", from |-> Last, to |-> None]
<1>1. CASE stored = {}
  BY <1>1 DEF NextRange
<1>2. CASE stored # {} /\ missing # {}
  BY <1>2 DEF NextRange
<1>3. CASE stored # {} /\ missing = {}
  <2>1. First \in Nat
    BY <1>3, TableIs DEF FundingTypeOK
  <2>2. CASE Reach < First
    <3>1. ~(First <= Reach)
      BY <2>1, <2>2, ConfigAssumption
    <3> QED
      BY <1>3, <2>2, <3>1 DEF NextRange
  <2>3. CASE First <= Reach
    <3>1. ~(Reach < First)
      BY <2>1, <2>3, ConfigAssumption
    <3> QED
      BY <1>3, <2>3, <3>1 DEF NextRange
  <2> QED
    BY <2>1, <2>2, <2>3, ConfigAssumption
<1> QED
  BY <1>1, <1>2, <1>3

\* A page came: of a range of missing settlements it has the latest, or that one is refused.
LEMMA RequestStep ==
  ASSUME FundingInv, Request
  PROVE  FundingInv'
<1> DEFINE r == NextRange(missing)
<1>1. FundingTypeOK /\ LostInv /\ CutInv /\ taskPc = "request"
  BY DEF FundingInv, Request
<1>2. missing # {} => stored # {}
  BY <1>1 DEF LostInv
<1>3. /\ r.kind \in {"Latest", "UpperBound", "Missing", "LowerBound"}
      /\ {r.from, r.to} \subseteq {None} \cup Storable
  BY <1>1, NextRangeType
<1>4. Got \subseteq Grid \cup Astray /\ Left \subseteq Grid /\ Asked \subseteq Grid
  BY <1>1, PageIs
<1>5. refused' \subseteq Grid /\ opened' \subseteq Grid
  BY <1>1, <1>4, RequestIs DEF FundingTypeOK
<1>6. FundingTypeOK'
  BY <1>1, <1>3, <1>4, <1>5, RequestIs
     DEF FundingTypeOK, Storable, Astray, Grid, Until, ControlPoints
<1>7. UNCHANGED <<First, Last>> /\ (\A x : Until(x)' = Until(x)) /\ Known \subseteq Known'
  BY RequestIs DEF First, Last, Known, Until
<1>8. \A x : Told(x) => Told(x)'
  BY <1>7 DEF Told
<1>9. CutInv'
  BY <1>1, <1>7, RequestIs DEF CutInv, Told
<1>10. RangeInv'
  <2>1. CASE stored = {}
    <3>1. r.kind = "Latest"
      BY <1>1, <1>2, <2>1, KindIs DEF Whole
    <3> QED
      BY <2>1, <3>1, RequestIs DEF RangeInv
  <2>2. CASE stored # {} /\ missing # {}
    <3> DEFINE g == Greatest(missing)
               l == Least(LatestGroup(missing))
    <3>1. missing \in SUBSET Grid /\ Grid \in SUBSET Nat /\ IsFiniteSet(Grid) /\ \A t \in Grid : t # None
      BY <1>1, GridIs DEF FundingTypeOK
    <3>2. missing \in SUBSET Int /\ IsFiniteSet(missing)
      <4>1. IsFiniteSet(missing)
        BY <3>1, FS_Subset
      <4> QED
        BY <3>1, <4>1
    <3>3. Greatest(LatestGroup(missing)) = g /\ l \in missing /\ l <= g /\ g \in missing
      BY <2>2, <3>2, GroupIs, GreatestIs
    <3>4. r.kind = "Missing" /\ r.from = l /\ r.to = g
      BY <1>1, <1>2, <2>2, <3>3, KindIs
    <3>5. flag /\ g <= Last /\ Told(g + 1)
      BY <1>1, <2>2 DEF LostInv
    <3> HIDE DEF g, l, r
    <3>6. g \in Nat /\ g # None /\ g \in Grid /\ g \in Asked
      BY <1>1, <3>1, <3>3, <3>4, PageIs DEF r
    <3>7. \A b \in Got : b <= g
      BY <1>1, <3>4, <3>6, PageIs DEF r
    <3>8. g \in Got \cup Left
      <4>1. CASE Cardinality(Got) < Page
        BY <3>6, <4>1 DEF Left, Spanned
      <4>2. CASE ~(Cardinality(Got) < Page)
        <5>1. Got # {}
          BY <4>2, FS_EmptySet, ConfigAssumption
        <5>2. Got \in SUBSET Int /\ IsFiniteSet(Got)
          BY <1>1, PageIs
        <5>3. Least(Got) \in Got
          BY <5>1, <5>2, LeastIs
        <5>4. Least(Got) <= g
          BY <3>7, <5>3
        <5> QED
          BY <3>6, <4>2, <5>4 DEF Left, Spanned
      <4> QED
        BY <4>1, <4>2
    <3>9. range'.kind = "Missing" /\ range'.to = g /\ page' = Got /\ refused' = refused \cup Left
           /\ flag' = flag /\ stored' = stored
      BY <3>4, <3>5, RequestIs DEF r
    <3>10. \A t \in Until(Last) : t >= g + 1 => t \in Known'
      BY <3>5, <1>7 DEF Told
    <3>11. Told(range.to + 1)'
      BY <1>7, <3>9, <3>10 DEF Told
    <3> QED
      BY <1>7, <2>2, <3>5, <3>6, <3>7, <3>8, <3>9, <3>11 DEF RangeInv
  <2>3. CASE stored # {} /\ r = [kind |-> "LowerBound", from |-> None, to |-> First]
    <3>1. First \in stored /\ First # None
      BY <1>1, <2>3, TableIs, GridIs DEF FundingTypeOK
    <3>2. \A b \in Got : b <= First
      BY <1>1, <2>3, <3>1, PageIs
    <3>3. range'.kind = "LowerBound" /\ page' = Got /\ stored' = stored
      BY <2>3, RequestIs
    <3> QED
      BY <1>7, <2>3, <3>2, <3>3 DEF RangeInv
  <2>4. CASE stored # {} /\ r = [kind |-> "UpperBound", from |-> Last, to |-> None]
    <3>1. range'.kind = "UpperBound" /\ page' = Got /\ stored' = stored /\ exclude' = exclude
      BY <2>4, RequestIs
    <3>2. ASSUME exclude # None, NEW b \in Got, NEW t \in Schedule, Last <= t, t <= b
          PROVE  t \in Got \cup refused' \cup opened'
      <4>1. flag
        BY <1>1, <3>2 DEF CutInv
      <4>2. b \in Nat /\ b <= now /\ now \in Nat
        BY <1>1, PageIs, ClockEnd DEF FundingTypeOK
      <4>3. t \in Until(b)
        BY <3>2 DEF Until
      <4>4. t \in Int
        BY <1>1, <4>2, <4>3, UntilIs DEF FundingTypeOK
      <4>5. t \in Grid
        BY <3>2, <4>2, <4>4 DEF Grid, Until
      <4>6. t \in Asked
        BY <1>1, <2>4, <3>2, <4>5, PageIs
      <4>7. refused' = refused \cup Left /\ opened' = opened \cup (Asked \ (Got \cup Left))
        BY <2>4, <3>2, <4>1, RequestIs
      <4> QED
        BY <4>6, <4>7
    <3> QED
      BY <1>7, <2>4, <3>1, <3>2 DEF RangeInv
  <2> QED
    BY <1>1, <1>2, <2>1, <2>2, <2>3, <2>4, KindIs
<1> QED
  BY <1>6, <1>9, <1>10, RequestIs DEF FundingInv, LostInv, ReviewInv, WaitInv, SyncedIsComplete

\* The page in the table.
LEMMA SavedStep ==
  ASSUME FundingInv, taskPc = "save", \A t \in page : IsValid(t),
         AddSettlements, taskPc' = "review", page' = {},
         UNCHANGED <<exchVars, syncMode, faults, flag, exclude, missing, range, callVars, histVars>>
  PROVE  FundingInv'
<1>1. UNCHANGED <<now, lacking, odd, syncMode, faults, flag, exclude, missing, range, synced, nextRun, outcome,
                  refused, opened>>
  BY DEF exchVars, callVars, histVars
<1>2. FundingTypeOK /\ CutInv /\ RangeInv /\ stored' = stored \cup page
  BY DEF FundingInv, AddSettlements
<1>3. page \subseteq Storable
  BY <1>2 DEF FundingTypeOK, Storable
<1>4. stored' \subseteq Storable /\ UNCHANGED <<Grid, Storable, Astray>>
  BY <1>1, <1>2, <1>3 DEF FundingTypeOK, Storable, Astray, Grid, Until
<1>5. FundingTypeOK'
  BY <1>1, <1>2, <1>4 DEF FundingTypeOK, ControlPoints
<1>6. Known \cup page \subseteq Known' /\ \A x : Until(x)' = Until(x)
  BY <1>1, <1>2 DEF Known, Until
<1> DEFINE L == Greatest(stored')
<1>7. L = Last'
  BY DEF Last
<1>8. now \in Clock /\ Storable \in SUBSET Nat /\ IsFiniteSet(Storable) /\ Grid \subseteq Storable
  BY <1>2, StorableIs DEF FundingTypeOK
<1>9. ASSUME stored # {}
      PROVE  /\ L \in stored \cup page /\ L \in Nat /\ Last <= L
             /\ First \in Nat /\ Last \in Nat /\ First <= Last
             /\ ((\A b \in page : b <= Last) => L = Last)
  <2>1. First \in Nat /\ Last \in Nat /\ First <= Last /\ Last \in stored
    BY <1>2, <1>8, <1>9, TableIs DEF FundingTypeOK
  <2>2. IsFiniteSet(stored')
    BY <1>4, <1>8, FS_Subset
  <2>3. stored' \in SUBSET Int /\ stored' # {}
    <3>1. \A x \in stored' : x \in Int
      BY <1>4, <1>8
    <3>2. stored' # {}
      BY <1>2, <1>9
    <3> QED
      BY <3>1, <3>2
  <2> DEFINE T == stored'
  <2>4. T \in SUBSET Int /\ IsFiniteSet(T) /\ T # {}
    BY <2>2, <2>3
  <2> HIDE DEF T
  <2>5. Greatest(T) \in T /\ \A x \in T : x <= Greatest(T)
    BY <2>4, GreatestIs
  <2>6. L \in stored' /\ \A x \in stored' : x <= L
    BY <2>5 DEF T
  <2> HIDE DEF L
  <2>7. L \in stored \cup page /\ L \in Nat /\ Last <= L
    BY <1>2, <1>4, <1>8, <2>1, <2>6
  <2>8. \A t \in stored : t <= Last
    BY <1>2, <1>8, <1>9, TableIs DEF FundingTypeOK
  <2>9. (\A b \in page : b <= Last) => L <= Last
    BY <2>7, <2>8
  <2> QED
    BY <2>1, <2>7, <2>9
<1> HIDE DEF L
<1>10. CASE stored = {}
  <2>1. exclude' = None
    BY <1>1, <1>2, <1>10 DEF CutInv
  <2>2. range'.kind # "Missing"
    BY <1>1, <1>2, <1>10 DEF RangeInv
  <2>3. CutInv' /\ ReviewInv'
    BY <2>1, <2>2 DEF CutInv, ReviewInv
  <2> QED
    BY <1>5, <2>3 DEF FundingInv, LostInv, RangeInv, WaitInv, SyncedIsComplete
<1>11. CASE stored # {}
  <2>1. stored' # {}
    BY <1>2, <1>11
  <2>2. CutInv'
    <3>1. SUFFICES ASSUME exclude # None
                   PROVE  flag /\ exclude <= L /\ \A t \in Until(L) : t >= exclude => t \in Known'
      BY <1>1, <1>6, <1>7, <2>1 DEF CutInv, Told
    <3>2. flag /\ exclude <= Last /\ \A t \in Until(Last) : t >= exclude => t \in Known
      BY <1>2, <3>1 DEF CutInv, Told
    <3>3. exclude \in Nat
      BY <1>2, <1>8, <3>1 DEF FundingTypeOK
    <3>4. exclude <= L
      BY <1>9, <1>11, <3>2, <3>3
    <3>5. ASSUME NEW t \in Until(L), t >= exclude PROVE t \in Known'
      <4>1. t \in Int /\ t <= L /\ t \in Schedule
        BY <1>8, <1>9, <1>11, <3>5, UntilIs DEF Until
      <4>2. CASE t <= Last
        <5>1. t \in Until(Last)
          BY <4>1, <4>2 DEF Until
        <5> QED
          BY <1>6, <3>2, <3>5, <5>1
      <4>3. CASE ~(t <= Last)
        <5>1. L # Last /\ Last <= t
          BY <1>9, <1>11, <4>1, <4>3
        <5>2. ~(\A b \in page : b <= Last)
          BY <1>9, <1>11, <5>1
        <5>3. range.kind = "UpperBound"
          <6>1. range.kind # "Missing"
            <7>1. SUFFICES ASSUME range.kind = "Missing" PROVE FALSE
              OBVIOUS
            <7>2. range.to <= Last /\ range.to # None /\ \A b \in page : b <= range.to
              BY <1>2, <7>1 DEF RangeInv
            <7>3. range.to \in Nat /\ \A b \in page : b \in Nat
              BY <1>2, <1>3, <1>8, <7>2 DEF FundingTypeOK
            <7> QED
              BY <1>9, <1>11, <5>2, <7>2, <7>3
          <6>2. range.kind # "LowerBound"
            <7>1. SUFFICES ASSUME range.kind = "LowerBound" PROVE FALSE
              OBVIOUS
            <7>2. \A b \in page : b <= First /\ b \in Nat
              BY <1>2, <1>3, <1>8, <7>1 DEF RangeInv
            <7> QED
              BY <1>9, <1>11, <5>2, <7>2
          <6>3. range.kind # "Latest"
            BY <1>2, <1>11 DEF RangeInv
          <6> QED
            BY <1>2, <6>1, <6>2, <6>3 DEF FundingTypeOK
        <5>4. L \in page
          <6>1. L \notin stored
            <7>1. \A s \in stored : s <= Last
              BY <1>2, <1>8, <1>11, TableIs DEF FundingTypeOK
            <7> QED
              BY <1>9, <1>11, <5>1, <7>1
          <6> QED
            BY <1>9, <1>11, <6>1
        <5>5. t \in page \cup refused \cup opened
          BY <1>2, <3>1, <4>1, <5>1, <5>3, <5>4 DEF RangeInv
        <5> QED
          BY <1>6, <5>5 DEF Known
      <4> QED
        BY <4>2, <4>3
    <3> QED
      BY <3>2, <3>4, <3>5
  <2>3. ReviewInv'
    <3>1. SUFFICES ASSUME range.kind = "Missing"
                   PROVE  /\ flag /\ range.to # None /\ range.to <= L
                          /\ \A t \in Until(L) : t >= range.to => t \in Known'
      BY <1>1, <1>6, <1>7, <2>1 DEF ReviewInv, Told
    <3>2. /\ flag /\ range.to # None /\ range.to <= Last
          /\ \A t \in Until(Last) : t >= range.to + 1 => t \in Known
          /\ range.to \in page \cup refused /\ \A b \in page : b <= range.to
      BY <1>2, <3>1 DEF RangeInv, Told
    <3>3. range.to \in Nat /\ \A b \in page : b \in Nat
      BY <1>2, <1>3, <1>8, <3>2 DEF FundingTypeOK
    <3>4. L = Last
      BY <1>9, <1>11, <3>2, <3>3
    <3>5. ASSUME NEW t \in Until(Last), t >= range.to PROVE t \in Known'
      <4>1. t \in Int
        BY <1>8, <1>9, <1>11, UntilIs
      <4>2. CASE t = range.to
        BY <1>6, <3>2, <4>2 DEF Known
      <4>3. CASE t >= range.to + 1
        BY <1>6, <3>2, <4>3
      <4> QED
        BY <3>3, <3>5, <4>1, <4>2, <4>3
    <3> QED
      BY <3>2, <3>4, <3>5
  <2> QED
    BY <1>5, <2>2, <2>3 DEF FundingInv, LostInv, RangeInv, WaitInv, SyncedIsComplete
<1> QED
  BY <1>10, <1>11

\* A page is saved, or it is not one of settlements.
LEMMA SaveStep ==
  ASSUME FundingInv, Save
  PROVE  FundingInv'
<1>1. CASE End("fatal") /\ UNCHANGED <<exchVars, syncMode, stored, faults>>
  BY <1>1, FundingEndStep, FaultTypes DEF exchVars
<1>2. CASE /\ \A t \in page : IsValid(t)
           /\ AddSettlements /\ taskPc' = "review" /\ page' = {}
           /\ UNCHANGED <<exchVars, syncMode, faults, flag, exclude, missing, range, callVars, histVars>>
  <2>1. taskPc = "save"
    BY DEF Save
  <2> QED
    BY <1>2, <2>1, SavedStep
<1> QED
  BY <1>1, <1>2 DEF Save

-----------------------------------------------------------------------------
\* The invariant holds at first.
LEMMA InitInv == FundingInit => FundingInv
BY FundingInitType DEF FundingInit, FundingInv, CutInv, LostInv, RangeInv, ReviewInv, WaitInv, SyncedIsComplete

\* Every step preserves it.
LEMMA FundingInvStep == FundingInv /\ [FundingNext]_fundingVars => FundingInv'
<1> SUFFICES ASSUME FundingInv, [FundingNext]_fundingVars PROVE FundingInv'
  OBVIOUS
<1>1. CASE Tick
  BY <1>1, TickStep
<1>2. CASE \E t \in lacking : Arrive(t)
  BY <1>2, ArriveStep
<1>3. CASE Start
  BY <1>3, StartStep
<1>4. CASE Begin
  BY <1>4, BeginStep
<1>5. CASE Request
  BY <1>5, RequestStep
<1>6. CASE Save
  BY <1>6, SaveStep
<1>7. CASE Review
  BY <1>7, ReviewStep
<1>8. CASE Rescan
  BY <1>8, RescanStep
<1>9. CASE Wake
  BY <1>9, WakeStep
<1>10. CASE Fail
  BY <1>10, FailStep
<1>11. CASE UNCHANGED fundingVars
  <2>1. UNCHANGED <<now, lacking, odd, syncMode, stored, taskPc, flag, exclude, missing, range, page, synced,
                    nextRun, outcome, faults, refused, opened>>
    BY <1>11 DEF fundingVars, exchVars, taskVars, callVars, histVars
  <2>2. /\ UNCHANGED <<First, Last, Known, Grid, Storable, Astray>>
        /\ (\A x : Until(x)' = Until(x)) /\ \A x : Told(x)' = Told(x)
    BY <2>1 DEF First, Last, Known, Told, Until, Grid, Storable, Astray
  <2>3. FundingTypeOK'
    BY <2>1, <2>2 DEF FundingInv, FundingTypeOK
  <2>4. CutInv' /\ LostInv' /\ ReviewInv' /\ WaitInv'
    BY <2>1, <2>2 DEF FundingInv, CutInv, LostInv, ReviewInv, WaitInv
  <2>5. RangeInv'
    BY <2>1, <2>2 DEF FundingInv, RangeInv
  <2>6. SyncedIsComplete'
    BY <2>1, <2>2 DEF FundingInv, SyncedIsComplete
  <2> QED
    BY <2>3, <2>4, <2>5, <2>6 DEF FundingInv
<1> QED
  BY <1>1, <1>2, <1>3, <1>4, <1>5, <1>6, <1>7, <1>8, <1>9, <1>10, <1>11 DEF FundingNext, Task

\* The types of the task, its table and its timer, for every schedule, page size and reach, and
\* for every other time that the exchange may report: the table holds settlements there have been,
\* and of the other times reported by now only those which the code's check takes for settlements.
THEOREM FundingTypeTheorem == FundingSpec => []FundingTypeOK
<1>1. FundingInv => FundingTypeOK
  BY DEF FundingInv
<1> QED
  BY <1>1, InitInv, FundingInvStep, PTL DEF FundingSpec

\* The run of a process that scans the table, reports that it is synced only when the table
\* reaches back far enough and lacks nothing in the range of the scan but what the exchange
\* refused or what a page below the cut left out: through any number of failed, cut and
\* repeated scans, late settlements and page sizes.
THEOREM SettlementsTheorem == FundingSpec => []SyncedIsComplete
<1>1. FundingInv => SyncedIsComplete
  BY DEF FundingInv
<1> QED
  BY <1>1, InitInv, FundingInvStep, PTL DEF FundingSpec
=============================================================================
