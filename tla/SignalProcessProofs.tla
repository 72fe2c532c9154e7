------------------------ MODULE SignalProcessProofs ------------------------
(***************************************************************************)
(* When evaluators are called and how a shutdown ends, for any number of   *)
(* evaluators, any intervals and any channel capacity.                     *)
(***************************************************************************)
EXTENDS SignalProcess, TLAPS

\* The evaluator whose interval is MinInterval: each round calls it.
Shortest == CHOOSE s \in Evaluators : \A e \in Evaluators : Interval[s] <= Interval[e]

LEMMA ShortestIsLeast ==
  /\ Shortest \in Evaluators /\ MinInterval = Interval[Shortest]
  /\ MinInterval \in Nat \ {0}
  /\ \A e \in Evaluators : Interval[e] \in Nat \ {0} /\ MinInterval <= Interval[e]
<1>1. Shortest \in Evaluators /\ \A e \in Evaluators : Interval[Shortest] <= Interval[e]
  BY EvaluatorsAssumption DEF Shortest
<1>2. MinInterval = Interval[Shortest]
  BY DEF MinInterval, Shortest
<1>3. \A e \in Evaluators : Interval[e] \in Nat \ {0}
  BY EvaluatorsAssumption
<1> QED
  BY <1>1, <1>2, <1>3

\* Rounding up to the second loses less than a second.
LEMMA CeilSecBounds ==
  ASSUME NEW t \in Nat
  PROVE  CeilSec(t) \in Nat /\ t <= CeilSec(t) /\ CeilSec(t) < t + Second
<1>1. (-t) % Second \in 0..(Second - 1)
  BY TimeAssumption
<1> QED
  BY <1>1, TimeAssumption DEF CeilSec

-----------------------------------------------------------------------------
(* Type correctness.                                                       *)

LEMMA InitType == Init => TypeOK
<1> SUFFICES ASSUME Init PROVE TypeOK
  OBVIOUS
<1>1. feed \in Seq(SyncUpdate) /\ Len(feed) <= Capacity
  BY CapacityAssumption DEF Init
<1>2. evaluated \in [Evaluators -> Int]
  BY EvaluatorsAssumption DEF Init
<1>3. now \in 0..MaxTime /\ round \in 0..now /\ last \in [Evaluators -> Nat]
  BY TimeAssumption DEF Init
<1> QED
  BY <1>1, <1>2, <1>3 DEF Init, TypeOK, Points, Suspended, Awaits, Status

\* What the environment does.
LEMMA EnvironmentType == TypeOK /\ Environment => TypeOK'
<1> SUFFICES ASSUME TypeOK, Environment PROVE TypeOK'
  OBVIOUS
<1>1. CASE Tick
  <2>1. now' \in 0..MaxTime /\ round' \in 0..now'
    BY <1>1, TimeAssumption DEF Tick, TypeOK, roundVars
  <2>2. lagged' \in BOOLEAN /\ listening' \in BOOLEAN /\ signal' \in BOOLEAN
    BY <1>1 DEF Tick, TypeOK, syncVars, ctlVars
  <2> QED
    BY <1>1, <2>1, <2>2 DEF Tick, TypeOK, syncVars, roundVars, ctlVars
<1>2. ASSUME NEW u \in SyncUpdate, Send(u)
      PROVE  feed' \in Seq(SyncUpdate) /\ Len(feed') <= Capacity /\ lagged' \in BOOLEAN
  <2>1. CASE pc = "waiting" /\ Len(feed) < Capacity
    <3>1. feed' = Append(feed, u) /\ lagged' = lagged
      BY <1>2, <2>1 DEF Send, Push
    <3>2. feed \in Seq(SyncUpdate) /\ lagged \in BOOLEAN
      BY DEF TypeOK
    <3>3. feed' \in Seq(SyncUpdate) /\ Len(feed') = Len(feed) + 1
      BY <1>2, <3>1, <3>2
    <3> QED
      BY <2>1, <3>1, <3>2, <3>3, CapacityAssumption
  <2>2. CASE pc = "waiting" /\ ~(Len(feed) < Capacity)
    <3>1. feed # <<>> /\ feed' = Append(Tail(feed), u) /\ lagged' = TRUE
      BY <1>2, <2>2, CapacityAssumption DEF Send, Push, TypeOK
    <3> QED
      BY <3>1, CapacityAssumption DEF TypeOK
  <2>3. CASE pc # "waiting"
    BY <1>2, <2>3 DEF Send, TypeOK
  <2> QED
    BY <2>1, <2>2, <2>3
<1>3. CASE SyncData
  <2>1. Send("Data") /\ "Data" \in SyncUpdate
    BY <1>3 DEF SyncData, SyncUpdate
  <2> QED
    BY <1>2, <1>3, <2>1 DEF SyncData, TypeOK, roundVars, ctlVars
<1>4. CASE \E s \in SyncStatus : SyncChanges(s)
  <2>1. PICK s \in SyncStatus : SyncChanges(s) /\ s \in SyncUpdate
    BY <1>4 DEF SyncUpdate
  <2> QED
    BY <1>2, <2>1 DEF SyncChanges, TypeOK, roundVars, ctlVars
<1> QED
  BY <1>1, <1>3, <1>4 DEF Environment

LEMMA ControllerType == TypeOK /\ Controller => TypeOK'
BY DEF TypeOK, Controller, CtlBegin, CtlInitiate, CtlSend, CtlJoined, CtlFails, Abort, notCtl,
   syncVars, roundVars, Status

\* The receiver is empty again when run() is left.
LEMMA EmptyFeed == <<>> \in Seq(SyncUpdate) /\ Len(<<>>) <= Capacity
BY CapacityAssumption

LEMMA FatalType ==
  ASSUME TypeOK, aborted' \in {"no", "polling", "yes"}, Fatal \/ Recoverable
  PROVE  TypeOK'
BY EmptyFeed DEF TypeOK, Fatal, Recoverable, Goto, notProc, roundVars, ctlVars, Points, Suspended,
   Awaits, Status

LEMMA PolledType == TypeOK /\ Polled => aborted' \in {"no", "polling", "yes"}
BY DEF TypeOK, Polled

\* What the loop that waits for the sync engine does.
LEMMA ReactType ==
  ASSUME TypeOK, aborted' \in {"no", "polling", "yes"}, NEW s, NEW rest,
         rest \in Seq(SyncUpdate), Len(rest) <= Capacity, React(s, rest)
  PROVE  TypeOK'
<1>1. CASE Fatal
  BY <1>1, FatalType
<1>2. CASE ~Fatal
  BY <1>2, EmptyFeed DEF React, Stay, TypeOK, Goto, notProc, roundVars, ctlVars, Points, Suspended,
     Awaits, Status
<1> QED
  BY <1>1, <1>2

LEMMA ProcessType == TypeOK /\ (Process \/ ProcShutdown \/ ProcDropped) => TypeOK'
<1> SUFFICES ASSUME TypeOK, Process \/ ProcShutdown \/ ProcDropped PROVE TypeOK'
  OBVIOUS
<1> USE DEF ProcAt, Goto, notProc, Points, Suspended, Awaits, Status
<1>1. CASE Begin \/ Listen
  BY <1>1, PolledType DEF Begin, Listen, TypeOK, roundVars, ctlVars
<1>13. CASE Check \/ Wait \/ Wake \/ Snapshot \/ Subscribe
  BY <1>13, PolledType DEF Check, Wait, Wake, Snapshot, Subscribe, TypeOK, roundVars, ctlVars
<1>2. CASE RunStarts
  <2> now \in Nat
    BY TimeAssumption DEF TypeOK
  <2>1. CeilSec(now) \in Nat /\ MinInterval \in Nat
    BY CeilSecBounds, ShortestIsLeast
  <2>2. last' \in [Evaluators -> Nat] /\ nextEval' \in Nat
    BY <1>2, <2>1 DEF RunStarts
  <2> QED
    BY <1>2, <2>2, PolledType DEF RunStarts, TypeOK, ctlVars
<1>3. CASE EvaluatorPanics
  BY <1>3, FatalType, PolledType DEF EvaluatorPanics
<1>4. CASE WaitRecv
  <2>1. feed \in Seq(SyncUpdate) /\ Len(feed) <= Capacity /\ feed # <<>>
    BY <1>4 DEF WaitRecv, TypeOK
  <2>2. Tail(feed) \in Seq(SyncUpdate) /\ Len(Tail(feed)) <= Capacity
    BY <2>1, CapacityAssumption
  <2> QED
    BY <1>4, <2>2, ReactType, PolledType DEF WaitRecv
<1>5. CASE WaitLagged
  BY <1>5, FatalType, PolledType DEF WaitLagged
<1>6. CASE WaitTimeout
  BY <1>6, ReactType, EmptyFeed, PolledType DEF WaitTimeout
<1>7. CASE Capture
  BY <1>7, PolledType, TimeAssumption DEF Capture, TypeOK, ctlVars
<1>8. CASE Loaded \/ Evaluate \/ RoundEnds \/ PauseEnds
  BY <1>8, PolledType DEF Loaded, Evaluate, RoundEnds, PauseEnds, TypeOK, roundVars, ctlVars
<1>9. CASE \E e \in Evaluators : Skip(e)
  BY <1>9, PolledType DEF Skip, TypeOK, ctlVars
<1>10. CASE \E e \in Evaluators : Call(e)
  <2>1. PICK e \in Evaluators : Call(e)
    BY <1>10
  <2>2. last' \in [Evaluators -> Nat] /\ evaluated' \in [Evaluators -> Int]
    BY <2>1 DEF Call, TypeOK
  <2>3. nextEval' \in Nat
    BY <2>1, ShortestIsLeast DEF Call, TypeOK
  <2> QED
    BY <2>1, <2>2, <2>3, PolledType DEF Call, TypeOK, ctlVars
<1>11. CASE RoundFails
  BY <1>11, FatalType, PolledType DEF RoundFails
<1>12. CASE ProcShutdown \/ ProcDropped
  BY <1>12, EmptyFeed DEF ProcShutdown, ProcDropped, Dropped, TypeOK, roundVars, ctlVars
<1> QED
  BY <1>1, <1>2, <1>3, <1>4, <1>5, <1>6, <1>7, <1>8, <1>9, <1>10, <1>11, <1>12, <1>13 DEF Process

LEMMA TypeStep == TypeOK /\ [Next]_vars => TypeOK'
<1> SUFFICES ASSUME TypeOK, [Next]_vars PROVE TypeOK'
  OBVIOUS
<1>1. CASE UNCHANGED vars
  BY <1>1 DEF vars, TypeOK, syncVars, roundVars, ctlVars
<1> QED
  BY <1>1, EnvironmentType, ProcessType, ControllerType DEF Next

\* Types hold in every reachable state; the receiver never holds more than the capacity
\* of the sync engine's channel.
THEOREM TypeInvariant == Spec => []TypeOK
BY InitType, TypeStep, PTL DEF Spec

-----------------------------------------------------------------------------
(* When evaluators are called.                                             *)

\* Between two rounds next_eval is where Shortest is due, and early enough for all.
Planned ==
  /\ \A e \in Evaluators : nextEval < last[e] + Interval[e] + MinInterval
  /\ last[Shortest] + MinInterval <= nextEval

\* In a round Shortest is called, and whoever was looked at was called or is not due.
Progress ==
  /\ round + MinInterval <= nextEval
  /\ Shortest \in todo => last[Shortest] + MinInterval <= round
  /\ Shortest \notin todo => last[Shortest] = round /\ nextEval = round + MinInterval
  /\ \A e \in Evaluators \ todo : last[e] = round \/ round < last[e] + Interval[e]

Beginning == {"check", "wait", "sleep"}
BeforeRound == {"snapshot", "subscribe", "waiting", "capture"}
InRound == {"load", "eval", "evaluating"}

ScheduleInv ==
  /\ pc \in Beginning \cup BeforeRound => Planned
  /\ pc \in BeforeRound => nextEval <= now
  /\ pc \in InRound => Progress

LEMMA PointsApart ==
  /\ Beginning \cap BeforeRound = {} /\ Beginning \cap InRound = {} /\ BeforeRound \cap InRound = {}
  /\ {"spawned", "listen", "begin", "pause", "ended", "panicked"}
        \cap (Beginning \cup BeforeRound \cup InRound) = {}
BY DEF Beginning, BeforeRound, InRound

\* A step that leaves the schedule alone keeps it.
LEMMA ScheduleKept ==
  ASSUME TypeOK, TypeOK', ScheduleInv, UNCHANGED <<last, nextEval, round, todo>>, now' >= now,
         pc' = pc \/ pc' \notin Beginning \cup BeforeRound \cup InRound
  PROVE  ScheduleInv'
<1>1. (Planned <=> Planned') /\ (Progress <=> Progress')
  BY DEF Planned, Progress
<1>2. now \in Int /\ now' \in Int /\ nextEval \in Int
  BY TimeAssumption DEF TypeOK
<1>3. nextEval <= now => nextEval' <= now'
  BY <1>2
<1> QED
  BY <1>1, <1>3 DEF ScheduleInv

LEMMA OthersSchedule ==
  ASSUME TypeOK, TypeOK', ScheduleInv, Environment \/ Controller \/ UNCHANGED vars
  PROVE  ScheduleInv'
<1>1. UNCHANGED <<pc, last, nextEval, round, todo>>
  BY DEF Environment, Tick, SyncData, SyncChanges, Controller, CtlBegin, CtlInitiate, CtlSend,
     CtlJoined, CtlFails, notCtl, vars, roundVars
<1>2. now' = now \/ now' = now + 1
  BY DEF Environment, Tick, SyncData, SyncChanges, Controller, CtlBegin, CtlInitiate, CtlSend,
     CtlJoined, CtlFails, notCtl, vars
<1>3. now' >= now
  BY <1>2, TimeAssumption DEF TypeOK
<1> QED
  BY <1>1, <1>3, ScheduleKept

\* The first next_eval of a run.
LEMMA StartSchedule == TypeOK /\ RunStarts => ScheduleInv'
<1> SUFFICES ASSUME TypeOK, RunStarts PROVE ScheduleInv'
  OBVIOUS
<1>1. pc' = "check" /\ last' = [e \in Evaluators |-> CeilSec(now)]
      /\ nextEval' = CeilSec(now) + MinInterval
  BY DEF RunStarts, Goto
<1>2. now \in Nat
  BY TimeAssumption DEF TypeOK
<1>3. Planned'
  BY <1>1, <1>2, CeilSecBounds, ShortestIsLeast DEF Planned
<1> QED
  BY <1>1, <1>3, PointsApart DEF ScheduleInv, Beginning, BeforeRound, InRound

\* On the way to a round.
LEMMA WaySchedule ==
  ASSUME TypeOK, ScheduleInv,
         Check \/ Wait \/ Wake \/ Snapshot \/ Subscribe \/ WaitRecv \/ WaitTimeout
  PROVE  ScheduleInv'
<1>1. UNCHANGED <<now, last, nextEval>>
  BY DEF Check, Wait, Wake, Snapshot, Subscribe, WaitRecv, WaitTimeout, React, Stay, Fatal, notProc,
     roundVars
<1>2. Planned
  BY DEF ScheduleInv, Beginning, BeforeRound, Check, Wait, Wake, Snapshot, Subscribe, WaitRecv,
     WaitTimeout, ProcAt
<1>3. Planned'
  BY <1>1, <1>2 DEF Planned
<1>4. CASE Check \/ Wait \/ Wake
  <2>1. pc' \in {"wait", "sleep", "panicked"} \/ (pc' = "snapshot" /\ nextEval <= now)
    BY <1>4, TimeAssumption DEF Check, Wait, Wake, Goto, TypeOK
  <2> QED
    BY <1>1, <1>3, <2>1 DEF ScheduleInv, Beginning, BeforeRound, InRound
<1>5. CASE Snapshot \/ Subscribe \/ WaitRecv \/ WaitTimeout
  <2>1. pc \in BeforeRound
    BY <1>5 DEF Snapshot, Subscribe, WaitRecv, WaitTimeout, ProcAt, BeforeRound
  <2>2. pc' \in BeforeRound \cup {"ended"}
    BY <1>5, <2>1 DEF Snapshot, Subscribe, WaitRecv, WaitTimeout, React, Stay, Fatal, Goto, BeforeRound
  <2> QED
    BY <1>1, <1>3, <2>1, <2>2 DEF ScheduleInv, Beginning, BeforeRound, InRound
<1> QED
  BY <1>4, <1>5

\* The round begins: Shortest is due.
LEMMA CaptureSchedule == TypeOK /\ ScheduleInv /\ Capture => ScheduleInv'
<1> SUFFICES ASSUME TypeOK, ScheduleInv, Capture PROVE ScheduleInv'
  OBVIOUS
<1>1. pc' \in {"load", "eval"} /\ round' = now /\ nextEval' = Far /\ todo' = Evaluators /\ last' = last
  BY DEF Capture, Goto
<1>2. last[Shortest] + MinInterval <= nextEval /\ nextEval <= now
  BY DEF Capture, ProcAt, ScheduleInv, Planned, Beginning, BeforeRound
<1>3. last[Shortest] \in Nat /\ nextEval \in Nat /\ now \in 0..MaxTime
  BY ShortestIsLeast DEF TypeOK
<1>4. now + MinInterval <= Far
  BY <1>3, ShortestIsLeast, TimeAssumption
<1>5. last[Shortest] + MinInterval <= now
  BY <1>2, <1>3, ShortestIsLeast, TimeAssumption
<1>6. Progress'
  BY <1>1, <1>4, <1>5, ShortestIsLeast DEF Progress
<1> QED
  BY <1>1, <1>6 DEF ScheduleInv, Beginning, BeforeRound, InRound

\* Shortest is never skipped.
LEMMA SkipSchedule ==
  ASSUME TypeOK, ScheduleInv, NEW e \in Evaluators, Skip(e)
  PROVE  ScheduleInv'
<1>1. pc' = "eval" /\ todo' = todo \ {e} /\ UNCHANGED <<last, nextEval, round>>
  BY DEF Skip, ProcAt
<1>2. Progress /\ e \in todo
  BY DEF Skip, ProcAt, Turn, ScheduleInv, InRound
<1>3. round < last[e] + Interval[e]
  BY TimeAssumption, EvaluatorsAssumption DEF Skip, Due, TypeOK
<1>4. e # Shortest
  BY <1>2, <1>3, ShortestIsLeast, TimeAssumption DEF Progress, TypeOK
<1>5. Progress'
  BY <1>1, <1>2, <1>3, <1>4 DEF Progress
<1> QED
  BY <1>1, <1>5 DEF ScheduleInv, Beginning, BeforeRound, InRound

\* A call can only bring next_eval forward, to round + MinInterval at most.
LEMMA CallSchedule ==
  ASSUME TypeOK, ScheduleInv, NEW e \in Evaluators, Call(e)
  PROVE  ScheduleInv'
<1>1. /\ pc' = "evaluating" /\ todo' = todo \ {e} /\ round' = round
      /\ last' = [last EXCEPT ![e] = round]
      /\ nextEval' = IF round + Interval[e] < nextEval THEN round + Interval[e] ELSE nextEval
  BY DEF Call, Goto
<1>2. Progress
  BY DEF Call, ProcAt, ScheduleInv, InRound
<1>3. round \in Nat /\ nextEval \in Nat /\ Interval[e] \in Nat /\ MinInterval \in Nat
      /\ MinInterval <= Interval[e]
  BY ShortestIsLeast, TimeAssumption DEF TypeOK
<1>4. last'[e] = round /\ \A d \in Evaluators \ {e} : last'[d] = last[d]
  BY <1>1 DEF TypeOK
<1>5. round + MinInterval <= nextEval' /\ (nextEval = round + MinInterval => nextEval' = nextEval)
  BY <1>1, <1>2, <1>3 DEF Progress
<1>6. e = Shortest => nextEval' = round + MinInterval
  BY <1>1, <1>2, <1>3, ShortestIsLeast DEF Progress
<1>7. Progress'
  <2>1. Shortest \in todo' => last'[Shortest] + MinInterval <= round'
    BY <1>1, <1>2, <1>4, ShortestIsLeast DEF Progress
  <2>2. Shortest \notin todo' => last'[Shortest] = round' /\ nextEval' = round' + MinInterval
    <3>1. CASE Shortest = e
      BY <1>1, <1>4, <1>6, <3>1
    <3>2. CASE Shortest # e
      BY <1>1, <1>2, <1>4, <1>5, <3>2, ShortestIsLeast DEF Progress
    <3> QED
      BY <3>1, <3>2
  <2>3. \A d \in Evaluators \ todo' : last'[d] = round' \/ round' < last'[d] + Interval[d]
    BY <1>1, <1>2, <1>4 DEF Progress
  <2> QED
    BY <1>1, <1>5, <2>1, <2>2, <2>3 DEF Progress
<1> QED
  BY <1>1, <1>7 DEF ScheduleInv, Beginning, BeforeRound, InRound

\* All were looked at.
LEMMA EndSchedule == TypeOK /\ ScheduleInv /\ RoundEnds => ScheduleInv'
<1> SUFFICES ASSUME TypeOK, ScheduleInv, RoundEnds PROVE ScheduleInv'
  OBVIOUS
<1>1. pc' = "check" /\ todo = {} /\ UNCHANGED <<last, nextEval, round>>
  BY DEF RoundEnds, Goto, roundVars
<1>2. Progress
  BY DEF RoundEnds, ProcAt, ScheduleInv, InRound
<1>3. last[Shortest] = round /\ nextEval = round + MinInterval
  BY <1>1, <1>2, ShortestIsLeast DEF Progress
<1>4. last[Shortest] + MinInterval <= nextEval
  BY <1>3, ShortestIsLeast, TimeAssumption DEF TypeOK
<1>5. ASSUME NEW e \in Evaluators
      PROVE  nextEval < last[e] + Interval[e] + MinInterval
  <2>1. last[e] = round \/ round < last[e] + Interval[e]
    BY <1>1, <1>2 DEF Progress
  <2>2. last[e] \in Nat /\ round \in Nat /\ Interval[e] \in Nat \ {0} /\ MinInterval \in Nat
    BY ShortestIsLeast, TimeAssumption DEF TypeOK
  <2> QED
    BY <1>3, <2>1, <2>2
<1>6. Planned'
  BY <1>1, <1>4, <1>5 DEF Planned
<1> QED
  BY <1>1, <1>6 DEF ScheduleInv, Beginning, BeforeRound, InRound

LEMMA ScheduleStep == TypeOK /\ TypeOK' /\ ScheduleInv /\ [Next]_vars => ScheduleInv'
<1> SUFFICES ASSUME TypeOK, TypeOK', ScheduleInv, [Next]_vars PROVE ScheduleInv'
  OBVIOUS
<1>1. CASE Environment \/ Controller \/ UNCHANGED vars
  BY <1>1, OthersSchedule
<1>2. CASE RunStarts
  BY <1>2, StartSchedule
<1>3. CASE Check \/ Wait \/ Wake \/ Snapshot \/ Subscribe \/ WaitRecv \/ WaitTimeout
  BY <1>3, WaySchedule
<1>4. CASE Capture
  BY <1>4, CaptureSchedule
<1>5. CASE \E e \in Evaluators : Skip(e) \/ Call(e)
  BY <1>5, SkipSchedule, CallSchedule
<1>6. CASE RoundEnds
  BY <1>6, EndSchedule
<1>7. CASE Loaded \/ Evaluate
  <2>1. UNCHANGED <<last, nextEval, round, todo>> /\ pc \in InRound /\ pc' \in InRound
    BY <1>7 DEF Loaded, Evaluate, ProcAt, Goto, roundVars, InRound
  <2>2. Progress'
    BY <2>1 DEF ScheduleInv, Progress
  <2> QED
    BY <2>1, <2>2, PointsApart DEF ScheduleInv
<1>8. CASE \/ Begin \/ Listen \/ EvaluatorPanics \/ WaitLagged \/ RoundFails \/ PauseEnds
           \/ ProcShutdown \/ ProcDropped
  <2>1. pc' \in {"listen", "begin", "pause", "ended"}
    BY <1>8 DEF Begin, Listen, EvaluatorPanics, WaitLagged, RoundFails, PauseEnds, ProcShutdown,
       ProcDropped, Dropped, Fatal, Recoverable, Goto
  <2> QED
    BY <2>1 DEF ScheduleInv, Beginning, BeforeRound, InRound
<1> QED
  BY <1>1, <1>2, <1>3, <1>4, <1>5, <1>6, <1>7, <1>8 DEF Next, Process

\* The sleep between two rounds ends before any evaluator is late by the shortest interval.
THEOREM ScheduleTheorem == Spec => []NoneOverdue
<1>1. Init => ScheduleInv
  BY DEF Init, ScheduleInv, Beginning, BeforeRound, InRound
<1>2. ScheduleInv => NoneOverdue
  BY DEF ScheduleInv, Planned, NoneOverdue, Beginning
<1> QED
  BY <1>1, <1>2, InitType, TypeStep, ScheduleStep, PTL DEF Spec

-----------------------------------------------------------------------------
(* How far calls are apart.                                                *)

\* last_eval is never before the time of the last call, also in a run that knows of none.
SpacingInv == \A e \in Evaluators : evaluated[e] <= last[e] /\ evaluated[e] <= now

LEMMA SpacingStep ==
  ASSUME TypeOK, TypeOK', SpacingInv, [Next]_vars
  PROVE  /\ SpacingInv'
         /\ \A e \in Evaluators :
              evaluated'[e] # evaluated[e] => evaluated'[e] - evaluated[e] >= Interval[e]
<1> USE TimeAssumption, ShortestIsLeast
<1>1. CASE RunStarts
  <2>1. now \in Nat /\ CeilSec(now) \in Nat /\ now <= CeilSec(now) /\ UNCHANGED <<now, evaluated>>
    BY <1>1, CeilSecBounds DEF TypeOK, RunStarts, notProc
  <2>2. \A e \in Evaluators : last'[e] = CeilSec(now)
    BY <1>1 DEF RunStarts
  <2> QED
    BY <2>1, <2>2 DEF SpacingInv, TypeOK
<1>2. CASE \E e \in Evaluators : Call(e)
  <2>1. PICK e \in Evaluators : Call(e)
    BY <1>2
  <2>2. last' = [last EXCEPT ![e] = round] /\ evaluated' = [evaluated EXCEPT ![e] = round]
        /\ now' = now /\ round >= last[e] + Interval[e]
    BY <2>1 DEF Call, Due, notProc
  <2>3. round \in Nat /\ round <= now /\ now \in Nat /\ last[e] \in Nat /\ evaluated[e] \in Int
    BY DEF TypeOK
  <2>4. last'[e] = round /\ evaluated'[e] = round
        /\ \A d \in Evaluators \ {e} : last'[d] = last[d] /\ evaluated'[d] = evaluated[d]
    BY <2>2 DEF TypeOK
  <2>5. evaluated[e] <= last[e]
    BY DEF SpacingInv
  <2>6. round - evaluated[e] >= Interval[e]
    BY <2>2, <2>3, <2>5
  <2> QED
    BY <2>2, <2>3, <2>4, <2>6 DEF SpacingInv
<1>3. CASE ~RunStarts /\ ~(\E e \in Evaluators : Call(e))
  <2>1. UNCHANGED <<last, evaluated>>
    BY <1>3 DEF Next, vars, Environment, Tick, SyncData, SyncChanges, Controller, CtlBegin, CtlInitiate,
       CtlSend, CtlJoined, CtlFails, notCtl, roundVars, Process, Begin, Listen, EvaluatorPanics,
       Check, Wait, Wake, Snapshot, Subscribe, WaitRecv, WaitLagged, WaitTimeout, React, Stay,
       Capture, Loaded, Skip, Evaluate, RoundFails, RoundEnds, PauseEnds, Fatal, Recoverable,
       ProcShutdown, ProcDropped, Dropped
  <2>2. now' = now \/ now' = now + 1
    BY DEF Next, vars, Environment, Tick, SyncData, SyncChanges, Controller, CtlBegin, CtlInitiate,
       CtlSend, CtlJoined, CtlFails, notCtl, notProc, Process, Begin, Listen, RunStarts,
       EvaluatorPanics, Check, Wait, Wake, Snapshot, Subscribe, WaitRecv, WaitLagged, WaitTimeout,
       React, Stay, Capture, Loaded, Skip, Call, Evaluate, RoundFails, RoundEnds, PauseEnds, Fatal,
       Recoverable, ProcShutdown, ProcDropped, Dropped
  <2>3. now \in Nat /\ \A e \in Evaluators : evaluated[e] \in Int
    BY DEF TypeOK
  <2> QED
    BY <2>1, <2>2, <2>3 DEF SpacingInv
<1> QED
  BY <1>1, <1>2, <1>3

\* Calls of an evaluator are for times its interval apart, restarts included.
THEOREM SpacingTheorem == Spec => CallsApart
<1>1. Init => SpacingInv
  <2> SUFFICES ASSUME Init, NEW e \in Evaluators
               PROVE  evaluated[e] <= last[e] /\ evaluated[e] <= now
    BY DEF SpacingInv
  <2>1. evaluated[e] = -Interval[e] /\ last[e] = 0 /\ now = 0
    BY DEF Init
  <2>2. Interval[e] \in Nat
    BY ShortestIsLeast
  <2> QED
    BY <2>1, <2>2
<1>2. TypeOK /\ TypeOK' /\ SpacingInv /\ [Next]_vars => SpacingInv'
  BY SpacingStep
<1>3. TypeOK /\ TypeOK' /\ SpacingInv /\ [Next]_vars =>
        [\A e \in Evaluators :
           evaluated'[e] # evaluated[e] => evaluated'[e] - evaluated[e] >= Interval[e]]_vars
  BY SpacingStep
<1> QED
  BY <1>1, <1>2, <1>3, InitType, TypeStep, PTL DEF Spec, CallsApart

-----------------------------------------------------------------------------
(* The shutdown.                                                           *)

\* A successful shutdown() leaves an ended process and the status Shutdown: after the end
\* of the process its controller is the only writer, and this write its last.
THEOREM ShutdownTheorem == Spec => []ShutdownIsFinal
<1>1. Init => ShutdownIsFinal
  BY DEF Init, ShutdownIsFinal
<1>2. ShutdownIsFinal /\ [Next]_vars => ShutdownIsFinal'
  <2> SUFFICES ASSUME ShutdownIsFinal, [Next]_vars PROVE ShutdownIsFinal'
    OBVIOUS
  <2>1. CASE Environment \/ UNCHANGED vars
    BY <2>1 DEF ShutdownIsFinal, Environment, Tick, SyncData, SyncChanges, ctlVars, vars
  <2>2. CASE Process \/ ProcShutdown \/ ProcDropped
    <3>1. pc # "ended" /\ ctl' = ctl
      BY <2>2 DEF Process, Begin, Listen, RunStarts, EvaluatorPanics, Check, Wait, Wake, Snapshot,
         Subscribe, WaitRecv, WaitLagged, WaitTimeout, React, Stay, Capture, Loaded, Skip, Call,
         Evaluate, RoundFails, RoundEnds, PauseEnds, Fatal, Recoverable, ProcShutdown, ProcDropped,
         Dropped, ProcAt, notProc, ctlVars, Interruptible, Suspended, Awaits
    <3> QED
      BY <3>1 DEF ShutdownIsFinal
  <2>3. CASE Controller
    BY <2>3 DEF ShutdownIsFinal, Controller, CtlBegin, CtlInitiate, CtlSend, CtlJoined, CtlFails,
       notCtl
  <2> QED
    BY <2>1, <2>2, <2>3 DEF Next
<1> QED
  BY <1>1, <1>2, PTL DEF Spec

\* Nor does shutdown() wait for a process that was not told to stop: it has the signal, or
\* is aborted where it has not subscribed yet.
THEOREM HeardTheorem == Spec => []ShutdownIsHeard
<1>1. Init => ShutdownIsHeard
  BY DEF Init, ShutdownIsHeard
<1>2. ShutdownIsHeard /\ [Next]_vars => ShutdownIsHeard'
  <2> SUFFICES ASSUME ShutdownIsHeard, [Next]_vars PROVE ShutdownIsHeard'
    OBVIOUS
  <2>1. CASE Environment \/ UNCHANGED vars
    BY <2>1 DEF ShutdownIsHeard, Finished, Environment, Tick, SyncData, SyncChanges, ctlVars, vars
  <2>2. CASE Process \/ ProcShutdown \/ ProcDropped
    <3>1. /\ pc \notin {"ended", "panicked"} /\ UNCHANGED <<ctl, signal>>
          /\ listening => listening'
          /\ aborted # "no" => aborted' # "no"
      BY <2>2 DEF Process, Begin, Listen, RunStarts, EvaluatorPanics, Check, Wait, Wake, Snapshot,
         Subscribe, WaitRecv, WaitLagged, WaitTimeout, React, Stay, Capture, Loaded, Skip, Call,
         Evaluate, RoundFails, RoundEnds, PauseEnds, Fatal, Recoverable, ProcShutdown, ProcDropped,
         Dropped, ProcAt, Polled, notProc, ctlVars, Interruptible, Suspended, Awaits
    <3> QED
      BY <3>1 DEF ShutdownIsHeard, Finished
  <2>3. CASE Controller
    BY <2>3 DEF ShutdownIsHeard, Finished, Controller, CtlBegin, CtlInitiate, CtlSend, CtlJoined,
       CtlFails, Abort, notCtl
  <2> QED
    BY <2>1, <2>2, <2>3 DEF Next
<1> QED
  BY <1>1, <1>2, PTL DEF Spec
=============================================================================
