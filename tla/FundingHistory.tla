--------------------------- MODULE FundingHistory ----------------------------
(***************************************************************************)
(* The funding settlements task, the table `funding_settlements`, and the  *)
(* timers with which the sync process runs the task.                       *)
(*                                                                         *)
(* The task compares the table with the grid of settlement times, asks the *)
(* exchange for a page of what is missing, newest first, saves it, and     *)
(* looks again. A time the exchange turns out not to have is excluded, and *)
(* the scan goes on below it. Only the first run of a process scans; later *)
(* runs extend the table upwards. Every step ends at an `.await`, where    *)
(* time passes, the exchange changes, and the process may stop.            *)
(*                                                                         *)
(* Times are hours; a row is its time.                                     *)
(***************************************************************************)
EXTENDS SettlementGrid, FiniteSets

CONSTANTS
  Clock,     \* bound: the hours at which the clock is read
  Page,      \* external: settlements in a page of the exchange
  FlagRange, \* config: funding_settlement_flag_missing_range
  Reach,     \* config: funding_settlement_reach
  OddTimes,  \* other times the exchange may report, off the grid, valid for the code or not
  MaxHoles,  \* bound: settlements which the exchange lacks at a time
  MaxFaults  \* bound: failed requests and stops

ASSUME ClockAssumption ==
  Clock \subseteq Nat /\ IsFiniteSet(Clock) /\ \A t \in Clock : t >= CStart
ASSUME ConfigAssumption ==
  /\ Page \in Nat /\ Page > 1 /\ FlagRange \in Nat
  /\ Reach \in Nat /\ Reach >= AStart /\ IsValid(Reach)
  /\ OddTimes \subseteq Nat
ASSUME BoundsAssumption == MaxHoles \in Nat /\ MaxFaults \in Nat

VARIABLES
  now,      \* the present hour
  lacking,  \* the exchange: settlements it has no entry for
  odd,      \* the exchange: entries it has at other times
  syncMode, \* run_backfill or run_full
  stored,   \* the table
  taskPc,   \* control point of the task
  flag,     \* flag_missing_range is set: the first run of this process
  exclude,  \* exclude_missing_after
  missing,  \* FundingSettlementsState: missing
  range,    \* the FundingDownloadRange
  page,     \* entries received and not yet saved
  synced,   \* what the last run returned
  nextRun,  \* when the timer for the next run fires
  outcome,  \* how the last process ended
  faults,   \* failures so far
  refused,  \* history: settlements a page spanned without having them
  opened    \* history: settlements a page left out after the scan was cut short

exchVars == <<now, lacking, odd>>
taskVars == <<taskPc, flag, exclude, missing, range, page>>
callVars == <<synced, nextRun, outcome>>
histVars == <<refused, opened>>
fundingVars == <<exchVars, syncMode, stored, taskVars, callVars, faults, histVars>>

-----------------------------------------------------------------------------
\* No time: no settlement is that early.
None == 0

Least(S) == CHOOSE t \in S : \A u \in S : t <= u
Greatest(S) == CHOOSE t \in S : \A u \in S : u <= t

\* The settlements until the end of the clock, and those there have been until now.
Schedule == Settlements(Greatest(Clock))
Until(t) == {u \in Schedule : u <= t}
Grid == Until(now)

Astray == {t \in odd : t <= now}
Available == (Grid \ lacking) \cup Astray

First == Least(stored)
Last == Greatest(stored)

Single == Cardinality(stored) = 1

\* FundingSettlementsState::new: what the scan finds missing.
Missing(scan, cut) ==
  LET from == Ceil(Later(now - FlagRange, First))
      to == IF cut = None THEN Last ELSE Floor(cut - 1)
  IN IF scan /\ stored # {} /\ ~Single /\ from <= to
     THEN GridPoints(from, to) \ stored ELSE {}

\* UnreachableMissingSettlement
Unreachable(lost) ==
  IF Single THEN First < Reach ELSE lost # {} /\ Least(lost) < Reach

HasMissing(lost) == stored = {} \/ lost # {} \/ Reach < First

\* latest_missing_group: no two that follow each other are more than 8 hours apart.
LatestGroup(lost) ==
  {t \in lost : \A u \in lost : u > t => \E v \in lost : u - Interval <= v /\ v < u}

Whole == [kind |-> "Latest", from |-> None, to |-> None]

NextRange(lost) ==
  CASE stored = {} -> Whole
    [] stored # {} /\ lost # {} ->
         LET group == LatestGroup(lost)
         IN [kind |-> "Missing", from |-> Least(group), to |-> Greatest(group)]
    [] stored # {} /\ lost = {} /\ Reach < First ->
         [kind |-> "LowerBound", from |-> None, to |-> First]
    [] stored # {} /\ lost = {} /\ First <= Reach ->
         [kind |-> "UpperBound", from |-> Last, to |-> None]

\* What a range asks for; the exchange takes both ends as part of it.
Within(r, S) == {t \in S : r.from <= t /\ (r.to = None \/ t <= r.to)}

Newest(n, S) == {t \in S : Cardinality({u \in S : u >= t}) <= n}

\* Of what was asked for, what a page says something about: a full one ends at its last entry.
Spanned(asked, p) ==
  IF Cardinality(p) < Page THEN asked ELSE {t \in asked : t >= Least(p)}

CaughtUp == stored # {} /\ Last >= Floor(now)

\* next_funding_timer
NextSettlement == IF Ceil(now) = now THEN now + Interval ELSE Ceil(now)

ControlPoints == {"idle", "begin", "request", "save", "review", "rescan", "wait"}

-----------------------------------------------------------------------------
\* What can be in the table: settlements, and entries at other times that pass for valid.
Storable == Grid \cup {t \in Astray : IsValid(t)}

FundingTypeOK ==
  /\ now \in Clock /\ lacking \subseteq Nat /\ odd \subseteq OddTimes
  /\ syncMode \in {"backfill", "full"}
  /\ stored \subseteq Storable
  /\ taskPc \in ControlPoints
  /\ flag \in BOOLEAN /\ synced \in BOOLEAN
  /\ exclude \in {None} \cup Grid
  /\ missing \subseteq Grid
  /\ range.kind \in {"Latest", "UpperBound", "Missing", "LowerBound"}
  /\ {range.from, range.to} \subseteq {None} \cup Storable
  /\ page \subseteq Grid \cup Astray
  /\ nextRun \in Nat
  /\ outcome \in {"none", "failed", "stopped", "fatal"}
  /\ faults \in 0..MaxFaults
  /\ refused \subseteq Grid /\ opened \subseteq Grid

\* The exchange has the entry that the reach needs.
ReachesBack == \E t \in Until(Reach) : t \notin lacking

FundingInit ==
  /\ now \in Clock
  /\ lacking \in SUBSET Grid /\ Cardinality(lacking) <= MaxHoles /\ ReachesBack
  /\ odd \in SUBSET OddTimes
  /\ syncMode \in {"backfill", "full"}
  /\ stored = {}
  /\ taskPc = "idle" /\ flag = TRUE /\ exclude = None /\ missing = {} /\ range = Whole /\ page = {}
  /\ synced = FALSE /\ nextRun = 0 /\ outcome = "none" /\ faults = 0
  /\ refused = {} /\ opened = {}

-----------------------------------------------------------------------------
(* The exchange and the clock.                                             *)

\* Settlements that fall due may be late.
Tick ==
  /\ now' \in {t \in Clock : t > now}
  /\ \E late \in SUBSET (Until(now') \ Grid) :
       /\ lacking' = lacking \cup late
       /\ Cardinality(lacking') <= MaxHoles
  /\ UNCHANGED <<odd, syncMode, stored, taskVars, callVars, faults, histVars>>

\* A settlement that was missing turns up.
Arrive(t) ==
  /\ t \in lacking
  /\ lacking' = lacking \ {t}
  /\ UNCHANGED <<now, odd, syncMode, stored, taskVars, callVars, faults, histVars>>

-----------------------------------------------------------------------------
(* The task.                                                               *)

\* The variables of a run of the task are gone.
RunOver ==
  exclude' = None /\ missing' = {} /\ range' = Whole /\ page' = {}

\* The process ends.
End(result) ==
  /\ taskPc' = "idle" /\ outcome' = result /\ synced' = FALSE /\ nextRun' = 0 /\ flag' = TRUE
  /\ RunOver /\ refused' = {} /\ opened' = {}

\* A process starts; it reports the state of the table before it does anything.
Start ==
  /\ taskPc = "idle" /\ outcome # "fatal"
  /\ IF Unreachable(Missing(flag, None)) THEN End("fatal")
     ELSE /\ taskPc' = "begin"
          /\ UNCHANGED <<flag, exclude, missing, range, page, callVars, histVars>>
  /\ UNCHANGED <<exchVars, syncMode, stored, faults>>

\* backfill: the first evaluation.
Begin ==
  /\ taskPc = "begin"
  /\ LET lost == Missing(flag, None)
     IN IF Unreachable(lost) THEN End("fatal")
        ELSE /\ taskPc' = "request" /\ missing' = lost
             /\ UNCHANGED <<flag, exclude, range, page, callVars, histVars>>
  /\ UNCHANGED <<exchVars, syncMode, stored, faults>>

\* get_new_settlements. The history is about runs that scan.
Request ==
  /\ taskPc = "request"
  /\ \E r \in {NextRange(missing)} :
       \E asked \in {Within(r, Grid)}, there \in {Within(r, Available)} :
         \E p \in {Newest(Page, there)} :
           \E left \in {Spanned(asked, p) \ p} :
             /\ range' = r /\ page' = p
             /\ refused' = IF flag THEN refused \cup left ELSE refused
             /\ opened' = IF flag /\ exclude # None /\ r.kind = "UpperBound"
                          THEN opened \cup (asked \ (p \cup left)) ELSE opened
  /\ taskPc' = "save"
  /\ UNCHANGED <<exchVars, syncMode, stored, flag, exclude, missing, callVars, faults>>

\* add_settlements: ON CONFLICT (time) DO NOTHING
AddSettlements == stored' = stored \cup page

\* Mutant of Save: the times of the entries are not checked.
SaveUnchecked ==
  /\ taskPc = "save"
  /\ AddSettlements /\ taskPc' = "review" /\ page' = {}
  /\ UNCHANGED <<exchVars, syncMode, flag, exclude, missing, range, callVars, faults, histVars>>

\* partial_download: an entry at an invalid time, or none where history should go on, is fatal.
Save ==
  /\ taskPc = "save"
  /\ IF \/ \E t \in page : ~IsValid(t)
        \/ page = {} /\ range.kind = "LowerBound"
     THEN End("fatal") /\ UNCHANGED stored
     ELSE /\ AddSettlements
          /\ taskPc' = "review" /\ page' = {}
          /\ UNCHANGED <<flag, exclude, missing, range, callVars, histVars>>
  /\ UNCHANGED <<exchVars, syncMode, faults>>

\* Mutant of Conclude: the run ends once the table has caught up.
ConcludeEarly(lost) ==
  IF Reach < First \/ ~CaughtUp
  THEN /\ taskPc' = "request" /\ missing' = lost
       /\ UNCHANGED <<exclude, range, page, synced, nextRun>>
  ELSE taskPc' = "wait" /\ synced' = CaughtUp /\ nextRun' = now /\ RunOver

\* What follows when `lost` is missing: another round, or the end of the run. run_backfill
\* then sleeps; run_full ignores the result of its first run.
Conclude(lost) ==
  IF HasMissing(lost) \/ (~CaughtUp /\ range.to # None)
  THEN /\ taskPc' = "request" /\ missing' = lost
       /\ UNCHANGED <<exclude, range, page, synced, nextRun>>
  ELSE /\ taskPc' = "wait" /\ synced' = CaughtUp
       /\ nextRun' = IF syncMode = "full" /\ (CaughtUp \/ flag) THEN NextSettlement ELSE now
       /\ RunOver

\* Mutant of Exclude: nothing is excluded.
ExcludeNone(lost) == taskPc' = "request" /\ missing' = lost /\ UNCHANGED exclude

\* The end of the range is missing still: it is left out of the scans that follow.
Exclude(lost) == taskPc' = "rescan" /\ missing' = lost /\ exclude' = range.to

Review ==
  /\ taskPc = "review"
  /\ LET lost == Missing(flag, exclude)
     IN CASE Unreachable(lost) -> End("fatal")
          [] ~Unreachable(lost) /\ range.kind = "Missing" /\ range.to \in lost ->
               Exclude(lost) /\ UNCHANGED <<flag, range, page, callVars, histVars>>
          [] ~Unreachable(lost) /\ ~(range.kind = "Missing" /\ range.to \in lost) ->
               Conclude(lost) /\ UNCHANGED <<flag, outcome, histVars>>
  /\ UNCHANGED <<exchVars, syncMode, stored, faults>>

Rescan ==
  /\ taskPc = "rescan"
  /\ LET lost == Missing(flag, exclude)
     IN IF Unreachable(lost) THEN End("fatal")
        ELSE Conclude(lost) /\ UNCHANGED <<flag, outcome, histVars>>
  /\ UNCHANGED <<exchVars, syncMode, stored, faults>>

\* The timer fires; later runs do not scan.
Wake ==
  /\ taskPc = "wait" /\ now >= nextRun
  /\ taskPc' = "begin" /\ flag' = FALSE /\ synced' = FALSE /\ nextRun' = 0
  /\ refused' = {} /\ opened' = {}
  /\ UNCHANGED <<exchVars, syncMode, stored, exclude, missing, range, page, outcome, faults>>

\* The request fails as often as it may, or something else ends the process, here or at a crash.
Fail ==
  /\ taskPc # "idle" /\ faults < MaxFaults
  /\ End(IF taskPc = "request" THEN "failed" ELSE "stopped")
  /\ faults' = faults + 1
  /\ UNCHANGED <<exchVars, syncMode, stored>>

Task == Begin \/ Request \/ Save \/ Review \/ Rescan

FundingNext ==
  \/ Tick \/ \E t \in lacking : Arrive(t)
  \/ Start \/ Task \/ Wake \/ Fail

\* What the task awaits returns: a run goes on to its next await. Every step of Task does
\* that, and one is possible in every state with Running.
Running == taskPc \notin {"idle", "wait"}
Progress == Running /\ taskPc' \in ControlPoints

FundingSpec == FundingInit /\ [][FundingNext]_fundingVars /\ WF_taskPc(Progress)

-----------------------------------------------------------------------------
(* Properties.                                                             *)

\* When the first run of a process returns true, the table reaches back far enough, and
\* within the scanned range a settlement that is not in it was refused: a page that spans
\* its time came without it. The exception is what lies below the last page of a run that
\* had cut its scan short before.
SyncedIsComplete ==
  taskPc = "wait" /\ flag /\ synced =>
    /\ First <= Reach
    /\ \A t \in Until(Last) :
         t >= Later(now - FlagRange, First) => t \in stored \cup refused \cup opened

\* A run of the task comes to an end, whatever the exchange lacks, provided that it has
\* something from before the reach.
BackfillEnds == Running ~> ~Running
=============================================================================
