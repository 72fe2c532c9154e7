---------------------------- MODULE PriceHistory -----------------------------
(***************************************************************************)
(* The price history task and the table `ohlc_candles`.                    *)
(*                                                                         *)
(* The task downloads pages of one-minute candles, newest first, until the *)
(* table has no gap. What it still has to fetch it reads off the table:    *)
(* each row has a flag `stable` (old enough to be final) and a flag `gap`  *)
(* (what comes right before it is missing or not stable). Only this task   *)
(* writes the table. Every step ends at an `.await`, where time passes,    *)
(* the exchange changes, and the task may fail, be cancelled or crash.     *)
(*                                                                         *)
(* Times are minutes. The values of candles are left out: a row is what    *)
(* its flags say.                                                          *)
(***************************************************************************)
EXTENDS Integers, FiniteSets

CONSTANTS
  MaxTime,    \* bound: the last minute
  StableAge,  \* CANDLE_STABLE_AGE (60 in the code)
  MinPage,    \* least candles asked for at the upper end (66 in the code)
  Batch,      \* config: price_history_batch_size
  Buffer,     \* candles made unstable on each side of a missing one (5 in the code)
  FlagRange,  \* config: price_history_flag_gap_range
  Reach,      \* config: price_history_reach
  Lookback,   \* the lookback of the live modes
  MaxHoles,   \* bound: minutes for which the exchange has no candle at a time
  MaxFaults   \* bound: failed or cancelled downloads

ASSUME SizesAssumption ==
  /\ MaxTime \in Nat /\ StableAge \in Nat /\ FlagRange \in Nat /\ Lookback \in Nat
  /\ MinPage \in Nat \ {0} /\ Batch \in Nat \ {0} /\ Buffer \in Nat
  /\ Reach \in 0..MaxTime
ASSUME PageAssumption == MinPage > StableAge
ASSUME BoundsAssumption == MaxHoles \in Nat /\ MaxFaults \in Nat

VARIABLES
  now,      \* the present minute
  avail,    \* the exchange: minutes it has a candle for
  stored,   \* table: the rows
  stable,   \* table: rows with stable = true
  gap,      \* table: rows with gap = true
  task,     \* "backfill" or "live"
  pc,       \* control point of the task
  range,    \* the DownloadRange: its kind and its upper end
  limit,    \* candles asked for
  page,     \* candles received and not yet saved
  outcome,  \* how the last run of the task ended
  faults,   \* failures so far
  skipped,  \* history: minutes a page spans without having a candle
  savedAt   \* history: when a page of the latest candles was last saved

exchVars == <<now, avail>>
tableVars == <<stored, stable, gap>>
taskVars == <<task, pc, range, limit, page, outcome>>
histVars == <<skipped, savedAt>>
vars == <<exchVars, tableVars, taskVars, faults, histVars>>

-----------------------------------------------------------------------------
Times == 0..MaxTime

\* As the upper end of a page: no bound.
Top == MaxTime + 1

Kinds == {"Latest", "UpperBound", "Gap", "LowerBound"}

TypeOK ==
  /\ now \in Times /\ avail \in SUBSET (0..now)
  /\ stored \in SUBSET (0..now) /\ stable \in SUBSET stored /\ gap \in SUBSET stored
  /\ task \in {"backfill", "live"}
  /\ pc \in {"idle", "flag", "first", "request", "save", "unflag", "next"}
  /\ range \in [kind : Kinds, to : 0..Top]
  /\ limit \in 0..Batch
  /\ page \in SUBSET (0..now)
  /\ outcome \in {"none", "ok", "failed", "fatal"}
  /\ faults \in 0..MaxFaults
  /\ skipped \in SUBSET (0..now)
  /\ savedAt \in Times

Init ==
  /\ now \in StableAge..MaxTime
  /\ avail \in SUBSET (0..now)
  /\ Cardinality((0..now) \ avail) <= MaxHoles
  /\ stored = {} /\ stable = {} /\ gap = {}
  /\ task = "backfill" /\ pc = "idle"
  /\ range = [kind |-> "Latest", to |-> Top] /\ limit = 0 /\ page = {}
  /\ outcome = "none" /\ faults = 0
  /\ skipped = {} /\ savedAt = 0

-----------------------------------------------------------------------------
(* The exchange and the clock.                                             *)

\* A minute may pass without a candle.
Tick ==
  /\ now < MaxTime
  /\ now' = now + 1
  /\ avail' \in {avail, avail \cup {now + 1}}
  /\ Cardinality((0..now') \ avail') <= MaxHoles
  /\ UNCHANGED <<tableVars, taskVars, faults, histVars>>

\* A candle that was missing turns up.
Late(t) ==
  /\ t \in (0..now) \ avail
  /\ avail' = avail \cup {t}
  /\ UNCHANGED <<now, tableVars, taskVars, faults, histVars>>

\* get_candles(limit, to): the newest of the candles before `to`.
Newest(n, S) == {t \in S : Cardinality({u \in S : u >= t}) <= n}

-----------------------------------------------------------------------------
(* Reading the table: PriceHistoryState.                                   *)

First == CHOOSE t \in stored : \A u \in stored : t <= u
Last == CHOOSE t \in stored : \A u \in stored : u <= t

\* get_gaps: the upper ends, and the stable row below one.
GapEnds == {t \in gap \cap stable : \E s \in stable : s < t}

GapFrom(t) == CHOOSE s \in stable : s < t /\ \A u \in stable : u < t => u <= s

LowestGap == CHOOSE t \in GapEnds : \A u \in GapEnds : t <= u
HighestGap == CHOOSE t \in GapEnds : \A u \in GapEnds : u <= t

\* UnreachableDbGap
Unreachable ==
  IF Cardinality(stored) = 1 THEN First < Reach
  ELSE GapEnds # {} /\ GapFrom(LowestGap) < Reach

HasGaps == stored = {} \/ GapEnds # {} \/ Reach < First

\* tail_continuous_duration
Tail == Last - (IF GapEnds = {} THEN First ELSE HighestGap)

-----------------------------------------------------------------------------
(* Writing the table.                                                      *)

Old(t) == t + StableAge <= now

\* Mutant of GapBefore: that the candle before the page exists is taken for enough.
GapBeforeExists(oldest) == {oldest} \ {t \in {oldest} : t - 1 \in stored}

\* The oldest candle of a page is flagged unless a stable one precedes it.
GapBefore(oldest) == {oldest} \ {t \in {oldest} : t - 1 \in stable}

\* Mutant of AddCandles: the flag at the upper end of the page stays.
AddKeepsFlag(P, to) ==
  LET oldest == CHOOSE t \in P : \A u \in P : t <= u
  IN /\ stored' = stored \cup P
     /\ stable' = (stable \ P) \cup {t \in P : Old(t)}
     /\ gap' = (gap \ P) \cup GapBefore(oldest)

\* add_candles, one transaction: the flag at the page's upper end goes, the rows of the
\* page are inserted or replaced.
AddCandles(P, to) ==
  LET oldest == CHOOSE t \in P : \A u \in P : t <= u
  IN /\ stored' = stored \cup P
     /\ stable' = (stable \ P) \cup {t \in P : Old(t)}
     /\ gap' = (gap \ (P \cup {to})) \cup GapBefore(oldest)

\* flag_missing_candles, one transaction: around each unflagged hole `Buffer` rows on
\* either side lose `stable` and the next one gets `gap`; then each stable row behind
\* one that is not gets `gap`.
FlagMissing(cut) ==
  LET InRange == {t \in stored : t >= cut}
      Next2(t, S) == {u \in S : u > t /\ \A v \in stored : v > t => u <= v}
      Breaks == {g \in stable \cap InRange :
                   \E n \in Next2(g, stable \ gap) : n > g + 1}
      Rank(g, t) == Cardinality({u \in InRange : g < u /\ u <= t})
      Below(g) == {t \in InRange : t <= g /\ Cardinality({u \in InRange : t <= u /\ u <= g}) <= Buffer}
      Above(g) == {t \in InRange : t > g /\ Rank(g, t) <= Buffer}
      Behind(g) == {t \in InRange : t > g /\ Rank(g, t) = Buffer + 1}
      left == stable \ UNION {Below(g) \cup Above(g) : g \in Breaks}
      flagged == gap \cup UNION {Behind(g) : g \in Breaks}
  IN /\ stable' = left
     /\ gap' = flagged \cup {c \in left \cap InRange : \E p \in stored \ left : c \in Next2(p, stored)}
     /\ UNCHANGED stored

-----------------------------------------------------------------------------
(* The task.                                                               *)

Goto(p) == pc' = p

End(o) == Goto("idle") /\ outcome' = o

Start(k, flag) ==
  /\ pc = "idle"
  /\ task' = k
  /\ IF k = "live" /\ now - Lookback < Reach
     THEN End("fatal")
     ELSE outcome' = "none" /\ Goto(IF k = "backfill" /\ flag THEN "flag" ELSE "first")
  /\ UNCHANGED <<exchVars, tableVars, range, limit, page, faults, histVars>>

FlagGaps ==
  /\ pc = "flag" /\ Goto("first")
  /\ FlagMissing(now - FlagRange)
  /\ UNCHANGED <<exchVars, task, range, limit, page, outcome, faults, histVars>>

\* The size of a page is fixed before it is asked for.
PageSize(want) == IF want < Batch THEN want ELSE Batch

\* Mutant of AtLeast: no more than what is missing.
AtLeastNothing(n) == n

AtLeast(n) == IF n < MinPage THEN MinPage ELSE n

Ask(kind, to, n) ==
  /\ range' = [kind |-> kind, to |-> to] /\ limit' = n
  /\ Goto("request")
  /\ UNCHANGED <<exchVars, tableVars, task, page, outcome, faults, histVars>>

AskUpper == Ask("UpperBound", Top, PageSize(AtLeast(now - Last)))
AskGap(t) == Ask("Gap", t, PageSize(AtLeast(t - GapFrom(t))))

\* next_download_range; `top` is the gap that comes first for the task.
AskNext(top) ==
  \/ stored = {} /\ Ask("Latest", Top, Batch)
  \/ stored # {} /\ GapEnds # {} /\ AskGap(top)
  \/ stored # {} /\ GapEnds = {} /\ First > Reach /\ Ask("LowerBound", First, Batch)
  \/ stored # {} /\ GapEnds = {} /\ First <= Reach /\ AskUpper

EvaluateFails ==
  /\ pc \in {"first", "next"}
  /\ stored # {} /\ Unreachable
  /\ End("fatal")
  /\ UNCHANGED <<exchVars, tableVars, task, range, limit, page, faults, histVars>>

Evaluated(k) == pc \in {"first", "next"} /\ task = k /\ ~(stored # {} /\ Unreachable)

Finish ==
  /\ End("ok")
  /\ UNCHANGED <<exchVars, tableVars, task, range, limit, page, faults, histVars>>

BackfillComplete == pc = "next" /\ ~HasGaps /\ range.kind \in {"Latest", "UpperBound"}

BackfillAsk == Evaluated("backfill") /\ ~BackfillComplete /\ AskNext(LowestGap)

BackfillDone == Evaluated("backfill") /\ BackfillComplete /\ Finish

\* live() begins at the upper end, whatever gaps there are.
LiveFirst ==
  /\ Evaluated("live") /\ pc = "first"
  /\ IF stored = {} THEN Ask("Latest", Top, Batch) ELSE AskUpper

LiveComplete == stored # {} /\ Tail >= Lookback

LiveAsk == Evaluated("live") /\ pc = "next" /\ ~LiveComplete /\ AskNext(HighestGap)

LiveDone == Evaluated("live") /\ pc = "next" /\ LiveComplete /\ Finish

Receive(P) ==
  /\ pc = "request" /\ Goto("save")
  /\ page' = P
  /\ UNCHANGED <<exchVars, tableVars, task, range, limit, outcome, faults, histVars>>

Save ==
  /\ pc = "save" /\ page # {} /\ Goto("next")
  /\ AddCandles(page, range.to)
  /\ LET oldest == CHOOSE t \in page : \A u \in page : t <= u
         newest == CHOOSE t \in page : \A u \in page : u <= t
     IN skipped' = (skipped \cup (oldest..(IF range.to = Top THEN newest ELSE range.to - 1)))
                     \ page
  /\ savedAt' = IF range.to = Top THEN now ELSE savedAt
  /\ page' = {}
  /\ UNCHANGED <<exchVars, task, range, limit, outcome, faults>>

ReceivePage == Receive(Newest(limit, {t \in avail : t < range.to}))

\* "No new candles before `to` are currently available".
ReceiveNothing == range.kind = "Gap" /\ Receive({})

\* Nothing to save.
SaveNothing ==
  /\ pc = "save" /\ page = {}
  /\ \/ range.kind = "LowerBound" /\ End("fatal")
     \/ range.kind = "Gap" /\ Goto("unflag") /\ UNCHANGED outcome
     \/ range.kind \in {"Latest", "UpperBound"} /\ Goto("next") /\ UNCHANGED outcome
  /\ UNCHANGED <<exchVars, tableVars, task, range, limit, page, faults, histVars>>

\* remove_gap_flag: what is missing is left to the next flag_missing_candles.
RemoveGapFlag ==
  /\ pc = "unflag" /\ Goto("next")
  /\ gap' = gap \ {range.to}
  /\ skipped' = skipped \cup {t \in 0..(range.to - 1) : \A s \in stable : s < range.to => s < t}
  /\ UNCHANGED <<exchVars, stored, stable, task, range, limit, page, outcome, faults, savedAt>>

\* A request or a query fails for good, the task is dropped, or the process crashes.
Fail ==
  /\ pc # "idle" /\ faults < MaxFaults
  /\ faults' = faults + 1
  /\ End("failed") /\ page' = {}
  /\ UNCHANGED <<exchVars, tableVars, task, range, limit, histVars>>

-----------------------------------------------------------------------------
Exchange == Tick \/ \E t \in Times : Late(t)

Step ==
  \/ FlagGaps \/ EvaluateFails
  \/ BackfillAsk \/ BackfillDone \/ LiveFirst \/ LiveAsk \/ LiveDone
  \/ ReceivePage \/ ReceiveNothing
  \/ Save \/ SaveNothing \/ RemoveGapFlag

Next ==
  \/ Exchange
  \/ \E k \in {"backfill", "live"}, flag \in BOOLEAN : Start(k, flag)
  \/ Step
  \/ Fail

Spec == Init /\ [][Next]_vars

\* What the task awaits returns, and the exchange does not withhold the candles below a
\* gap for ever.
FairSpec == Spec /\ WF_vars(Step) /\ SF_vars(range.kind = "Gap" /\ ReceivePage)

-----------------------------------------------------------------------------
(* Properties.                                                             *)

\* u is in a hole right below the stable row t: nothing from u up to t is stable.
Hole(u, t) ==
  /\ u < t /\ \A v \in u..(t - 1) : v \notin stable
  /\ \E s \in stored : s <= u

\* No silent gap: above the first row, a minute that has no stable row below one that has
\* is announced by the `gap` flag of the latter, from which get_gaps and thus every later
\* download start; or the exchange had no candle when it was last asked.
NoSilentGap ==
  \A t \in stable, u \in Times : Hole(u, t) => t \in gap \/ u \in skipped

\* From a to b (and above the first stable row) the table has what the exchange had, and
\* what was old enough at the last save of the latest candles is final.
Complete(a, b) ==
  \A t \in a..b :
    \/ t \in skipped
    \/ \A s \in stable : t < s
    \/ IF t + StableAge <= savedAt THEN t \in stable ELSE t \in stored

\* What a download that returns Ok leaves, whatever failed before: a backfill the whole
\* history from the reach on, a live download the lookback.
CompleteWhenDone ==
  outcome = "ok" =>
    IF task = "backfill" THEN First <= Reach /\ Complete(First, Last)
    ELSE Complete(Last - Lookback, Last)

\* A backfill comes to an end: it does not fetch the same gap for ever. This supposes an
\* exchange without holes, which can make one reappear with every page.
BackfillEnds ==
  [](avail = 0..now) => (task = "backfill" /\ pc # "idle" ~> pc = "idle")
=============================================================================
