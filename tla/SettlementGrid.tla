--------------------------- MODULE SettlementGrid ----------------------------
(***************************************************************************)
(* The times of funding settlements, in hours.                             *)
(*                                                                         *)
(* The exchange changed its schedule twice: once a day at 08 (phase A),    *)
(* then at 04, 12 and 20 (B), then at 00, 08 and 16 (C), with a gap of 12  *)
(* hours at each change. The program rounds times to this grid, and the    *)
(* table is compared with it to find what is missing. The phases keep      *)
(* their hours of the day; how many days they last is a parameter.         *)
(***************************************************************************)
EXTENDS Integers

CONSTANTS
  AStart, AEnd,  \* LNM_SETTLEMENT_A_START, LNM_SETTLEMENT_A_END
  BStart, BEnd,  \* LNM_SETTLEMENT_B_START, LNM_SETTLEMENT_B_END
  CStart         \* LNM_SETTLEMENT_C_START

Day == 24      \* LNM_SETTLEMENT_INTERVAL_DAY
Interval == 8  \* LNM_SETTLEMENT_INTERVAL_8H

ASSUME PhasesAssumption ==
  /\ AStart \in Nat /\ AEnd \in Nat /\ BStart \in Nat /\ BEnd \in Nat /\ CStart \in Nat
  /\ AStart % Day = 8 /\ AEnd % Day = 8 /\ AStart <= AEnd
  /\ BStart = AEnd + 12
  /\ BEnd % Day = 4 /\ BStart < BEnd
  /\ CStart = BEnd + 12

Later(s, t) == IF s <= t THEN t ELSE s
Sooner(s, t) == IF s <= t THEN s ELSE t

\* generate_series
Series(from, to, step) == {t \in from..to : (t - from) % step = 0}

(***************************************************************************)
(* The grid points from one point to another, phase by phase, each series  *)
(* anchored at the later of `from` and the start of the phase.             *)
(***************************************************************************)
GridPoints(from, to) ==
  UNION {
    IF from <= AEnd THEN Series(Later(from, AStart), Sooner(to, AEnd), Day) ELSE {},
    IF from <= BEnd /\ to >= BStart
      THEN Series(Later(from, BStart), Sooner(to, BEnd), Interval) ELSE {},
    IF to >= CStart THEN Series(Later(from, CStart), to, Interval) ELSE {} }

\* The settlements there have been until t, by the schedule.
Settlements(t) == GridPoints(AStart, t)

Hour(t) == t % Day

IsValid(t) ==
  CASE t < BStart -> Hour(t) = 8
    [] t >= BStart /\ t < CStart -> Hour(t) % Interval = 4
    [] t >= CStart -> Hour(t) % Interval = 0

\* The hour of the first settlement of a day in phases B and C.
Offset(t) == IF t < CStart THEN 4 ELSE 0

\* The last slot of the day of t that is not after t; negative: the day before.
Slot(t) == ((Hour(t) - Offset(t)) \div Interval) * Interval + Offset(t)

Midnight(t) == t - Hour(t)

\* A settlement of phase A after its end is the first one of phase B; likewise B and C.
SnapToB(t) == IF t > AEnd THEN BStart ELSE t
SnapToC(t) == IF t > BEnd /\ t < CStart THEN CStart ELSE t

Ceil(t) ==
  CASE IsValid(t) -> t
    [] ~IsValid(t) /\ t > AEnd /\ t < BStart -> BStart
    [] ~IsValid(t) /\ t > BEnd /\ t < CStart -> CStart
    [] ~IsValid(t) /\ t <= AEnd ->
         SnapToB(Midnight(t) + 8 + (IF Hour(t) <= 8 THEN 0 ELSE Day))
    [] ~IsValid(t) /\ (t \in BStart..BEnd \/ t >= CStart) ->
         SnapToC(Midnight(t) + Slot(t) + Interval)

Floor(t) ==
  CASE IsValid(t) -> t
    [] ~IsValid(t) /\ t > AEnd /\ t < BStart -> AEnd
    [] ~IsValid(t) /\ t > BEnd /\ t < CStart -> BEnd
    [] ~IsValid(t) /\ t <= AEnd -> Midnight(t) + 8 - (IF Hour(t) >= 8 THEN 0 ELSE Day)
    [] ~IsValid(t) /\ (t \in BStart..BEnd \/ t >= CStart) -> Midnight(t) + Slot(t)
=============================================================================
