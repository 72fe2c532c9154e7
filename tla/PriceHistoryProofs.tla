------------------------- MODULE PriceHistoryProofs -------------------------
(***************************************************************************)
(* No gap of the candle table goes unflagged, whatever the sizes of pages, *)
(* the stability age and the length of the history, with any number of     *)
(* failures and whatever the exchange leaves out.                          *)
(***************************************************************************)
EXTENDS PriceHistory, SetLemmas, TLAPS

-----------------------------------------------------------------------------
(* What the CHOOSEs of the module pick.                                    *)

\* Bounded sets of times have a greatest element.
LEMMA GreatestTime ==
  ASSUME NEW n \in Nat, NEW S \in SUBSET (0..n), S # {}
  PROVE  \E m \in S : \A x \in S : x <= m
<1>1. IsFiniteSet(S)
  <2>1. IsFiniteSet(0..n)
    BY FS_Interval
  <2> QED
    BY <2>1, FS_Subset
<1>3. \A x \in S : x \in Int
  OBVIOUS
<1>2. PICK m \in S : \A x \in S : m >= x
  BY <1>1, <1>3, GreatestExists
<1> QED
  BY <1>2, <1>3

\* The newest n elements of a set are closed upwards in it.
LEMMA NewestClosed ==
  ASSUME NEW m \in Nat, NEW S \in SUBSET (0..m), NEW n \in Nat,
         NEW p \in Newest(n, S), NEW t \in S, p <= t
  PROVE  t \in Newest(n, S)
<1>6. IsFiniteSet(0..m)
  BY FS_Interval
<1>1. IsFiniteSet(S)
  BY <1>6, FS_Subset
<1> DEFINE A == {u \in S : u >= p}
           B == {u \in S : u >= t}
<1>2. IsFiniteSet(A) /\ IsFiniteSet(B)
  BY <1>1, FS_Subset
<1>7. \A u \in S : u \in Int
  OBVIOUS
<1>8. p \in S
  BY DEF Newest
<1>3. \A u \in S : u >= t => u >= p
  BY <1>7, <1>8
<1>4. Cardinality(B) <= Cardinality(A) /\ Cardinality(A) \in Nat /\ Cardinality(B) \in Nat
  <2>1. B \in SUBSET A
    BY <1>3
  <2> HIDE DEF A, B
  <2> QED
    BY <1>2, <2>1, FS_Subset, FS_CardinalityType
<1>5. Cardinality(A) <= n
  BY DEF Newest
<1> QED
  BY <1>4, <1>5 DEF Newest

-----------------------------------------------------------------------------
(* The strengthening.                                                      *)

\* The table holds candles the exchange had, and what is stable is old.
TableInv ==
  /\ stored \subseteq avail
  /\ \A t \in stable : Old(t)

\* The upper end of a page is a row, or there is none.
RangeInv ==
  /\ pc \in {"request", "save", "unflag"} =>
       \/ range.to \in stored
       \/ range.to = Top /\ range.kind \in {"Latest", "UpperBound"}
  /\ pc = "unflag" => range.kind = "Gap"

\* A page is below its upper end, and the rows from its oldest candle up are in it.
PageInv ==
  pc = "save" =>
    /\ page \subseteq avail
    /\ \A t \in page : t < range.to
    /\ \A t \in stored, p \in page : p <= t /\ t < range.to => t \in page

IInv == TypeOK /\ TableInv /\ RangeInv /\ PageInv /\ NoSilentGap

LEMMA InitIInv == Init => IInv
<1> SUFFICES ASSUME Init PROVE IInv
  OBVIOUS
<1>1. TypeOK
  BY SizesAssumption, BoundsAssumption DEF Init, TypeOK, Times, Kinds, Top
<1>2. TableInv /\ RangeInv /\ PageInv /\ NoSilentGap
  BY DEF Init, TableInv, RangeInv, PageInv, NoSilentGap
<1> QED
  BY <1>1, <1>2 DEF IInv

-----------------------------------------------------------------------------
(* What is read off the table.                                             *)

LEMMA FirstIsRow ==
  ASSUME TypeOK, stored # {}
  PROVE  First \in stored /\ First \in 0..now /\ now \in Nat
<1>1. stored \in SUBSET Nat /\ now \in Nat
  BY SizesAssumption DEF TypeOK, Times
<1>2. \E m \in stored : \A x \in stored : m <= x
  BY <1>1, LeastNatural
<1>3. First \in stored
  BY <1>2 DEF First
<1> QED
  BY <1>1, <1>3 DEF TypeOK

LEMMA LastIsRow ==
  ASSUME TypeOK, stored # {}
  PROVE  Last \in stored /\ Last \in 0..now /\ now \in Nat
<1>1. stored \in SUBSET (0..now) /\ now \in Nat
  BY SizesAssumption DEF TypeOK, Times
<1>2. \E m \in stored : \A x \in stored : x <= m
  BY <1>1, GreatestTime
<1>3. Last \in stored
  BY <1>2 DEF Last
<1> QED
  BY <1>1, <1>3 DEF TypeOK

LEMMA GapEndsAreRows == TypeOK => GapEnds \subseteq stored \cap (0..now)
BY DEF TypeOK, GapEnds

LEMMA LowestGapIsRow ==
  ASSUME TypeOK, GapEnds # {}
  PROVE  LowestGap \in GapEnds
<1>1. GapEnds \in SUBSET Nat
  BY GapEndsAreRows, SizesAssumption DEF TypeOK, Times
<1>2. \E m \in GapEnds : \A x \in GapEnds : m <= x
  BY <1>1, LeastNatural
<1> QED
  BY <1>2 DEF LowestGap

LEMMA HighestGapIsRow ==
  ASSUME TypeOK, GapEnds # {}
  PROVE  HighestGap \in GapEnds
<1>1. GapEnds \in SUBSET (0..now) /\ now \in Nat
  BY GapEndsAreRows, SizesAssumption DEF TypeOK, Times
<1>2. \E m \in GapEnds : \A x \in GapEnds : x <= m
  BY <1>1, GreatestTime
<1> QED
  BY <1>2 DEF HighestGap

LEMMA GapFromIsTime ==
  ASSUME TypeOK, NEW t \in GapEnds
  PROVE  GapFrom(t) \in 0..now /\ t \in 0..now /\ now \in Nat
<1> DEFINE S == {s \in stable : s < t}
<1>5. now \in Nat /\ stable \subseteq 0..now
  BY SizesAssumption DEF TypeOK, Times
<1>6. S \subseteq 0..now /\ S # {}
  BY <1>5 DEF GapEnds
<1>1. S \in SUBSET (0..now)
  BY <1>6
<1>2. PICK m \in S : \A x \in S : x <= m
  <2> HIDE DEF S
  <2> QED
    BY <1>1, <1>5, <1>6, GreatestTime
<1>3. m \in stable /\ m < t /\ \A u \in stable : u < t => u <= m
  BY <1>2
<1>4. GapFrom(t) \in stable
  BY <1>3 DEF GapFrom
<1> QED
  BY <1>4, <1>5, GapEndsAreRows

LEMMA BatchType == Batch \in 0..Batch
BY SizesAssumption

LEMMA PageSizeType ==
  ASSUME NEW n \in Int
  PROVE  PageSize(AtLeast(n)) \in 0..Batch
BY SizesAssumption DEF PageSize, AtLeast

-----------------------------------------------------------------------------
(* Types.                                                                  *)

LEMMA AskType ==
  ASSUME TypeOK, NEW k \in Kinds, NEW to \in 0..Top, NEW n \in 0..Batch,
         Ask(k, to, n)
  PROVE  TypeOK'
BY DEF TypeOK, Ask, Goto, exchVars, tableVars, histVars, Times, Kinds, Top

LEMMA TopIsEnd == Top \in 0..Top /\ \A t \in 0..now : TypeOK => t \in 0..Top
BY SizesAssumption DEF Top, TypeOK, Times

LEMMA AskUpperType ==
  ASSUME TypeOK, stored # {}, AskUpper
  PROVE  TypeOK'
<1>1. now - Last \in Int
  BY LastIsRow
<1> QED
  BY <1>1, PageSizeType, TopIsEnd, AskType DEF AskUpper, Kinds

LEMMA AskGapType ==
  ASSUME TypeOK, NEW t \in GapEnds, AskGap(t)
  PROVE  TypeOK'
<1>1. t - GapFrom(t) \in Int /\ t \in 0..now
  BY GapFromIsTime
<1> QED
  BY <1>1, PageSizeType, TopIsEnd, AskType DEF AskGap, Kinds

LEMMA AskNextType ==
  ASSUME TypeOK, NEW top, GapEnds # {} => top \in GapEnds, AskNext(top)
  PROVE  TypeOK'
<1>1. CASE stored = {} /\ Ask("Latest", Top, Batch)
  BY <1>1, BatchType, TopIsEnd, AskType DEF Kinds
<1>2. CASE stored # {} /\ GapEnds # {} /\ AskGap(top)
  BY <1>2, AskGapType
<1>3. CASE stored # {} /\ GapEnds = {} /\ First > Reach /\ Ask("LowerBound", First, Batch)
  BY <1>3, BatchType, FirstIsRow, TopIsEnd, AskType DEF Kinds
<1>4. CASE stored # {} /\ GapEnds = {} /\ First <= Reach /\ AskUpper
  BY <1>4, AskUpperType
<1> QED
  BY <1>1, <1>2, <1>3, <1>4 DEF AskNext

\* The least and the greatest candle of a page, as the module picks them.
LEMMA OldestIsCandle ==
  ASSUME TypeOK, page # {}
  PROVE  LET oldest == CHOOSE t \in page : \A u \in page : t <= u
         IN oldest \in page /\ \A u \in page : oldest <= u
<1>1. page \in SUBSET Nat
  BY SizesAssumption DEF TypeOK, Times
<1>2. \E m \in page : \A x \in page : m <= x
  BY <1>1, LeastNatural
<1> QED
  BY <1>2

LEMMA NewestIsCandle ==
  ASSUME TypeOK, page # {}
  PROVE  LET newest == CHOOSE t \in page : \A u \in page : u <= t
         IN newest \in page /\ \A u \in page : u <= newest
<1>1. page \in SUBSET (0..now) /\ now \in Nat
  BY SizesAssumption DEF TypeOK, Times
<1>2. \E m \in page : \A x \in page : x <= m
  BY <1>1, GreatestTime
<1> QED
  BY <1>2

LEMMA FlagMissingType ==
  ASSUME TypeOK, NEW cut, FlagMissing(cut)
  PROVE  stored' = stored /\ stable' \in SUBSET stored /\ gap' \in SUBSET stored
BY DEF FlagMissing, TypeOK

LEMMA SaveType ==
  ASSUME TypeOK, RangeInv, PageInv, Save
  PROVE  TypeOK'
<1> DEFINE oldest == CHOOSE t \in page : \A u \in page : t <= u
           newest == CHOOSE t \in page : \A u \in page : u <= t
           to == IF range.to = Top THEN newest ELSE range.to - 1
<1>1. page # {} /\ pc = "save"
  BY DEF Save
<1>2. oldest \in page /\ newest \in page
  BY <1>1, OldestIsCandle, NewestIsCandle
<1>3. now \in Nat /\ now <= MaxTime /\ page \subseteq 0..now
  BY SizesAssumption DEF TypeOK, Times
<1>4. range.to = Top \/ range.to \in 0..now
  BY <1>1 DEF RangeInv, TypeOK
<1>6. skipped' = (skipped \cup (oldest..to)) \ page
  BY DEF Save
<1> HIDE DEF oldest, newest
<1>5. oldest \in Nat /\ to \in Int /\ to <= now
  <2>1. oldest \in 0..now /\ newest \in 0..now
    BY <1>2, <1>3
  <2> QED
    BY <1>3, <1>4, <2>1
<1> HIDE DEF to
<1>7. \A t \in oldest..to : t \in 0..now
  BY <1>3, <1>5
<1>8. skipped' \in SUBSET (0..now)
  BY <1>6, <1>7 DEF TypeOK
<1>9. /\ stored' = stored \cup page
      /\ stable' = (stable \ page) \cup {t \in page : Old(t)}
      /\ gap' = (gap \ (page \cup {range.to})) \cup GapBefore(oldest)
  BY DEF Save, AddCandles, oldest
<1>10. GapBefore(oldest) \subseteq page
  BY <1>2 DEF GapBefore
<1>11. stored' \in SUBSET (0..now) /\ stable' \in SUBSET stored' /\ gap' \in SUBSET stored'
  BY <1>9, <1>10 DEF TypeOK
<1>12. savedAt' \in Times
  BY DEF Save, TypeOK
<1> QED
  BY <1>8, <1>11, <1>12 DEF TypeOK, Save, Goto, exchVars, Times

LEMMA TypeStep ==
  ASSUME IInv, [Next]_vars
  PROVE  TypeOK'
<1> USE DEF TypeOK
<1>1. TypeOK /\ RangeInv /\ PageInv
  BY DEF IInv
<1>2. now \in Nat /\ now <= MaxTime
  BY <1>1, SizesAssumption DEF Times
<1>3. CASE Tick
  <2>1. now' = now + 1 /\ now' \in Times /\ 0..now \subseteq 0..now'
    BY <1>2, <1>3, SizesAssumption DEF Tick, Times
  <2>2. avail' \subseteq 0..now'
    BY <1>1, <1>2, <1>3, <2>1 DEF Tick
  <2> QED
    BY <1>1, <1>3, <2>1, <2>2 DEF Tick, tableVars, taskVars, histVars
<1>4. CASE \E t \in Times : Late(t)
  BY <1>1, <1>4 DEF Late, tableVars, taskVars, histVars
<1>5. CASE \E k \in {"backfill", "live"}, flag \in BOOLEAN : Start(k, flag)
  BY <1>1, <1>5 DEF Start, End, Goto, exchVars, tableVars, histVars
<1>6. CASE FlagGaps
  BY <1>1, <1>6, FlagMissingType DEF FlagGaps, Goto, exchVars, histVars
<1>7. CASE EvaluateFails \/ BackfillDone \/ LiveDone
  BY <1>1, <1>7 DEF EvaluateFails, BackfillDone, LiveDone, Finish, End, Goto,
                    exchVars, tableVars, histVars
<1>8. CASE BackfillAsk
  BY <1>1, <1>8, LowestGapIsRow, AskNextType DEF BackfillAsk
<1>9. CASE LiveFirst
  <2>1. CASE stored = {}
    BY <1>1, <1>9, <2>1, BatchType, TopIsEnd, AskType DEF LiveFirst, Kinds
  <2>2. CASE stored # {}
    BY <1>1, <1>9, <2>2, AskUpperType DEF LiveFirst
  <2> QED
    BY <2>1, <2>2
<1>10. CASE LiveAsk
  BY <1>1, <1>10, HighestGapIsRow, AskNextType DEF LiveAsk
<1>11. CASE ReceivePage \/ ReceiveNothing
  <2>1. PICK P \in SUBSET (0..now) : Receive(P)
    BY <1>1, <1>11 DEF ReceivePage, ReceiveNothing, Newest
  <2> QED
    BY <1>1, <2>1 DEF Receive, Goto, exchVars, tableVars, histVars
<1>12. CASE Save
  BY <1>1, <1>12, SaveType
<1>13. CASE SaveNothing
  BY <1>1, <1>13 DEF SaveNothing, End, Goto, exchVars, tableVars, histVars
<1>14. CASE RemoveGapFlag
  <2>1. range.to \in 0..now
    BY <1>1, <1>14 DEF RemoveGapFlag, RangeInv
  <2>2. \A t \in 0..(range.to - 1) : t \in 0..now
    BY <1>2, <2>1
  <2> QED
    BY <1>1, <1>14, <2>2 DEF RemoveGapFlag, Goto, exchVars
<1>15. CASE Fail
  <2>1. faults' \in 0..MaxFaults
    BY <1>1, <1>15, BoundsAssumption DEF Fail
  <2> QED
    BY <1>1, <1>15, <2>1 DEF Fail, End, Goto, exchVars, tableVars, histVars
<1>16. CASE UNCHANGED vars
  BY <1>1, <1>16 DEF vars, exchVars, tableVars, taskVars, histVars
<1> QED
  BY <1>3, <1>4, <1>5, <1>6, <1>7, <1>8, <1>9, <1>10, <1>11, <1>12, <1>13, <1>14,
     <1>15, <1>16 DEF Next, Step, Exchange

-----------------------------------------------------------------------------
(* The table, the range and the page.                                      *)

\* Time passes, and what was old stays so.
LEMMA OldStaysOld ==
  ASSUME TypeOK, TypeOK', [Next]_vars
  PROVE  now <= now' /\ now \in Nat /\ now' \in Nat /\ \A t \in Nat : Old(t) => Old(t)'
<1>1. now \in Nat /\ now' \in Nat
  BY SizesAssumption DEF TypeOK, Times
<1>2. now' = now \/ now' = now + 1
  BY DEF Next, Step, Exchange, Tick, Late, Start, FlagGaps, EvaluateFails, BackfillAsk,
         BackfillDone, LiveFirst, LiveAsk, LiveDone, AskNext, AskUpper, AskGap, Ask,
         Finish, ReceivePage, ReceiveNothing, Receive, Save, SaveNothing, RemoveGapFlag,
         Fail, vars, exchVars
<1>3. now <= now'
  BY <1>1, <1>2
<1> QED
  BY <1>1, <1>3, SizesAssumption DEF Old

\* Only three actions write the table.
LEMMA TableWriters ==
  ASSUME [Next]_vars
  PROVE  FlagGaps \/ Save \/ RemoveGapFlag \/ UNCHANGED <<tableVars, skipped>>
BY DEF Next, Step, Exchange, Tick, Late, Start, EvaluateFails, BackfillAsk, BackfillDone,
       LiveFirst, LiveAsk, LiveDone, AskNext, AskUpper, AskGap, Ask, Finish, ReceivePage,
       ReceiveNothing, Receive, SaveNothing, Fail, vars, histVars

LEMMA TableStep ==
  ASSUME IInv, TypeOK', [Next]_vars
  PROVE  TableInv'
<1>1. TypeOK /\ TableInv /\ PageInv
  BY DEF IInv
<1>2. avail \subseteq avail'
  BY DEF Next, Step, Exchange, Tick, Late, Start, FlagGaps, EvaluateFails, BackfillAsk,
         BackfillDone, LiveFirst, LiveAsk, LiveDone, AskNext, AskUpper, AskGap, Ask,
         Finish, ReceivePage, ReceiveNothing, Receive, Save, SaveNothing, RemoveGapFlag,
         Fail, vars, exchVars
<1>3. \A t \in Nat : Old(t) => Old(t)'
  BY <1>1, OldStaysOld
<1>4. /\ stable \subseteq Nat /\ page \subseteq Nat
      /\ \A t \in stable : Old(t)
  BY <1>1 DEF TypeOK, TableInv
<1>5. CASE FlagGaps
  <2>1. stored' = stored /\ stable' \subseteq stable
    BY <1>5 DEF FlagGaps, FlagMissing
  <2>2. \A t \in stable' : Old(t)'
    BY <1>3, <1>4, <2>1
  <2> QED
    BY <1>1, <1>2, <2>1, <2>2 DEF TableInv
<1>6. CASE Save
  <2>1. stored' = stored \cup page /\ page \subseteq avail
    BY <1>1, <1>6 DEF Save, AddCandles, PageInv
  <2>2. \A t \in stable' : t \in Nat /\ Old(t)
    BY <1>4, <1>6 DEF Save, AddCandles
  <2>3. \A t \in stable' : Old(t)'
    BY <1>3, <2>2
  <2> QED
    BY <1>1, <1>2, <2>1, <2>3 DEF TableInv
<1>7. CASE RemoveGapFlag \/ UNCHANGED <<tableVars, skipped>>
  <2>1. stored' = stored /\ stable' = stable
    BY <1>7 DEF RemoveGapFlag, tableVars
  <2>2. \A t \in stable' : Old(t)'
    BY <1>3, <1>4, <2>1
  <2> QED
    BY <1>1, <1>2, <2>1, <2>2 DEF TableInv
<1> QED
  BY <1>5, <1>6, <1>7, TableWriters

LEMMA AskRange ==
  ASSUME NEW k, NEW to, NEW n, Ask(k, to, n),
         to \in stored \/ (to = Top /\ k \in {"Latest", "UpperBound"})
  PROVE  RangeInv' /\ PageInv'
BY DEF Ask, Goto, RangeInv, PageInv, tableVars, Top

LEMMA AskNextRange ==
  ASSUME TypeOK, NEW top, GapEnds # {} => top \in GapEnds, AskNext(top)
  PROVE  RangeInv' /\ PageInv'
<1>1. CASE stored = {} /\ Ask("Latest", Top, Batch)
  <2>1. "Latest" \in {"Latest", "UpperBound"}
    OBVIOUS
  <2> QED
    BY <1>1, <2>1, AskRange
<1>2. CASE stored # {} /\ GapEnds # {} /\ AskGap(top)
  <2>1. top \in stored
    BY <1>2, GapEndsAreRows
  <2> QED
    BY <1>2, <2>1, AskRange DEF AskGap
<1>3. CASE stored # {} /\ GapEnds = {} /\ First > Reach /\ Ask("LowerBound", First, Batch)
  BY <1>3, FirstIsRow, AskRange
<1>4. CASE stored # {} /\ GapEnds = {} /\ First <= Reach /\ AskUpper
  BY <1>4, AskRange DEF AskUpper
<1> QED
  BY <1>1, <1>2, <1>3, <1>4 DEF AskNext

\* A page is closed upwards below its end, in what the exchange has and so in the table.
LEMMA ReceiveRange ==
  ASSUME TypeOK, TableInv, RangeInv, ReceivePage
  PROVE  RangeInv' /\ PageInv'
<1> DEFINE S == {t \in avail : t < range.to}
<1>1. /\ pc = "request" /\ pc' = "save" /\ page' = Newest(limit, S)
      /\ UNCHANGED <<exchVars, tableVars, range>>
  BY DEF ReceivePage, Receive, Goto
<1>6. now \in Nat /\ limit \in Nat /\ avail \subseteq 0..now
  BY SizesAssumption DEF TypeOK, Times
<1>2. S \in SUBSET (0..now) /\ now \in Nat /\ limit \in Nat
  BY <1>6
<1>3. page' \subseteq S
  BY <1>1 DEF Newest
<1>4. ASSUME NEW t \in stored, NEW p \in page', p <= t, t < range.to
      PROVE  t \in page'
  <2>1. t \in S
    BY <1>4 DEF TableInv
  <2> HIDE DEF S
  <2> QED
    BY <1>1, <1>2, <1>4, <2>1, NewestClosed
<1>5. PageInv'
  BY <1>1, <1>3, <1>4 DEF PageInv, exchVars, tableVars
<1> QED
  BY <1>1, <1>5 DEF RangeInv, tableVars, Top

LEMMA RangeStep ==
  ASSUME IInv, [Next]_vars
  PROVE  RangeInv' /\ PageInv'
<1>1. TypeOK /\ TableInv /\ RangeInv /\ PageInv
  BY DEF IInv
<1> USE DEF RangeInv, PageInv, Top
<1>2. CASE Tick \/ (\E t \in Times : Late(t)) \/ UNCHANGED vars
  BY <1>1, <1>2 DEF Tick, Late, tableVars, taskVars, vars, exchVars
<1>3. CASE \E k \in {"backfill", "live"}, flag \in BOOLEAN : Start(k, flag)
  BY <1>3 DEF Start, End, Goto
<1>4. CASE FlagGaps \/ EvaluateFails \/ BackfillDone \/ LiveDone \/ Save \/ RemoveGapFlag
           \/ Fail
  BY <1>4 DEF FlagGaps, EvaluateFails, BackfillDone, LiveDone, Finish, Save, RemoveGapFlag,
              Fail, End, Goto
<1>5. CASE BackfillAsk
  BY <1>1, <1>5, LowestGapIsRow, AskNextRange DEF BackfillAsk
<1>6. CASE LiveAsk
  BY <1>1, <1>6, HighestGapIsRow, AskNextRange DEF LiveAsk
<1>7. CASE LiveFirst
  BY <1>7, AskRange DEF LiveFirst, AskUpper
<1>8. CASE ReceivePage
  BY <1>1, <1>8, ReceiveRange
<1>9. CASE ReceiveNothing
  BY <1>1, <1>9 DEF ReceiveNothing, Receive, Goto, tableVars
<1>10. CASE SaveNothing
  BY <1>1, <1>10 DEF SaveNothing, End, Goto, tableVars
<1> QED
  BY <1>2, <1>3, <1>4, <1>5, <1>6, <1>7, <1>8, <1>9, <1>10 DEF Next, Step, Exchange

-----------------------------------------------------------------------------
(* No silent gap.                                                          *)

\* A page that is saved leaves no silent gap: inside the page what is missing is skipped,
\* below it the oldest candle carries the flag, and the row at its upper end, whose flag
\* goes, has nothing but the page below it.
LEMMA SaveLeavesNoGap ==
  ASSUME IInv, Save
  PROVE  NoSilentGap'
<1> DEFINE oldest == CHOOSE t \in page : \A u \in page : t <= u
           newest == CHOOSE t \in page : \A u \in page : u <= t
           end == IF range.to = Top THEN newest ELSE range.to - 1
           to == range.to
<1>1. /\ TypeOK /\ TableInv /\ RangeInv /\ PageInv /\ NoSilentGap
      /\ page # {} /\ pc = "save"
  BY DEF IInv, Save
<1>2. /\ oldest \in page /\ \A x \in page : oldest <= x
      /\ newest \in page /\ \A x \in page : x <= newest
  BY <1>1, OldestIsCandle, NewestIsCandle
<1>3. /\ stored' = stored \cup page
      /\ stable' = (stable \ page) \cup {x \in page : Old(x)}
      /\ gap' = (gap \ (page \cup {to})) \cup GapBefore(oldest)
      /\ skipped' = (skipped \cup (oldest..end)) \ page
  BY DEF Save, AddCandles
<1> HIDE DEF oldest, newest
<1>4. /\ now \in Nat /\ page \subseteq 0..now /\ stored \subseteq 0..now
      /\ stable \subseteq stored /\ now < Top /\ Top \in Nat
  BY <1>1, SizesAssumption DEF TypeOK, Times, Top
<1>5. (to = Top \/ to \in stored) /\ to \in Nat
  <2>1. to = Top \/ to \in stored
    BY <1>1 DEF RangeInv
  <2>2. \A x \in stored : x \in Nat
    BY <1>4
  <2> QED
    BY <1>4, <2>1, <2>2
<1>6. /\ \A x \in page : x < to
      /\ \A x \in stored : oldest <= x /\ x < to => x \in page
  BY <1>1, <1>2 DEF PageInv
<1>7. \A x \in stable' : Old(x) /\ x \in 0..now
  BY <1>1, <1>3, <1>4 DEF TableInv
<1>8. stable \subseteq stable'
  BY <1>1, <1>3 DEF TableInv
<1>9. \A x \in oldest..end : x \in page \/ x \in skipped'
  BY <1>3
<1>10. ASSUME NEW t \in stable', NEW u \in Times, Hole(u, t)', t \notin gap'
       PROVE  u \in skipped'
  <2>1. /\ u < t /\ u \in Nat /\ t \in 0..now
        /\ \A v \in u..(t - 1) : v \notin stable'
    BY <1>7, <1>10, SizesAssumption DEF Hole, Times
  <2>2. PICK r \in stored' : r <= u
    BY <1>10 DEF Hole
  <2>3. ASSUME NEW x \in page, u <= x, x < t PROVE FALSE
    <3>1. Old(x)
      <4>1. Old(t) /\ x \in Nat /\ t \in Nat
        BY <1>4, <1>7, <2>1
      <4> QED
        BY <1>4, <2>3, <4>1, SizesAssumption DEF Old
    <3>2. x \in u..(t - 1)
      BY <1>4, <2>1, <2>3
    <3> QED
      BY <1>3, <2>1, <3>1, <3>2
  <2>4. u \notin page
    BY <2>1, <2>3
  <2>5. oldest \in Nat /\ newest \in Nat /\ oldest <= newest
    BY <1>2, <1>4
  <2>6. oldest < u \/ t <= oldest
    BY <1>2, <2>1, <2>3, <2>4, <2>5
  \* The hole was there before the page.
  <2>7. ASSUME t \in stable, t \notin page, t # to, \E x \in stored : x <= u
        PROVE  u \in skipped'
    <3>1. t \notin gap
      BY <1>3, <1>10, <2>7
    <3>2. Hole(u, t)
      BY <1>8, <2>1, <2>7 DEF Hole
    <3>3. u \in skipped
      BY <1>1, <1>10, <2>7, <3>1, <3>2 DEF NoSilentGap
    <3> QED
      BY <1>3, <2>4, <3>3
  <2>8. CASE t = oldest
    <3>1. t - 1 \in stable
      BY <1>3, <1>10, <2>8 DEF GapBefore
    <3>2. t - 1 \in u..(t - 1)
      BY <2>1
    <3> QED
      BY <1>8, <2>1, <3>1, <3>2
  <2>9. CASE t \in page /\ t # oldest
    <3>1. t \in Nat /\ oldest < t /\ t <= newest /\ t < to
      BY <1>2, <1>4, <1>6, <2>1, <2>5, <2>9
    <3>2. u \in oldest..end
      BY <1>5, <2>1, <2>5, <2>6, <3>1
    <3> QED
      BY <1>9, <2>4, <3>2
  <2>10. CASE t \notin page /\ t < oldest
    <3>1. t \in stable
      BY <1>3, <2>10
    <3>2. oldest < to
      BY <1>2, <1>6
    <3>3. r \in stored
      <4>1. ASSUME r \in page PROVE FALSE
        <5>1. r \in Nat /\ oldest <= r
          BY <1>2, <1>4, <4>1
        <5> QED
          BY <2>1, <2>2, <2>5, <2>10, <5>1
      <4> QED
        BY <1>3, <4>1
    <3>4. t # to
      BY <1>5, <2>1, <2>5, <2>10, <3>2
    <3> QED
      BY <2>2, <2>7, <2>10, <3>1, <3>3, <3>4
  <2>11. CASE t \notin page /\ oldest < t
    <3>1. t \in stable /\ t \in stored
      BY <1>3, <1>4, <2>11
    <3>2. to <= t
      BY <1>5, <1>6, <2>1, <2>5, <2>11, <3>1
    <3>3. to # Top /\ to \in stored
      BY <1>4, <1>5, <2>1, <3>2
    <3>4. oldest < u
      BY <2>1, <2>5, <2>6, <2>11
    <3>5. CASE u < to
      <4>1. u \in oldest..end
        BY <1>5, <2>1, <2>5, <3>3, <3>4, <3>5
      <4> QED
        BY <1>9, <2>4, <4>1
    <3>6. CASE to <= u
      BY <1>5, <2>1, <2>7, <2>11, <3>1, <3>3, <3>6
    <3> QED
      BY <1>5, <2>1, <3>5, <3>6
  <2> QED
    BY <2>1, <2>5, <2>8, <2>9, <2>10, <2>11
<1> QED
  BY <1>10 DEF NoSilentGap, Times

\* The flag of missing candles goes to the first row above what it makes unstable.
LEMMA FlagMissingFacts ==
  ASSUME TypeOK, NEW cut \in Int, FlagMissing(cut)
  PROVE  /\ stored' = stored /\ stable' \subseteq stable /\ gap \subseteq gap'
         /\ \A v \in stable \ stable' : v >= cut
         /\ \A t \in stable', p \in stored \ stable' :
              /\ t >= cut /\ p < t
              /\ \A w \in stored : w > p => t <= w
              => t \in gap'
<1> DEFINE InRange == {t \in stored : t >= cut}
           Next2(t, S) == {u \in S : u > t /\ \A v \in stored : v > t => u <= v}
           Breaks == {g \in stable \cap InRange :
                        \E n \in Next2(g, stable \ gap) : n > g + 1}
           Rank(g, t) == Cardinality({u \in InRange : g < u /\ u <= t})
           Below(g) == {t \in InRange :
                          t <= g /\ Cardinality({u \in InRange : t <= u /\ u <= g}) <= Buffer}
           Above(g) == {t \in InRange : t > g /\ Rank(g, t) <= Buffer}
           Behind(g) == {t \in InRange : t > g /\ Rank(g, t) = Buffer + 1}
           lost == UNION {Below(g) \cup Above(g) : g \in Breaks}
           left == stable \ lost
           behind == UNION {Behind(g) : g \in Breaks}
           after == {c \in left \cap InRange : \E p \in stored \ left : c \in Next2(p, stored)}
<1>1. stored' = stored /\ stable' = left /\ gap' = (gap \cup behind) \cup after
  BY DEF FlagMissing
<1>2. lost \subseteq InRange
  OBVIOUS
<1> HIDE DEF lost, behind
<1>3. stable \subseteq stored
  BY DEF TypeOK
<1>4. \A v \in stable \ stable' : v >= cut
  BY <1>1, <1>2
<1>5. ASSUME NEW t \in stable', NEW p \in stored \ stable', t >= cut, t > p,
             \A w \in stored : w > p => t <= w
      PROVE  t \in gap'
  <2>1. t \in left \cap InRange
    BY <1>1, <1>3, <1>5
  <2>2. p \in stored \ left /\ t \in Next2(p, stored)
    BY <1>1, <1>3, <1>5
  <2>3. t \in after
    BY <2>1, <2>2
  <2> QED
    BY <1>1, <2>3
<1> QED
  BY <1>1, <1>4, <1>5

LEMMA FlagLeavesNoGap ==
  ASSUME IInv, FlagGaps
  PROVE  NoSilentGap'
<1> DEFINE cut == now - FlagRange
<1>1. TypeOK /\ NoSilentGap /\ FlagMissing(cut) /\ skipped' = skipped
  BY DEF IInv, FlagGaps, histVars
<1>2. now \in Nat /\ cut \in Int /\ stored \subseteq 0..now /\ stable \subseteq stored
  BY <1>1, SizesAssumption DEF TypeOK, Times
<1> HIDE DEF cut
<1>3. /\ stored' = stored /\ stable' \subseteq stable /\ gap \subseteq gap'
      /\ \A v \in stable \ stable' : v >= cut
      /\ \A t \in stable', p \in stored \ stable' :
           /\ t >= cut /\ p < t
           /\ \A w \in stored : w > p => t <= w
           => t \in gap'
  BY <1>1, <1>2, FlagMissingFacts
<1>4. ASSUME NEW t \in stable', NEW u \in Times, Hole(u, t)'
      PROVE  t \in gap' \/ u \in skipped'
  <2>1. /\ u < t /\ u \in Nat /\ t \in stable /\ t \in Nat /\ t \in 0..now
        /\ \A v \in u..(t - 1) : v \notin stable'
        /\ \E s \in stored : s <= u
    BY <1>2, <1>3, <1>4, SizesAssumption DEF Hole, Times
  <2>2. CASE \A v \in u..(t - 1) : v \notin stable
    <3>1. Hole(u, t)
      BY <2>1, <2>2 DEF Hole
    <3> QED
      BY <1>1, <1>3, <2>1, <3>1 DEF NoSilentGap
  <2>3. CASE \E v \in u..(t - 1) : v \in stable
    <3>1. PICK v \in u..(t - 1) : v \in stable
      BY <2>3
    <3>2. v \in stable \ stable' /\ v \in Int /\ u <= v /\ v < t /\ v >= cut
      BY <1>3, <2>1, <3>1
    <3> DEFINE D == {x \in stored : x < t}
    <3>3. D \in SUBSET (0..now) /\ v \in D
      BY <1>2, <3>1, <3>2
    <3>4. PICK p \in D : \A x \in D : x <= p
      <4> HIDE DEF D
      <4> QED
        BY <1>2, <3>3, GreatestTime
    <3>5. p \in stored /\ p < t /\ v <= p /\ p \in Int
      BY <1>2, <3>3, <3>4
    <3>6. p \notin stable'
      BY <2>1, <3>2, <3>5
    <3>7. ASSUME NEW w \in stored, w > p PROVE t <= w
      <4>1. w \in Int
        BY <1>2
      <4>2. w < t => w <= p
        BY <3>4
      <4> QED
        BY <2>1, <3>5, <3>7, <4>1, <4>2
    <3>8. t >= cut
      BY <1>2, <2>1, <3>2
    <3> QED
      BY <1>3, <3>5, <3>6, <3>7, <3>8
  <2> QED
    BY <2>2, <2>3
<1> QED
  BY <1>4 DEF NoSilentGap, Times

LEMMA UnflagLeavesNoGap ==
  ASSUME IInv, RemoveGapFlag
  PROVE  NoSilentGap'
<1> DEFINE below == {x \in 0..(range.to - 1) : \A s \in stable : s < range.to => s < x}
<1>1. /\ TypeOK /\ RangeInv /\ NoSilentGap /\ pc = "unflag"
      /\ stored' = stored /\ stable' = stable /\ gap' = gap \ {range.to}
      /\ skipped' = skipped \cup below
  BY DEF IInv, RemoveGapFlag
<1>2. now \in Nat /\ stable \subseteq 0..now
  BY <1>1, SizesAssumption DEF TypeOK, Times
<1>3. ASSUME NEW t \in stable, NEW u \in Times, Hole(u, t)
      PROVE  t \in gap' \/ u \in skipped'
  <2>1. t \in Nat /\ u \in Nat /\ u < t /\ \A v \in u..(t - 1) : v \notin stable
    BY <1>2, <1>3, SizesAssumption DEF Hole, Times
  <2>2. CASE t = range.to
    <3>1. ASSUME NEW s \in stable, s < t PROVE s < u
      <4>1. s \in Int /\ ~(s \in u..(t - 1))
        BY <1>2, <2>1
      <4> QED
        BY <2>1, <3>1, <4>1
    <3>2. u \in below
      BY <2>1, <2>2, <3>1
    <3> QED
      BY <1>1, <3>2
  <2>3. CASE t # range.to
    BY <1>1, <1>3, <2>3 DEF NoSilentGap
  <2> QED
    BY <2>2, <2>3
<1> QED
  BY <1>1, <1>3 DEF NoSilentGap, Hole, Times

LEMMA NextIInv ==
  ASSUME IInv, [Next]_vars
  PROVE  IInv'
<1>1. TypeOK'
  BY TypeStep
<1>2. TableInv' /\ RangeInv' /\ PageInv'
  BY <1>1, TableStep, RangeStep
<1>3. NoSilentGap'
  <2>1. CASE UNCHANGED <<tableVars, skipped>>
    BY <2>1 DEF IInv, NoSilentGap, Hole, tableVars, Times
  <2> QED
    BY <2>1, SaveLeavesNoGap, FlagLeavesNoGap, UnflagLeavesNoGap, TableWriters
<1> QED
  BY <1>1, <1>2, <1>3 DEF IInv

-----------------------------------------------------------------------------

\* The rows, the flags and the position of the task keep their types: a page never has
\* rows of the future, and the flags are on rows.
THEOREM TypeInvariant == Spec => []TypeOK
<1>1. IInv => TypeOK
  BY DEF IInv
<1> QED
  BY InitIInv, NextIInv, <1>1, PTL DEF Spec

\* Whatever pages are fetched, saved or lost, and whatever the exchange lacks or supplies
\* late: what is missing right below a stable row is announced by its `gap` flag, or the
\* exchange did not have it.
THEOREM GapTheorem == Spec => []NoSilentGap
<1>1. IInv => NoSilentGap
  BY DEF IInv
<1> QED
  BY InitIInv, NextIInv, <1>1, PTL DEF Spec
-----------------------------------------------------------------------------
(* What a finished download leaves.                                        *)

\* The page of the latest candles, if one was due, has been saved.
Settled ==
  \/ pc = "next" /\ (task = "live" \/ range.to = Top)
  \/ task = "live" /\ pc \in {"request", "save", "unflag"} /\ range.to # Top

\* What a run of the task is about.
CallInv ==
  /\ savedAt <= now
  /\ pc # "idle" => outcome = "none"
  /\ range.kind \in {"Latest", "UpperBound"} <=> range.to = Top
  /\ pc \in {"request", "save"} /\ range.to = Top => limit > StableAge

\* A page of the latest candles has all that the table has, or goes down to old ones.
FreshInv ==
  pc = "save" /\ range.to = Top => \A y \in stored \ page : \E p \in page : Old(p)

\* Above all that is stable, up to the last row, there are rows too young to be, and what
\* the exchange did not have.
TopInv ==
  Settled =>
    \A t \in Times :
      /\ \E s \in stored : s <= t
      /\ \E s \in stored : t <= s
      /\ \A s \in stable : s < t
      => t \in skipped \/ (t \in stored /\ t + StableAge > savedAt)

CInv == CallInv /\ FreshInv /\ TopInv /\ CompleteWhenDone

LEMMA InitCInv == Init => CInv
<1> SUFFICES ASSUME Init PROVE CInv
  OBVIOUS
<1>1. StableAge \in Nat /\ now \in Nat
  BY SizesAssumption DEF Init
<1> QED
  BY <1>1 DEF Init, CInv, CallInv, FreshInv, TopInv, Settled, CompleteWhenDone

\* A page of more candles than stay young goes down to an old one, if it leaves any out.
LEMMA NewestGoesBack ==
  ASSUME NEW m \in Nat, NEW S \in SUBSET (0..m), NEW n \in Nat, NEW age \in Nat, n > age,
         NEW y \in S, y \notin Newest(n, S)
  PROVE  \E p \in Newest(n, S) : p + age <= m
<1> DEFINE A == {u \in S : u >= y}
           O == {u \in S : u + age <= m}
           Y == (m - age + 1)..m
<1>1. IsFiniteSet(S)
  <2>1. IsFiniteSet(0..m)
    BY FS_Interval
  <2> QED
    BY <2>1, FS_Subset
<1>2. \A u \in S : u \in Nat /\ u <= m
  OBVIOUS
<1>3. IsFiniteSet(Y) /\ Cardinality(Y) = age
  <2>1. m - age + 1 \in Int /\ m \in Int
    OBVIOUS
  <2> DEFINE a == m - age + 1
  <2>2. Cardinality(a..m) = (IF a > m THEN 0 ELSE m - a + 1) /\ IsFiniteSet(a..m)
    <3> HIDE DEF a
    <3> QED
      BY <2>1, FS_Interval DEF a
  <2> QED
    BY <2>2
<1>4. \A T \in SUBSET S : T \subseteq Y => Cardinality(T) \in Nat /\ Cardinality(T) <= age
  <2> HIDE DEF Y
  <2> QED
    BY <1>3, FS_Subset, FS_CardinalityType
<1>5. Cardinality(A) \in Nat /\ Cardinality(A) > n
  <2>1. A \in SUBSET S
    OBVIOUS
  <2>2. Cardinality(A) \in Nat
    <3> HIDE DEF A
    <3> QED
      BY <1>1, <2>1, FS_Subset, FS_CardinalityType
  <2>3. ~(Cardinality(A) <= n)
    BY DEF Newest
  <2> QED
    BY <2>2, <2>3
<1>6. O # {}
  <2> SUFFICES ASSUME O = {} PROVE FALSE
    OBVIOUS
  <2>1. \A u \in A : u \in Y
    BY <1>2
  <2>2. A \in SUBSET S /\ A \subseteq Y
    BY <2>1
  <2> HIDE DEF A, Y
  <2> QED
    BY <1>4, <1>5, <2>2
<1>7. PICK z \in O : \A x \in O : x <= z
  <2>1. O \in SUBSET (0..m)
    OBVIOUS
  <2> HIDE DEF O
  <2> QED
    BY <1>6, <2>1, GreatestTime
<1> DEFINE B == {u \in S : u >= z}
<1>8. z \in B /\ B \in SUBSET S /\ z \in S /\ z + age <= m
  BY <1>2, <1>7
<1>9. B \ {z} \subseteq Y /\ B \ {z} \in SUBSET S
  <2>1. ASSUME NEW u \in B \ {z} PROVE u \in Y
    <3>1. u \in S /\ u > z /\ u \in Nat /\ u <= m /\ z \in Nat
      BY <1>2, <1>8, <2>1
    <3>2. ~(u + age <= m)
      BY <1>7, <3>1
    <3> QED
      BY <3>1, <3>2
  <2> QED
    BY <2>1
<1>10. Cardinality(B) <= n
  <2> HIDE DEF B, Y
  <2>1. IsFiniteSet(B) /\ Cardinality(B) \in Nat
    BY <1>1, <1>8, FS_Subset, FS_CardinalityType
  <2>2. Cardinality(B \ {z}) = Cardinality(B) - 1
    BY <1>8, <2>1, FS_RemoveElement
  <2>3. Cardinality(B \ {z}) <= age /\ Cardinality(B \ {z}) \in Nat
    BY <1>4, <1>9
  <2> QED
    BY <2>1, <2>2, <2>3
<1>11. z \in Newest(n, S)
  BY <1>8, <1>10 DEF Newest
<1> QED
  BY <1>8, <1>11


\* The clock does not run backwards, and only a page of the latest candles is dated.
LEMMA CallStep ==
  ASSUME IInv, IInv', CallInv, [Next]_vars, Batch > StableAge
  PROVE  CallInv'
<1>1. /\ TypeOK /\ TypeOK' /\ RangeInv
      /\ now <= now' /\ now \in Nat /\ now' \in Nat /\ savedAt \in Nat
  <2>1. TypeOK /\ TypeOK' /\ RangeInv
    BY DEF IInv
  <2>2. savedAt \in Nat
    BY <2>1 DEF TypeOK, Times
  <2> QED
    BY <2>1, <2>2, OldStaysOld
<1>2. ASSUME NEW k, NEW to, NEW n, Ask(k, to, n), pc # "idle",
             k \in {"Latest", "UpperBound"} <=> to = Top,
             to = Top => n > StableAge
      PROVE  CallInv'
  BY <1>1, <1>2 DEF Ask, Goto, CallInv, exchVars, histVars, Top
<1>3. \A n \in Int : PageSize(AtLeast(n)) > StableAge
  BY PageAssumption, SizesAssumption DEF PageSize, AtLeast
<1>4. ASSUME stored # {}, pc # "idle", AskUpper PROVE CallInv'
  <2>1. now - Last \in Int
    BY <1>1, <1>4, LastIsRow
  <2> QED
    BY <1>2, <1>3, <1>4, <2>1 DEF AskUpper
<1>5. \A t \in stored : t # Top
  BY <1>1, SizesAssumption DEF TypeOK, Times, Top
<1>6. ASSUME NEW top, GapEnds # {} => top \in GapEnds, AskNext(top), pc # "idle"
      PROVE  CallInv'
  <2>1. CASE stored = {} /\ Ask("Latest", Top, Batch)
    BY <1>2, <1>6, <2>1
  <2>2. CASE stored # {} /\ GapEnds # {} /\ AskGap(top)
    <3>1. top # Top
      BY <1>1, <1>5, <1>6, <2>2, GapEndsAreRows
    <3> QED
      BY <1>2, <1>6, <2>2, <3>1 DEF AskGap
  <2>3. CASE stored # {} /\ GapEnds = {} /\ First > Reach /\ Ask("LowerBound", First, Batch)
    <3>1. First # Top
      BY <1>1, <1>5, <2>3, FirstIsRow
    <3> QED
      BY <1>2, <1>6, <2>3, <3>1
  <2>4. CASE stored # {} /\ GapEnds = {} /\ First <= Reach /\ AskUpper
    BY <1>4, <1>6, <2>4
  <2> QED
    BY <1>6, <2>1, <2>2, <2>3, <2>4 DEF AskNext
<1>7. CASE Exchange \/ UNCHANGED vars
  BY <1>1, <1>7 DEF Exchange, Tick, Late, vars, exchVars, tableVars, taskVars, histVars,
                    CallInv, Top
<1>8. CASE \E k \in {"backfill", "live"}, flag \in BOOLEAN : Start(k, flag)
  BY <1>1, <1>8 DEF Start, End, Goto, exchVars, tableVars, histVars, CallInv, Top
<1>9. CASE FlagGaps \/ EvaluateFails \/ BackfillDone \/ LiveDone \/ Fail \/ RemoveGapFlag
  BY <1>1, <1>9 DEF FlagGaps, EvaluateFails, BackfillDone, LiveDone, Finish, Fail, End, Goto,
                    RemoveGapFlag, exchVars, tableVars, histVars, CallInv, Top
<1>10. CASE BackfillAsk
  BY <1>1, <1>6, <1>10, LowestGapIsRow DEF BackfillAsk, Evaluated
<1>11. CASE LiveAsk
  BY <1>1, <1>6, <1>11, HighestGapIsRow DEF LiveAsk, Evaluated
<1>12. CASE LiveFirst
  BY <1>2, <1>4, <1>12 DEF LiveFirst, Evaluated
<1>13. CASE ReceivePage \/ ReceiveNothing
  BY <1>1, <1>13 DEF ReceivePage, ReceiveNothing, Receive, Goto, exchVars, tableVars, histVars,
                     CallInv, Top
<1>14. CASE Save
  BY <1>1, <1>14 DEF Save, Goto, exchVars, CallInv, Top
<1>15. CASE SaveNothing
  BY <1>1, <1>15 DEF SaveNothing, End, Goto, exchVars, tableVars, histVars, CallInv, Top
<1> QED
  BY <1>7, <1>8, <1>9, <1>10, <1>11, <1>12, <1>13, <1>14, <1>15 DEF Next, Step

\* A page of the latest candles that leaves a row out is long enough to reach old ones.
LEMMA FreshStep ==
  ASSUME IInv, IInv', CallInv, FreshInv, [Next]_vars
  PROVE  FreshInv'
<1>1. TypeOK /\ TableInv /\ TypeOK' /\ \A t \in Nat : Old(t) => Old(t)'
  BY OldStaysOld DEF IInv
<1>2. CASE ReceivePage
  <2> DEFINE S == {t \in avail : t < range.to}
  <2>1. /\ pc = "request" /\ page' = Newest(limit, S)
        /\ UNCHANGED <<exchVars, tableVars, range>>
    BY <1>2 DEF ReceivePage, Receive
  <2> SUFFICES ASSUME range'.to = Top, NEW y \in stored' \ page'
               PROVE  \E p \in page' : Old(p)'
    BY DEF FreshInv, Top
  <2>2. now \in Nat /\ avail \subseteq 0..now /\ now < Top /\ Top \in Nat /\ limit \in Nat /\ StableAge \in Nat
    BY <1>1, SizesAssumption DEF TypeOK, Times, Top
  <2>3. limit > StableAge /\ range.to = Top
    BY <2>1 DEF CallInv
  <2>4. S \in SUBSET (0..now) /\ y \in S
    <3>1. \A x \in avail : x < range.to
      BY <2>2, <2>3
    <3>2. y \in avail
      BY <1>1, <2>1 DEF TableInv, tableVars
    <3> QED
      BY <2>2, <3>1, <3>2
  <2>5. y \notin Newest(limit, S)
    BY <2>1
  <2>6. \E p \in Newest(limit, S) : p + StableAge <= now
    <3> HIDE DEF S
    <3> QED
      BY <2>2, <2>3, <2>4, <2>5, NewestGoesBack
  <2>7. PICK p \in Newest(limit, S) : p + StableAge <= now
    BY <2>6
  <2>8. Old(p)'
    BY <2>1, <2>7 DEF Old, exchVars
  <2> QED
    BY <2>1, <2>7, <2>8
<1>3. CASE ReceiveNothing
  BY <1>3 DEF ReceiveNothing, Receive, CallInv, FreshInv, Top
<1>4. CASE pc = "save" /\ pc' = "save" /\ UNCHANGED <<stored, range, page>>
  <2>1. page \subseteq Nat
    BY <1>1 DEF TypeOK
  <2> QED
    BY <1>1, <1>4, <2>1 DEF FreshInv, Top
<1>5. CASE pc' # "save"
  BY <1>5 DEF FreshInv
<1>6. pc' # "save" \/ ReceivePage \/ ReceiveNothing
      \/ (pc = "save" /\ pc' = "save" /\ UNCHANGED <<stored, range, page>>)
  BY DEF Next, Step, Exchange, Tick, Late, Start, FlagGaps, EvaluateFails, BackfillAsk,
         BackfillDone, LiveFirst, LiveAsk, LiveDone, AskNext, AskUpper, AskGap, Ask,
         Finish, Save, SaveNothing, RemoveGapFlag, Fail, End, Goto, vars, tableVars, taskVars
<1> QED
  BY <1>2, <1>3, <1>4, <1>5, <1>6

\* Saving the latest candles settles what is above all that is stable: a page that does
\* not reach down to it has old candles, which become stable.
LEMMA SaveSettles ==
  ASSUME IInv, CInv, Save
  PROVE  TopInv'
<1> DEFINE oldest == CHOOSE x \in page : \A u \in page : x <= u
           newest == CHOOSE x \in page : \A u \in page : u <= x
           end == IF range.to = Top THEN newest ELSE range.to - 1
<1>1. /\ TypeOK /\ TableInv /\ RangeInv /\ PageInv /\ CallInv /\ FreshInv /\ TopInv
      /\ page # {} /\ pc = "save" /\ range' = range /\ task' = task
  BY DEF IInv, CInv, Save
<1>2. /\ oldest \in page /\ \A x \in page : oldest <= x
      /\ newest \in page /\ \A x \in page : x <= newest
  BY <1>1, OldestIsCandle, NewestIsCandle
<1>3. /\ stored' = stored \cup page
      /\ stable' = (stable \ page) \cup {x \in page : Old(x)}
      /\ skipped' = (skipped \cup (oldest..end)) \ page
      /\ savedAt' = IF range.to = Top THEN now ELSE savedAt
  BY DEF Save, AddCandles
<1> HIDE DEF oldest, newest
<1>4. /\ now \in Nat /\ page \subseteq 0..now /\ stored \subseteq 0..now /\ StableAge \in Nat
      /\ now < Top /\ Top \in Nat /\ savedAt \in Nat /\ savedAt <= now /\ Times \subseteq Nat
  BY <1>1, SizesAssumption DEF TypeOK, Times, Top, CallInv
<1>5. \A x \in page : x < range.to
  BY <1>1 DEF PageInv
<1>6. stable \subseteq stable'
  BY <1>1, <1>3 DEF TableInv
<1>7. range.to \in Nat /\ (range.to # Top => range.to \in stored)
  <2>1. range.to = Top \/ range.to \in stored
    BY <1>1 DEF RangeInv
  <2>2. \A x \in stored : x \in Nat
    BY <1>4
  <2> QED
    BY <1>4, <2>1, <2>2
<1>8. ASSUME Settled', NEW t \in Times, NEW r \in stored', NEW s \in stored', r <= t, t <= s,
             \A x \in stable' : x < t
      PROVE  t \in skipped' \/ (t \in stored' /\ t + StableAge > savedAt')
  <2>1. /\ t \in Nat /\ r \in Nat /\ s \in Nat /\ r <= now /\ s <= now
        /\ oldest \in Nat /\ newest \in Nat
    BY <1>2, <1>3, <1>4
  <2>2. savedAt' \in Nat /\ savedAt' <= now
    BY <1>3, <1>4
  <2>3. CASE t \in page
    <3>1. ~Old(t)
      BY <1>3, <1>8, <2>1, <2>3
    <3> QED
      BY <1>3, <1>4, <2>1, <2>2, <2>3, <3>1 DEF Old
  <2>4. CASE t \notin page /\ oldest <= t /\ t <= end
    <3>1. t \in oldest..end
      <4>1. end \in Int
        BY <1>4, <1>7, <2>1
      <4> QED
        BY <2>1, <2>4, <4>1
    <3> QED
      BY <1>3, <2>4, <3>1
  <2>5. CASE t \notin page /\ range.to = Top
    <3>1. CASE oldest <= t
      <4>1. s \in page
        BY <1>1, <1>2, <1>3, <1>4, <1>8, <2>1, <2>5, <3>1 DEF PageInv
      <4>2. t <= newest
        BY <1>2, <1>8, <2>1, <4>1
      <4> QED
        BY <2>4, <2>5, <3>1, <4>2
    <3>2. CASE t < oldest
      <4>1. r \in stored \ page
        BY <1>2, <1>3, <1>8, <2>1, <3>2
      <4>2. PICK p \in page : Old(p)
        BY <1>1, <2>5, <4>1 DEF FreshInv
      <4>3. Old(oldest)
        BY <1>2, <1>4, <2>1, <4>2 DEF Old
      <4>4. oldest \in stable'
        BY <1>2, <1>3, <4>3
      <4> QED
        BY <1>8, <2>1, <3>2, <4>4
    <3> QED
      BY <2>1, <3>1, <3>2
  <2>6. CASE t \notin page /\ range.to # Top
    <3>1. range.to \in stored /\ range.to \in Nat /\ end = range.to - 1
      BY <1>4, <1>7, <2>6
    <3>2. Settled
      BY <1>1, <1>8, <2>6 DEF Settled
    <3>3. CASE \E x \in stored : x <= t
      <4>1. \E x \in stored : t <= x
        <5>1. CASE s \in stored
          BY <1>8, <5>1
        <5>2. CASE s \in page
          BY <1>5, <1>8, <2>1, <3>1, <5>2
        <5> QED
          BY <1>3, <5>1, <5>2
      <4>2. t \in skipped \/ (t \in stored /\ t + StableAge > savedAt)
        BY <1>1, <1>6, <1>8, <3>2, <3>3, <4>1 DEF TopInv
      <4> QED
        BY <1>3, <2>6, <4>2
    <3>4. CASE ~(\E x \in stored : x <= t)
      <4>1. t < range.to
        BY <2>1, <3>1, <3>4
      <4>2. r \in page
        BY <1>3, <1>8, <3>4
      <4>3. oldest <= t
        BY <1>2, <1>8, <2>1, <4>2
      <4> QED
        BY <2>1, <2>4, <2>6, <3>1, <4>1, <4>3
    <3> QED
      BY <3>3, <3>4
  <2> QED
    BY <2>3, <2>5, <2>6
<1> QED
  BY <1>8 DEF TopInv, Times

LEMMA TopStep ==
  ASSUME IInv, IInv', CInv, CallInv', [Next]_vars
  PROVE  TopInv'
<1>1. /\ TypeOK /\ RangeInv /\ CallInv /\ FreshInv /\ TopInv
      /\ \A t \in stored : t # Top
  BY SizesAssumption DEF IInv, CInv, TypeOK, Times, Top
<1>2. CASE Save
  BY <1>2, SaveSettles
<1>3. CASE SaveNothing
  <2>1. CASE range.to = Top /\ Settled'
    <3>1. stored' = {}
      BY <1>1, <1>3, <2>1 DEF SaveNothing, FreshInv, tableVars
    <3> QED
      BY <3>1 DEF TopInv
  <2>2. CASE range.to # Top /\ Settled'
    <3>1. Settled
      BY <1>1, <1>3, <2>2 DEF SaveNothing, Settled, End, Goto, Top, CallInv
    <3> QED
      BY <1>1, <1>3, <3>1 DEF SaveNothing, TopInv, tableVars, histVars, Times
  <2>3. CASE ~Settled'
    BY <2>3 DEF TopInv
  <2> QED
    BY <1>3, <2>1, <2>2, <2>3 DEF SaveNothing
<1>4. CASE Settled /\ UNCHANGED <<stored, stable, savedAt>> /\ skipped \subseteq skipped'
  BY <1>1, <1>4 DEF TopInv, Times
<1>5. CASE ~Settled'
  BY <1>5 DEF TopInv
<1>6. ASSUME NEW k, NEW to, NEW n, Ask(k, to, n), pc = "next"
      PROVE  TopInv'
  <2>1. Settled' => Settled
    BY <1>6 DEF Ask, Goto, Settled, Top
  <2> QED
    BY <1>4, <1>5, <1>6, <2>1 DEF Ask, tableVars, histVars
<1>7. CASE Exchange \/ UNCHANGED vars
  <2>1. Settled' => Settled
    BY <1>7 DEF Exchange, Tick, Late, vars, taskVars, Settled, Top
  <2> QED
    BY <1>4, <1>5, <1>7, <2>1 DEF Exchange, Tick, Late, vars, tableVars, histVars
<1>8. CASE \/ \E k \in {"backfill", "live"}, flag \in BOOLEAN : Start(k, flag)
           \/ FlagGaps \/ EvaluateFails \/ BackfillDone \/ LiveDone \/ Fail
  <2>1. pc' \in {"idle", "flag", "first"}
    BY <1>8 DEF Start, FlagGaps, EvaluateFails, BackfillDone, LiveDone, Finish, Fail, End, Goto
  <2> QED
    BY <1>5, <2>1 DEF Settled
<1>9. CASE (BackfillAsk \/ LiveAsk) /\ pc = "next"
  BY <1>6, <1>9 DEF BackfillAsk, LiveAsk, AskNext, AskGap, AskUpper
<1>10. CASE (BackfillAsk /\ pc = "first") \/ LiveFirst
  <2>1. ~Settled'
    BY <1>10 DEF BackfillAsk, LiveFirst, Evaluated, AskNext, AskGap, AskUpper, Ask, Goto, Settled,
                 Top
  <2> QED
    BY <1>5, <2>1
<1>11. CASE ReceivePage \/ ReceiveNothing
  <2>1. Settled' => Settled
    BY <1>11 DEF ReceivePage, ReceiveNothing, Receive, Goto, Settled, Top
  <2> QED
    BY <1>4, <1>5, <1>11, <2>1 DEF ReceivePage, ReceiveNothing, Receive, tableVars, histVars
<1>12. CASE RemoveGapFlag
  <2>1. Settled' => Settled
    BY <1>1, <1>12 DEF RemoveGapFlag, RangeInv, CallInv, Goto, Settled, Top
  <2> QED
    BY <1>4, <1>5, <1>12, <2>1 DEF RemoveGapFlag
<1> QED
  BY <1>2, <1>3, <1>7, <1>8, <1>9, <1>10, <1>11, <1>12
     DEF Next, Step, BackfillAsk, LiveAsk, Evaluated

\* Between two rows of a table without a gap up to t, and settled above what is stable,
\* nothing is missing at t.
LEMMA NothingMissing ==
  ASSUME IInv, TopInv, Settled, NEW t \in Times,
         \E s \in stored : s <= t, \E s \in stored : t <= s,
         \A e \in GapEnds : e <= t
  PROVE  \/ t \in skipped
         \/ \A s \in stable : t < s
         \/ IF t + StableAge <= savedAt THEN t \in stable ELSE t \in stored
<1>1. /\ TypeOK /\ NoSilentGap /\ stable \subseteq stored /\ stored \subseteq Nat
      /\ t \in Nat /\ savedAt \in Nat /\ StableAge \in Nat
  BY SizesAssumption DEF IInv, TypeOK, Times
<1> SUFFICES ASSUME t \notin skipped, t \notin stable, NEW b \in stable, b <= t
             PROVE  t \in stored /\ ~(t + StableAge <= savedAt)
  BY <1>1
<1>2. CASE \A s \in stable : s < t
  <2>1. t \in stored /\ t + StableAge > savedAt
    BY <1>2 DEF TopInv
  <2> QED
    BY <1>1, <2>1
<1>3. CASE \E s \in stable : t < s
  <2> DEFINE A == {s \in stable : t < s}
  <2>1. A \in SUBSET Nat /\ A # {}
    BY <1>1, <1>3
  <2>2. PICK s \in A : \A x \in A : s <= x
    <3> HIDE DEF A
    <3> QED
      BY <2>1, LeastNatural
  <2>3. \A v \in t..(s - 1) : v \notin stable
    BY <1>1, <2>2
  <2>4. Hole(t, s)
    BY <1>1, <2>2, <2>3 DEF Hole
  <2>5. s \in gap
    BY <1>1, <2>2, <2>4 DEF NoSilentGap
  <2>6. b < s
    BY <1>1, <2>2
  <2>7. s \in GapEnds
    BY <2>2, <2>5, <2>6 DEF GapEnds
  <2>8. s <= t /\ t < s /\ s \in Nat
    BY <1>1, <2>2, <2>7
  <2> QED
    BY <1>1, <2>8
<1> QED
  BY <1>1, <1>2, <1>3

LEMMA FirstAndLast ==
  ASSUME TypeOK, stored # {}
  PROVE  \A s \in stored : First <= s /\ s <= Last
<1>1. stored \in SUBSET Nat /\ stored \in SUBSET (0..now) /\ now \in Nat
  BY SizesAssumption DEF TypeOK, Times
<1>2. \E m \in stored : \A x \in stored : m <= x
  BY <1>1, LeastNatural
<1>3. \E m \in stored : \A x \in stored : x <= m
  BY <1>1, GreatestTime
<1> QED
  BY <1>2, <1>3 DEF First, Last

\* A backfill ends with no gap to announce and all settled above.
LEMMA BackfillLeavesAll ==
  ASSUME IInv, CInv, BackfillDone
  PROVE  First <= Reach /\ Complete(First, Last)
<1>1. /\ stored # {} /\ GapEnds = {} /\ ~(Reach < First) /\ Settled
      /\ TypeOK /\ TopInv
  BY DEF BackfillDone, BackfillComplete, HasGaps, IInv, CInv, CallInv, Settled
<1>2. First \in stored /\ Last \in stored /\ First \in Nat /\ Last \in Nat /\ Last <= MaxTime
  BY <1>1, FirstIsRow, LastIsRow, SizesAssumption DEF TypeOK, Times
<1>3. ASSUME NEW t \in First..Last
      PROVE  \/ t \in skipped
             \/ \A s \in stable : t < s
             \/ IF t + StableAge <= savedAt THEN t \in stable ELSE t \in stored
  <2>1. t \in Times /\ First <= t /\ t <= Last
    BY <1>2, SizesAssumption DEF Times
  <2> QED
    BY <1>1, <1>2, <2>1, NothingMissing
<1> QED
  BY <1>1, <1>2, <1>3, SizesAssumption DEF Complete

\* A live download ends with the last gap further back than its lookback.
LEMMA LiveLeavesLookback ==
  ASSUME IInv, CInv, LiveDone
  PROVE  Complete(Last - Lookback, Last)
<1>1. /\ stored # {} /\ Tail >= Lookback /\ Settled /\ TypeOK /\ TopInv
  BY DEF LiveDone, LiveComplete, Evaluated, IInv, CInv, Settled
<1>2. /\ First \in stored /\ Last \in stored /\ First \in Nat /\ Last \in Nat
      /\ Last <= MaxTime /\ Lookback \in Nat /\ MaxTime \in Nat
  BY <1>1, FirstIsRow, LastIsRow, SizesAssumption DEF TypeOK, Times
<1>3. PICK r \in stored : Last - r >= Lookback /\ r \in Nat /\ \A e \in GapEnds : e <= r
  <2>1. CASE GapEnds = {}
    BY <1>1, <1>2, <2>1 DEF Tail
  <2>2. CASE GapEnds # {}
    <3>1. HighestGap \in GapEnds /\ \A e \in GapEnds : e <= HighestGap
      <4>1. GapEnds \in SUBSET (0..now) /\ now \in Nat
        BY <1>1, GapEndsAreRows, SizesAssumption DEF TypeOK, Times
      <4>2. \E m \in GapEnds : \A x \in GapEnds : x <= m
        BY <2>2, <4>1, GreatestTime
      <4> QED
        BY <4>2 DEF HighestGap
    <3>2. HighestGap \in stored /\ HighestGap \in Nat
      BY <1>1, <3>1, GapEndsAreRows
    <3> QED
      BY <1>1, <2>2, <3>1, <3>2 DEF Tail
  <2> QED
    BY <2>1, <2>2
<1>4. ASSUME NEW t \in (Last - Lookback)..Last
      PROVE  \/ t \in skipped
             \/ \A s \in stable : t < s
             \/ IF t + StableAge <= savedAt THEN t \in stable ELSE t \in stored
  <2>1. t \in Times /\ r <= t /\ t <= Last
    BY <1>2, <1>3, SizesAssumption DEF Times
  <2>2. \A e \in GapEnds : e <= t
    <3>1. \A e \in GapEnds : e \in Nat
      BY <1>1, GapEndsAreRows
    <3> QED
      BY <1>3, <2>1, <3>1 DEF Times
  <2> QED
    BY <1>1, <1>2, <1>3, <2>1, <2>2, NothingMissing
<1> QED
  BY <1>4 DEF Complete

LEMMA CompleteStep ==
  ASSUME IInv, CInv, CallInv', [Next]_vars
  PROVE  CompleteWhenDone'
<1>1. CallInv /\ CompleteWhenDone
  BY DEF CInv
<1>2. CASE outcome' # "ok"
  BY <1>2 DEF CompleteWhenDone
<1>3. CASE UNCHANGED <<outcome, task, stored, stable, skipped, savedAt>>
  BY <1>1, <1>3 DEF CompleteWhenDone, Complete, First, Last
<1>4. CASE BackfillDone
  <2>1. UNCHANGED <<task, stored, stable, skipped, savedAt>> /\ task = "backfill"
    BY <1>4 DEF BackfillDone, Evaluated, Finish, tableVars, histVars
  <2>2. First <= Reach /\ Complete(First, Last)
    BY <1>4, BackfillLeavesAll
  <2> QED
    BY <2>1, <2>2 DEF CompleteWhenDone, Complete, First, Last
<1>5. CASE LiveDone
  <2>1. UNCHANGED <<task, stored, stable, skipped, savedAt>> /\ task = "live"
    BY <1>5 DEF LiveDone, Evaluated, Finish, tableVars, histVars
  <2>2. Complete(Last - Lookback, Last)
    BY <1>5, LiveLeavesLookback
  <2> QED
    BY <2>1, <2>2 DEF CompleteWhenDone, Complete, First, Last
<1>6. CASE pc' # "idle"
  BY <1>2, <1>6 DEF CallInv
<1>7. \/ pc' # "idle" \/ outcome' # "ok" \/ BackfillDone \/ LiveDone
      \/ UNCHANGED <<outcome, task, stored, stable, skipped, savedAt>>
  BY DEF Next, Step, Exchange, Tick, Late, Start, FlagGaps, EvaluateFails, BackfillAsk,
         LiveFirst, LiveAsk, AskNext, AskUpper, AskGap, Ask, ReceivePage, ReceiveNothing,
         Receive, Save, SaveNothing, RemoveGapFlag, Fail, End, Goto, vars, tableVars,
         taskVars, histVars
<1> QED
  BY <1>2, <1>3, <1>4, <1>5, <1>6, <1>7

\* A download that returns Ok leaves no gap, whatever failed, was cancelled or crashed
\* before, and whatever the exchange lacked then: a backfill from the reach on, a live
\* download over its lookback.  The size of a page must exceed the age at which a candle is
\* stable: a shorter page of the latest candles may have none that is, and what is missing
\* below it is announced by no flag.
THEOREM CompleteTheorem ==
  ASSUME Batch > StableAge
  PROVE  Spec => []CompleteWhenDone
<1>1. Init => IInv /\ CInv
  BY InitIInv, InitCInv
<1>2. IInv /\ CInv /\ [Next]_vars => IInv' /\ CInv'
  <2> SUFFICES ASSUME IInv, CInv, [Next]_vars PROVE IInv' /\ CInv'
    OBVIOUS
  <2>1. IInv'
    BY NextIInv
  <2>2. CallInv' /\ FreshInv'
    BY <2>1, CallStep, FreshStep DEF CInv
  <2>3. TopInv' /\ CompleteWhenDone'
    BY <2>1, <2>2, TopStep, CompleteStep
  <2> QED
    BY <2>1, <2>2, <2>3 DEF CInv
<1>3. CInv => CompleteWhenDone
  BY DEF CInv
<1> QED
  BY <1>1, <1>2, <1>3, PTL DEF Spec
=============================================================================
