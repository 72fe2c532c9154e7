------------------------ MODULE BacktestEngineProofs ------------------------
(***************************************************************************)
(* A backtest keeps what Replay promises each operator, and its windows    *)
(* are what the query of the live engine returns, for any range, table of  *)
(* candles and settlements, size of buffer, operators, intervals and       *)
(* lookbacks.                                                              *)
(***************************************************************************)
EXTENDS BacktestEngine, SetLemmas, SequenceTheorems, TLAPS

-----------------------------------------------------------------------------
(* Least and greatest elements: what the CHOOSEs of the modules pick.      *)

\* Earliest picks it, and nothing else.
LEMMA EarliestIs ==
  ASSUME NEW S \in SUBSET Nat, S # {}
  PROVE  Earliest(S) \in S /\ \A x \in S : Earliest(S) <= x
BY LeastNatural DEF Earliest

\* The least element is the one that Earliest picks.
LEMMA EarliestOf ==
  ASSUME NEW S \in SUBSET Nat, NEW m \in S, \A x \in S : m <= x
  PROVE  Earliest(S) = m
<1>1. Earliest(S) \in S /\ \A x \in S : Earliest(S) <= x
  BY EarliestIs
<1>2. Earliest(S) \in Nat /\ m \in Nat
  BY <1>1
<1>3. Earliest(S) <= m /\ m <= Earliest(S)
  BY <1>1
<1> QED
  BY <1>2, <1>3

\* Replay's is the same.
LEMMA SameEarliest == ASSUME NEW S PROVE Replayed!Earliest(S) = Earliest(S)
BY DEF Replayed!Earliest, Earliest

\* The lookback is the longest that an evaluator needs, and within the buffer.
LEMMA LongestFor ==
  ASSUME NEW e \in Evaluators
  PROVE  /\ Duration(Longest) \in Nat /\ Duration(e) <= Duration(Longest)
         /\ Duration(Longest) <= BufferSize
         /\ Resolution[e] \in Resolutions /\ Period[e] \in Nat \ {0}
         /\ Duration(e) = Resolution[e] * Period[e]
<1>1. \A f \in Evaluators : Duration(f) \in Nat /\ Duration(f) <= BufferSize
  BY EngineAssumption DEF Duration
<1> DEFINE Slack == {BufferSize - Duration(f) : f \in Evaluators}
<1>2. Slack \in SUBSET Nat /\ Slack # {}
  BY <1>1, EngineAssumption
<1> HIDE DEF Slack
<1>3. PICK m \in Slack : \A x \in Slack : m <= x
  BY <1>2, LeastNatural
<1>4. PICK f \in Evaluators : m = BufferSize - Duration(f)
  BY <1>3 DEF Slack
<1>5. \A g \in Evaluators : BufferSize - Duration(f) <= BufferSize - Duration(g)
  BY <1>3, <1>4 DEF Slack
<1>6. \A g \in Evaluators : Duration(g) <= Duration(f)
  BY <1>1, <1>5, EngineAssumption
<1>7. Longest \in Evaluators /\ \A g \in Evaluators : Duration(g) <= Duration(Longest)
  BY <1>6 DEF Longest
<1> QED
  BY <1>1, <1>7, EngineAssumption DEF Duration, Resolutions

\* The lookback reaches back from the start: the first buffer leaves no minute out.
LEMMA LongestIs == Duration(Longest) \in Nat
BY LongestFor, EngineAssumption

-----------------------------------------------------------------------------
(* The invariant: how far each operator has got at each place of the task. *)

Replaying == {"iterate", "report", "advance", "settle", "update"}

Typed ==
  /\ history \in SUBSET Nat /\ buffer \in SUBSET history /\ pending \in SUBSET Settlements
  /\ k \in Operators /\ cursor \in Int
  /\ at \in [Operators -> Int] /\ settled \in [Operators -> SUBSET Settlements]
  /\ decided \in [Evaluators -> Int]

\* The buffer has every candle between the cursor and its last one.
Buffered ==
  \A b \in buffer, c \in history : cursor < c /\ c <= b => c \in buffer

\* Operator o has the candle before the one at the cursor.
Behind(o) ==
  Start <= at[o] /\ at[o] < cursor /\ \A c \in history : ~(at[o] < c /\ c < cursor)

\* Evaluator e has nothing to decide before its operator's next candle.
Rests(e) == ~(2 * at[Owner[e]] + 1 >= decided[e] + Interval[e])

Applied == Settlements \ pending

Opening ==
  pc \in {"start", "load"} =>
    /\ at = [o \in Operators |-> Start - 1] /\ settled = [o \in Operators |-> {}]
    /\ k = 1

Deciding ==
  pc = "iterate" =>
    /\ \A o \in Operators : at[o] = cursor /\ settled[o] = Applied
    /\ \A e \in Evaluators : Owner[e] < k => Rests(e)

Advancing ==
  pc \in {"report", "advance"} =>
    /\ \A o \in Operators : at[o] = cursor /\ settled[o] = Applied
    /\ \A e \in Evaluators : Rests(e)
    /\ k = 1

Settling ==
  pc = "settle" =>
    /\ \A o \in Operators :
         /\ Behind(o)
         /\ settled[o] = Applied \cup (IF o < k THEN {Earliest(pending)} ELSE {})
    /\ \A e \in Evaluators : Rests(e)
    /\ k > 1 => pending # {} /\ Earliest(pending) <= cursor

Updating ==
  pc = "update" =>
    /\ \A s \in pending : s > cursor
    /\ \A o \in Operators :
         /\ settled[o] = Applied
         /\ o < k => at[o] = cursor
         /\ o >= k => Behind(o)
    /\ \A e \in Evaluators : Owner[e] >= k => Rests(e)

Inv ==
  /\ Typed
  /\ pc \in Replaying => cursor \in history /\ Start <= cursor /\ Buffered
  /\ Opening /\ Deciding /\ Advancing /\ Settling /\ Updating

ConstantTypes ==
  /\ Start \in Nat /\ Start >= 1 /\ NumOperators \in Nat /\ NumOperators >= 1
  /\ BufferSize \in Nat /\ End \in Nat /\ Settlements \in SUBSET Nat
  /\ Operators = 1 .. NumOperators /\ Owner \in [Evaluators -> Operators]
  /\ \A e \in Evaluators : Interval[e] \in Nat /\ Interval[e] >= 1

\* What the proofs use of the assumptions on the constants.
LEMMA Constants == ConstantTypes
BY EngineAssumption DEF ConstantTypes, Operators

\* An engine that has not started has replayed nothing.
LEMMA InitInv == Init => Inv /\ Replayed!Init
<1> SUFFICES ASSUME Init PROVE Inv /\ Replayed!Init
  OBVIOUS
<1>1. Typed
  BY Constants, EngineAssumption DEF Init, Typed, ConstantTypes
<1>2. Opening /\ Deciding /\ Advancing /\ Settling /\ Updating /\ pc \notin Replaying
  BY DEF Init, Opening, Deciding, Advancing, Settling, Updating, Replaying
<1>3. Replayed!Init
  BY <1>1, EngineAssumption DEF Init, Replayed!Init, Typed
<1> QED
  BY <1>1, <1>2, <1>3 DEF Inv

-----------------------------------------------------------------------------
(* Each action of the task is an action of Replay, or none.                *)

\* The first buffer is the table from before the start on, so that its first candle of the
\* range is the table's.
LEMMA LoadStep ==
  ASSUME Inv, Load
  PROVE  Inv' /\ (Replayed!Open \/ UNCHANGED Replayed!rvars)
<1> USE Constants DEF ConstantTypes
<1> DEFINE from == Start - Duration(Longest)
           loaded == GetCandles(from, from + BufferSize)
           ahead == {c \in history : c > Start - 1}
<1>1. from \in Int /\ from <= Start
  BY LongestIs
<1>2. /\ loaded \in SUBSET history
      /\ \A b \in loaded, c \in history : Start <= c /\ c <= b => c \in loaded
  BY <1>1 DEF GetCandles, Inv, Typed
<1>3. /\ pc = "load" /\ engineSends = None
      /\ at = [o \in Operators |-> Start - 1] /\ settled = [o \in Operators |-> {}] /\ k = 1
      /\ UNCHANGED <<history, k, settled, decided>>
  BY DEF Load, At, Inv, Opening
<1> HIDE DEF from
<1>4. CASE ~ \E c \in loaded : c >= Start
  <2>1. pc' = "ending" /\ UNCHANGED <<buffer, cursor, at, pending>>
    BY <1>4 DEF Load, EndRun, Goto, from
  <2> QED
    BY <2>1, <1>3 DEF Inv, Typed, Opening, Deciding, Advancing, Settling, Updating, Replaying,
       Replayed!rvars
<1>5. CASE \E c \in loaded : c >= Start
  <2> DEFINE inRange == {c \in loaded : c >= Start}
             first == Earliest(inRange)
  <2>1. first \in loaded /\ first >= Start /\ \A c \in loaded : c >= Start => first <= c
    <3>1. inRange \in SUBSET Nat /\ inRange # {}
      BY <1>5, <1>2 DEF Inv, Typed
    <3>2. \A c : c \in inRange <=> c \in loaded /\ c >= Start
      OBVIOUS
    <3> HIDE DEF inRange
    <3>3. Earliest(inRange) \in inRange /\ \A c \in inRange : Earliest(inRange) <= c
      BY <3>1, EarliestIs
    <3> QED
      BY <3>2, <3>3
  <2>2. /\ buffer' = loaded /\ cursor' = first /\ at' = [o \in Operators |-> first]
        /\ pending' = Settlements /\ pc' = "iterate"
    BY <1>5 DEF Load, Goto, from, FirstCandle
  <2> HIDE DEF first, loaded
  <2>3. first \in Nat /\ first \in history /\ \A c \in history : c >= Start => first <= c
    BY <2>1, <1>2 DEF Inv, Typed
  <2>4. Inv'
    <3>1. Typed'
      BY <2>2, <2>3, <1>2, <1>3 DEF Inv, Typed
    <3>2. (cursor \in history /\ Start <= cursor /\ Buffered)'
      <4>1. \A b \in loaded, c \in history : first < c /\ c <= b => Start <= c
        BY <2>1, <2>3, <1>2 DEF Inv, Typed
      <4> QED
        BY <4>1, <2>1, <2>2, <2>3, <1>2, <1>3 DEF Buffered
    <3>3. Deciding'
      BY <2>2, <1>3 DEF Deciding, Applied
    <3> QED
      BY <3>1, <3>2, <3>3, <2>2 DEF Inv, Opening, Advancing, Settling, Updating
  <2>5. Replayed!Open
    <3>1. ASSUME NEW o \in Operators
          PROVE  /\ ~Replayed!Opened(o) /\ Replayed!Ahead(o) # {}
                 /\ Replayed!Earliest(Replayed!Ahead(o)) = first
      <4>1. at[o] = Start - 1
        BY <1>3
      <4>2. \A c : c \in Replayed!Ahead(o) <=> c \in history /\ c > Start - 1
        BY <4>1 DEF Replayed!Ahead
      <4>3. history \in SUBSET Nat
        BY DEF Inv, Typed
      <4>4. ASSUME NEW c \in Replayed!Ahead(o) PROVE c \in Nat /\ first <= c
        <5>1. c \in history /\ c > Start - 1
          BY <4>2
        <5>2. c \in Nat /\ c >= Start
          BY <4>3, <5>1
        <5> QED
          BY <5>1, <5>2, <2>3
      <4>5. first \in Replayed!Ahead(o)
        BY <4>2, <2>1, <2>3
      <4> QED
        BY <4>1, <4>4, <4>5, EarliestOf, SameEarliest DEF Replayed!Opened
    <3> QED
      BY <3>1, <2>2, <1>3 DEF Replayed!Open
  <2> QED
    BY <2>4, <2>5
<1> QED
  BY <1>4, <1>5

\* What Replay sees of an operator that is behind the cursor.
LEMMA BehindIs ==
  ASSUME Typed, cursor \in history, NEW o \in Operators, Behind(o)
  PROVE  /\ Replayed!Opened(o) /\ Replayed!Ahead(o) # {}
         /\ Replayed!Earliest(Replayed!Ahead(o)) = cursor
<1>1. Start <= at[o] /\ at[o] < cursor /\ at[o] \in Int /\ history \in SUBSET Nat /\ cursor \in Nat
  BY DEF Behind, Typed
<1>2. \A c : c \in Replayed!Ahead(o) <=> c \in history /\ c > at[o]
  BY DEF Replayed!Ahead
<1>3. cursor \in Replayed!Ahead(o)
  BY <1>1, <1>2
<1>4. ASSUME NEW c \in Replayed!Ahead(o) PROVE c \in Nat /\ cursor <= c
  <2>1. c \in history /\ c \in Nat /\ at[o] < c
    BY <1>1, <1>2
  <2>2. ~(at[o] < c /\ c < cursor)
    BY <2>1 DEF Behind
  <2> QED
    BY <1>1, <2>1, <2>2
<1> QED
  BY <1>1, <1>3, <1>4, EarliestOf, SameEarliest, Constants DEF Replayed!Opened, ConstantTypes

\* Who rests has decided.
LEMMA RestIs ==
  ASSUME NEW o, \A e \in Evaluators : Owner[e] = o => Rests(e)
  PROVE  Replayed!Decided(o)
BY DEF Replayed!Decided, Replayed!Due, Replayed!Moment, Rests

\* The evaluators of one operator decide, or none is due.
LEMMA IterateStep ==
  ASSUME Inv, Iterate
  PROVE  Inv' /\ ((\E o \in Operators : Replayed!Decide(o)) \/ UNCHANGED Replayed!rvars)
<1> USE Constants DEF ConstantTypes
<1>1. /\ pc = "iterate" /\ cursor \in history /\ Start <= cursor /\ Buffered /\ Typed
      /\ \A o \in Operators : at[o] = cursor /\ settled[o] = Applied
      /\ \A e \in Evaluators : Owner[e] < k => Rests(e)
      /\ UNCHANGED <<history, cursor, buffer, pending, at, settled>>
  BY DEF Iterate, At, Inv, Replaying, Deciding
<1>2. decided' = [e \in Evaluators |->
                    IF Owner[e] = k /\ Due(e) THEN 2 * cursor + 1 ELSE decided[e]]
  BY DEF Iterate
<1>3. /\ k < NumOperators => k' = k + 1 /\ pc' = "iterate"
      /\ ~(k < NumOperators) => k' = 1 /\ pc' \in {"report", "advance"}
  BY <1>1 DEF Iterate, Goto
<1>4. \A e \in Evaluators : at[Owner[e]] = cursor
  BY <1>1
<1>5. ASSUME NEW e \in Evaluators, Owner[e] <= k PROVE Rests(e)'
  <2>1. CASE Owner[e] = k /\ Due(e)
    <3>1. decided'[e] = 2 * cursor + 1 /\ at'[Owner[e]] = cursor /\ cursor \in Int
      BY <1>1, <1>2, <1>4, <2>1 DEF Typed
    <3> QED
      BY <3>1 DEF Rests
  <2>2. CASE ~(Owner[e] = k /\ Due(e))
    <3>1. decided'[e] = decided[e] /\ at' = at
      BY <1>1, <1>2, <2>2
    <3>2. Rests(e)
      <4>1. CASE Owner[e] = k
        BY <2>2, <4>1, <1>4 DEF Rests, Due
      <4>2. CASE Owner[e] < k
        BY <4>2, <1>1
      <4> QED
        BY <4>1, <4>2, <1>5 DEF Inv, Typed
    <3> QED
      BY <3>1, <3>2 DEF Rests
  <2> QED
    BY <2>1, <2>2
<1>6. Typed'
  BY <1>1, <1>2, <1>3 DEF Typed
<1>7. (cursor \in history /\ Start <= cursor /\ Buffered)' /\ Applied' = Applied
  BY <1>1 DEF Buffered, Applied
<1>8. Inv'
  <2>1. CASE k < NumOperators
    <3>1. \A e \in Evaluators : Owner[e] < k' => Owner[e] <= k
      BY <1>3, <2>1, <1>1 DEF Typed
    <3>2. Deciding'
      BY <1>1, <1>5, <1>7, <3>1 DEF Deciding
    <3> QED
      BY <1>3, <1>6, <1>7, <2>1, <3>2 DEF Inv, Opening, Advancing, Settling, Updating
  <2>2. CASE ~(k < NumOperators)
    <3>1. \A e \in Evaluators : Owner[e] <= k
      BY <2>2, <1>1 DEF Typed
    <3>2. Advancing'
      BY <1>1, <1>3, <1>5, <1>7, <2>2, <3>1 DEF Advancing
    <3> QED
      BY <1>3, <1>6, <1>7, <2>2, <3>2 DEF Inv, Opening, Deciding, Settling, Updating
  <2> QED
    BY <2>1, <2>2
<1>9. CASE \E e \in Evaluators : Owner[e] = k /\ Due(e)
  <2>1. \A e \in Evaluators : Replayed!Due(e) <=> Due(e)
    BY <1>1, <1>4 DEF Replayed!Due, Replayed!Opened, Replayed!Moment, Due, Typed
  <2>2. k \in Operators /\ at[k] = cursor
    BY <1>1 DEF Typed
  <2>3. Replayed!Decide(k)
    BY <2>1, <2>2, <1>1, <1>2, <1>9 DEF Replayed!Decide, Replayed!Moment
  <2> QED
    BY <1>8, <2>2, <2>3
<1>10. CASE ~ \E e \in Evaluators : Owner[e] = k /\ Due(e)
  <2>1. decided' = decided
    BY <1>1, <1>2, <1>10 DEF Typed
  <2> QED
    BY <1>1, <1>8, <2>1 DEF Replayed!rvars
<1> QED
  BY <1>9, <1>10

\* A report changes no account.
LEMMA ReportStep ==
  ASSUME Inv, Report
  PROVE  Inv' /\ UNCHANGED Replayed!rvars
<1>1. /\ pc = "report" /\ pc' \in {"ending", "advance"}
      /\ UNCHANGED <<history, k, cursor, buffer, pending, at, settled, decided>>
  BY DEF Report, At, EndRun, Goto, accounts
<1>2. Typed' /\ Buffered' = Buffered /\ Applied' = Applied
  BY <1>1 DEF Inv, Typed, Buffered, Applied
<1>3. \A e \in Evaluators : Rests(e)' = Rests(e)
  BY <1>1 DEF Rests
<1> QED
  BY <1>1, <1>2, <1>3 DEF Inv, Opening, Deciding, Advancing, Settling, Updating, Replaying,
     Replayed!rvars

\* The cursor skips no candle of the table, whether the buffer or a new one has the next.
LEMMA AdvanceStep ==
  ASSUME Inv, Advance
  PROVE  Inv' /\ UNCHANGED Replayed!rvars
<1> USE Constants DEF ConstantTypes
<1> DEFINE left == {c \in buffer : c > cursor}
           next == IF left = {} THEN Fetch ELSE left
<1>1. /\ pc = "advance" /\ cursor \in history /\ Start <= cursor /\ Buffered /\ Typed /\ k = 1
      /\ \A o \in Operators : at[o] = cursor /\ settled[o] = Applied
      /\ \A e \in Evaluators : Rests(e)
      /\ UNCHANGED <<history, k, pending, at, settled, decided>>
  BY DEF Advance, At, Inv, Replaying, Advancing, accounts
<1>2. UNCHANGED Replayed!rvars
  BY <1>1 DEF Replayed!rvars
<1>3. CASE cursor >= End - 1 \/ next = {}
  <2>1. pc' = "ending" /\ UNCHANGED <<buffer, cursor>>
    <3>1. End \in Int /\ cursor \in Int
      BY <1>1 DEF Typed
    <3>2. ~(cursor < End - 1 /\ next # {})
      BY <3>1, <1>3
    <3> HIDE DEF left, next
    <3> QED
      BY <3>2 DEF Advance, EndRun, Goto, left, next
  <2>2. Typed'
    BY <1>1, <2>1 DEF Typed
  <2> QED
    BY <1>2, <2>1, <2>2 DEF Inv, Opening, Deciding, Advancing, Settling, Updating, Replaying
<1>4. CASE cursor < End - 1 /\ next # {}
  <2>1. /\ buffer' = (IF left = {} THEN Fetch ELSE buffer)
        /\ cursor' = Earliest(next) /\ pc' = "settle"
    <3>1. End \in Int /\ cursor \in Int
      BY <1>1 DEF Typed
    <3>2. ~(cursor >= End - 1)
      BY <3>1, <1>4
    <3> QED
      BY <3>2, <1>4 DEF Advance, Goto
  <2>2. /\ next \in SUBSET history /\ history \in SUBSET Nat
        /\ buffer \in SUBSET history /\ cursor \in Nat
    BY <1>1 DEF Fetch, GetCandles, Typed
  <2>3. \A c : c \in next => cursor < c
    BY <1>1, <2>2 DEF Fetch, GetCandles
  <2>4. \A b \in next, c \in history : cursor < c /\ c <= b => c \in next
    <3>1. CASE left = {}
      <4>1. Least(cursor + BufferSize, End) \in Int
        BY <2>2 DEF Least
      <4> QED
        BY <3>1, <4>1, <2>2 DEF Fetch, GetCandles
    <3>2. CASE left # {}
      BY <3>2, <1>1, <2>2 DEF Buffered
    <3> QED
      BY <3>1, <3>2
  <2>5. \A b \in buffer', c \in history : cursor < c /\ c <= b => c \in buffer'
    <3>1. CASE left = {}
      BY <3>1, <2>1, <2>4
    <3>2. CASE left # {}
      BY <3>2, <2>1, <1>1 DEF Buffered
    <3> QED
      BY <3>1, <3>2
  <2>6. buffer' \in SUBSET history
    BY <2>1, <2>2
  <2> HIDE DEF left, next
  <2>7. cursor' \in next /\ \A c \in next : cursor' <= c
    BY <2>1, <2>2, <1>4, EarliestIs
  <2>8. cursor' \in history /\ cursor' \in Nat /\ cursor < cursor' /\ Start <= cursor'
    BY <2>2, <2>3, <2>7, <1>1
  <2>9. \A c \in history : ~(cursor < c /\ c < cursor')
    BY <2>2, <2>4, <2>7, <2>8
  <2>10. Buffered'
    <3>1. ASSUME NEW b \in buffer', NEW c \in history, cursor' < c, c <= b
          PROVE  c \in buffer'
      <4>1. b \in Nat /\ c \in Nat
        BY <2>2, <2>6
      <4>2. cursor < c
        BY <4>1, <2>2, <2>8, <3>1
      <4> QED
        BY <4>2, <2>5, <3>1
    <3> QED
      BY <3>1, <1>1 DEF Buffered
  <2>11. Typed'
    BY <1>1, <2>6, <2>8 DEF Typed
  <2>12. Settling'
    <3>1. ASSUME NEW o \in Operators
          PROVE  Behind(o)' /\ ~(o < k') /\ settled'[o] = Applied'
      <4>1. Behind(o)'
        BY <1>1, <2>2, <2>8, <2>9 DEF Behind
      <4>2. ~(o < k') /\ settled'[o] = Applied'
        BY <1>1 DEF Applied
      <4> QED
        BY <4>1, <4>2
    <3>2. \A e \in Evaluators : Rests(e)'
      BY <1>1 DEF Rests
    <3>3. ~(k' > 1)
      BY <1>1
    <3>4. \A o \in Operators :
            settled'[o] = Applied' \cup (IF o < k' THEN {Earliest(pending')} ELSE {})
      BY <3>1
    <3> QED
      BY <3>1, <3>2, <3>3, <3>4 DEF Settling
  <2> QED
    BY <1>1, <1>2, <2>1, <2>8, <2>10, <2>11, <2>12 DEF Inv, Opening, Deciding, Advancing, Updating
<1> QED
  BY <1>3, <1>4, <1>1 DEF Typed

\* Settlements are applied in order, before the candle, to each operator in turn.
LEMMA SettleStep ==
  ASSUME Inv, Settle
  PROVE  Inv' /\ ((\E o \in Operators : Replayed!Settle(o)) \/ UNCHANGED Replayed!rvars)
<1> USE Constants DEF ConstantTypes
<1> DEFINE s == Earliest(pending)
<1>1. /\ pc = "settle" /\ cursor \in history /\ Start <= cursor /\ Buffered /\ Typed
      /\ \A o \in Operators : Behind(o)
      /\ \A o \in Operators : settled[o] = Applied \cup (IF o < k THEN {s} ELSE {})
      /\ \A e \in Evaluators : Rests(e)
      /\ k > 1 => pending # {} /\ s <= cursor
      /\ UNCHANGED <<history, cursor, buffer, at, decided>>
  BY DEF Settle, At, Inv, Replaying, Settling
<1>2. /\ pending \in SUBSET Settlements /\ pending \in SUBSET Nat /\ k \in 1 .. NumOperators
      /\ history \in SUBSET Nat /\ cursor \in Nat
  BY <1>1 DEF Typed
<1>3. pending # {} => s \in pending /\ s \in Nat /\ \A x \in pending : s <= x
  BY <1>2, EarliestIs
<1> HIDE DEF s
<1>4. /\ \A o \in Operators : Behind(o)' = Behind(o)
      /\ \A e \in Evaluators : Rests(e)' = Rests(e)
      /\ Buffered' = Buffered
  BY <1>1 DEF Behind, Rests, Buffered
<1>5. CASE pending = {} \/ s > cursor
  <2>1. pc' = "update" /\ UNCHANGED <<k, pending, settled>>
    BY <1>5 DEF Settle, Goto, s
  <2>2. k = 1
    BY <1>1, <1>2, <1>3, <1>5
  <2>3. ASSUME NEW x \in pending PROVE x > cursor
    <3>1. s \in Nat /\ x \in Nat /\ s <= x /\ s > cursor
      BY <1>2, <1>3, <1>5
    <3> QED
      BY <1>2, <3>1
  <2>4. ASSUME NEW o \in Operators PROVE settled[o] = Applied /\ ~(o < k)
    <3>1. ~(o < k)
      BY <2>2
    <3> QED
      BY <1>1, <3>1
  <2>5. Updating' /\ Typed'
    BY <1>1, <1>4, <2>1, <2>3, <2>4 DEF Updating, Applied, Typed
  <2> QED
    BY <1>1, <1>4, <2>1, <2>5 DEF Inv, Opening, Deciding, Advancing, Settling, Replayed!rvars
<1>6. CASE pending # {} /\ ~(s > cursor)
  <2>1. /\ settled' = [settled EXCEPT ![k] = @ \cup {s}]
        /\ k' = (IF k < NumOperators THEN k + 1 ELSE 1)
        /\ pending' = (IF k < NumOperators THEN pending ELSE pending \ {s})
        /\ pc' = "settle"
    BY <1>1, <1>6 DEF Settle, s
  <2>2. s \in pending /\ s \in Settlements /\ s <= cursor /\ \A x \in pending : s <= x
    <3>1. s \in pending /\ s \in Nat /\ \A x \in pending : s <= x
      BY <1>3, <1>6
    <3>2. s <= cursor
      BY <1>2, <1>6, <3>1
    <3> QED
      BY <1>2, <3>1, <3>2
  <2>3. \A o \in Operators : settled'[o] = IF o = k THEN settled[o] \cup {s} ELSE settled[o]
    BY <1>1, <2>1 DEF Typed
  <2>4. Typed'
    BY <1>1, <1>2, <2>1, <2>2 DEF Typed
  <2>5. Settling'
    <3>1. CASE k < NumOperators
      <4>1. Applied' = Applied /\ Earliest(pending') = s /\ pending' = pending
        BY <2>1, <3>1 DEF Applied, s
      <4>2. ASSUME NEW o \in Operators
            PROVE  settled'[o] = Applied' \cup (IF o < k' THEN {Earliest(pending')} ELSE {})
        <5>1. o \in Nat /\ k \in Nat /\ k' = k + 1
          BY <1>2, <2>1, <3>1
        <5>2. CASE o < k
          <6>1. o # k /\ o < k'
            BY <5>1, <5>2
          <6> QED
            BY <6>1, <5>2, <1>1, <2>3, <4>1
        <5>3. CASE o = k
          <6>1. ~(o < k) /\ o < k'
            BY <5>1, <5>3
          <6> QED
            BY <6>1, <5>3, <1>1, <2>3, <4>1
        <5>4. CASE ~(o < k) /\ o # k
          <6>1. ~(o < k')
            BY <5>1, <5>4
          <6> QED
            BY <6>1, <5>4, <1>1, <2>3, <4>1
        <5> QED
          BY <5>2, <5>3, <5>4
      <4> QED
        BY <1>1, <1>4, <2>2, <4>1, <4>2 DEF Settling
    <3>2. CASE ~(k < NumOperators)
      <4>1. Applied' = Applied \cup {s} /\ k' = 1 /\ k = NumOperators
        BY <1>2, <2>1, <2>2, <3>2 DEF Applied
      <4>2. ASSUME NEW o \in Operators PROVE settled'[o] = Applied' /\ ~(o < k')
        <5>1. o \in 1 .. NumOperators /\ ~(o < k')
          BY <4>1
        <5>2. o # k => o < k
          BY <4>1, <5>1
        <5> QED
          BY <1>1, <2>3, <4>1, <5>1, <5>2
      <4>3. \A o \in Operators :
              settled'[o] = Applied' \cup (IF o < k' THEN {Earliest(pending')} ELSE {})
        BY <4>2
      <4> QED
        BY <1>1, <1>4, <4>1, <4>3 DEF Settling
    <3> QED
      BY <3>1, <3>2
  <2>6. Replayed!Settle(k)
    <3>1. Typed /\ k \in Operators /\ Behind(k) /\ settled[k] = Applied
      <4>1. k \in Operators /\ ~(k < k)
        BY <1>2
      <4> QED
        BY <1>1, <4>1
    <3>2. /\ Replayed!Opened(k) /\ Replayed!Ahead(k) # {}
          /\ Replayed!Earliest(Replayed!Ahead(k)) = cursor
      BY <1>1, <3>1, BehindIs
    <3>3. Replayed!Decided(k)
      BY <1>1, RestIs
    <3>4. Replayed!Owed(k) = {x \in pending : x <= cursor}
      BY <1>2, <3>1, <3>2 DEF Replayed!Owed, Applied
    <3>5. s \in Replayed!Owed(k) /\ Replayed!Owed(k) \in SUBSET Nat
          /\ \A x \in Replayed!Owed(k) : s <= x
      BY <1>2, <2>2, <3>4
    <3>6. Replayed!Earliest(Replayed!Owed(k)) = s
      BY <3>5, EarliestOf, SameEarliest
    <3> QED
      BY <1>1, <2>1, <3>2, <3>3, <3>5, <3>6 DEF Replayed!Settle
  <2> QED
    BY <1>1, <1>4, <2>1, <2>4, <2>5, <2>6 DEF Inv, Opening, Deciding, Advancing, Updating, Typed
<1> QED
  BY <1>2, <1>3, <1>5, <1>6

\* Each account gets the candle at the cursor once, and none that another operator has not.
LEMMA UpdateStep ==
  ASSUME Inv, Update
  PROVE  Inv' /\ \E o \in Operators : Replayed!Candle(o)
<1> USE Constants DEF ConstantTypes
<1>1. /\ pc = "update" /\ cursor \in history /\ Start <= cursor /\ Buffered /\ Typed
      /\ \A x \in pending : x > cursor
      /\ \A o \in Operators : settled[o] = Applied
      /\ \A o \in Operators : o < k => at[o] = cursor
      /\ \A o \in Operators : o >= k => Behind(o)
      /\ \A e \in Evaluators : Owner[e] >= k => Rests(e)
      /\ UNCHANGED <<history, cursor, buffer, pending, settled, decided>>
  BY DEF Update, At, Inv, Replaying, Updating
<1>2. /\ pending \in SUBSET Settlements /\ pending \in SUBSET Nat /\ k \in 1 .. NumOperators
      /\ history \in SUBSET Nat /\ cursor \in Nat
  BY <1>1 DEF Typed
<1>3. /\ at' = [at EXCEPT ![k] = cursor]
      /\ k < NumOperators => k' = k + 1 /\ pc' = "update"
      /\ ~(k < NumOperators) => k' = 1 /\ pc' = "iterate"
  BY <1>1 DEF Update, Goto
<1>4. \A o \in Operators : at'[o] = IF o = k THEN cursor ELSE at[o]
  BY <1>1, <1>3 DEF Typed
<1>5. Typed' /\ Buffered' = Buffered /\ Applied' = Applied
  BY <1>1, <1>2, <1>3 DEF Typed, Buffered, Applied
<1>6. Inv'
  <2>1. CASE k < NumOperators
    <3>1. ASSUME NEW o \in Operators, o < k' PROVE at'[o] = cursor
      <4>1. o \in Nat /\ k' = k + 1
        BY <1>3, <2>1
      <4>2. o = k \/ o < k
        BY <1>2, <3>1, <4>1
      <4> QED
        BY <1>1, <1>4, <4>2
    <3>2. ASSUME NEW o \in Operators, o >= k' PROVE Behind(o)'
      <4>1. o \in Nat /\ k' = k + 1
        BY <1>3, <2>1
      <4>2. o # k /\ o >= k
        BY <1>2, <3>2, <4>1
      <4>3. at'[o] = at[o] /\ Behind(o)
        BY <1>1, <1>4, <4>2
      <4> QED
        BY <1>1, <4>3 DEF Behind
    <3>3. ASSUME NEW e \in Evaluators, Owner[e] >= k' PROVE Rests(e)'
      <4>1. Owner[e] \in Operators /\ Owner[e] \in Nat /\ k' = k + 1
        BY <1>3, <2>1
      <4>2. Owner[e] # k /\ Owner[e] >= k
        BY <1>2, <3>3, <4>1
      <4>3. at'[Owner[e]] = at[Owner[e]] /\ Rests(e)
        BY <1>1, <1>4, <4>1, <4>2
      <4> QED
        BY <1>1, <4>3 DEF Rests
    <3>4. Updating'
      BY <1>1, <1>5, <3>1, <3>2, <3>3 DEF Updating
    <3> QED
      BY <1>1, <1>3, <1>5, <2>1, <3>4 DEF Inv, Opening, Deciding, Advancing, Settling
  <2>2. CASE ~(k < NumOperators)
    <3>1. ASSUME NEW o \in Operators PROVE at'[o] = cursor
      <4>1. o \in 1 .. NumOperators /\ k = NumOperators
        BY <1>2, <2>2
      <4>2. o = k \/ o < k
        BY <4>1
      <4> QED
        BY <1>1, <1>4, <4>2
    <3>2. \A e \in Evaluators : ~(Owner[e] < k')
      BY <1>3, <2>2
    <3>3. Deciding'
      BY <1>1, <1>5, <3>1, <3>2 DEF Deciding
    <3> QED
      BY <1>1, <1>3, <1>5, <2>2, <3>3 DEF Inv, Opening, Advancing, Settling, Updating
  <2> QED
    BY <2>1, <2>2
<1>7. Replayed!Candle(k)
  <2>1. k \in Operators /\ k >= k
    BY <1>2
  <2>2. Behind(k) /\ settled[k] = Applied /\ \A e \in Evaluators : Owner[e] = k => Rests(e)
    BY <1>1, <2>1
  <2>3. /\ Replayed!Opened(k) /\ Replayed!Ahead(k) # {}
        /\ Replayed!Earliest(Replayed!Ahead(k)) = cursor
    BY <1>1, <2>1, <2>2, BehindIs
  <2>4. Replayed!Decided(k)
    BY <2>2, RestIs
  <2>5. Replayed!Owed(k) = {}
    <3>1. ASSUME NEW x \in Settlements \ settled[k] PROVE ~(x <= cursor)
      <4>1. x \in pending /\ x \in Nat /\ x > cursor
        BY <1>1, <2>2, <3>1 DEF Applied
      <4> QED
        BY <1>2, <4>1
    <3> QED
      BY <2>3, <3>1 DEF Replayed!Owed
  <2> QED
    BY <1>1, <1>3, <2>3, <2>4, <2>5 DEF Replayed!Candle
<1> QED
  BY <1>2, <1>6, <1>7

\* The other actions of the task and the controller change nothing that Replay has: they start
\* the task, end or drop it, or only pass statuses on.
Idle ==
  /\ UNCHANGED <<history, k, cursor, buffer, pending, at, settled, decided>>
  /\ \/ pc' = pc
     \/ pc = "start" /\ pc' = "load"
     \/ pc' \in {"ending", "concluded", "gone"}

\* Such steps keep the invariant.
LEMMA IdleStep ==
  ASSUME Inv, Idle
  PROVE  Inv' /\ UNCHANGED Replayed!rvars
<1>1. Typed' /\ Buffered' = Buffered /\ Applied' = Applied
  BY DEF Idle, Inv, Typed, Buffered, Applied
<1>2. /\ \A e \in Evaluators : Rests(e)' = Rests(e)
      /\ \A o \in Operators : Behind(o)' = Behind(o)
  BY DEF Idle, Rests, Behind
<1>3. CASE pc' = pc
  <2>1. Opening' /\ Deciding' /\ Advancing'
    BY <1>1, <1>2, <1>3 DEF Idle, Inv, Opening, Deciding, Advancing
  <2>2. Settling' /\ Updating'
    BY <1>1, <1>2, <1>3 DEF Idle, Inv, Settling, Updating
  <2> QED
    BY <1>1, <1>3, <2>1, <2>2 DEF Idle, Inv, Replayed!rvars
<1>4. CASE pc = "start" /\ pc' = "load"
  BY <1>1, <1>4 DEF Idle, Inv, Replaying, Opening, Deciding, Advancing, Settling, Updating,
     Replayed!rvars
<1>5. CASE pc' \in {"ending", "concluded", "gone"}
  BY <1>1, <1>5 DEF Idle, Inv, Replaying, Opening, Deciding, Advancing, Settling, Updating,
     Replayed!rvars
<1> QED
  BY <1>3, <1>4, <1>5 DEF Idle

\* All the actions that are not of the replay are such steps.
LEMMA OthersIdle ==
  \/ EngineSends \/ StartRun \/ Error \/ SignalOperatorFails \/ RawOperatorFails
  \/ Conclude \/ Exit \/ Cancelled \/ Controller \/ Abort \/ UntilStopped
  => Idle
<1>1. EngineSends => Idle
  BY DEF EngineSends, Idle, engine, accounts
<1>2. StartRun => Idle
  BY DEF StartRun, At, Goto, Idle, accounts
<1>3. Error \/ SignalOperatorFails \/ RawOperatorFails => Idle
  BY DEF Error, SignalOperatorFails, RawOperatorFails, RunFails, EndRun, Goto, Idle, accounts
<1>4. Conclude \/ Exit \/ Cancelled => Idle
  BY DEF Conclude, Exit, Cancelled, Goto, Idle, accounts
<1>5. Controller => Idle
  BY DEF Controller, AbortStores, AbortSends, AbortReturns, Snapshot, Receive, Lag, Idle,
     engine, accounts
<1>6. Abort \/ UntilStopped => Idle
  BY DEF Abort, UntilStopped, Idle, engine, accounts
<1> QED
  BY <1>1, <1>2, <1>3, <1>4, <1>5, <1>6

\* Every step of the engine keeps the invariant, and is a step of Replay or none.
LEMMA NextStep == Inv /\ [Next]_vars => Inv' /\ [Replayed!Next]_(Replayed!rvars)
<1> SUFFICES ASSUME Inv, [Next]_vars
             PROVE  Inv' /\ [Replayed!Next]_(Replayed!rvars)
  OBVIOUS
<1>1. CASE Load
  BY <1>1, LoadStep DEF Replayed!Next
<1>2. CASE Iterate
  BY <1>2, IterateStep DEF Replayed!Next
<1>3. CASE Report
  BY <1>3, ReportStep
<1>4. CASE Advance
  BY <1>4, AdvanceStep
<1>5. CASE Settle
  BY <1>5, SettleStep DEF Replayed!Next
<1>6. CASE Update
  BY <1>6, UpdateStep DEF Replayed!Next
<1>7. CASE \/ EngineSends \/ StartRun \/ Error \/ SignalOperatorFails \/ RawOperatorFails
           \/ Conclude \/ Exit \/ Cancelled \/ Controller \/ Abort \/ UntilStopped
  BY <1>7, OthersIdle, IdleStep
<1>8. CASE UNCHANGED vars
  <2>1. Idle
    BY <1>8 DEF vars, engine, accounts, Idle
  <2> QED
    BY <2>1, IdleStep
<1> QED
  BY <1>1, <1>2, <1>3, <1>4, <1>5, <1>6, <1>7, <1>8 DEF Next, Task

\* The engine implements Replay: it replays to each of its operators every candle, settlement
\* and decision once and in order, whatever the others, the buffers and the holes are
\* (single/engine.rs and parallel/engine.rs).
THEOREM Refinement == Spec => RefinesReplay
<1>1. Init => Inv /\ Replayed!Init
  BY InitInv
<1>2. Inv /\ [Next]_vars => Inv' /\ [Replayed!Next]_(Replayed!rvars)
  BY NextStep
<1> QED
  BY <1>1, <1>2, PTL DEF Spec, RefinesReplay, Replayed!Spec

-----------------------------------------------------------------------------
(* Buckets of minutes.                                                     *)

\* Multiplication keeps the order.
LEMMA TimesKeeps ==
  ASSUME NEW a \in Int, NEW b \in Int, NEW r \in Nat, a <= b
  PROVE  r * a <= r * b
OBVIOUS

\* The bucket of a minute starts at a multiple of the resolution, less than one before it.
LEMMA FloorIs ==
  ASSUME NEW m \in Nat, NEW r \in Nat \ {0}
  PROVE  /\ Floor(m, r) \in Nat /\ Floor(m, r) <= m /\ m < Floor(m, r) + r
         /\ m \div r \in Nat /\ Floor(m, r) = r * (m \div r)
<1>1. m = r * (m \div r) + (m % r) /\ m % r \in 0 .. r - 1 /\ m \div r \in Int
  OBVIOUS
<1>2. m \div r \in Nat
  <2>1. CASE m \div r < 0
    <3>1. m \div r <= -1
      BY <1>1, <2>1
    <3>2. r * (m \div r) <= r * (-1)
      BY <1>1, <3>1, TimesKeeps
    <3> QED
      BY <1>1, <3>2
  <2> QED
    BY <1>1, <2>1
<1>3. r * (m \div r) >= r * 0
  BY <1>2, TimesKeeps
<1> QED
  BY <1>1, <1>2, <1>3 DEF Floor

\* Buckets follow the minutes, and are at least their length apart.
LEMMA FloorApart ==
  ASSUME NEW m \in Nat, NEW n \in Nat, NEW r \in Nat \ {0}
  PROVE  /\ m <= n => Floor(m, r) <= Floor(n, r)
         /\ Floor(m, r) < Floor(n, r) => Floor(m, r) + r <= Floor(n, r)
<1> DEFINE a == m \div r
           b == n \div r
<1>1. /\ a \in Nat /\ b \in Nat /\ Floor(m, r) = r * a /\ Floor(n, r) = r * b
      /\ r * a <= m /\ n < r * b + r
  BY FloorIs
<1> HIDE DEF a, b
<1>2. CASE a <= b
  <2>1. r * a <= r * b
    BY <1>1, <1>2, TimesKeeps
  <2>2. a < b => r * (a + 1) <= r * b
    BY <1>1, TimesKeeps
  <2>3. r * (a + 1) = r * a + r
    BY <1>1
  <2>4. a = b \/ a < b
    BY <1>1, <1>2
  <2> QED
    BY <1>1, <2>1, <2>2, <2>3, <2>4
<1>3. CASE b < a
  <2>1. r * (b + 1) <= r * a /\ r * (b + 1) = r * b + r
    BY <1>1, <1>3, TimesKeeps
  <2> QED
    BY <1>1, <2>1
<1> QED
  BY <1>1, <1>2, <1>3

\* A minute is a bucket of its own.
LEMMA FloorOfOne == \A m \in Nat : Floor(m, 1) = m
<1> SUFFICES ASSUME NEW m \in Nat PROVE Floor(m, 1) = m
  OBVIOUS
<1>1. Floor(m, 1) \in Nat /\ Floor(m, 1) <= m /\ m < Floor(m, 1) + 1
  BY FloorIs
<1> QED
  BY <1>1

\* A resolution's window is as long as the longest that an evaluator asks for.
LEMMA SharedPeriodIs ==
  ASSUME NEW r \in Resolutions
  PROVE  /\ r \in Nat \ {0} /\ SharedPeriod(r) \in Nat \ {0}
         /\ \A e \in Evaluators : Resolution[e] = r => Period[e] <= SharedPeriod(r)
<1> DEFINE Sharing == {e \in Evaluators : Resolution[e] = r}
           Slack == {BufferSize - Period[e] : e \in Sharing}
<1>1. \A e \in Evaluators : /\ Resolution[e] \in Nat \ {0} /\ Period[e] \in Nat \ {0}
                            /\ Resolution[e] * Period[e] <= BufferSize /\ BufferSize \in Nat
  BY EngineAssumption
<1>2. \A e \in Evaluators : Period[e] <= BufferSize
  <2> SUFFICES ASSUME NEW e \in Evaluators PROVE Period[e] <= BufferSize
    OBVIOUS
  <2>1. Period[e] * 1 <= Period[e] * Resolution[e]
    BY <1>1, TimesKeeps
  <2>2. Period[e] * Resolution[e] = Resolution[e] * Period[e]
    BY <1>1
  <2> QED
    BY <1>1, <2>1, <2>2
<1>3. Slack \in SUBSET Nat /\ Slack # {}
  BY <1>1, <1>2 DEF Resolutions
<1>4. PICK n \in Slack : \A m \in Slack : n <= m
  <2> HIDE DEF Slack
  <2> QED
    BY <1>3, LeastNatural
<1>5. PICK e \in Sharing : n = BufferSize - Period[e]
  BY <1>4
<1>6. \A f \in Sharing : BufferSize - Period[e] <= BufferSize - Period[f]
  BY <1>4, <1>5
<1>7. \A f \in Evaluators : Resolution[f] = r => Period[f] <= Period[e]
  BY <1>1, <1>5, <1>6
<1> DEFINE Longer(p) == /\ \E f \in Evaluators : Resolution[f] = r /\ Period[f] = p
                        /\ \A f \in Evaluators : Resolution[f] = r => Period[f] <= p
<1>8. Longer(Period[e]) /\ Period[e] \in {Period[f] : f \in Evaluators}
  BY <1>5, <1>7
<1>9. SharedPeriod(r) = CHOOSE p \in {Period[f] : f \in Evaluators} : Longer(p)
  BY DEF SharedPeriod
<1>10. Longer(SharedPeriod(r))
  <2> HIDE DEF Longer
  <2> QED
    BY <1>8, <1>9
<1> QED
  BY <1>1, <1>5, <1>10

-----------------------------------------------------------------------------
(* What ORDER BY gives.                                                    *)

\* t lists n numbers in ascending order.
Rising(t, n) == t \in [1 .. n -> Int] /\ \A i, j \in 1 .. n : i < j => t[i] < t[j]

Firsts(t, n) == {t[i] : i \in 1 .. n}

\* It lists as many numbers as it has places.
LEMMA RisingCount ==
  ASSUME NEW n \in Nat, NEW t, Rising(t, n), NEW m \in 0 .. n
  PROVE  IsFiniteSet(Firsts(t, m)) /\ Cardinality(Firsts(t, m)) = m
<1> DEFINE g == [i \in 1 .. m |-> t[i]]
<1>1. \A i \in 1 .. m : i \in 1 .. n /\ t[i] \in Int
  BY DEF Rising
<1>2. \A i, j \in 1 .. m : i # j => t[i] # t[j]
  <2> SUFFICES ASSUME NEW i \in 1 .. m, NEW j \in 1 .. m, i # j PROVE t[i] # t[j]
    OBVIOUS
  <2>1. i < j \/ j < i
    OBVIOUS
  <2>2. t[i] < t[j] \/ t[j] < t[i]
    BY <1>1, <2>1 DEF Rising
  <2> QED
    BY <1>1, <2>2
<1>3. g \in Bijection(1 .. m, Firsts(t, m))
  BY <1>2 DEF Bijection, Injection, Surjection, Firsts, IsInjective
<1>4. IsFiniteSet(1 .. m) /\ Cardinality(1 .. m) = m
  BY FS_Interval
<1>5. ExistsBijection(1 .. m, Firsts(t, m))
  BY <1>3 DEF ExistsBijection
<1> QED
  BY <1>4, <1>5, FS_Bijection

\* Ascending lists a set so.
LEMMA AscendingOf ==
  ASSUME NEW n \in Nat, NEW t, Rising(t, n)
  PROVE  Ascending(Firsts(t, n)) = t
<1> DEFINE T == Firsts(t, n)
           Below(m) == {x \in T : x < m}
<1>1. Cardinality(T) = n
  BY RisingCount
<1>2. ASSUME NEW i \in 1 .. n
      PROVE  t[i] \in T /\ Cardinality(Below(t[i])) = i - 1
  <2>1. i - 1 \in 0 .. n
    OBVIOUS
  <2>2. Cardinality(Firsts(t, i - 1)) = i - 1
    BY <2>1, RisingCount
  <2>3. Below(t[i]) = Firsts(t, i - 1)
    <3>1. ASSUME NEW x \in Below(t[i]) PROVE x \in Firsts(t, i - 1)
      <4>1. PICK j \in 1 .. n : x = t[j]
        BY DEF Firsts
      <4>2. t[j] < t[i] /\ t[j] \in Int /\ t[i] \in Int
        BY <4>1 DEF Rising
      <4>3. ~(i < j) /\ i # j
        BY <4>2 DEF Rising
      <4>4. j \in 1 .. i - 1
        BY <4>3
      <4> QED
        BY <4>1, <4>4 DEF Firsts
    <3>2. ASSUME NEW j \in 1 .. i - 1 PROVE t[j] \in Below(t[i])
      <4>1. j \in 1 .. n /\ j < i
        OBVIOUS
      <4> QED
        BY <4>1 DEF Rising, Firsts
    <3> QED
      BY <3>1, <3>2 DEF Firsts
  <2> QED
    BY <2>2, <2>3 DEF Firsts
<1>3. ASSUME NEW i \in 1 .. n
      PROVE  (CHOOSE m \in T : Cardinality(Below(m)) = i - 1) = t[i]
  <2> DEFINE c == CHOOSE m \in T : Cardinality(Below(m)) = i - 1
  <2>1. c \in T /\ Cardinality(Below(c)) = i - 1
    <3> HIDE DEF Below, T
    <3> QED
      BY <1>2
  <2> HIDE DEF c
  <2>2. PICK j \in 1 .. n : c = t[j]
    BY <2>1 DEF Firsts
  <2>3. j - 1 = i - 1
    BY <1>2, <2>1, <2>2
  <2>4. i = j
    BY <2>3
  <2>5. c = t[i]
    BY <2>2, <2>4
  <2> QED
    BY <2>5 DEF c
<1>4. Ascending(T) = [i \in 1 .. n |-> t[i]]
  <2>1. Ascending(T) = [i \in 1 .. n |-> CHOOSE m \in T : Cardinality(Below(m)) = i - 1]
    BY <1>1 DEF Ascending
  <2> HIDE DEF T, Below
  <2> QED
    BY <2>1, <1>3
<1> QED
  BY <1>4 DEF Rising

\* Every finite set of numbers can be listed so: its greatest one goes last.
LEMMA RisingExists ==
  ASSUME NEW S \in SUBSET Int, IsFiniteSet(S)
  PROVE  \E n \in Nat : \E t : Rising(t, n) /\ S = Firsts(t, n)
<1> DEFINE Listed(T) == \E n \in Nat : \E t : Rising(t, n) /\ T = Firsts(t, n)
           Good == {T \in SUBSET S : Listed(T)}
<1>1. ASSUME NEW T \in SUBSET S, \A x \in T : T \ {x} \in Good PROVE Listed(T)
  <2>1. CASE T = {}
    <3> DEFINE t == [i \in 1 .. 0 |-> 0]
    <3>1. Rising(t, 0) /\ T = Firsts(t, 0)
      BY <2>1 DEF Rising, Firsts
    <3> QED
      BY <3>1
  <2>2. CASE T # {}
    <3>1. PICK m \in T : \A x \in T : m >= x
      <4>1. IsFiniteSet(T) /\ T \in SUBSET Int
        BY FS_Subset
      <4> QED
        BY <4>1, <2>2, GreatestExists
    <3>2. Listed(T \ {m})
      BY <1>1, <3>1
    <3>3. PICK n \in Nat : \E t : Rising(t, n) /\ T \ {m} = Firsts(t, n)
      BY <3>2
    <3>4. PICK t : Rising(t, n) /\ T \ {m} = Firsts(t, n)
      BY <3>3
    <3> DEFINE u == [i \in 1 .. n + 1 |-> IF i <= n THEN t[i] ELSE m]
    <3>5. \A i \in 1 .. n + 1 : i = n + 1 \/ i \in 1 .. n
      OBVIOUS
    <3>6. \A i \in 1 .. n : t[i] \in Int /\ t[i] < m /\ u[i] = t[i]
      <4> SUFFICES ASSUME NEW i \in 1 .. n PROVE t[i] \in Int /\ t[i] < m /\ u[i] = t[i]
        OBVIOUS
      <4>1. t[i] \in T \ {m}
        BY <3>4 DEF Firsts
      <4>2. t[i] \in Int /\ m \in Int /\ m >= t[i] /\ t[i] # m
        BY <3>1, <4>1
      <4>3. i \in 1 .. n + 1 /\ i <= n
        OBVIOUS
      <4> QED
        BY <4>2, <4>3
    <3>7. u[n + 1] = m /\ m \in Int /\ n + 1 \in 1 .. n + 1
      BY <3>1
    <3>8. Rising(u, n + 1)
      <4>1. u \in [1 .. n + 1 -> Int]
        BY <3>5, <3>6, <3>7
      <4>2. ASSUME NEW i \in 1 .. n + 1, NEW j \in 1 .. n + 1, i < j PROVE u[i] < u[j]
        <5>1. i \in 1 .. n
          BY <4>2
        <5>2. CASE j = n + 1
          BY <5>1, <5>2, <3>6, <3>7
        <5>3. CASE j \in 1 .. n
          BY <5>1, <5>3, <3>4, <3>6, <4>2 DEF Rising
        <5> QED
          BY <5>2, <5>3, <3>5
      <4> QED
        BY <4>1, <4>2 DEF Rising
    <3>9. T = Firsts(u, n + 1)
      <4>1. T = Firsts(t, n) \cup {m}
        BY <3>1, <3>4
      <4> QED
        BY <4>1, <3>5, <3>6, <3>7 DEF Firsts
    <3> QED
      BY <3>8, <3>9
  <2> QED
    BY <2>1, <2>2
<1>2. S \in Good
  <2> HIDE DEF Good
  <2>1. \A T \in SUBSET S : (\A x \in T : T \ {x} \in Good) => T \in Good
    BY <1>1 DEF Good
  <2> QED
    BY <2>1, SetInduction
<1> QED
  BY <1>2

\* So Ascending lists every finite set of numbers.
LEMMA AscendingIs ==
  ASSUME NEW S \in SUBSET Int, IsFiniteSet(S)
  PROVE  \E n \in Nat : /\ Rising(Ascending(S), n) /\ S = Firsts(Ascending(S), n)
                        /\ Cardinality(S) = n
<1>1. PICK n \in Nat : \E t : Rising(t, n) /\ S = Firsts(t, n)
  BY RisingExists
<1>2. PICK t : Rising(t, n) /\ S = Firsts(t, n)
  BY <1>1
<1>3. Ascending(S) = t /\ Cardinality(S) = n
  BY <1>2, AscendingOf, RisingCount
<1> QED
  BY <1>2, <1>3

-----------------------------------------------------------------------------
(* What a window shows of the minutes it has been given.  A candle either goes *)
(* to the bucket that is open or begins another one.                       *)

\* The buckets q of resolution r, ascending, each with its minutes of S: all of them, or the
\* last ones, as many as the window may have.
Holds(q, r, S) ==
  /\ q \in Seq(Buckets) /\ Len(q) <= SharedPeriod(r)
  /\ \A i \in 1 .. Len(q) : /\ q[i].minutes # {}
                            /\ q[i].minutes = {c \in S : Floor(c, r) = q[i].time}
  /\ \A i, j \in 1 .. Len(q) : i < j => q[i].time < q[j].time
  /\ \A c \in S : \/ \E i \in 1 .. Len(q) : q[i].time = Floor(c, r)
                  \/ Len(q) = SharedPeriod(r) /\ Floor(c, r) < q[1].time

\* b is a bucket of the minute c alone.
Begins(b, r, c) == b \in Buckets /\ b.time = Floor(c, r) /\ b.minutes = {c}

\* The time of a bucket is over: it is as stable as its minutes are.
IsClosed(b) == b.stable = AllStable(b.minutes)

\* All of the buckets q are closed and before the bucket b.
Precede(q, b) == \A i \in 1 .. Len(q) : q[i].time < b.time /\ IsClosed(q[i])

\* The window gets another bucket.
Grown(q, b, r) == Trim(Append(q, b), r)

\* A bucket that begins after all others is appended to them, and the first may be trimmed.
LEMMA HoldsMore ==
  ASSUME NEW r \in Resolutions, NEW S \in SUBSET Nat, NEW q, Holds(q, r, S),
         NEW c \in Nat, NEW b, Begins(b, r, c), Precede(q, b)
  PROVE  /\ Holds(Grown(q, b, r), r, S \cup {c}) /\ Len(Grown(q, b, r)) >= 1
         /\ Grown(q, b, r)[Len(Grown(q, b, r))] = b
         /\ \A i \in 1 .. Len(Grown(q, b, r)) - 1 : IsClosed(Grown(q, b, r)[i])
<1> DEFINE p == Grown(q, b, r)
           a == Append(q, b)
           n == Len(q)
           P == SharedPeriod(r)
<1>0. /\ b \in Buckets /\ b.time = Floor(c, r) /\ b.minutes = {c}
      /\ \A i \in 1 .. n : q[i].time < b.time
      /\ \A i \in 1 .. n : IsClosed(q[i])
  BY DEF Begins, Precede
<1>1. r \in Nat \ {0} /\ P \in Nat \ {0}
  BY SharedPeriodIs
<1>2. q \in Seq(Buckets) /\ n <= P /\ n \in Nat
  BY DEF Holds
<1>3. /\ a \in Seq(Buckets) /\ Len(a) = n + 1 /\ a[n + 1] = b /\ a # << >>
      /\ \A i \in 1 .. n : a[i] = q[i]
  BY <1>0, <1>2, AppendProperties
<1>4. \A x \in S : Floor(x, r) \in Nat
  BY <1>1, FloorIs
<1>5. Floor(c, r) \in Nat /\ b.time = Floor(c, r)
  BY <1>0, <1>1, FloorIs
<1>6. \A i \in 1 .. n : q[i] \in Buckets /\ q[i].time \in Nat
  <2>1. \A i \in 1 .. n : q[i] \in Buckets
    BY <1>2, ElementOfSeq
  <2> QED
    BY <2>1 DEF Buckets
<1>7. ASSUME NEW x \in S PROVE Floor(x, r) # b.time
  <2>1. CASE \E i \in 1 .. n : q[i].time = Floor(x, r)
    BY <2>1, <1>0, <1>4, <1>5, <1>6
  <2>2. CASE n = P /\ Floor(x, r) < q[1].time
    <3>1. 1 \in 1 .. n
      BY <1>1, <2>2
    <3>2. q[1].time < b.time /\ q[1].time \in Nat
      BY <3>1, <1>0, <1>6
    <3> QED
      BY <3>2, <2>2, <1>4, <1>5
  <2> QED
    BY <2>1, <2>2 DEF Holds
<1>8. \A i \in 1 .. n + 1 : i \in 1 .. n \/ i = n + 1
  BY <1>2
<1>9. \A i \in 1 .. n + 1 : a[i] \in Buckets /\ a[i].time \in Nat
  BY <1>0, <1>3, <1>5, <1>6, <1>8
<1>10. ASSUME NEW i \in 1 .. n + 1
       PROVE  a[i].minutes # {} /\ a[i].minutes = {x \in S \cup {c} : Floor(x, r) = a[i].time}
  <2>1. CASE i \in 1 .. n
    <3>1. q[i].minutes # {} /\ q[i].minutes = {x \in S : Floor(x, r) = q[i].time}
      BY <2>1 DEF Holds
    <3>2. q[i].time # Floor(c, r)
      BY <2>1, <1>0, <1>5, <1>6
    <3> QED
      BY <2>1, <3>1, <3>2, <1>3
  <2>2. CASE i = n + 1
    <3>1. {x \in S \cup {c} : Floor(x, r) = b.time} = {c}
      BY <1>5, <1>7
    <3> QED
      <4>1. a[i].minutes = {c} /\ a[i].time = b.time
        BY <2>2, <1>0, <1>3
      <4> HIDE DEF a
      <4> QED
        BY <3>1, <4>1
  <2> QED
    BY <2>1, <2>2, <1>8
<1>11. ASSUME NEW i \in 1 .. n + 1, NEW j \in 1 .. n + 1, i < j PROVE a[i].time < a[j].time
  <2>1. i \in 1 .. n
    BY <1>2, <1>11
  <2>2. CASE j \in 1 .. n
    <3>1. q[i].time < q[j].time
      BY <2>1, <2>2, <1>11 DEF Holds
    <3> QED
      BY <3>1, <2>1, <2>2, <1>3
  <2>3. CASE j = n + 1
    BY <2>1, <2>3, <1>0, <1>3
  <2> QED
    BY <2>2, <2>3, <1>8
<1>12. ASSUME NEW x \in S \cup {c}
       PROVE  \/ \E i \in 1 .. n + 1 : a[i].time = Floor(x, r)
              \/ n = P /\ Floor(x, r) < a[1].time
  <2>1. CASE x = c
    BY <2>1, <1>2, <1>3, <1>5
  <2>2. CASE x \in S
    <3>1. CASE \E i \in 1 .. n : q[i].time = Floor(x, r)
      BY <3>1, <1>3, <1>2
    <3>2. CASE n = P /\ Floor(x, r) < q[1].time
      <4>1. 1 \in 1 .. n
        BY <1>1, <3>2
      <4> QED
        BY <3>2, <4>1, <1>3
    <3> QED
      BY <2>2, <3>1, <3>2 DEF Holds
  <2> QED
    BY <2>1, <2>2
<1>13. PICK d \in {0, 1} :
         /\ p \in Seq(Buckets) /\ Len(p) = n + 1 - d /\ (d = 1) = (n = P)
         /\ \A i \in 1 .. Len(p) : p[i] = a[i + d]
  <2>1. CASE n = P
    <3>1. Len(a) > P
      BY <1>1, <1>3, <2>1
    <3>2. p = Tail(a)
      BY <3>1 DEF Trim, Grown
    <3>3. /\ p \in Seq(Buckets) /\ Len(p) = n
          /\ \A i \in 1 .. Len(p) : p[i] = a[i + 1]
      <4>1. /\ Tail(a) \in Seq(Buckets) /\ Len(Tail(a)) = Len(a) - 1
            /\ \A i \in 1 .. Len(Tail(a)) : Tail(a)[i] = a[i + 1]
        BY <1>3, HeadTailProperties
      <4> QED
        BY <4>1, <3>2, <1>3, <1>2
    <3> QED
      BY <3>3, <2>1, <1>2
  <2>2. CASE n # P
    <3>1. ~(Len(a) > P)
      BY <1>1, <1>2, <1>3, <2>2
    <3>2. p = a
      BY <3>1 DEF Trim, Grown
    <3>3. \A i \in 1 .. Len(p) : p[i] = a[i + 0]
      BY <3>2, <1>3, <1>2
    <3> QED
      BY <3>2, <3>3, <2>2, <1>2, <1>3
  <2> QED
    BY <2>1, <2>2
<1> HIDE DEF a, n, P, p
<1>14. Len(p) \in Nat /\ Len(p) >= 1 /\ d \in Nat
  BY <1>1, <1>2, <1>13
<1>15. \A i \in 1 .. Len(p) : i + d \in 1 .. n + 1 /\ p[i] = a[i + d]
  BY <1>2, <1>13, <1>14
<1>16. Len(p) <= P
  BY <1>1, <1>2, <1>13
<1>17. ASSUME NEW i \in 1 .. Len(p), NEW j \in 1 .. Len(p), i < j PROVE p[i].time < p[j].time
  <2>1. i + d < j + d /\ i + d \in 1 .. n + 1 /\ j + d \in 1 .. n + 1
    BY <1>14, <1>15, <1>17
  <2> QED
    BY <2>1, <1>11, <1>15
<1>18. ASSUME NEW x \in S \cup {c}
       PROVE  \/ \E i \in 1 .. Len(p) : p[i].time = Floor(x, r)
              \/ Len(p) = P /\ Floor(x, r) < p[1].time
  <2>1. Floor(x, r) \in Nat
    BY <1>4, <1>5
  <2>2. d = 1 => Len(p) = P /\ p[1] = a[2] /\ a[1].time < a[2].time
                 /\ a[1].time \in Nat /\ a[2].time \in Nat
    <3> SUFFICES ASSUME d = 1 PROVE Len(p) = P /\ p[1] = a[2] /\ a[1].time < a[2].time
                 /\ a[1].time \in Nat /\ a[2].time \in Nat
      OBVIOUS
    <3>1. Len(p) = P /\ 1 \in 1 .. Len(p) /\ 1 \in 1 .. n + 1 /\ 2 \in 1 .. n + 1 /\ 1 + d = 2
      BY <1>1, <1>2, <1>13, <1>14
    <3> QED
      BY <3>1, <1>9, <1>11, <1>13
  <2>3. ASSUME NEW i \in 1 .. n + 1, a[i].time = Floor(x, r)
        PROVE  \/ \E j \in 1 .. Len(p) : p[j].time = Floor(x, r)
               \/ Len(p) = P /\ Floor(x, r) < p[1].time
    <3>1. CASE i > d
      <4>1. i - d \in 1 .. Len(p) /\ (i - d) + d = i
        BY <3>1, <1>2, <1>13, <1>14
      <4>2. p[i - d].time = Floor(x, r)
        BY <4>1, <1>15, <2>3
      <4> QED
        BY <4>1, <4>2
    <3>2. CASE ~(i > d)
      <4>1. d = 1 /\ i = 1
        BY <3>2
      <4> QED
        BY <4>1, <2>2, <2>3
    <3> QED
      BY <3>1, <3>2
  <2>4. ASSUME n = P, Floor(x, r) < a[1].time
        PROVE  Len(p) = P /\ Floor(x, r) < p[1].time
    <3>1. d = 1
      BY <2>4, <1>13
    <3> QED
      BY <3>1, <2>1, <2>2, <2>4
  <2> QED
    BY <2>3, <2>4, <1>12
<1>19. Holds(p, r, S \cup {c})
  <2>1. \A i \in 1 .. Len(p) : /\ p[i].minutes # {}
                               /\ p[i].minutes = {x \in S \cup {c} : Floor(x, r) = p[i].time}
    BY <1>10, <1>15
  <2> QED
    BY <2>1, <1>13, <1>16, <1>17, <1>18 DEF Holds, P
<1>20. p[Len(p)] = b
  <2>1. Len(p) + d = n + 1 /\ Len(p) \in 1 .. Len(p)
    BY <1>2, <1>13, <1>14
  <2> QED
    BY <2>1, <1>3, <1>15
<1>21. ASSUME NEW i \in 1 .. Len(p) - 1
       PROVE  IsClosed(p[i])
  <2>1. i \in 1 .. Len(p) /\ i + d \in 1 .. n
    BY <1>2, <1>13, <1>14
  <2>2. p[i] = q[i + d]
    BY <2>1, <1>3, <1>15
  <2> QED
    BY <2>1, <2>2, <1>0
<1> QED
  BY <1>14, <1>19, <1>20, <1>21 DEF p

WindowType == [candles : Seq(Buckets), open : BOOLEAN]

\* The window of resolution r after the minutes S: all of its buckets are closed, but the
\* last one if it is open, which it always is for resolutions other than a minute.
Shows(w, r, S) ==
  /\ w \in WindowType /\ Holds(w.candles, r, S)
  /\ \A i \in 1 .. Len(w.candles) : i < Len(w.candles) \/ ~w.open => IsClosed(w.candles[i])
  /\ w.open => Len(w.candles) >= 1 /\ w.candles[Len(w.candles)].stable = FALSE
  /\ r # 1 => Len(w.candles) = 0 \/ w.open

\* No minutes have been.
LEMMA ShowsNothing ==
  ASSUME NEW r \in Resolutions
  PROVE  Shows([candles |-> << >>, open |-> FALSE], r, {})
<1>1. SharedPeriod(r) \in Nat
  BY SharedPeriodIs
<1>2. << >> \in Seq(Buckets) /\ Len(<< >>) = 0
  BY EmptySeq
<1>3. Holds(<< >>, r, {})
  BY <1>1, <1>2 DEF Holds
<1> QED
  BY <1>2, <1>3 DEF Shows, WindowType

\* The last bucket of a window is that of the last minute.
LEMMA LastBucket ==
  ASSUME NEW r \in Resolutions, NEW S \in SUBSET Nat, NEW q, Holds(q, r, S)
  PROVE  /\ Len(q) = 0 <=> S = {}
         /\ \A i \in 1 .. Len(q) : q[i] \in Buckets /\ q[i].time \in Nat
         /\ \A c \in S : Floor(c, r) <= q[Len(q)].time
         /\ Len(q) # 0 => \E c \in S : Floor(c, r) = q[Len(q)].time
<1>1. r \in Nat \ {0} /\ SharedPeriod(r) \in Nat \ {0}
  BY SharedPeriodIs
<1>2. q \in Seq(Buckets) /\ Len(q) \in Nat
  BY DEF Holds
<1>3. \A i \in 1 .. Len(q) : q[i] \in Buckets /\ q[i].time \in Nat
  <2>1. \A i \in 1 .. Len(q) : q[i] \in Buckets
    BY <1>2, ElementOfSeq
  <2> QED
    BY <2>1 DEF Buckets
<1>4. ASSUME Len(q) # 0
      PROVE  Len(q) \in 1 .. Len(q) /\ \E c \in S : Floor(c, r) = q[Len(q)].time
  <2>1. Len(q) \in 1 .. Len(q)
    BY <1>2, <1>4
  <2>2. q[Len(q)].minutes # {} /\ q[Len(q)].minutes = {c \in S : Floor(c, r) = q[Len(q)].time}
    BY <2>1 DEF Holds
  <2> QED
    BY <2>1, <2>2
<1>5. ASSUME NEW c \in S PROVE Len(q) # 0 /\ Floor(c, r) <= q[Len(q)].time
  <2>1. PICK i \in 1 .. Len(q) : Floor(c, r) <= q[i].time
    <3>1. Floor(c, r) \in Nat
      BY <1>1, FloorIs
    <3>2. CASE \E i \in 1 .. Len(q) : q[i].time = Floor(c, r)
      BY <3>1, <3>2
    <3>3. CASE Len(q) = SharedPeriod(r) /\ Floor(c, r) < q[1].time
      <4>1. 1 \in 1 .. Len(q)
        BY <1>1, <3>3
      <4> QED
        BY <4>1, <3>1, <3>3, <1>3
    <3> QED
      BY <3>2, <3>3 DEF Holds
  <2>2. Len(q) \in 1 .. Len(q) /\ (i = Len(q) \/ i < Len(q))
    BY <1>2
  <2>3. q[i].time <= q[Len(q)].time
    <3>1. i < Len(q) => q[i].time < q[Len(q)].time
      BY <2>2 DEF Holds
    <3>2. q[i].time \in Nat /\ q[Len(q)].time \in Nat
      BY <1>3, <2>2
    <3> QED
      BY <2>2, <3>1, <3>2
  <2>4. Floor(c, r) \in Nat /\ q[i].time \in Nat /\ q[Len(q)].time \in Nat
    BY <1>1, <1>3, <2>2, FloorIs
  <2> QED
    BY <2>1, <2>2, <2>3, <2>4
<1> QED
  BY <1>2, <1>3, <1>4, <1>5

\* The bucket of a minute that comes after all others is not before the last one.
LEMMA BucketIs ==
  ASSUME NEW r \in Nat \ {0}, NEW c \in Nat
  PROVE  Bucket(r, c) \in Buckets /\ Bucket(r, c).time = Floor(c, r)
         /\ Bucket(r, c).minutes = {c} /\ Bucket(r, c).stable = FALSE
BY FloorIs DEF Bucket, Buckets

\* Closing a bucket sets its flag alone.
LEMMA ClosedIs ==
  ASSUME NEW b \in Buckets
  PROVE  Closed(b) \in Buckets /\ Closed(b).time = b.time /\ Closed(b).minutes = b.minutes
         /\ IsClosed(Closed(b))
<1> DEFINE flag == AllStable(b.minutes)
<1>1. flag \in BOOLEAN
  BY DEF AllStable
<1>2. Closed(b) = [b EXCEPT !.stable = flag]
  BY DEF Closed
<1> HIDE DEF flag
<1>3. /\ Closed(b) \in Buckets /\ Closed(b).time = b.time /\ Closed(b).minutes = b.minutes
      /\ Closed(b).stable = flag
  BY <1>1, <1>2 DEF Buckets
<1> QED
  BY <1>3 DEF IsClosed, flag

\* So does clearing it.
LEMMA UnstableBucket ==
  ASSUME NEW b \in Buckets
  PROVE  /\ [b EXCEPT !.stable = FALSE] \in Buckets
         /\ [b EXCEPT !.stable = FALSE].time = b.time
         /\ [b EXCEPT !.stable = FALSE].minutes = b.minutes
         /\ [b EXCEPT !.stable = FALSE].stable = FALSE
BY DEF Buckets

\* The last bucket of the window gets another minute.
Widened(q, c) == [q EXCEPT ![Len(q)] = AddCandle(@, c)]

\* A minute is added to the bucket that is open.
LEMMA HoldsWider ==
  ASSUME NEW r \in Resolutions, NEW S \in SUBSET Nat, NEW q, Holds(q, r, S), Len(q) # 0,
         NEW c \in Nat, q[Len(q)].time = Floor(c, r)
  PROVE  /\ Holds(Widened(q, c), r, S \cup {c}) /\ Len(Widened(q, c)) = Len(q)
         /\ \A i \in 1 .. Len(q) : i # Len(q) => Widened(q, c)[i] = q[i]
         /\ Widened(q, c)[Len(q)].stable = q[Len(q)].stable
<1> DEFINE p == Widened(q, c)
<1>1. q \in Seq(Buckets) /\ Len(q) \in Nat /\ Len(q) \in 1 .. Len(q)
  BY DEF Holds
<1>2. \A i \in 1 .. Len(q) : q[i] \in Buckets /\ q[i].time \in Nat
  BY LastBucket
<1> DEFINE b == AddCandle(q[Len(q)], c)
<1>3. /\ b \in Buckets /\ b.time = q[Len(q)].time /\ b.stable = q[Len(q)].stable
      /\ b.minutes = q[Len(q)].minutes \cup {c}
  BY <1>1, <1>2 DEF AddCandle, Buckets
<1>4. p = [q EXCEPT ![Len(q)] = b]
  BY DEF Widened
<1> HIDE DEF b, p
<1>5. /\ p \in Seq(Buckets) /\ Len(p) = Len(q)
      /\ \A i \in 1 .. Len(q) : p[i] = IF i = Len(q) THEN b ELSE q[i]
  BY <1>1, <1>3, <1>4, ExceptSeq
<1>6. /\ \A i \in 1 .. Len(q) : p[i].time = q[i].time /\ (i # Len(q) => p[i] = q[i])
      /\ p[Len(q)].stable = q[Len(q)].stable
  BY <1>1, <1>3, <1>5
<1>7. ASSUME NEW i \in 1 .. Len(q)
      PROVE  p[i].minutes # {} /\ p[i].minutes = {x \in S \cup {c} : Floor(x, r) = p[i].time}
  <2>1. q[i].minutes # {} /\ q[i].minutes = {x \in S : Floor(x, r) = q[i].time}
    BY DEF Holds
  <2>2. CASE i = Len(q)
    <3>1. p[i].minutes = q[i].minutes \cup {c} /\ p[i].time = Floor(c, r)
      BY <2>2, <1>3, <1>5
    <3> QED
      BY <2>1, <3>1, <1>6
  <2>3. CASE i # Len(q)
    <3>1. i < Len(q)
      BY <2>3, <1>1
    <3>2. q[i].time < q[Len(q)].time /\ q[i].time \in Nat /\ q[Len(q)].time \in Nat
      BY <3>1, <1>1, <1>2 DEF Holds
    <3>3. Floor(c, r) # q[i].time
      BY <3>2
    <3>4. p[i] = q[i]
      BY <2>3, <1>5
    <3> QED
      BY <2>1, <3>3, <3>4
  <2> QED
    BY <2>2, <2>3
<1>8. \A i, j \in 1 .. Len(q) : i < j => p[i].time < p[j].time
  BY <1>6 DEF Holds
<1>9. ASSUME NEW x \in S \cup {c}
      PROVE  \/ \E i \in 1 .. Len(q) : p[i].time = Floor(x, r)
             \/ Len(q) = SharedPeriod(r) /\ Floor(x, r) < p[1].time
  <2>1. CASE x = c
    BY <2>1, <1>1, <1>6
  <2>2. CASE x \in S
    <3>1. 1 \in 1 .. Len(q)
      BY <1>1
    <3>2. p[1].time = q[1].time
      BY <3>1, <1>6
    <3> QED
      BY <2>2, <3>2, <1>6 DEF Holds
  <2> QED
    BY <2>1, <2>2
<1>10. Holds(p, r, S \cup {c})
  BY <1>5, <1>7, <1>8, <1>9 DEF Holds
<1> QED
  BY <1>5, <1>6, <1>10 DEF p

\* RuntimeConsolidator::push: the window goes on to show the minutes.
LEMMA PushShows ==
  ASSUME NEW r \in Resolutions, NEW S \in SUBSET Nat, NEW w, Shows(w, r, S),
         NEW c \in Nat, \A x \in S : x < c
  PROVE  Shows(Push(w, r, c), r, S \cup {c})
<1> DEFINE q == w.candles
           n == Len(q)
<1>1. r \in Nat \ {0} /\ SharedPeriod(r) \in Nat \ {0}
  BY SharedPeriodIs
<1>2. /\ w \in WindowType /\ Holds(q, r, S) /\ q \in Seq(Buckets) /\ n \in Nat
      /\ w.open \in BOOLEAN
  BY DEF Shows, WindowType, Holds
<1>3. \A i \in 1 .. n : q[i] \in Buckets /\ q[i].time \in Nat
  BY <1>2, LastBucket
<1>4. CASE w.open /\ q[n].time = Floor(c, r)
  <2> DEFINE p == Widened(q, c)
  <2>1. Push(w, r, c) = [w EXCEPT !.candles = p]
    BY <1>4 DEF Push, Widened
  <2>2. n # 0
    BY <1>2, <1>4 DEF Shows
  <2>3. /\ Holds(p, r, S \cup {c}) /\ Len(p) = n
        /\ \A i \in 1 .. n : i # n => p[i] = q[i]
        /\ p[n].stable = q[n].stable
    <3>1. Holds(q, r, S) /\ Len(q) # 0 /\ q[Len(q)].time = Floor(c, r)
      BY <1>2, <1>4, <2>2
    <3> HIDE DEF q
    <3> QED
      BY <3>1, HoldsWider
  <2> HIDE DEF p
  <2>4. p \in Seq(Buckets)
    BY <2>3 DEF Holds
  <2>5. Push(w, r, c) \in WindowType /\ Push(w, r, c).candles = p /\ Push(w, r, c).open = w.open
    BY <1>2, <2>1, <2>4 DEF WindowType
  <2>6. (\A i \in 1 .. n : i < n => IsClosed(q[i])) /\ q[n].stable = FALSE
    BY <1>4 DEF Shows
  <2>7. \A i \in 1 .. n : i < n => IsClosed(p[i])
    BY <1>2, <2>3, <2>6
  <2> QED
    BY <1>2, <1>4, <2>2, <2>3, <2>5, <2>6, <2>7 DEF Shows
<1>5. CASE ~(w.open /\ q[n].time = Floor(c, r))
  <2> DEFINE f == Finalized(w)
             b == Bucket(r, c)
             p == Grown(f, b, r)
  <2>1. Push(w, r, c) = [candles |-> p, open |-> TRUE]
    BY <1>5 DEF Push, Grown
  <2>2. /\ f \in Seq(Buckets) /\ Len(f) = n
        /\ \A i \in 1 .. n : /\ f[i].time = q[i].time /\ f[i].minutes = q[i].minutes
                             /\ IsClosed(f[i])
    <3>1. CASE w.open
      <4>1. n \in 1 .. n
        BY <1>2, <3>1 DEF Shows
      <4> DEFINE l == Closed(q[n])
      <4>2. /\ l \in Buckets /\ l.time = q[n].time /\ l.minutes = q[n].minutes
            /\ IsClosed(l)
        BY <1>3, <4>1, ClosedIs
      <4>3. f = [q EXCEPT ![n] = l]
        BY <3>1 DEF Finalized
      <4> HIDE DEF l
      <4>4. /\ f \in Seq(Buckets) /\ Len(f) = n
            /\ \A i \in 1 .. n : f[i] = IF i = n THEN l ELSE q[i]
        BY <1>2, <4>1, <4>2, <4>3, ExceptSeq
      <4>5. \A i \in 1 .. n : i # n => i < n
        BY <1>2
      <4>6. \A i \in 1 .. n : i < n => IsClosed(q[i])
        BY DEF Shows
      <4> QED
        BY <4>2, <4>4, <4>5, <4>6
    <3>2. CASE ~w.open
      <4>1. f = q
        BY <3>2 DEF Finalized
      <4>2. \A i \in 1 .. n : IsClosed(q[i])
        BY <3>2 DEF Shows
      <4> QED
        BY <4>1, <4>2, <1>2
    <3> QED
      BY <3>1, <3>2
  <2>3. b \in Buckets /\ b.time = Floor(c, r) /\ b.minutes = {c} /\ b.stable = FALSE
    BY <1>1, BucketIs
  <2> HIDE DEF f, b
  <2>4. Holds(f, r, S)
    <3>1. SharedPeriod(r) = n => 1 \in 1 .. n
      BY <1>1, <1>2
    <3>2. \A i \in 1 .. n : f[i].minutes # {} /\ f[i].minutes = {x \in S : Floor(x, r) = f[i].time}
      BY <1>2, <2>2 DEF Holds
    <3>3. \A i, j \in 1 .. n : i < j => f[i].time < f[j].time
      BY <1>2, <2>2 DEF Holds
    <3>4. ASSUME NEW x \in S
          PROVE  \/ \E i \in 1 .. n : f[i].time = Floor(x, r)
                 \/ n = SharedPeriod(r) /\ Floor(x, r) < f[1].time
      BY <1>2, <2>2, <3>1 DEF Holds
    <3>5. n <= SharedPeriod(r)
      BY <1>2 DEF Holds
    <3> QED
      BY <2>2, <3>2, <3>3, <3>4, <3>5 DEF Holds
  <2>5. ASSUME NEW i \in 1 .. n PROVE f[i].time < b.time
    <3>1. n \in 1 .. n /\ n # 0 /\ q[n].time \in Nat
      BY <1>2, <1>3
    <3>2. PICK x \in S : Floor(x, r) = q[n].time
      BY <1>2, <3>1, LastBucket
    <3>3. x \in Nat /\ x < c /\ Floor(x, r) <= Floor(c, r)
      BY <1>1, <3>2, FloorApart
    <3>4. q[n].time < Floor(c, r)
      <4>1. CASE w.open
        <5>1. q[n].time # Floor(c, r)
          BY <1>5, <4>1
        <5>2. Floor(c, r) \in Nat
          BY <1>1, FloorIs
        <5> QED
          BY <3>1, <3>2, <3>3, <5>1, <5>2
      <4>2. CASE ~w.open
        <5>1. r = 1
          BY <3>1, <4>2 DEF Shows
        <5> QED
          BY <5>1, <3>2, <3>3, FloorOfOne
      <4> QED
        BY <4>1, <4>2
    <3>5. q[i].time <= q[n].time
      <4>1. i = n \/ i < n
        BY <1>2
      <4>2. i < n => q[i].time < q[n].time
        BY <1>2, <3>1 DEF Holds
      <4>3. q[i].time \in Nat
        BY <1>3
      <4> QED
        BY <4>1, <4>2, <4>3, <3>1
    <3>6. q[i].time \in Nat /\ Floor(c, r) \in Nat
      BY <1>1, <1>3, FloorIs
    <3> QED
      BY <3>1, <3>4, <3>5, <3>6, <2>2, <2>3
  <2>6. /\ Holds(p, r, S \cup {c}) /\ Len(p) >= 1 /\ p[Len(p)] = b
        /\ \A i \in 1 .. Len(p) - 1 : IsClosed(p[i])
    <3>1. Begins(b, r, c) /\ Precede(f, b)
      BY <2>2, <2>3, <2>5 DEF Begins, Precede
    <3>2. /\ Holds(Grown(f, b, r), r, S \cup {c}) /\ Len(Grown(f, b, r)) >= 1
          /\ Grown(f, b, r)[Len(Grown(f, b, r))] = b
          /\ \A i \in 1 .. Len(Grown(f, b, r)) - 1 : IsClosed(Grown(f, b, r)[i])
      BY <2>4, <3>1, HoldsMore, ZenonT(60)
    <3> HIDE DEF p
    <3> QED
      BY <3>2 DEF p
  <2> HIDE DEF p
  <2>7. p \in Seq(Buckets) /\ Len(p) \in Nat
    BY <2>6 DEF Holds
  <2>8. (\A i \in 1 .. Len(p) : i < Len(p) => IsClosed(p[i])) /\ p[Len(p)].stable = FALSE
    <3>1. \A i \in 1 .. Len(p) : i < Len(p) => i \in 1 .. Len(p) - 1
      BY <2>7
    <3> QED
      BY <3>1, <2>3, <2>6
  <2>9. [candles |-> p, open |-> TRUE] \in WindowType
    BY <2>7 DEF WindowType
  <2> QED
    BY <2>1, <2>6, <2>8, <2>9 DEF Shows
<1> QED
  BY <1>4, <1>5

-----------------------------------------------------------------------------
(* The first window.  It is built by recursion, which has a solution and shows *)
(* each prefix of the minutes because no least one can fail to.            *)

\* RuntimeConsolidator::new, with one candle.
After(r, w, c) ==
  IF r = 1
  THEN [candles |-> Trim(Append(w.candles, Closed(Bucket(1, c))), r), open |-> FALSE]
  ELSE Push(w, r, c)

NoWindow == [candles |-> << >>, open |-> FALSE]

\* The equation of InitialWindow, up to the candle n of t, each after the window before it.
NextWindow(r, v, c) == CHOOSE w \in {After(r, u, c) : u \in {v}} : TRUE
Windowed(f, r, t, n) ==
  f = [i \in 0 .. n |-> IF i = 0 THEN NoWindow ELSE NextWindow(r, f[i - 1], t[i])]

\* The CHOOSE of one value is that value.
LEMMA NextWindowIs == \A r, v, c : NextWindow(r, v, c) = After(r, v, c)
BY DEF NextWindow

\* The first minutes of a backtest are taken like the later ones.
LEMMA AfterShows ==
  ASSUME NEW r \in Resolutions, NEW S \in SUBSET Nat, NEW w, Shows(w, r, S),
         r = 1 => ~w.open,
         NEW c \in Nat, \A x \in S : x < c
  PROVE  Shows(After(r, w, c), r, S \cup {c}) /\ (r = 1 => ~After(r, w, c).open)
<1>1. CASE r # 1
  BY <1>1, PushShows DEF After
<1>2. CASE r = 1
  <2> DEFINE q == w.candles
             b == Closed(Bucket(1, c))
             p == Grown(q, b, r)
  <2>1. After(r, w, c) = [candles |-> p, open |-> FALSE]
    BY <1>2 DEF After, Grown
  <2>2. /\ Holds(q, r, S) /\ q \in Seq(Buckets) /\ Len(q) \in Nat
        /\ \A i \in 1 .. Len(q) : IsClosed(q[i])
    <3>1. ~w.open
      BY <1>2
    <3>2. \A i \in 1 .. Len(q) : IsClosed(q[i])
      BY <3>1 DEF Shows
    <3>3. Holds(q, r, S) /\ q \in Seq(Buckets)
      BY DEF Shows, Holds
    <3> QED
      BY <3>2, <3>3
  <2>3. /\ Bucket(1, c) \in Buckets /\ Bucket(1, c).time = Floor(c, 1)
        /\ Bucket(1, c).minutes = {c}
    <3>1. 1 \in Nat \ {0}
      OBVIOUS
    <3> QED
      BY <3>1, BucketIs
  <2>4. Begins(b, r, c) /\ IsClosed(b)
    BY <1>2, <2>3, ClosedIs DEF Begins
  <2>5. Precede(q, b)
    <3> HIDE DEF q
    <3>1. \A i \in 1 .. Len(q) : q[i] \in Buckets /\ q[i].time \in Nat
      BY <2>2, LastBucket
    <3>2. ASSUME NEW i \in 1 .. Len(q) PROVE q[i].time < b.time
      <4>1. Len(q) \in 1 .. Len(q) /\ Len(q) # 0 /\ (i = Len(q) \/ i < Len(q))
        BY <2>2
      <4>2. PICK x \in S : Floor(x, r) = q[Len(q)].time
        BY <2>2, <4>1, LastBucket
      <4>3. q[Len(q)].time = x /\ x < c /\ x \in Nat /\ b.time = c
        BY <1>2, <2>4, <4>2, FloorOfOne DEF Begins
      <4>4. i < Len(q) => q[i].time < q[Len(q)].time
        BY <2>2, <4>1 DEF Holds
      <4> QED
        BY <3>1, <4>1, <4>3, <4>4
    <3> QED
      BY <2>2, <3>2 DEF Precede
  <2> HIDE DEF b, q
  <2>6. /\ Holds(p, r, S \cup {c}) /\ Len(p) >= 1 /\ p[Len(p)] = b
        /\ \A i \in 1 .. Len(p) - 1 : IsClosed(p[i])
    <3>1. /\ Holds(Grown(q, b, r), r, S \cup {c}) /\ Len(Grown(q, b, r)) >= 1
          /\ Grown(q, b, r)[Len(Grown(q, b, r))] = b
          /\ \A i \in 1 .. Len(Grown(q, b, r)) - 1 : IsClosed(Grown(q, b, r)[i])
      BY <2>2, <2>4, <2>5, HoldsMore, ZenonT(60)
    <3> HIDE DEF p
    <3> QED
      BY <3>1 DEF p
  <2> HIDE DEF p
  <2>7. p \in Seq(Buckets) /\ Len(p) \in Nat
    BY <2>6 DEF Holds
  <2>8. ASSUME NEW i \in 1 .. Len(p) PROVE IsClosed(p[i])
    <3>1. i \in 1 .. Len(p) - 1 \/ i = Len(p)
      BY <2>7
    <3> QED
      BY <3>1, <2>4, <2>6
  <2>9. [candles |-> p, open |-> FALSE] \in WindowType
    BY <2>7 DEF WindowType
  <2> DEFINE v == [candles |-> p, open |-> FALSE]
  <2>10. v.candles = p /\ v.open = FALSE
    OBVIOUS
  <2>11. \A i \in 1 .. Len(p) : IsClosed(p[i])
    BY <2>8
  <2>12. v \in WindowType /\ (r # 1 => Len(p) = 0 \/ v.open)
    BY <1>2, <2>9
  <2> HIDE DEF v
  <2>13. Shows(v, r, S \cup {c})
    BY <2>6, <2>10, <2>11, <2>12 DEF Shows
  <2> QED
    BY <2>1, <2>10, <2>13 DEF v
<1> QED
  BY <1>1, <1>2

\* The equation has a solution: the least place up to which it has none is one more than one
\* up to which it has.
LEMMA WindowedExists ==
  ASSUME NEW r, NEW t, NEW n \in Nat
  PROVE  \E f : Windowed(f, r, t, n)
<1> DEFINE Bad == {m \in 0 .. n : ~ \E f : Windowed(f, r, t, m)}
<1> SUFFICES ASSUME Bad # {} PROVE FALSE
  <2>1. n \in 0 .. n
    OBVIOUS
  <2> QED
    BY <2>1
<1>1. PICK m \in Bad : \A x \in Bad : m <= x
  <2>1. Bad \in SUBSET Nat
    OBVIOUS
  <2> HIDE DEF Bad
  <2> QED
    BY <2>1, LeastNatural
<1>2. m # 0
  <2> DEFINE f == [i \in 0 .. 0 |-> NoWindow]
  <2>1. Windowed(f, r, t, 0)
    BY DEF Windowed
  <2> QED
    BY <2>1
<1>3. m \in Nat /\ m - 1 \in 0 .. n /\ m - 1 \notin Bad
  BY <1>1, <1>2
<1>4. PICK g : Windowed(g, r, t, m - 1)
  BY <1>3
<1> DEFINE h == [i \in 0 .. m |-> IF i < m THEN g[i] ELSE NextWindow(r, g[m - 1], t[m])]
           E(i) == IF i = 0 THEN NoWindow ELSE NextWindow(r, h[i - 1], t[i])
<1>5. ASSUME NEW i \in 0 .. m PROVE h[i] = E(i)
  <2>1. CASE i = m
    <3>1. m - 1 \in 0 .. m /\ m - 1 < m /\ m \in 0 .. m /\ ~(m < m)
      BY <1>3, <1>2
    <3>2. h[m - 1] = g[m - 1] /\ h[m] = NextWindow(r, g[m - 1], t[m])
      BY <3>1
    <3> QED
      BY <2>1, <3>2, <1>2
  <2>2. CASE i # m
    <3>1. i \in 0 .. m - 1 /\ i < m /\ (i # 0 => i - 1 \in 0 .. m /\ i - 1 < m)
      BY <1>3, <2>2
    <3>2. h[i] = g[i] /\ (i # 0 => h[i - 1] = g[i - 1])
      BY <3>1
    <3>3. g[i] = IF i = 0 THEN NoWindow ELSE NextWindow(r, g[i - 1], t[i])
      BY <3>1, <1>4 DEF Windowed
    <3> QED
      BY <3>2, <3>3
  <2> QED
    BY <2>1, <2>2
<1>6. h = [i \in 0 .. m |-> E(i)]
  BY <1>5
<1>7. Windowed(h, r, t, m)
  BY <1>6 DEF Windowed
<1> QED
  BY <1>1, <1>7

\* RuntimeConsolidator::new: the window shows the minutes it is given.
LEMMA InitialShows ==
  ASSUME NEW r \in Resolutions, NEW S \in SUBSET Nat, IsFiniteSet(S)
  PROVE  Shows(InitialWindow(r, S), r, S) /\ (r = 1 => ~InitialWindow(r, S).open)
<1> DEFINE t == Ascending(S)
           f == CHOOSE f : Windowed(f, r, t, Len(t))
<1>1. InitialWindow(r, S) = f[Len(t)]
  BY DEF InitialWindow, Windowed, NextWindow, After, NoWindow
<1>2. PICK n \in Nat : Rising(t, n) /\ S = Firsts(t, n) /\ Cardinality(S) = n
  <2>1. S \in SUBSET Int
    OBVIOUS
  <2> QED
    BY <2>1, AscendingIs
<1> HIDE DEF t
<1>3. Len(t) = n
  BY <1>2 DEF Rising
<1>4. Windowed(f, r, t, n)
  <2>1. \E g : Windowed(g, r, t, n)
    BY WindowedExists
  <2> QED
    BY <2>1, <1>3
<1> HIDE DEF f
<1>5. \A i \in 0 .. n : f[i] = IF i = 0 THEN NoWindow ELSE After(r, f[i - 1], t[i])
  BY <1>4, NextWindowIs DEF Windowed
<1>6. \A i \in 1 .. n : t[i] \in Nat
  BY <1>2 DEF Firsts
<1> DEFINE Right(m) == Shows(f[m], r, Firsts(t, m)) /\ (r = 1 => ~f[m].open)
           Bad == {m \in 0 .. n : ~Right(m)}
<1>7. Bad = {}
  <2> SUFFICES ASSUME Bad # {} PROVE FALSE
    OBVIOUS
  <2>1. PICK m \in Bad : \A x \in Bad : m <= x
    <3>1. Bad \in SUBSET Nat
      OBVIOUS
    <3> HIDE DEF Bad
    <3> QED
      BY <3>1, LeastNatural
  <2>2. m # 0
    <3>1. f[0] = NoWindow /\ Firsts(t, 0) = {} /\ NoWindow.open = FALSE
      BY <1>5 DEF Firsts, NoWindow
    <3> QED
      BY <3>1, ShowsNothing DEF NoWindow
  <2>3. m \in 1 .. n /\ m - 1 \in 0 .. n /\ m - 1 \notin Bad
    BY <2>1, <2>2
  <2>4. Right(m - 1)
    BY <2>3
  <2>5. f[m] = After(r, f[m - 1], t[m]) /\ t[m] \in Nat
    BY <1>5, <1>6, <2>2, <2>3
  <2>6. Firsts(t, m) = Firsts(t, m - 1) \cup {t[m]}
    <3>1. 1 .. m = (1 .. m - 1) \cup {m}
      BY <2>3
    <3> QED
      BY <3>1 DEF Firsts
  <2>7. Firsts(t, m - 1) \in SUBSET Nat /\ \A x \in Firsts(t, m - 1) : x < t[m]
    <3>1. \A i \in 1 .. m - 1 : i \in 1 .. n /\ i < m
      BY <2>3
    <3> QED
      BY <3>1, <1>2, <1>6, <2>3 DEF Firsts, Rising
  <2>8. Right(m)
    BY <2>4, <2>5, <2>6, <2>7, AfterShows
  <2> QED
    BY <2>1, <2>8
<1>8. Right(n)
  BY <1>7
<1> QED
  BY <1>1, <1>2, <1>3, <1>8

-----------------------------------------------------------------------------
(* The end of a window against the query of the live engine.               *)

\* Buckets that follow each other in a window are at least their length apart.
LEMMA BucketsApart ==
  ASSUME NEW r \in Resolutions, NEW S \in SUBSET Nat, NEW q, Holds(q, r, S),
         NEW i \in 1 .. Len(q), NEW j \in 1 .. Len(q), i <= j
  PROVE  q[i].time + r * (j - i) <= q[j].time
<1> DEFINE Close(d) == \E x, y \in 1 .. Len(q) : y = x + d /\ ~(q[x].time + r * d <= q[y].time)
           Bad == {d \in Nat : Close(d)}
<1>1. r \in Nat \ {0} /\ Len(q) \in Nat
  BY SharedPeriodIs DEF Holds
<1>2. \A x \in 1 .. Len(q) : q[x].time \in Nat
  BY LastBucket
<1>3. ASSUME NEW x \in 1 .. Len(q), NEW y \in 1 .. Len(q), x < y
      PROVE  q[x].time + r <= q[y].time
  <2>1. PICK u \in S : Floor(u, r) = q[x].time
    BY DEF Holds
  <2>2. PICK v \in S : Floor(v, r) = q[y].time
    BY DEF Holds
  <2>3. Floor(u, r) < Floor(v, r)
    BY <1>3, <2>1, <2>2 DEF Holds
  <2>4. u \in Nat /\ v \in Nat
    OBVIOUS
  <2>5. Floor(u, r) + r <= Floor(v, r)
    BY <1>1, <2>3, <2>4, FloorApart
  <2> QED
    BY <2>1, <2>2, <2>5
<1>4. Bad = {}
  <2> SUFFICES ASSUME Bad # {} PROVE FALSE
    OBVIOUS
  <2>1. PICK d \in Bad : \A z \in Bad : d <= z
    <3>1. Bad \in SUBSET Nat
      OBVIOUS
    <3> HIDE DEF Bad
    <3> QED
      BY <3>1, LeastNatural
  <2>2. PICK x \in 1 .. Len(q), y \in 1 .. Len(q) :
          y = x + d /\ ~(q[x].time + r * d <= q[y].time)
    BY <2>1
  <2>3. d \in Nat /\ d # 0
    BY <1>1, <1>2, <2>1, <2>2
  <2>4. d - 1 \in Nat /\ ~Close(d - 1)
    <3>1. d - 1 \in Nat /\ ~(d <= d - 1)
      <4> HIDE DEF Bad
      <4> QED
        BY <2>3
    <3>2. d - 1 \notin Bad
      <4> HIDE DEF Bad
      <4> QED
        BY <2>1, <3>1
    <3> QED
      BY <3>1, <3>2
  <2>5. y - 1 \in 1 .. Len(q) /\ y - 1 = x + (d - 1) /\ y - 1 < y
    <3>1. x \in Int /\ x >= 1 /\ y \in Int /\ y <= Len(q) /\ y = x + d
      BY <1>1, <2>2
    <3> HIDE DEF Bad
    <3> QED
      BY <1>1, <2>3, <3>1
  <2>6. q[x].time + r * (d - 1) <= q[y - 1].time
    BY <2>4, <2>5
  <2>7. q[y - 1].time + r <= q[y].time
    BY <1>3, <2>5
  <2>8. r * d = r * (d - 1) + r
    BY <1>1, <2>3
  <2>9. q[x].time \in Nat /\ q[y - 1].time \in Nat /\ q[y].time \in Nat /\ r * (d - 1) \in Int
    BY <1>1, <1>2, <2>3, <2>5
  <2>10. q[x].time + r * d <= q[y].time
    <3> DEFINE u == r * (d - 1)
               v == r * d
    <3>1. q[x].time + u <= q[y - 1].time /\ v = u + r /\ u \in Int
      BY <2>6, <2>8, <2>9
    <3>2. q[x].time \in Nat /\ q[y - 1].time \in Nat /\ q[y].time \in Nat /\ r \in Nat
      BY <1>1, <2>9
    <3>3. q[y - 1].time + r <= q[y].time
      BY <2>7
    <3> HIDE DEF u, v, Bad
    <3>4. ASSUME NEW k1 \in Nat, NEW k2 \in Nat, NEW k3 \in Nat, k1 + u <= k2, k2 + r <= k3
          PROVE  k1 + v <= k3
      BY <3>1, <3>2, <3>4
    <3>5. q[x].time + v <= q[y].time
      BY <3>1, <3>2, <3>3, <3>4
    <3> QED
      BY <3>5 DEF v
  <2> QED
    BY <2>2, <2>10
<1>5. j - i \in Nat /\ j = i + (j - i)
  BY <1>1
<1>6. ~Close(j - i)
  BY <1>4, <1>5
<1> QED
  BY <1>5, <1>6

\* The last n buckets of a window are whole, hold every minute of S from `from` on and, but for
\* the last of them, have elapsed at minute c.
Lasts(q, r, S, c, from, n) ==
  /\ n <= Len(q)
  /\ \A x \in S : x >= from => \E i \in 1 .. n : q[Len(q) - n + i].time = Floor(x, r)
  /\ \A i \in 1 .. n :
       LET b == q[Len(q) - n + i]
       IN /\ b.minutes = {x \in S : x >= from /\ Floor(x, r) = b.time} /\ b.minutes # {}
          /\ b.time + r <= c <=> i < n

\* The buckets from that many before the last minute on are the last ones of the window, whole,
\* and those before the last have elapsed.
LEMMA LastOnes ==
  ASSUME NEW r \in Resolutions, NEW S \in SUBSET Nat, NEW q, Holds(q, r, S),
         NEW c \in S, \A x \in S : x <= c,
         NEW p \in Nat \ {0}, p <= SharedPeriod(r)
  PROVE  \E n \in 1 .. p : Lasts(q, r, S, c, StepBack(c, r, p - 1), n)
<1> DEFINE from == StepBack(c, r, p - 1)
           m == Len(q)
           T(i) == q[i].time
           F == Floor(c, r)
<1>1. r \in Nat \ {0} /\ m \in Nat /\ c \in Nat /\ SharedPeriod(r) \in Nat
  BY SharedPeriodIs DEF Holds
<1>2. m # 0 /\ \A i \in 1 .. m : q[i].time \in Nat
  BY LastBucket
<1>3. F \in Nat /\ F <= c /\ c < F + r /\ c \div r \in Nat /\ F = r * (c \div r)
  BY <1>1, FloorIs
<1>4. m \in 1 .. m /\ T(m) = F
  <2>1. F <= q[m].time
    BY LastBucket
  <2>2. PICK x \in S : Floor(x, r) = q[m].time
    BY <1>2, LastBucket
  <2>3. x \in Nat /\ x <= c /\ Floor(x, r) <= F
    BY <1>1, <2>2, FloorApart
  <2>4. m \in 1 .. m
    BY <1>1, <1>2
  <2> QED
    BY <1>2, <1>3, <2>1, <2>2, <2>3, <2>4
<1>5. from = F - r * (p - 1) /\ r * (p - 1) \in Nat /\ r * p = r * (p - 1) + r
  <2>1. p - 1 \in Nat /\ r * 0 <= r * (p - 1)
    BY <1>1, TimesKeeps
  <2> QED
    BY <1>1, <2>1 DEF StepBack
<1> HIDE DEF F, T, m, from
<1>6. from \in Int /\ from <= F
  BY <1>3, <1>5
<1>7. ASSUME NEW x \in Nat, x >= from PROVE Floor(x, r) >= from
  <2> DEFINE a == x \div r
             b == (c \div r) - (p - 1)
  <2>1. a \in Nat /\ Floor(x, r) = r * a /\ x < r * a + r
    BY <1>1, FloorIs
  <2>2. b \in Int /\ from = r * b
    <3> DEFINE d == c \div r
    <3>1. d \in Nat /\ F = r * d /\ p - 1 \in Int
      BY <1>3
    <3> HIDE DEF d
    <3>2. r * (d - (p - 1)) = r * d - r * (p - 1)
      BY <1>1, <3>1
    <3> QED
      BY <1>5, <3>1, <3>2 DEF d
  <2> HIDE DEF a, b
  <2>3. CASE a < b
    <3>1. r * (a + 1) <= r * b /\ r * (a + 1) = r * a + r
      BY <1>1, <2>1, <2>2, <2>3, TimesKeeps
    <3> QED
      BY <1>1, <1>7, <2>1, <2>2, <3>1
  <2>4. CASE b <= a
    BY <1>1, <2>1, <2>2, <2>4, TimesKeeps
  <2> QED
    BY <2>1, <2>2, <2>3, <2>4
<1> DEFINE J == {i \in 1 .. m : T(i) >= from}
<1>8. PICK l \in J : \A i \in J : l <= i
  <2>1. m \in J
    BY <1>3, <1>4, <1>6
  <2>2. J \in SUBSET Nat
    OBVIOUS
  <2> HIDE DEF J
  <2> QED
    BY <2>1, <2>2, LeastNatural
<1>9. l \in 1 .. m /\ T(l) >= from /\ T(l) \in Nat
  BY <1>2, <1>8 DEF T, m
<1>10. ASSUME NEW i \in 1 .. m PROVE (T(i) >= from <=> i >= l) /\ T(i) \in Nat
  <2>1. T(i) \in Nat
    BY <1>2 DEF T, m
  <2>2. l < i => T(l) < T(i)
    BY <1>9 DEF Holds, T, m
  <2>3. T(i) >= from => l <= i
    BY <1>8
  <2>4. l = i => T(i) >= from
    BY <1>9
  <2>5. l < i => T(i) >= from
    BY <1>6, <1>9, <2>1, <2>2
  <2> QED
    BY <1>9, <2>1, <2>3, <2>4, <2>5
<1> DEFINE n == m - l + 1
<1>11. n \in 1 .. p /\ n <= m
  <2>1. T(l) + r * (m - l) <= T(m)
    BY <1>4, <1>9, BucketsApart DEF T, m
  <2>2. r * (m - l) \in Int /\ m - l \in Int /\ p - 1 \in Int
    BY <1>1, <1>9
  <2>3. r * (m - l) <= r * (p - 1)
    BY <1>1, <1>3, <1>4, <1>5, <1>6, <1>9, <2>1, <2>2
  <2>4. CASE p - 1 < m - l
    <3>1. r * ((p - 1) + 1) <= r * (m - l)
      BY <1>1, <2>2, <2>4, TimesKeeps
    <3>2. r * ((p - 1) + 1) = r * (p - 1) + r
      BY <1>1
    <3> QED
      BY <1>1, <1>5, <2>2, <2>3, <3>1, <3>2
  <2> QED
    BY <1>1, <1>9, <2>2, <2>4
<1>12. \A i \in 1 .. n : m - n + i \in l .. m /\ m - n + i \in 1 .. m /\ (m - n + i = m <=> i = n)
  BY <1>1, <1>9
<1>13. \A i \in l .. m : i - (m - n) \in 1 .. n /\ m - n + (i - (m - n)) = i
  BY <1>1, <1>9
<1>14. ASSUME NEW x \in S, x >= from
       PROVE  \E i \in 1 .. n : T(m - n + i) = Floor(x, r)
  <2>1. x \in Nat /\ Floor(x, r) \in Nat /\ Floor(x, r) >= from
    BY <1>1, <1>7, <1>14, FloorIs
  <2>2. CASE \E i \in 1 .. m : T(i) = Floor(x, r)
    <3>1. PICK i \in 1 .. m : T(i) = Floor(x, r)
      BY <2>2
    <3>2. i \in l .. m
      BY <1>9, <1>10, <2>1, <3>1
    <3> HIDE DEF n
    <3> QED
      BY <1>13, <3>1, <3>2
  <2>3. CASE m = SharedPeriod(r) /\ Floor(x, r) < T(1)
    <3>1. 1 \in 1 .. m /\ T(1) \in Nat
      BY <1>1, <1>4, <1>10
    <3>2. T(1) + r * (m - 1) <= T(m)
      BY <1>4, <3>1, BucketsApart DEF T, m
    <3>3. Floor(x, r) + r <= T(1)
      <4>1. PICK y \in S : Floor(y, r) = T(1)
        BY <3>1 DEF Holds, T, m
      <4>2. y \in Nat
        OBVIOUS
      <4> QED
        BY <1>1, <2>1, <2>3, <4>1, <4>2, FloorApart
    <3>4. r * (p - 1) <= r * (m - 1)
      <4>1. p - 1 \in Int /\ m - 1 \in Int /\ p - 1 <= m - 1
        BY <1>1, <2>3
      <4> QED
        BY <1>1, <4>1, TimesKeeps
    <3>5. r * (m - 1) \in Int
      BY <1>1
    <3>6. F - r * (p - 1) + r + r * (m - 1) <= F
      BY <1>1, <1>3, <1>4, <1>5, <2>1, <3>1, <3>2, <3>3, <3>5
    <3> QED
      BY <1>1, <1>3, <1>5, <3>4, <3>5, <3>6
  <2> QED
    BY <2>2, <2>3 DEF Holds, T, m
<1>15. ASSUME NEW i \in 1 .. n
       PROVE  LET b == q[m - n + i]
              IN /\ b.minutes = {x \in S : x >= from /\ Floor(x, r) = b.time} /\ b.minutes # {}
                 /\ b.time + r <= c <=> i < n
  <2> DEFINE b == q[m - n + i]
  <2>1. m - n + i \in l .. m /\ m - n + i \in 1 .. m /\ (m - n + i = m <=> i = n)
    BY <1>12
  <2>2. b.time >= from /\ b.time \in Nat
    <3> HIDE DEF n
    <3>1. m - n + i >= l
      BY <2>1
    <3> QED
      BY <1>10, <2>1, <3>1 DEF T
  <2>3. b.minutes # {} /\ b.minutes = {x \in S : Floor(x, r) = b.time}
    BY <2>1 DEF Holds, m
  <2>4. ASSUME NEW x \in S, Floor(x, r) = b.time PROVE x >= from
    <3>1. x \in Nat /\ Floor(x, r) <= x
      BY <1>1, FloorIs
    <3> HIDE DEF b
    <3> QED
      BY <1>6, <2>2, <2>4, <3>1
  <2>5. b.minutes = {x \in S : x >= from /\ Floor(x, r) = b.time}
    <3> HIDE DEF b
    <3> QED
      BY <2>3, <2>4
  <2>6. CASE i = n
    <3>1. b.time = F
      BY <1>4, <2>1, <2>6 DEF T
    <3>2. ~(b.time + r <= c)
      BY <1>1, <1>3, <3>1
    <3> QED
      BY <2>3, <2>5, <2>6, <3>2, <1>11
  <2>7. CASE i # n
    <3>1. i < n /\ m - n + i < m
      <4>1. n \in Int /\ i \in Int /\ i <= n
        BY <1>11
      <4> HIDE DEF n
      <4> QED
        BY <1>1, <2>7, <4>1
    <3>2. b.time < T(m)
      BY <2>1, <3>1, <1>4 DEF Holds, T, m
    <3>3. PICK x \in S : Floor(x, r) = b.time
      BY <2>3
    <3>4. x \in Nat /\ Floor(x, r) + r <= F
      BY <1>1, <1>4, <3>2, <3>3, FloorApart DEF F
    <3>5. b.time + r <= c
      BY <1>1, <1>3, <2>2, <3>3, <3>4
    <3> QED
      BY <2>3, <2>5, <3>1, <3>5
  <2> QED
    BY <2>6, <2>7
<1> HIDE DEF n
<1> QED
  BY <1>11, <1>14, <1>15 DEF T, m, from, Lasts

\* A sequence that is the last part of another one.
LEMMA SuffixIs ==
  ASSUME NEW S, NEW s \in Seq(S), NEW t \in Seq(S), Len(s) <= Len(t),
         \A i \in 1 .. Len(s) : s[i] = t[Len(t) - Len(s) + i]
  PROVE  IsSuffix(s, t)
<1> DEFINE n == Len(s)
           m == Len(t)
           u == Reverse(s)
           v == Reverse(t)
<1>1. n \in Nat /\ m \in Nat /\ n <= m
  BY LenProperties
<1>2. u = [i \in 1 .. n |-> s[(n - i) + 1]] /\ v = [i \in 1 .. m |-> t[(m - i) + 1]]
  BY DEF Reverse
<1>3. \A i \in 1 .. n : (n - i) + 1 \in 1 .. n /\ i \in 1 .. m
                        /\ m - n + ((n - i) + 1) = (m - i) + 1
  BY <1>1
<1>4. \A i \in 1 .. n : s[i] = t[m - n + i]
  OBVIOUS
<1>5. \A i \in 1 .. n : s[(n - i) + 1] \in S /\ s[(n - i) + 1] = t[(m - i) + 1]
  <2>1. \A i \in 1 .. n : s[i] \in S
    BY ElementOfSeq
  <2> HIDE DEF n, m
  <2> QED
    BY <1>3, <1>4, <2>1
<1>6. \A i \in 1 .. m : t[(m - i) + 1] \in S
  <2>1. \A i \in 1 .. m : t[i] \in S
    BY ElementOfSeq
  <2>2. \A i \in 1 .. m : (m - i) + 1 \in 1 .. m
    BY <1>1
  <2> HIDE DEF m
  <2> QED
    BY <2>1, <2>2
<1> HIDE DEF u, v, n, m
<1>7. u \in [1 .. n -> S] /\ v \in [1 .. m -> S]
  BY <1>2, <1>5, <1>6
<1>8. u \in Seq(S) /\ v \in Seq(S) /\ Len(u) = n /\ Len(v) = m
  BY <1>1, <1>7
<1>9. \A i \in 1 .. n : u[i] \in S /\ u[i] = v[i]
  BY <1>2, <1>3, <1>5
<1>10. /\ SubSeq(u, 1, n) \in Seq(S) /\ Len(SubSeq(u, 1, n)) = n
       /\ \A i \in 1 .. n : SubSeq(u, 1, n)[i] = u[i]
  <2>1. \A i \in 1 .. n : u[i] \in S
    BY <1>9
  <2> QED
    BY <1>1, <2>1, SubSeqProperties
<1>11. /\ SubSeq(v, 1, n) \in Seq(S) /\ Len(SubSeq(v, 1, n)) = n
       /\ \A i \in 1 .. n : SubSeq(v, 1, n)[i] = v[i]
  <2>1. \A i \in 1 .. n : v[i] \in S
    BY <1>9
  <2> QED
    BY <1>1, <2>1, SubSeqProperties
<1>12. SubSeq(u, 1, n) = SubSeq(v, 1, n)
  <2>1. \A i \in 1 .. n : SubSeq(u, 1, n)[i] = SubSeq(v, 1, n)[i]
    BY <1>9, <1>10, <1>11
  <2> QED
    BY <1>10, <1>11, <2>1, SeqEqual
<1>13. IsPrefix(u, v)
  BY <1>1, <1>8, <1>12 DEF IsPrefix
<1> QED
  BY <1>13 DEF IsSuffix, u, v

\* The minutes a window has been given.
Seen(c) == {x \in history : Start - Duration(Longest) <= x /\ x <= c}

\* What the live query returns.
Live(e) == Consolidated(StepBack(cursor, Resolution[e], Period[e] - 1), cursor, Resolution[e])

\* The window an evaluator gets is the end of that of its resolution, as far as it asked for.
LEMMA ContextIs ==
  ASSUME NEW e \in Evaluators, NEW q \in Seq(Buckets), windows[Resolution[e]].candles = q
  PROVE  \E d \in Nat :
           /\ d <= Len(q) /\ Context(e) \in Seq(Buckets) /\ Len(Context(e)) = Len(q) - d
           /\ \A i \in 1 .. Len(q) - d : Context(e)[i] = q[d + i]
           /\ Period[e] <= Len(q) - d \/ d = 0
           /\ Len(q) - d <= Period[e] \/ e \in Raw
<1> DEFINE P == Period[e]
<1>1. Len(q) \in Nat /\ P \in Nat \ {0}
  BY LongestFor
<1>2. CASE e \in Raw \/ Len(q) <= P
  <2>1. Context(e) = q
    BY <1>2 DEF Context, RawContext, SignalContext
  <2>2. 0 \in Nat /\ 0 <= Len(q) /\ Len(Context(e)) = Len(q) - 0
        /\ \A i \in 1 .. Len(q) - 0 : Context(e)[i] = q[0 + i]
    BY <1>1, <2>1
  <2>3. Len(q) - 0 <= P \/ e \in Raw
    BY <1>1, <1>2
  <2> QED
    BY <2>1, <2>2, <2>3
<1>3. CASE ~(e \in Raw \/ Len(q) <= P)
  <2> DEFINE d == Len(q) - P
             s == SubSeq(q, Len(q) - P + 1, Len(q))
  <2>1. Context(e) = s
    BY <1>3 DEF Context, SignalContext
  <2>2. d \in Nat /\ d <= Len(q) /\ Len(q) - d = P
    BY <1>1, <1>3
  <2>3. \A i \in Len(q) - P + 1 .. Len(q) : q[i] \in Buckets
    <3>1. \A i \in Len(q) - P + 1 .. Len(q) : i \in 1 .. Len(q)
      BY <1>1, <1>3
    <3> QED
      BY <3>1, ElementOfSeq
  <2>4. Len(q) - P + 1 \in Int /\ Len(q) \in Int /\ Len(q) - P + 1 <= Len(q)
    BY <1>1
  <2>5. /\ s \in Seq(Buckets) /\ Len(s) = Len(q) - (Len(q) - P + 1) + 1
        /\ \A i \in 1 .. Len(q) - (Len(q) - P + 1) + 1 : s[i] = q[Len(q) - P + 1 + i - 1]
    BY <2>3, <2>4, SubSeqProperties
  <2>6. Len(q) - (Len(q) - P + 1) + 1 = P
    BY <1>1
  <2>7. \A i \in 1 .. P : Len(q) - P + 1 + i - 1 = d + i
    BY <1>1
  <2>8. Len(s) = Len(q) - d /\ \A i \in 1 .. Len(q) - d : s[i] = q[d + i]
    BY <2>2, <2>5, <2>6, <2>7
  <2>9. P <= Len(q) - d /\ Len(q) - d <= P
    BY <1>1, <2>2
  <2> HIDE DEF d, s
  <2> QED
    BY <2>1, <2>2, <2>5, <2>8, <2>9
<1> QED
  BY <1>2, <1>3

\* A bucket is its time, its minutes and whether it is stable.
LEMMA SameBucket ==
  ASSUME NEW a \in Buckets, NEW b \in Buckets, a.time = b.time, a.minutes = b.minutes,
         a.stable = b.stable
  PROVE  a = b
BY DEF Buckets

\* A window that shows what was seen ends with what is promised.
LEMMA AgreeIs ==
  ASSUME history \in SUBSET Nat, cursor \in history, Start <= cursor, NEW e \in Evaluators,
         Shows(windows[Resolution[e]], Resolution[e], Seen(cursor)),
         Resolution[e] = 1 => (windows[Resolution[e]].open <=> HasAdvanced)
  PROVE  IsSuffix(Promised(e), Context(e)) /\ (Len(Context(e)) <= Period[e] \/ e \in Raw)
<1> DEFINE r == Resolution[e]
           p == Period[e]
           w == windows[r]
           q == w.candles
           m == Len(q)
           S == Seen(cursor)
           from == StepBack(cursor, r, p - 1)
           L == GetCandles(from, cursor)
<1>1. /\ r \in Resolutions /\ r \in Nat \ {0} /\ p \in Nat \ {0} /\ p <= SharedPeriod(r)
      /\ SharedPeriod(r) \in Nat /\ Start \in Nat /\ cursor \in Nat
      /\ r * p <= Duration(Longest)
  BY LongestFor, SharedPeriodIs, EngineAssumption
<1>2. Start \in Nat /\ cursor \in Nat /\ Duration(Longest) \in Nat
  BY LongestFor, EngineAssumption
<1>3. /\ S \in SUBSET Nat /\ cursor \in S /\ \A x \in S : x <= cursor
  <2> HIDE DEF r, p
  <2>1. Start - Duration(Longest) <= cursor
    BY <1>2
  <2>2. \A x : x \in S <=> x \in history /\ Start - Duration(Longest) <= x /\ x <= cursor
    BY DEF Seen
  <2>3. cursor \in S
    BY <1>2, <2>1, <2>2
  <2> HIDE DEF S
  <2> QED
    BY <2>2, <2>3
<1>4. /\ Holds(q, r, S) /\ q \in Seq(Buckets) /\ m \in Nat /\ w.open \in BOOLEAN
      /\ r # 1 => m = 0 \/ w.open
      /\ \A i \in 1 .. m : i < m \/ ~w.open => IsClosed(q[i])
      /\ w.open => q[m].stable = FALSE
      /\ r = 1 => (w.open <=> HasAdvanced)
  BY DEF Shows, Holds, WindowType
<1>5. \A i \in 1 .. m : q[i] \in Buckets /\ q[i].time \in Nat
  <2> HIDE DEF q, S
  <2> QED
    BY <1>1, <1>3, <1>4, LastBucket
<1>6. from \in Int /\ from >= Start - Duration(Longest)
  <2> DEFINE F == Floor(cursor, r)
             a == r * (p - 1)
  <2>1. F \in Nat /\ cursor < F + r
    BY <1>1, FloorIs
  <2>2. from = F - a
    BY DEF StepBack
  <2>3. a \in Int /\ r * p = a + r
    BY <1>1
  <2> HIDE DEF F, a, from
  <2> QED
    BY <1>2, <1>1, <2>1, <2>2, <2>3
<1>7. L = {x \in S : x >= from}
  <2> HIDE DEF from
  <2>1. \A x \in history : x \in Nat /\ (x >= from => Start - Duration(Longest) <= x)
    BY <1>2, <1>6
  <2> QED
    BY <1>6, <2>1 DEF GetCandles, Seen
<1>8. PICK n \in 1 .. p : Lasts(q, r, S, cursor, from, n)
  <2> HIDE DEF q, r, p, S
  <2> QED
    BY <1>1, <1>3, <1>4, LastOnes
<1> HIDE DEF q, r, p, w, S, from, L, m
<1>9. /\ n \in Nat /\ n >= 1 /\ n <= p /\ n <= m
      /\ \A i \in 1 .. n : m - n + i \in 1 .. m /\ (m - n + i < m <=> i < n)
  <2>1. n <= m
    BY <1>8 DEF Lasts, m
  <2> QED
    BY <1>1, <1>4, <2>1
<1>10. /\ \A x \in S : x >= from => \E i \in 1 .. n : q[m - n + i].time = Floor(x, r)
       /\ \A i \in 1 .. n :
            LET b == q[m - n + i]
            IN /\ b.minutes = {x \in S : x >= from /\ Floor(x, r) = b.time} /\ b.minutes # {}
               /\ b.time + r <= cursor <=> i < n
  BY <1>8 DEF Lasts, m
<1> DEFINE t == [i \in 1 .. n |-> q[m - n + i].time]
           in(b) == {c \in L : Floor(c, r) = b}
           bucket(b) == [time |-> b, minutes |-> in(b),
                         stable |-> AllStable(in(b)) /\ (r = 1 \/ b + r <= cursor)]
<1>11. Rising(t, n)
  <2>1. \A i \in 1 .. n : t[i] = q[m - n + i].time /\ t[i] \in Int
    <3>1. \A i \in 1 .. n : q[m - n + i].time \in Int
      <4> HIDE DEF t
      <4> QED
        BY <1>5, <1>9
    <3> QED
      BY <3>1
  <2>2. ASSUME NEW i \in 1 .. n, NEW j \in 1 .. n, i < j PROVE t[i] < t[j]
    <3>1. m - n + i \in 1 .. m /\ m - n + j \in 1 .. m /\ m - n + i < m - n + j
      <4> HIDE DEF t, bucket
      <4>1. m - n + i < m - n + j
        BY <1>4, <1>9, <2>2
      <4> QED
        BY <1>9, <4>1
    <3>2. q[m - n + i].time < q[m - n + j].time
      BY <1>4, <3>1 DEF Holds, m
    <3> QED
      BY <2>1, <3>2
  <2> QED
    BY <2>1, <2>2 DEF Rising
<1>12. {Floor(c, r) : c \in L} = Firsts(t, n)
  <2>1. ASSUME NEW x \in L PROVE Floor(x, r) \in Firsts(t, n)
    <3>1. x \in S /\ x >= from
      BY <1>7
    <3>2. PICK i \in 1 .. n : q[m - n + i].time = Floor(x, r)
      BY <1>10, <3>1
    <3> QED
      BY <3>2 DEF Firsts
  <2>2. ASSUME NEW i \in 1 .. n PROVE t[i] \in {Floor(c, r) : c \in L}
    <3>1. PICK x \in S : x >= from /\ Floor(x, r) = q[m - n + i].time
      BY <1>10
    <3>2. x \in L /\ t[i] = Floor(x, r)
      BY <1>7, <3>1
    <3> QED
      BY <3>2
  <2> QED
    BY <2>1, <2>2 DEF Firsts
<1>13. Live(e) = [i \in 1 .. n |-> bucket(t[i])]
  <2>1. Ascending({Floor(c, r) : c \in L}) = t
    BY <1>9, <1>11, <1>12, AscendingOf
  <2>2. DOMAIN t = 1 .. n
    OBVIOUS
  <2>3. Live(e) = LET times == Ascending({Floor(c, r) : c \in L})
                  IN [i \in DOMAIN times |-> bucket(times[i])]
    BY DEF Live, Consolidated, L, from, r, p
  <2> HIDE DEF t, bucket, in, L
  <2> QED
    BY <2>1, <2>2, <2>3
<1>14. ASSUME NEW i \in 1 .. n
       PROVE  /\ Live(e)[i] \in Buckets /\ Live(e)[i].time = q[m - n + i].time
              /\ Live(e)[i].minutes = q[m - n + i].minutes
              /\ Live(e)[i].stable = (AllStable(q[m - n + i].minutes) /\ (r = 1 \/ i < n))
  <2> DEFINE b == q[m - n + i]
             flag == AllStable(b.minutes) /\ (r = 1 \/ i < n)
  <2>1. b.time \in Nat /\ t[i] = b.time
    BY <1>5, <1>9
  <2>2. /\ b.minutes = {x \in S : x >= from /\ Floor(x, r) = b.time}
        /\ b.time + r <= cursor <=> i < n
    BY <1>10
  <2>3. in(b.time) = b.minutes /\ b.minutes \in SUBSET Nat
    BY <1>3, <1>7, <2>2
  <2>4. Live(e)[i] = bucket(b.time)
    BY <1>13, <2>1
  <2>5. flag \in BOOLEAN /\ bucket(b.time) = [time |-> b.time, minutes |-> b.minutes, stable |-> flag]
    <3>1. (AllStable(in(b.time)) /\ (r = 1 \/ b.time + r <= cursor)) = flag
      BY <2>2, <2>3
    <3> QED
      BY <2>3, <3>1
  <2> HIDE DEF flag, bucket, in, L
  <2>6. /\ Live(e)[i] \in Buckets /\ Live(e)[i].time = b.time
        /\ Live(e)[i].minutes = b.minutes /\ Live(e)[i].stable = flag
    BY <2>1, <2>3, <2>4, <2>5 DEF Buckets
  <2> QED
    BY <2>6 DEF flag, b
<1>15. Live(e) \in Seq(Buckets) /\ Len(Live(e)) = n
  <2>1. DOMAIN Live(e) = 1 .. n
    BY <1>13
  <2>2. Live(e) \in [1 .. n -> Buckets]
    BY <1>13, <1>14
  <2> HIDE DEF t, bucket
  <2> QED
    BY <1>9, <2>2
<1> HIDE DEF t, bucket, in
<1>16. PICK d \in Nat :
         /\ d <= m /\ Context(e) \in Seq(Buckets) /\ Len(Context(e)) = m - d
         /\ \A i \in 1 .. m - d : Context(e)[i] = q[d + i]
         /\ p <= m - d \/ d = 0
         /\ m - d <= p \/ e \in Raw
  BY <1>4, ContextIs DEF q, m, w, r, p
<1> DEFINE l == m - d
           g == Context(e)
<1>17. l \in Nat /\ n <= l
  <2>1. d \in Nat /\ d <= m /\ (p <= m - d \/ d = 0)
    BY <1>16
  <2> QED
    BY <1>1, <1>4, <1>9, <2>1
<1>18. \A i \in 1 .. n : l - n + i \in 1 .. l /\ d + (l - n + i) = m - n + i
  BY <1>4, <1>9, <1>17
<1>19. \A i \in 1 .. n : g[l - n + i] = q[m - n + i]
  BY <1>16, <1>18
<1>20. g \in Seq(Buckets) /\ Len(g) = l /\ \A i \in 1 .. l : g[i] \in Buckets
  BY <1>16, ElementOfSeq
<1>21. /\ Promised(e) \in Seq(Buckets) /\ Len(Promised(e)) = n
       /\ \A i \in 1 .. n :
            LET b == q[m - n + i]
            IN /\ Promised(e)[i] \in Buckets /\ Promised(e)[i].time = b.time
               /\ Promised(e)[i].minutes = b.minutes
               /\ i < n \/ ~w.open => IsClosed(Promised(e)[i])
               /\ i = n /\ w.open => Promised(e)[i].stable = FALSE
  <2>1. CASE r = 1 /\ HasAdvanced
    <3> DEFINE live == Live(e)
               last == [live[n] EXCEPT !.stable = FALSE]
    <3>1. Promised(e) = [live EXCEPT ![n] = last] /\ w.open
      BY <1>4, <1>15, <2>1 DEF Promised, Live, r
    <3>2. n \in 1 .. n /\ live[n] \in Buckets
      BY <1>9, <1>14
    <3> HIDE DEF live
    <3>3. /\ last \in Buckets /\ last.time = live[n].time
          /\ last.minutes = live[n].minutes /\ last.stable = FALSE
      BY <3>2, UnstableBucket
    <3> HIDE DEF last
    <3>4. live \in Seq(Buckets) /\ Len(live) = n
      BY <1>15 DEF live
    <3>5. /\ Promised(e) \in Seq(Buckets) /\ Len(Promised(e)) = n
          /\ \A i \in 1 .. n : Promised(e)[i] = IF i = n THEN last ELSE live[i]
      BY <3>1, <3>2, <3>3, <3>4, ExceptSeq
    <3>6. ASSUME NEW i \in 1 .. n
          PROVE  /\ live[i] \in Buckets /\ live[i].time = q[m - n + i].time
                 /\ live[i].minutes = q[m - n + i].minutes /\ IsClosed(live[i])
      <4> DEFINE s == AllStable(q[m - n + i].minutes)
      <4>1. /\ live[i] \in Buckets /\ live[i].time = q[m - n + i].time
            /\ live[i].minutes = q[m - n + i].minutes
            /\ live[i].stable = (s /\ (r = 1 \/ i < n))
        BY <1>14 DEF live
      <4>2. s \in BOOLEAN
        BY DEF AllStable
      <4> HIDE DEF s
      <4>3. live[i].stable = s
        BY <2>1, <4>1, <4>2
      <4>4. IsClosed(live[i])
        BY <4>1, <4>3 DEF IsClosed, s
      <4> QED
        BY <4>1, <4>4
    <3>7. \A i \in 1 .. n : i < n => i # n
      BY <1>9
    <3> HIDE DEF q, m, w
    <3> QED
      BY <3>1, <3>2, <3>3, <3>5, <3>6, <3>7
  <2>2. CASE ~(r = 1 /\ HasAdvanced)
    <3>1. Promised(e) = Live(e)
      BY <2>2 DEF Promised, Live, r
    <3>2. w.open <=> r # 1
      <4>1. m # 0
        BY <1>9
      <4> QED
        BY <1>4, <2>2, <4>1
    <3>3. ASSUME NEW i \in 1 .. n
          PROVE  /\ i < n \/ ~w.open => IsClosed(Live(e)[i])
                 /\ i = n /\ w.open => Live(e)[i].stable = FALSE
      <4> DEFINE s == AllStable(q[m - n + i].minutes)
                 a == Live(e)[i]
      <4>1. a.minutes = q[m - n + i].minutes /\ a.stable = (s /\ (r = 1 \/ i < n))
        BY <1>14
      <4>2. s \in BOOLEAN
        BY DEF AllStable
      <4> HIDE DEF a, s
      <4>3. CASE i < n \/ ~w.open
        <5>1. a.stable = s
          BY <3>2, <4>1, <4>2, <4>3
        <5>2. IsClosed(a)
          BY <4>1, <5>1 DEF IsClosed, s
        <5>3. ~(i = n /\ w.open)
          BY <1>9, <4>3
        <5> QED
          BY <5>2, <5>3 DEF a
      <4>4. CASE ~(i < n \/ ~w.open)
        <5>1. a.stable = FALSE
          BY <3>2, <4>1, <4>4
        <5> QED
          BY <4>4, <5>1 DEF a
      <4> QED
        BY <4>3, <4>4
    <3> HIDE DEF q, m, w
    <3> QED
      BY <1>14, <1>15, <3>1, <3>3
  <2> QED
    BY <2>1, <2>2
<1>22. ASSUME NEW i \in 1 .. n PROVE Promised(e)[i] = g[l - n + i]
  <2> DEFINE a == Promised(e)[i]
             b == q[m - n + i]
  <2>1. /\ b \in Buckets /\ (i < n \/ ~w.open => IsClosed(b))
        /\ (i = n /\ w.open => b.stable = FALSE)
    <3>1. m - n + i \in 1 .. m /\ (m - n + i < m <=> i < n) /\ (i = n => m - n + i = m)
      BY <1>4, <1>9
    <3> QED
      BY <1>4, <1>5, <3>1
  <2>2. /\ a \in Buckets /\ a.time = b.time /\ a.minutes = b.minutes
        /\ (i < n \/ ~w.open => IsClosed(a)) /\ (i = n /\ w.open => a.stable = FALSE)
    BY <1>21
  <2>3. i < n \/ i = n
    BY <1>9
  <2> HIDE DEF a, b
  <2>4. a.stable = b.stable
    BY <2>1, <2>2, <2>3 DEF IsClosed
  <2>5. a = b
    BY <2>1, <2>2, <2>4, SameBucket
  <2> QED
    BY <2>5, <1>19 DEF a, b
<1>23. IsSuffix(Promised(e), g)
  <2>1. \A i \in 1 .. Len(Promised(e)) : Promised(e)[i] = g[Len(g) - Len(Promised(e)) + i]
    BY <1>20, <1>21, <1>22
  <2> HIDE DEF g, l
  <2> QED
    BY <1>17, <1>20, <1>21, <2>1, SuffixIs
<1> QED
  BY <1>16, <1>20, <1>23 DEF p

-----------------------------------------------------------------------------
(* The windows between the steps of the task.                              *)

\* At a decision the windows show all minutes to the cursor; while the candle at the cursor is
\* being applied, those before it.  The last row of one minute is taken as stored until a candle
\* is pushed.
StoredUntilPushed == \A r \in Resolutions : r = 1 => (windows[r].open <=> HasAdvanced)
WindowInv ==
  /\ windows \in [Resolutions -> WindowType]
  /\ \A r \in Resolutions : Len(windows[r].candles) <= SharedPeriod(r)
  /\ pc \in {"iterate", "report", "advance"} =>
       StoredUntilPushed /\ \A r \in Resolutions : Shows(windows[r], r, Seen(cursor))
  /\ pc \in {"settle", "update"} =>
       HasAdvanced /\ \A r \in Resolutions : Shows(windows[r], r, Seen(cursor - 1))

\* Windows that show some minutes are typed.
LEMMA ShowsTyped ==
  ASSUME NEW w, w = [r \in Resolutions |-> w[r]],
         NEW S, \A r \in Resolutions : Shows(w[r], r, S)
  PROVE  w \in [Resolutions -> WindowType]
         /\ \A r \in Resolutions : Len(w[r].candles) <= SharedPeriod(r)
BY DEF Shows, Holds

\* Before the first buffer the windows are empty.
LEMMA WindowInit == Init => WindowInv
<1> SUFFICES ASSUME Init PROVE WindowInv
  OBVIOUS
<1> DEFINE W(r) == [candles |-> << >>, open |-> FALSE]
<1>1. windows = [r \in Resolutions |-> W(r)] /\ pc = "start"
  BY DEF Init
<1>2. \A r \in Resolutions : Shows(W(r), r, {})
  BY ShowsNothing
<1> HIDE DEF W
<1>3. \A r \in Resolutions : Shows(windows[r], r, {})
  BY <1>1, <1>2
<1>4. windows = [r \in Resolutions |-> windows[r]]
  BY <1>1
<1> QED
  BY <1>1, <1>3, <1>4, ShowsTyped DEF WindowInv

\* The minutes up to the cursor.
LEMMA SeenIs ==
  ASSUME history \in SUBSET Nat, NEW c \in Int
  PROVE  Seen(c) \in SUBSET Nat /\ IsFiniteSet(Seen(c)) /\ \A x \in Seen(c) : x <= c
<1>1. Seen(c) \in SUBSET Nat /\ \A x \in Seen(c) : x <= c
  BY DEF Seen
<1>2. IsFiniteSet(0 .. c)
  BY FS_Interval
<1>3. Seen(c) \in SUBSET (0 .. c)
  BY <1>1
<1> QED
  BY <1>1, <1>2, <1>3, FS_Subset

\* Actions that leave the windows and the cursor alone.
LEMMA WindowIdle ==
  ASSUME WindowInv, UNCHANGED <<history, cursor, windows>>,
         \/ pc' = pc
         \/ pc \in {"iterate", "report", "advance"} /\ pc' \in {"iterate", "report", "advance"}
         \/ pc \in {"settle", "update"} /\ pc' \in {"settle", "update"}
         \/ pc' \notin Replaying
  PROVE  WindowInv'
<1>1. \A c : Seen(c)' = Seen(c)
  BY DEF Seen
<1>2. Seen(cursor)' = Seen(cursor) /\ Seen(cursor - 1)' = Seen(cursor - 1)
  BY DEF Seen
<1>3. \A r \in Resolutions :
        /\ Shows(windows[r], r, Seen(cursor))' = Shows(windows[r], r, Seen(cursor))
        /\ Shows(windows[r], r, Seen(cursor - 1))' = Shows(windows[r], r, Seen(cursor - 1))
  BY <1>2
<1>4. HasAdvanced' = HasAdvanced /\ StoredUntilPushed' = StoredUntilPushed
  BY DEF HasAdvanced, StoredUntilPushed
<1> QED
  BY <1>3, <1>4 DEF WindowInv, Replaying

\* The first windows show the minutes of the first buffer up to the first candle.
LEMMA WindowLoad ==
  ASSUME Inv, WindowInv, Load
  PROVE  WindowInv'
<1> DEFINE from == Start - Duration(Longest)
           loaded == GetCandles(from, from + BufferSize)
           first == FirstCandle(loaded)
           S == {c \in loaded : c <= first}
<1>1. history' = history /\ history \in SUBSET Nat
  BY DEF Load, Inv, Typed
<1>2. CASE ~ \E c \in loaded : c >= Start
  <2>1. UNCHANGED <<cursor, windows>> /\ pc' = "ending"
    BY <1>2 DEF Load, EndRun, Goto
  <2> QED
    BY <1>1, <2>1, WindowIdle DEF Replaying
<1>3. CASE \E c \in loaded : c >= Start
  <2>1. /\ cursor' = first /\ pc' = "iterate"
        /\ windows' = [r \in Resolutions |-> InitialWindow(r, S)]
    BY <1>3 DEF Load, Goto
  <2> DEFINE inRange == {c \in loaded : c >= Start}
  <2>2. first \in loaded /\ \A c \in loaded : Start <= c => first <= c
    <3>1. inRange \in SUBSET Nat /\ inRange # {}
      BY <1>1, <1>3 DEF GetCandles
    <3>2. first = Earliest(inRange)
      BY DEF FirstCandle
    <3> HIDE DEF first, inRange
    <3>3. first \in inRange /\ \A c \in inRange : first <= c
      BY <3>1, <3>2, EarliestIs
    <3>4. \A c \in loaded : Start <= c => c >= Start
      BY <1>1, EngineAssumption DEF GetCandles
    <3> QED
      BY <3>3, <3>4 DEF inRange
  <2>3. Start \in Nat /\ BufferSize \in Nat /\ Duration(Longest) \in Nat
    BY EngineAssumption, LongestIs
  <2> HIDE DEF first
  <2>4. first \in Nat /\ first <= from + BufferSize
    BY <1>1, <2>2 DEF GetCandles
  <2>5. S = Seen(first)
    <3>1. \A x \in history : x \in Nat /\ (x <= first => x <= from + BufferSize)
      BY <1>1, <2>3, <2>4
    <3> QED
      BY <3>1 DEF GetCandles, Seen
  <2>6. Seen(first) \in SUBSET Nat /\ IsFiniteSet(Seen(first))
    BY <1>1, <2>4, SeenIs
  <2> HIDE DEF S
  <2>7. \A r \in Resolutions : windows'[r] = InitialWindow(r, Seen(first))
    BY <2>1, <2>5
  <2>8. \A r \in Resolutions : Shows(windows'[r], r, Seen(first)) /\ (r = 1 => ~windows'[r].open)
    BY <2>6, <2>7, InitialShows
  <2>9. Seen(cursor)' = Seen(first)
    BY <1>1, <2>1 DEF Seen
  <2>10. windows' = [r \in Resolutions |-> windows'[r]]
    BY <2>1
  <2>11. \A r \in Resolutions : Shows(windows[r], r, Seen(cursor))'
    BY <2>8, <2>9
  <2>12. windows' \in [Resolutions -> WindowType]
         /\ \A r \in Resolutions : Len(windows'[r].candles) <= SharedPeriod(r)
    BY <2>8, <2>10, ShowsTyped
  <2>13. ~HasAdvanced'
    <3>1. ASSUME NEW c \in history, Start <= c, c < first PROVE FALSE
      <4>1. c \in Nat /\ from <= c /\ c <= from + BufferSize
        BY <1>1, <2>3, <2>4, <3>1
      <4>2. c \in loaded
        BY <4>1 DEF GetCandles
      <4> QED
        BY <2>2, <2>4, <3>1, <4>1, <4>2
    <3> QED
      BY <1>1, <2>1, <3>1 DEF HasAdvanced
  <2>14. StoredUntilPushed'
    BY <2>8, <2>13 DEF StoredUntilPushed
  <2> QED
    BY <2>1, <2>11, <2>12, <2>14 DEF WindowInv
<1> QED
  BY <1>2, <1>3

\* No number is between the last one before b and b.
LEMMA Between ==
  ASSUME NEW a \in Nat, NEW b \in Nat, NEW x \in Nat, a < b, ~(a < x /\ x < b)
  PROVE  x <= b - 1 <=> x <= a
OBVIOUS

\* Over minutes without a candle the windows need no push.
LEMMA WindowAdvance ==
  ASSUME Inv, Inv', WindowInv, Advance
  PROVE  WindowInv'
<1>1. /\ pc = "advance" /\ UNCHANGED <<history, windows, at>>
      /\ pc' = "settle" \/ (pc' = "ending" /\ cursor' = cursor)
  BY DEF Advance, At, EndRun, Goto, accounts
<1>2. CASE pc' = "ending" /\ cursor' = cursor
  BY <1>1, <1>2, WindowIdle DEF Replaying
<1>3. CASE pc' = "settle"
  <2>1. /\ 1 \in Operators /\ at[1] = cursor /\ Behind(1)' /\ cursor \in history
        /\ cursor' \in history /\ history \in SUBSET Nat /\ Start <= cursor
    <3>1. 1 \in Operators
      BY Constants DEF ConstantTypes
    <3>2. at[1] = cursor /\ cursor \in history /\ Start <= cursor
      BY <1>1, <3>1 DEF Inv, Advancing, Replaying
    <3>3. Behind(1)' /\ cursor' \in history'
      BY <1>3, <3>1 DEF Inv, Settling, Replaying
    <3> QED
      BY <1>1, <3>1, <3>2, <3>3 DEF Inv, Typed
  <2>2. cursor < cursor' /\ \A c \in history : ~(cursor < c /\ c < cursor')
    BY <1>1, <2>1 DEF Behind
  <2>3. cursor \in Nat /\ cursor' \in Nat
    BY <2>1
  <2>4. Seen(cursor - 1)' = Seen(cursor)
    <3>1. ASSUME NEW x \in history PROVE x <= cursor' - 1 <=> x <= cursor
      <4>1. x \in Nat /\ ~(cursor < x /\ x < cursor')
        BY <2>1, <2>2
      <4> QED
        BY <2>2, <2>3, <4>1, Between
    <3>2. Seen(cursor - 1)' = {x \in history : Start - Duration(Longest) <= x /\ x <= cursor' - 1}
      BY <1>1 DEF Seen
    <3> QED
      BY <3>1, <3>2 DEF Seen
  <2>5. \A r \in Resolutions : Shows(windows[r], r, Seen(cursor - 1))'
    BY <1>1, <2>4 DEF WindowInv
  <2>6. HasAdvanced'
    BY <1>1, <2>1, <2>2 DEF HasAdvanced
  <2> QED
    BY <1>1, <1>3, <2>5, <2>6 DEF WindowInv
<1> QED
  BY <1>1, <1>2, <1>3

\* After the last account the candle at the cursor is pushed.
LEMMA WindowUpdate ==
  ASSUME Inv, WindowInv, Update
  PROVE  WindowInv'
<1>1. /\ pc = "update" /\ UNCHANGED <<history, cursor>> /\ history \in SUBSET Nat
      /\ cursor \in history /\ cursor \in Nat /\ Start <= cursor
  BY DEF Update, At, Inv, Typed, Replaying
<1>2. CASE k < NumOperators
  <2>1. UNCHANGED <<pc, windows>>
    BY <1>2 DEF Update
  <2> QED
    BY <1>1, <2>1, WindowIdle
<1>3. CASE ~(k < NumOperators)
  <2>1. /\ pc' = "iterate"
        /\ windows' = [r \in Resolutions |-> Push(windows[r], r, cursor)]
    BY <1>3 DEF Update, Goto
  <2>2. Seen(cursor - 1) \in SUBSET Nat /\ \A x \in Seen(cursor - 1) : x < cursor
    <3>1. cursor - 1 \in Int
      BY <1>1
    <3>2. Seen(cursor - 1) \in SUBSET Nat /\ \A x \in Seen(cursor - 1) : x <= cursor - 1
      BY <1>1, <3>1, SeenIs
    <3> QED
      BY <1>1, <3>2
  <2>3. Seen(cursor)' = Seen(cursor - 1) \cup {cursor}
    <3>1. Start \in Nat /\ Duration(Longest) \in Nat
      BY EngineAssumption, LongestIs
    <3>2. \A x \in history : x <= cursor <=> x <= cursor - 1 \/ x = cursor
      BY <1>1
    <3>3. Start - Duration(Longest) <= cursor
      BY <1>1, <3>1
    <3>4. Seen(cursor)' = {x \in history : Start - Duration(Longest) <= x /\ x <= cursor}
      BY <1>1 DEF Seen
    <3> QED
      BY <1>1, <3>2, <3>3, <3>4 DEF Seen
  <2>4. ASSUME NEW r \in Resolutions
        PROVE  Shows(windows'[r], r, Seen(cursor - 1) \cup {cursor})
    <3>1. Shows(windows[r], r, Seen(cursor - 1))
      BY <1>1 DEF WindowInv
    <3>2. windows'[r] = Push(windows[r], r, cursor)
      BY <2>1
    <3>3. Shows(Push(windows[r], r, cursor), r, Seen(cursor - 1) \cup {cursor})
      BY <1>1, <2>2, <3>1, PushShows
    <3> QED
      BY <3>2, <3>3
  <2>5. windows' = [r \in Resolutions |-> windows'[r]]
    BY <2>1
  <2>6. windows' \in [Resolutions -> WindowType]
        /\ \A r \in Resolutions : Len(windows'[r].candles) <= SharedPeriod(r)
    BY <2>4, <2>5, ShowsTyped
  <2>7. \A r \in Resolutions : Shows(windows[r], r, Seen(cursor))'
    BY <2>3, <2>4
  <2>8. \A r \in Resolutions : windows'[r].open = TRUE
    <3> SUFFICES ASSUME NEW r \in Resolutions PROVE windows'[r].open = TRUE
      OBVIOUS
    <3> DEFINE w == windows[r]
    <3>1. w \in WindowType /\ windows'[r] = Push(w, r, cursor)
      BY <2>1 DEF WindowInv
    <3> HIDE DEF w
    <3>2. CASE w.open /\ w.candles[Len(w.candles)].time = Floor(cursor, r)
      <4>1. PICK q : windows'[r] = [w EXCEPT !.candles = q]
        <5>1. Push(w, r, cursor)
              = [w EXCEPT !.candles = [w.candles EXCEPT ![Len(w.candles)] = AddCandle(@, cursor)]]
          BY <3>1, <3>2 DEF Push, WindowType
        <5> QED
          BY <3>1, <5>1
      <4>2. windows'[r].open = w.open
        BY <3>1, <4>1 DEF WindowType
      <4>3. w.open \in BOOLEAN
        BY <3>1 DEF WindowType
      <4> QED
        BY <3>2, <4>2, <4>3
    <3>3. CASE ~(w.open /\ w.candles[Len(w.candles)].time = Floor(cursor, r))
      BY <3>1, <3>3 DEF Push
    <3> QED
      BY <3>2, <3>3
  <2>9. HasAdvanced'
    BY <1>1 DEF WindowInv, HasAdvanced
  <2>10. StoredUntilPushed'
    BY <2>8, <2>9 DEF StoredUntilPushed
  <2> QED
    BY <2>1, <2>6, <2>7, <2>10 DEF WindowInv
<1> QED
  BY <1>2, <1>3

-----------------------------------------------------------------------------
(* Places and statuses.                                                    *)

Places == {"start", "load", "iterate", "report", "advance", "settle", "update", "ending",
           "concluded", "gone"}

\* Where the task is: at candles, and with a result when it is about to end.
PlaceInv ==
  /\ history \in Histories /\ pc \in Places /\ cursor \in {Start - 1} \cup history
  /\ nextReport \in Nat /\ outcome \in {None, Finished, Failed}
  /\ pc = "ending" => outcome \in {Finished, Failed}
  /\ \A o \in Operators : at[o] \in {Start - 1} \cup history
  /\ decided \in [Evaluators -> Nat]

\* What passes between the task, abort() and until_stopped() are statuses.
StatusInv ==
  /\ status \in Statuses /\ engineSends \in Statuses \cup {None} /\ abortSends \in {Aborted, None}
  /\ abort \in {"idle", "requested", "stored", "joining", "returned"}
  /\ abort = "stored" => abortSends = Aborted
  /\ waiter \in {"idle", "subscribed", "waiting"} \cup Stopped
  /\ inbox \in Seq(Statuses) /\ errors \in BOOLEAN

\* The engine is created before its range, and not initiated.
LEMMA PlaceInit == Init => PlaceInv /\ StatusInv
<1> SUFFICES ASSUME Init PROVE PlaceInv /\ StatusInv
  OBVIOUS
<1>1. Start \in Nat /\ Day \in Nat /\ Start >= 1 /\ Day >= 1
  BY EngineAssumption
<1>2. nextReport \in Nat /\ decided \in [Evaluators -> Nat]
  BY <1>1 DEF Init
<1>3. PlaceInv
  BY <1>2 DEF Init, PlaceInv, Places
<1>4. inbox \in Seq(Statuses)
  BY EmptySeq DEF Init
<1> QED
  BY <1>3, <1>4 DEF Init, StatusInv, Statuses

\* The cursor and the accounts only go to candles, and what run() returned is known before the
\* task writes it.
LEMMA PlaceStep ==
  ASSUME Inv, Inv', PlaceInv, [Next]_vars
  PROVE  PlaceInv'
<1>1. CASE Load
  <2>1. pc' \in Replaying => cursor' \in history'
    BY DEF Inv
  <2>2. history' = history /\ UNCHANGED <<nextReport, decided>>
    BY <1>1 DEF Load
  <2>3. CASE pc' = "iterate" /\ outcome' = outcome
    <3>1. cursor' \in history /\ pc' \in Places
      BY <2>1, <2>2, <2>3 DEF Replaying, Places
    <3>2. \A o \in Operators : at'[o] = cursor'
      BY <2>3 DEF Inv, Deciding
    <3> QED
      BY <2>2, <2>3, <3>1, <3>2 DEF PlaceInv
  <2>4. CASE pc' = "ending" /\ outcome' = Failed /\ UNCHANGED <<cursor, at>>
    BY <2>2, <2>4 DEF PlaceInv, Places
  <2> QED
    BY <1>1, <2>3, <2>4 DEF Load, EndRun, Goto
<1>2. CASE Iterate
  <2>1. pc = "iterate" /\ pc' \in {"iterate", "report", "advance"}
        /\ UNCHANGED <<history, cursor, nextReport, outcome, at>>
    BY <1>2 DEF Iterate, At, Goto
  <2>2. 2 * cursor + 1 \in Nat
    <3>1. cursor \in Nat
      BY <2>1 DEF Inv, Typed, Replaying
    <3> QED
      BY <3>1
  <2>3. decided' \in [Evaluators -> Nat]
    <3> DEFINE now == 2 * cursor + 1
    <3>1. decided' = [e \in Evaluators |-> IF Owner[e] = k /\ Due(e) THEN now ELSE decided[e]]
      BY <1>2 DEF Iterate
    <3>2. now \in Nat
      BY <2>2
    <3> HIDE DEF now
    <3> QED
      BY <3>1, <3>2 DEF PlaceInv
  <2> QED
    BY <2>1, <2>3 DEF PlaceInv, Places
<1>3. CASE Report
  <2>1. /\ UNCHANGED <<history, cursor, at, decided>>
        /\ \/ pc' = "ending" /\ outcome' = Failed /\ nextReport' = nextReport
           \/ pc' = "advance" /\ outcome' = outcome /\ nextReport' = nextReport + Day
    BY <1>3 DEF Report, EndRun, Goto, accounts
  <2>2. nextReport' \in Nat
    BY <2>1, EngineAssumption DEF PlaceInv
  <2> QED
    BY <2>1, <2>2 DEF PlaceInv, Places
<1>4. CASE Advance
  <2>1. /\ UNCHANGED <<history, nextReport, at, decided>>
        /\ \/ pc' = "ending" /\ outcome' \in {Finished, Failed} /\ cursor' = cursor
           \/ pc' = "settle" /\ outcome' = outcome
    BY <1>4 DEF Advance, EndRun, Goto, accounts
  <2>2. pc' = "settle" => cursor' \in history'
    BY DEF Inv, Replaying
  <2> QED
    BY <2>1, <2>2 DEF PlaceInv, Places
<1>5. CASE Settle
  BY <1>5 DEF Settle, At, Goto, PlaceInv, Places
<1>6. CASE Update
  <2>1. /\ pc = "update" /\ pc' \in {"update", "iterate"}
        /\ UNCHANGED <<history, cursor, nextReport, outcome, decided>>
        /\ at' = [at EXCEPT ![k] = cursor]
    BY <1>6 DEF Update, At, Goto
  <2>2. cursor \in history
    BY <2>1 DEF Inv, Replaying
  <2>3. \A o \in Operators : at'[o] \in {Start - 1} \cup history
    BY <2>1, <2>2 DEF Inv, Typed, PlaceInv
  <2> QED
    BY <2>1, <2>3 DEF PlaceInv, Places
<1>7. CASE Error \/ SignalOperatorFails \/ RawOperatorFails
  BY <1>7 DEF Error, SignalOperatorFails, RawOperatorFails, RunFails, EndRun, Goto, PlaceInv,
     Places, accounts
<1>8. CASE StartRun \/ Conclude \/ Exit \/ Cancelled
  BY <1>8 DEF StartRun, Conclude, Exit, Cancelled, Goto, PlaceInv, Places, accounts
<1>9. CASE EngineSends \/ Abort \/ UntilStopped
  BY <1>9 DEF EngineSends, Abort, UntilStopped, PlaceInv, engine, accounts
<1>10. CASE Controller
  BY <1>10 DEF Controller, AbortStores, AbortSends, AbortReturns, Snapshot, Receive, Lag,
     PlaceInv, engine, accounts
<1>11. CASE UNCHANGED vars
  BY <1>11 DEF vars, PlaceInv, engine, accounts
<1> QED
  BY <1>1, <1>2, <1>3, <1>4, <1>5, <1>6, <1>7, <1>8, <1>9, <1>10, <1>11 DEF Next, Task

\* Only statuses are stored, sent and received.
LEMMA StatusStep ==
  ASSUME PlaceInv, StatusInv, [Next]_vars
  PROVE  StatusInv'
<1>1. CASE UNCHANGED <<control, errors>>
  BY <1>1 DEF StatusInv, control
<1>2. CASE EngineSends
  <2>1. engineSends \in Statuses /\ inbox \in Seq(Statuses)
    BY <1>2 DEF EngineSends, StatusInv
  <2>2. inbox' \in Seq(Statuses)
    BY <1>2, <2>1, AppendProperties DEF EngineSends, Deliver
  <2> QED
    BY <1>2, <2>2 DEF EngineSends, StatusInv
<1>3. CASE StartRun \/ Conclude
  BY <1>3 DEF StartRun, Conclude, At, Store, StatusInv, PlaceInv, Statuses, Stopped
<1>4. CASE Load
  BY <1>4 DEF Load, Store, StatusInv, Statuses
<1>5. CASE Error \/ SignalOperatorFails \/ RawOperatorFails
  BY <1>5 DEF Error, SignalOperatorFails, RawOperatorFails, RunFails, StatusInv, control
<1>6. CASE Iterate \/ Report \/ Advance \/ Settle \/ Update \/ Exit \/ Cancelled
  BY <1>6, <1>1 DEF Iterate, Report, Advance, Settle, Update, Exit, Cancelled
<1>7. CASE Abort \/ AbortStores \/ AbortReturns \/ UntilStopped
  BY <1>7 DEF Abort, AbortStores, AbortReturns, UntilStopped, Store, StatusInv, Statuses, Stopped
<1>8. CASE AbortSends
  <2>1. abortSends \in Statuses /\ inbox \in Seq(Statuses)
    BY <1>8 DEF AbortSends, StatusInv, Statuses, Stopped
  <2>2. inbox' \in Seq(Statuses)
    BY <1>8, <2>1, AppendProperties DEF AbortSends, Deliver
  <2> QED
    BY <1>8, <2>2 DEF AbortSends, StatusInv
<1>9. CASE Snapshot \/ Receive \/ Lag
  <2>1. << >> \in Seq(Statuses) /\ inbox \in Seq(Statuses)
    BY EmptySeq DEF StatusInv
  <2>2. inbox # << >> => Tail(inbox) \in Seq(Statuses)
    BY <2>1, HeadTailProperties
  <2>3. inbox' \in Seq(Statuses) /\ waiter' \in {"idle", "subscribed", "waiting"} \cup Stopped
    BY <1>9, <2>1, <2>2 DEF Snapshot, Receive, Lag, StatusInv
  <2> QED
    BY <1>9, <2>3 DEF Snapshot, Receive, Lag, StatusInv
<1>10. CASE UNCHANGED vars
  BY <1>10, <1>1 DEF vars
<1> QED
  BY <1>2, <1>3, <1>4, <1>5, <1>6, <1>7, <1>8, <1>9, <1>10 DEF Next, Task, Controller

\* Between candles the windows show what the cursor has passed.
LEMMA WindowStep ==
  ASSUME Inv, Inv', WindowInv, [Next]_vars
  PROVE  WindowInv'
<1>1. CASE Load
  BY <1>1, WindowLoad
<1>2. CASE Advance
  BY <1>2, WindowAdvance
<1>3. CASE Update
  BY <1>3, WindowUpdate
<1>4. CASE Iterate \/ Report \/ Settle
  <2>1. /\ UNCHANGED <<history, cursor, windows>>
        /\ \/ pc = "iterate" /\ pc' \in {"iterate", "report", "advance"}
           \/ pc = "report" /\ pc' \in {"advance", "ending"}
           \/ pc = "settle" /\ pc' \in {"settle", "update"}
    BY <1>4 DEF Iterate, Report, Settle, At, Goto, EndRun
  <2> QED
    BY <2>1, WindowIdle DEF Replaying
<1>5. CASE \/ EngineSends \/ StartRun \/ Error \/ SignalOperatorFails \/ RawOperatorFails
           \/ Conclude \/ Exit \/ Cancelled \/ Controller \/ Abort \/ UntilStopped
  <2>1. Idle
    BY <1>5, OthersIdle
  <2>2. windows' = windows
    BY <1>5 DEF EngineSends, StartRun, Error, SignalOperatorFails, RawOperatorFails, RunFails,
       Conclude, Exit, Cancelled, Controller, AbortStores, AbortSends, AbortReturns, Snapshot,
       Receive, Lag, Abort, UntilStopped, engine
  <2> QED
    BY <2>1, <2>2, WindowIdle DEF Idle, Replaying
<1>6. CASE UNCHANGED vars
  BY <1>6, WindowIdle DEF vars, engine
<1> QED
  BY <1>1, <1>2, <1>3, <1>4, <1>5, <1>6 DEF Next, Task

EngineInv == Inv /\ WindowInv /\ PlaceInv /\ StatusInv

\* The conjuncts that are not inductive alone are together.
LEMMA EngineStep == EngineInv /\ [Next]_vars => EngineInv'
<1> SUFFICES ASSUME EngineInv, [Next]_vars PROVE EngineInv'
  OBVIOUS
<1>1. Inv'
  BY NextStep DEF EngineInv
<1> QED
  BY <1>1, WindowStep, PlaceStep, StatusStep DEF EngineInv

\* They hold in every state.
LEMMA EngineInvariant == Spec => []EngineInv
<1>1. Init => EngineInv
  BY InitInv, WindowInit, PlaceInit DEF EngineInv
<1> QED
  BY <1>1, EngineStep, PTL DEF Spec

\* The cursor and the accounts are only ever at minutes of the table, a window has no more
\* buckets than the longest of its evaluators asked for, and only statuses are stored, sent and
\* read (single/engine.rs, consolidator.rs, controller.rs).
THEOREM EngineTypeTheorem == Spec => []TypeOK
<1>1. EngineInv => TypeOK
  <2> SUFFICES ASSUME EngineInv PROVE TypeOK
    OBVIOUS
  <2>1. \A r \in Resolutions :
          /\ windows[r].candles \in Seq(Buckets) /\ windows[r].open \in BOOLEAN
          /\ Len(windows[r].candles) <= SharedPeriod(r)
    BY DEF EngineInv, WindowInv, WindowType
  <2>2. \A o \in Operators : at[o] \in {Start - 1} \cup history /\ settled[o] \subseteq Settlements
    BY DEF EngineInv, Inv, Typed, PlaceInv
  <2> QED
    BY <2>1, <2>2 DEF TypeOK, EngineInv, Inv, Typed, PlaceInv, StatusInv, Places
<1> QED
  BY <1>1, EngineInvariant, PTL

\* A stored stop that until_stopped() has not learnt of is in its receiver or still to be
\* broadcast: neither the task nor abort() stores over what it has still to broadcast.
StopIsPassedOn ==
  waiter = "waiting" /\ status \in Stopped =>
    \/ {engineSends, abortSends} \cap Stopped # {}
    \/ \E i \in DOMAIN inbox : inbox[i] \in Stopped

LEMMA StopStep ==
  ASSUME PlaceInv, StatusInv, StopIsPassedOn, [Next]_vars
  PROVE  StopIsPassedOn'
<1> DEFINE HasStop == \E i \in DOMAIN inbox : inbox[i] \in Stopped
<1>1. CASE UNCHANGED control
  BY <1>1 DEF StopIsPassedOn, control
<1>2. ASSUME NEW s \in Statuses, Deliver(s), waiter = "waiting"
      PROVE  HasStop \/ s \in Stopped => HasStop'
  <2>1. inbox \in Seq(Statuses) /\ inbox' = Append(inbox, s)
    BY <1>2 DEF StatusInv, Deliver
  <2>2. CASE HasStop
    <3>1. PICK i \in DOMAIN inbox : inbox[i] \in Stopped
      BY <2>2
    <3>2. i \in DOMAIN inbox' /\ inbox'[i] = inbox[i]
      BY <2>1
    <3> QED
      BY <3>1, <3>2
  <2>3. CASE s \in Stopped
    <3>1. Len(inbox) + 1 \in DOMAIN inbox' /\ inbox'[Len(inbox) + 1] = s
      BY <2>1
    <3> QED
      BY <2>3, <3>1
  <2> QED
    BY <2>2, <2>3
<1>3. CASE EngineSends
  <2>1. engineSends \in Statuses /\ Deliver(engineSends) /\ UNCHANGED <<status, abortSends, waiter>>
    BY <1>3 DEF EngineSends, StatusInv
  <2>2. waiter = "waiting" => (HasStop \/ engineSends \in Stopped => HasStop')
    BY <1>2, <2>1
  <2> QED
    BY <2>1, <2>2 DEF StopIsPassedOn
<1>4. CASE AbortSends
  <2>1. abortSends = Aborted /\ Deliver(abortSends) /\ UNCHANGED <<status, engineSends, waiter>>
    BY <1>4 DEF AbortSends, StatusInv
  <2>2. waiter = "waiting" => HasStop'
    BY <1>2, <2>1 DEF Stopped, Statuses
  <2> QED
    BY <2>1, <2>2 DEF StopIsPassedOn
<1>5. CASE StartRun
  BY <1>5 DEF StartRun, Store, StopIsPassedOn, Stopped, Starting, Finished, Failed, Aborted
<1>6. CASE Load
  <2>1. CASE status' = Running
    BY <2>1 DEF StopIsPassedOn, Stopped, Running, Finished, Failed, Aborted
  <2>2. CASE UNCHANGED <<status, engineSends>>
    BY <1>6, <2>2 DEF Load, StopIsPassedOn
  <2> QED
    BY <1>6, <2>1, <2>2 DEF Load, Store
<1>7. CASE Conclude
  BY <1>7 DEF Conclude, At, PlaceInv, StopIsPassedOn, Stopped
<1>8. CASE Iterate \/ Report \/ Advance \/ Settle \/ Update \/ Exit \/ Cancelled \/ Error
           \/ SignalOperatorFails \/ RawOperatorFails
  BY <1>8, <1>1 DEF Iterate, Report, Advance, Settle, Update, Exit, Cancelled, Error,
     SignalOperatorFails, RawOperatorFails, RunFails
<1>9. CASE Abort \/ AbortReturns \/ UntilStopped
  BY <1>9 DEF Abort, AbortReturns, UntilStopped, StopIsPassedOn
<1>10. CASE AbortStores
  BY <1>10 DEF AbortStores, StopIsPassedOn, Stopped
<1>11. CASE Snapshot
  BY <1>11 DEF Snapshot, StopIsPassedOn, Stopped, Finished, Failed, Aborted
<1>12. CASE Receive \/ Lag
  <2>1. UNCHANGED <<status, engineSends, abortSends>> /\ inbox \in Seq(Statuses) /\ inbox # <<>>
    BY <1>12 DEF Receive, Lag, StatusInv
  <2>2. CASE waiter' # "waiting"
    BY <2>2 DEF StopIsPassedOn
  <2>3. CASE waiter' = "waiting"
    <3>1. waiter = "waiting" /\ Head(inbox) \notin Stopped /\ inbox' = Tail(inbox)
      BY <1>12, <2>3 DEF Receive, Lag, Stopped, Finished, Failed, Aborted
    <3>2. HasStop => HasStop'
      <4>1. SUFFICES ASSUME NEW i \in DOMAIN inbox, inbox[i] \in Stopped
                     PROVE  \E j \in DOMAIN inbox' : inbox'[j] \in Stopped
        OBVIOUS
      <4>2. i \in 1 .. Len(inbox) /\ i # 1
        BY <2>1, <3>1, <4>1
      <4>3. i - 1 \in DOMAIN inbox' /\ inbox'[i - 1] = inbox[i]
        BY <2>1, <3>1, <4>2
      <4> QED
        BY <4>1, <4>3
    <3> QED
      BY <2>1, <3>1, <3>2 DEF StopIsPassedOn
  <2> QED
    BY <2>2, <2>3
<1>13. CASE UNCHANGED vars
  BY <1>1, <1>13 DEF vars
<1> QED
  BY <1>3, <1>4, <1>5, <1>6, <1>7, <1>8, <1>9, <1>10, <1>11, <1>12, <1>13 DEF Next, Task, Controller

\* A task that is gone wrote what run() returned, or was aborted.
GoneInv ==
  /\ pc \in {"concluded", "gone"} /\ outcome # None => status \in Stopped
  /\ pc = "concluded" => outcome # None
  /\ pc \notin {"ending", "concluded", "gone"} => outcome = None
  /\ pc = "gone" /\ outcome = None => abort # "idle"
  /\ abort = "stored" => abortSends = Aborted
  /\ abort \in {"idle", "requested", "stored", "joining", "returned"}

LEMMA GoneStep ==
  ASSUME PlaceInv, StatusInv, GoneInv, [Next]_vars
  PROVE  GoneInv'
<1>1. CASE UNCHANGED <<pc, outcome, status, abort, abortSends>>
  BY <1>1 DEF GoneInv
<1>2. CASE EngineSends \/ UntilStopped \/ Snapshot \/ Receive \/ Lag \/ UNCHANGED vars
  BY <1>1, <1>2 DEF EngineSends, UntilStopped, Snapshot, Receive, Lag, vars, engine, control
<1>3. CASE \/ StartRun \/ Load \/ Iterate \/ Report \/ Advance \/ Settle \/ Update \/ Error
           \/ SignalOperatorFails \/ RawOperatorFails
  <2>1. /\ pc' \notin {"concluded", "gone"} /\ UNCHANGED <<abort, abortSends>>
        /\ pc \notin {"ending", "concluded", "gone"}
        /\ pc' = "ending" \/ UNCHANGED outcome
    BY <1>3 DEF StartRun, Load, Iterate, Report, Advance, Settle, Update, Error,
       SignalOperatorFails, RawOperatorFails, RunFails, EndRun, At, Goto, control
  <2> QED
    BY <2>1 DEF GoneInv
<1>4. CASE Conclude
  <2>1. /\ pc = "ending" /\ pc' = "concluded" /\ status' = outcome
        /\ UNCHANGED <<outcome, abort, abortSends>>
    BY <1>4 DEF Conclude, At, Store, Goto
  <2> QED
    BY <2>1 DEF GoneInv, PlaceInv, Stopped, None, Finished, Failed
<1>5. CASE Exit
  BY <1>5 DEF Exit, At, Goto, GoneInv, control
<1>6. CASE Cancelled
  <2>1. /\ pc \notin {"ending", "concluded", "gone"} /\ pc' = "gone" /\ abort # "idle"
        /\ UNCHANGED <<outcome, status, abort, abortSends>>
    BY <1>6 DEF Cancelled, At, Goto, control
  <2> QED
    BY <2>1 DEF GoneInv
<1>7. CASE Abort \/ AbortStores \/ AbortSends \/ AbortReturns
  BY <1>7 DEF Abort, AbortStores, AbortSends, AbortReturns, Store, GoneInv, engine, Stopped
<1> QED
  BY <1>2, <1>3, <1>4, <1>5, <1>6, <1>7 DEF Next, Task, Controller

\* until_stopped() never waits for an end it can no longer learn of, whichever of run() and
\* abort() stored it, but when a run that is cancelled has stored Starting or Running over the
\* Aborted that abort() had broadcast.
THEOREM ToldTheorem == Spec => []StopIsOnItsWay
<1>1. Init => StopIsPassedOn /\ GoneInv
  BY DEF Init, StopIsPassedOn, GoneInv
<1>2. EngineInv /\ StopIsPassedOn /\ GoneInv /\ [Next]_vars => StopIsPassedOn' /\ GoneInv'
  BY StopStep, GoneStep DEF EngineInv
<1>3. EngineInv /\ StopIsPassedOn /\ GoneInv => StopIsOnItsWay
  BY DEF StopIsPassedOn, GoneInv, StopIsOnItsWay, Overtaken, Stopped
<1> QED
  BY <1>1, <1>2, <1>3, EngineInvariant, PTL DEF Spec

\* At every decision of every backtest, for any table with holes and unstable rows, resolutions,
\* periods and buffers, an evaluator of signals is called with what the query of the live engine
\* returns for that minute of the same table, flags included, but for the flag of the last row of
\* one minute (consolidator.rs against get_candles_consolidated); it may have older buckets before
\* only where the exchange left some out.
THEOREM WindowsTheorem == Spec => []WindowsAgree
<1>1. EngineInv => WindowsAgree
  <2> SUFFICES ASSUME EngineInv, pc = "iterate", NEW e \in Evaluators
               PROVE  IsSuffix(Promised(e), Context(e)) /\ (Len(Context(e)) <= Period[e] \/ e \in Raw)
    BY DEF WindowsAgree
  <2>1. history \in SUBSET Nat /\ cursor \in history /\ Start <= cursor
    BY DEF EngineInv, Inv, Typed, Replaying
  <2>2. /\ Shows(windows[Resolution[e]], Resolution[e], Seen(cursor))
        /\ Resolution[e] = 1 => (windows[Resolution[e]].open <=> HasAdvanced)
    BY DEF EngineInv, WindowInv, StoredUntilPushed, Resolutions
  <2> QED
    BY <2>1, <2>2, AgreeIs
<1> QED
  BY <1>1, EngineInvariant, PTL
=============================================================================
