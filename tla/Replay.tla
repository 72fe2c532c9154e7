-------------------------------- MODULE Replay --------------------------------
(***************************************************************************)
(* What a backtest promises each of its operators: the candles of the      *)
(* history from the start on, each once and in order; the settlements,     *)
(* each once and in order, before the candle of their minute and after     *)
(* the decisions at the candle before it, but those up to the minute of    *)
(* the first candle, which come after the decisions at that one; and a     *)
(* decision of each evaluator whenever, and only when, its interval has    *)
(* passed.  No operator depends on another.  BacktestEngine implements it. *)
(***************************************************************************)
EXTENDS Integers

CONSTANTS
  Start,              \* the first minute of the range
  Operators,
  Evaluators,         \* what decides; a raw operator is an evaluator of its own
  Owner,              \* the operator of each evaluator
  Interval,           \* min_iteration_interval of each evaluator, in half minutes
  Settlements         \* the minutes of the range with a funding settlement

VARIABLES
  history,            \* the minutes that have a candle
  at,                 \* for each operator, the minute of the last candle its account got
  settled,            \* for each operator, the settlements its account got
  decided             \* for each evaluator, when it last decided, in half minutes

rvars == <<history, at, settled, decided>>

Earliest(S) == CHOOSE m \in S : \A n \in S : m <= n

\* Time stands at the last second of the minute of a candle.
Moment(m) == 2 * m + 1

Opened(o) == at[o] >= Start
Due(e) == Opened(Owner[e]) /\ Moment(at[Owner[e]]) >= decided[e] + Interval[e]
Ahead(o) == {c \in history : c > at[o]}
Owed(o) == {s \in Settlements \ settled[o] : s <= Earliest(Ahead(o))}

Init ==
  /\ history \in SUBSET Nat
  /\ at = [o \in Operators |-> Start - 1]
  /\ settled = [o \in Operators |-> {}]
  /\ decided = [e \in Evaluators |-> 2 * Start]

\* The accounts open at the first candle.
Open ==
  /\ \A o \in Operators : ~Opened(o) /\ Ahead(o) # {}
  /\ at' = [o \in Operators |-> Earliest(Ahead(o))]
  /\ UNCHANGED <<history, settled, decided>>

Decide(o) ==
  /\ \E e \in Evaluators : Owner[e] = o /\ Due(e)
  /\ decided' = [e \in Evaluators |->
                   IF Owner[e] = o /\ Due(e) THEN Moment(at[o]) ELSE decided[e]]
  /\ UNCHANGED <<history, at, settled>>

Decided(o) == \A e \in Evaluators : Owner[e] = o => ~Due(e)

Settle(o) ==
  /\ Opened(o) /\ Decided(o) /\ Ahead(o) # {} /\ Owed(o) # {}
  /\ settled' = [settled EXCEPT ![o] = @ \cup {Earliest(Owed(o))}]
  /\ UNCHANGED <<history, at, decided>>

Candle(o) ==
  /\ Opened(o) /\ Decided(o) /\ Ahead(o) # {} /\ Owed(o) = {}
  /\ at' = [at EXCEPT ![o] = Earliest(Ahead(o))]
  /\ UNCHANGED <<history, settled, decided>>

Next == Open \/ \E o \in Operators : Decide(o) \/ Settle(o) \/ Candle(o)

Spec == Init /\ [][Next]_rvars
=============================================================================
