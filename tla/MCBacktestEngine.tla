--------------------------- MODULE MCBacktestEngine ---------------------------
(***************************************************************************)
(* Two operators, added in this order: one of two signals, one raw.        *)
(***************************************************************************)
EXTENDS BacktestEngine

MCEvaluators == {"slow", "fast", "raw"}
MCOwner == [e \in MCEvaluators |-> IF e = "raw" THEN 2 ELSE 1]
MCInterval == [e \in MCEvaluators |-> IF e = "slow" THEN 4 ELSE 1]
MCRaw == {"raw"}
MCResolution == [e \in MCEvaluators |-> IF e = "fast" THEN 1 ELSE 2]
MCPeriod == [e \in MCEvaluators |-> IF e = "raw" THEN 1 ELSE 2]
MCUnstable == {2, 6}
MCSettlements == {4, 6}
MCHistories == {0 .. 10 \ S : S \in SUBSET {4, 7} \cup {{3}, 6 .. 7, 4 .. 9, 7 .. 8}}
=============================================================================
