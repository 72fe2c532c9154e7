--------------------------- MODULE MCSignalProcess ---------------------------
(***************************************************************************)
(* Two evaluators: "fast", without a lookback, and "slow", whose interval  *)
(* is no multiple of the other's.                                          *)
(***************************************************************************)
EXTENDS SignalProcess

MCEvaluators == {"fast", "slow"}
MCWithLookback == {"slow"}
MCInterval == [e \in MCEvaluators |-> IF e = "fast" THEN 2 ELSE 3]
=============================================================================
