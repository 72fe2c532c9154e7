---------------------------- MODULE MCSyncEngine ----------------------------
(***************************************************************************)
(* The instance of SyncEngine for its run: of the four modes the           *)
(* one without a stream and the one with the most awaits.                  *)
(***************************************************************************)
EXTENDS SyncEngine

LiveInit == Init /\ mode \in {"backfill", "full"}

LiveSpec == LiveInit /\ [][Next]_vars /\ Fairness
=============================================================================
