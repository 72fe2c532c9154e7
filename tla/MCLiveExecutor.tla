--------------------------- MODULE MCLiveExecutor ---------------------------
(***************************************************************************)
(* The instance of LiveExecutor for the liveness run. The receiver keeps   *)
(* up with the channel, which is what the liveness properties presuppose;  *)
(* one kind of stop stands for the three that readers treat alike, and     *)
(* updates the processor ignores are left out.                             *)
(***************************************************************************)
EXTENDS LiveExecutor

KeepsUp(A) == A /\ ~lagSeen'

LiveSync ==
  \/ \E s \in {"NotSynced", "Synced", "Terminated"} : SyncStore(s)
  \/ KeepsUp(SyncSend)
  \/ KeepsUp(SyncData("Data"))

LiveNext ==
  \/ LiveSync \/ Processor \/ Shutdown
  \/ \E c \in Clients : Client(c)
  \/ \E a \in Actors : Grant(a)

LiveSpec ==
  /\ Init /\ [][LiveNext]_vars
  /\ TaskFairness
  /\ WF_vars(KeepsUp(SyncSend)) /\ WF_vars(KeepsUp(SyncData("Data")))
=============================================================================
