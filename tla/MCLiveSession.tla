--------------------------- MODULE MCLiveSession ----------------------------
(***************************************************************************)
(* Instances of LiveSession for TLC.                                       *)
(***************************************************************************)
EXTENDS LiveSession, TLC

Symmetry == Permutations(Trades)
=============================================================================
