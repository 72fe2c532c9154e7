--------------------------- MODULE MCLiveAccount ---------------------------
(* LiveAccount on a small instance: an account with at most two trades,    *)
(* which are alike.                                                        *)
EXTENDS LiveAccount, TLC

\* A loss, smaller than the margin; a configuration has no negative numbers.
MCResults == {-2}

MCSymmetry == Permutations(Trades)
=============================================================================
