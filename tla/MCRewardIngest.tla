--------------------------- MODULE MCRewardIngest ---------------------------
(***************************************************************************)
(* Three rewards, one of them unwanted and, for Ocean, skipped, two        *)
(* workers, one restart, either coin; a listing of two pages of one row,   *)
(* so that a reward can fall off it.  For liveness two rewards of one      *)
(* worker, and a query of the known hashes that fails once.                *)
(***************************************************************************)
EXTENDS RewardIngest, TLC

CONSTANTS b1, b2, b3, w1, w2

Symmetry == Permutations(Tx \ (Unwanted \union Skipped)) \union Permutations(Workers)
=============================================================================
