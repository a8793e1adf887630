----------------------------- MODULE MCFeedLosses -----------------------------
(***************************************************************************)
(* Feed serving with failures and expiring keys on small instances: the    *)
(* refinement of the promise, and what lost builds leave behind.           *)
(***************************************************************************)
EXTENDS FeedRefinement, FeedLosses, TLC

Symmetry == Permutations(Workers) \cup Permutations(Invalidating)

=============================================================================
