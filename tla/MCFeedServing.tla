---------------------------- MODULE MCFeedServing ----------------------------
(***************************************************************************)
(* Feed serving on small instances.  Job slots are interchangeable, and so *)
(* are the interactions that invalidate.                                   *)
(***************************************************************************)
EXTENDS FeedRefinement, TLC

Symmetry == Permutations(Workers) \cup Permutations(Invalidating)

=============================================================================
