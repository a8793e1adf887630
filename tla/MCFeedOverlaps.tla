---------------------------- MODULE MCFeedOverlaps ----------------------------
(***************************************************************************)
(* Feeds and profiles on small instances.  Job slots are interchangeable,  *)
(* and so are the interactions that invalidate.                            *)
(***************************************************************************)
EXTENDS FeedOverlaps, TLC

Symmetry == Permutations(Workers) \cup Permutations(Invalidating)

=============================================================================
