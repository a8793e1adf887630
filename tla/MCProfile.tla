------------------------------ MODULE MCProfile ------------------------------
(***************************************************************************)
(* A user who is shown a video and likes it, and skips another of the same *)
(* creator.                                                                *)
(***************************************************************************)
EXTENDS SerialProfile, TLC

MCEvents == {"liked", "skipped", "shown"}
MCType == [liked |-> "like", skipped |-> "skip", shown |-> "impression"]
MCAge == [liked |-> 1, skipped |-> 0, shown |-> 0]
MCVideo == [liked |-> "v1", skipped |-> "v2", shown |-> "v1"]
MCCreator == [v1 |-> "c1", v2 |-> "c1"]

Symmetry == Permutations(Requests)

=============================================================================
