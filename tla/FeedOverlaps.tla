----------------------------- MODULE FeedOverlaps -----------------------------
(***************************************************************************)
(* What feeds are ranked over.  A history variable tells the behaviours in *)
(* which two rebuilds of the profile, of two requests or of a request and  *)
(* a build, have each loaded the history and not yet stored the result:    *)
(* the one that loaded less may store last.                                *)
(***************************************************************************)
EXTENDS FeedServing

ASSUME OverlapAssumption == Events \cap Workers = {}

VARIABLE overlapped

overlapVars == <<vars, overlapped>>

Rebuilding ==
  {e \in Events : post[e] \in {"persist", "repersist"}}
    \cup {w \in Workers : pc[w] = "persistMissing"}

Overlapping == \E p, q \in Rebuilding : p # q

OverlapInit == Init /\ overlapped = FALSE

Noticed == overlapped' = (overlapped \/ Overlapping')

OverlapNext ==
  \/ \E w \in Workers : WorkerStep(w) /\ Noticed
  \/ ApiStep /\ Noticed
  \/ Fault /\ Noticed
  \/ Expiry /\ Noticed

OverlapSpec == OverlapInit /\ [][OverlapNext]_overlapVars

(***************************************************************************)
(* A generation built for epoch n leaves out as seen every interaction     *)
(* whose invalidation returned n or less, however slots and requests       *)
(* interleave and fail: POST commits the row before it moves the epoch,    *)
(* and the worker ranks after it read the epoch.  Unless two rebuilds      *)
(* overlapped, its profile counts those interactions as well: POST stores  *)
(* the profile in between (server.ts), and a later rebuild loads no less.  *)
(***************************************************************************)
BasisCoversEpoch ==
  \A f \in FeedIds : Readable(f) =>
    \A e \in Events : opened[e] \in 1 .. payload[f].epoch =>
      /\ e \in payload[f].seen
      /\ ~overlapped => e \in payload[f].basis

=============================================================================
