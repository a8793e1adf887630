------------------------------ MODULE FeedLosses ------------------------------
(***************************************************************************)
(* What a lost build leaves behind.  Two history variables collect the     *)
(* epochs whose build will not come: the enqueue was refused, its request  *)
(* died, or the job used up its attempts; and the epochs that began while  *)
(* a slot had passed its second epoch check and not yet set the pointer.   *)
(***************************************************************************)
EXTENDS FeedServing

VARIABLES lost, overtaken

lossVars == <<vars, lost, overtaken>>

LossInit == Init /\ lost = {} /\ overtaken = {}

Refused == {e \in Events : post[e] = "invalidated" /\ post'[e] = "failed"}

\* Of the jobs, refills aside: the build it names is not made.
GivenUp ==
  {w \in Workers : /\ pc[w] \notin {"idle", "finish"} /\ pc'[w] = "idle"
                   /\ job[w].failures + 1 >= MaxAttempts
                   /\ job[w].id = buildDeduplicationId(job[w].epoch)}

\* Between the second check of the epoch and the SET of the pointer.
PastRecheck == {"repeek", "repeekGeneration", "setPayload", "setSidecar",
                "pushIndex", "setActive"}

LossNext ==
  /\ Next
  /\ lost' = lost \cup {opened[e] : e \in Refused} \cup {job[w].epoch : w \in GivenUp}
  /\ overtaken' = IF epoch' # epoch /\ \E w \in Workers : pc[w] \in PastRecheck
                  THEN overtaken \cup {epoch'} ELSE overtaken

LossSpec == LossInit /\ [][LossNext]_lossVars

FairLossSpec == LossSpec /\ Fairness

(***************************************************************************)
(* With one job slot, new sessions are sent to a feed that predates an     *)
(* invalidation only while the build that replaces it is queued, running   *)
(* or about to be queued.  When that build is lost they are sent to a miss *)
(* (server.ts:140-144), or else the feed comes from a build that was past  *)
(* its second epoch check when the epoch began.                            *)
(***************************************************************************)
StaleOnlyWhileRebuilding ==
  Stale => RebuildPending \/ epoch \in lost \cap overtaken

(***************************************************************************)
(* The pointer settles on the user's latest state: once interactions and   *)
(* failures stop, new sessions start, for good, on a feed built after the  *)
(* last invalidation, also when the build it queued was lost, unless an    *)
(* older build overtook the invalidation.                                  *)
(***************************************************************************)
EventuallyFresh == <>[](Fresh \/ epoch \in lost \cap overtaken)

(***************************************************************************)
(* "If the enqueue then fails, the user is left with a cache miss that the *)
(* next GET repairs, never with a feed that predates their interaction"    *)
(* (server.ts:141-143).  It does not hold: the older build just named sets *)
(* the pointer to a feed whose profile lacks the interaction.              *)
(***************************************************************************)
LostEnqueueLeavesMiss ==
  \A e \in Events :
    opened[e] = epoch /\ epoch \in lost /\ Readable(active) => e \in payload[active].basis

=============================================================================
