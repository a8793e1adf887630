----------------------------- MODULE FeedServing -----------------------------
(***************************************************************************)
(* Feed serving for one user: API requests, the build queue and the feed   *)
(* worker slots over the Redis keys and the interactions table they share. *)
(***************************************************************************)
EXTENDS FeedWorker, FeedApi

CONSTANTS
  MaxFaults,   \* bound of the model: failed awaits and process deaths
  MaxExpiries  \* bound of the model: keys Redis expires

ASSUME ServingAssumption == MaxFaults \in Nat /\ MaxExpiries \in Nat

VARIABLES faults, expiries

boundVars == <<faults, expiries>>

vars == <<cacheVars, databaseVars, queueVars, workerVars, apiVars, boundVars>>

Init ==
  /\ CacheInit
  /\ QueueInit
  /\ WorkerInit
  /\ ApiInit
  /\ faults = 0
  /\ expiries = 0

WorkerStep(w) == BuildFeed(w) /\ UNCHANGED <<apiVars, boundVars>>

ApiStep ==
  /\ \/ \E e \in Events : PostInteraction(e)
     \/ \E r \in Readers : GetFeed(r)
  /\ UNCHANGED <<workerVars, boundVars>>

Fault ==
  /\ faults < MaxFaults
  /\ faults' = faults + 1
  /\ UNCHANGED expiries
  /\ \/ \E w \in Workers : FailJob(w) /\ UNCHANGED apiVars
     \/ \E e \in Events : RefreshFails(e) /\ UNCHANGED workerVars
     \/ \E r \in Readers : RequestFails(r) /\ UNCHANGED workerVars

\* A payload that is being published is younger than FEED_TTL_SECONDS.
Publishing(f) == \E w \in Workers : feed[w] = f

Expiry ==
  /\ expiries < MaxExpiries
  /\ expiries' = expiries + 1
  /\ \/ ExpireActive
     \/ \E f \in FeedIds : ~Publishing(f) /\ ExpirePayload(f)
     \/ \E f \in FeedIds : ExpireSidecar(f)
     \/ ExpireIndex
  /\ UNCHANGED <<databaseVars, queueVars, workerVars, apiVars, faults>>

Next ==
  \/ \E w \in Workers : WorkerStep(w)
  \/ ApiStep
  \/ Fault
  \/ Expiry

Spec == Init /\ [][Next]_vars

\* Types of the keys, jobs, slots and requests (cache.ts, queue.ts, worker.ts, server.ts).
TypeOK ==
  /\ CacheTypeOK
  /\ QueueTypeOK
  /\ WorkerTypeOK
  /\ ApiTypeOK
  /\ faults \in 0 .. MaxFaults
  /\ expiries \in 0 .. MaxExpiries

-----------------------------------------------------------------------------
(***************************************************************************)
(* The pointer never names a generation that is not there, so a request    *)
(* without a cursor is never sent to a missing feed (cache.ts: "the active *)
(* generation can never be the one trimmed").                              *)
(***************************************************************************)
ActiveReadable == active # None => Readable(active)

(***************************************************************************)
(* Eviction only deletes generations the index no longer lists: between    *)
(* LRANGE, LTRIM and DEL other slots may publish and trim, yet nothing the *)
(* next trim relies on disappears under it.                                *)
(***************************************************************************)
EvictedLeftIndex ==
  \A w \in Workers : pc[w] = "deleteEvicted" => evicted[w] \cap Range(index) = {}

\* What the index lists was published in the order of the states it shows:
\* a newer entry is never built for an older epoch than the entry behind it.
IndexNewestFirst ==
  \A i, j \in DOMAIN index :
    i < j /\ Readable(index[i]) /\ Readable(index[j])
      => payload[index[i]].epoch >= payload[index[j]].epoch

(***************************************************************************)
(* The retention limit: as long as nothing failed there are two            *)
(* generations per user, and a third only while a publication has not      *)
(* trimmed yet.                                                            *)
(***************************************************************************)
RetentionBound ==
  faults = 0 =>
    Cardinality({f \in FeedIds : Readable(f)})
      <= MAX_RETAINED_GENERATIONS_PER_USER
           + Cardinality({w \in Workers : feed[w] # None})

(***************************************************************************)
(* A cursor survives exactly one refresh: as long as nothing failed or     *)
(* expired, a generation new sessions have started on is gone only when    *)
(* two later ones have taken its place.                                    *)
(***************************************************************************)
CursorSurvivesOneRefresh ==
  faults = 0 /\ expiries = 0 =>
    \A i \in DOMAIN shown : Readable(shown[i]) \/ Len(shown) >= i + 2

(***************************************************************************)
(* Two builds for one unchanged state do not both publish: as long as      *)
(* nothing failed or expired, the generations that are readable were built *)
(* for different epochs.                                                   *)
(***************************************************************************)
OneGenerationPerEpoch ==
  faults = 0 /\ expiries = 0 =>
    \A f, g \in FeedIds :
      Readable(f) /\ Readable(g) /\ payload[f].epoch = payload[g].epoch => f = g

Stale == Readable(active) /\ payload[active].epoch < epoch

Fresh == Readable(active) /\ payload[active].epoch = epoch

\* A build for the current epoch is queued, running or about to be queued.
RebuildPending ==
  \/ \E j \in waiting \cup kept \cup Running : j.epoch = epoch
  \/ \E e \in Events : post[e] = "invalidated" /\ opened[e] = epoch

(***************************************************************************)
(* A slow build does not overwrite a fresher feed: the pointer never moves *)
(* from a generation to one built for an older epoch (worker.ts).          *)
(***************************************************************************)
NeverOverwritesFresher ==
  [][Readable(active) /\ Readable(active)'
       => payload'[active'].epoch >= payload[active].epoch]_vars

\* Worker slots keep running, handlers finish, and the client keeps polling.
Fairness ==
  /\ \A w \in Workers : WF_vars(WorkerStep(w))
  /\ \A e \in Events : WF_vars(HandlePost(e) /\ UNCHANGED <<workerVars, boundVars>>)
  /\ \A r \in Readers : WF_vars(GetFeed(r) /\ UNCHANGED <<workerVars, boundVars>>)

=============================================================================
