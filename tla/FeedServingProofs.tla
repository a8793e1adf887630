-------------------------- MODULE FeedServingProofs --------------------------
(***************************************************************************)
(* Theorems about feed serving, for any set of interactions and sessions,  *)
(* any number of generations, and any faults and expiries.                 *)
(*                                                                         *)
(* The first part is about types and the epoch protocol, the second about  *)
(* publication: what the index, the pointer and the stored generations     *)
(* look like to the slots that write them and to the sessions that read    *)
(* them.  All of it holds for any number of job slots, up to OneSlot, from *)
(* where there is a single one, which is what the commands of              *)
(* publishGeneration tacitly assume.                                       *)
(***************************************************************************)
EXTENDS FeedRefinement, FeedOverlaps, FeedLosses, FiniteSetTheorems, TLAPS

(***************************************************************************)
(* Types alone are not inductive: what a slot or a request may dereference *)
(* depends on the await it is at.                                          *)
(***************************************************************************)
SlotShape ==
  \A w \in Workers :
    /\ pc[w] = "idle" <=> job[w] = None
    /\ pc[w] = "idle" => draft[w] = None /\ feed[w] = None
    /\ pc[w] \in {"recheck", "repeek", "repeekGeneration"} \cup PublishSteps
         => draft[w] # None
    /\ pc[w] \in PublishSteps \ {"setPayload"} => feed[w] # None

RequestShape ==
  \A r \in Readers :
    get[r] \in {"readGeneration", "refillEpoch", "refillEnqueue"} => want[r] # None

Shaped == TypeOK /\ SlotShape /\ RequestShape

USE CacheAssumption, QueueAssumption, WorkerAssumption, ApiAssumption,
    ServingAssumption, OverlapAssumption

LEMMA ShapedInit == Init => Shaped
<1> SUFFICES ASSUME Init PROVE Shaped
  OBVIOUS
<1>1. CacheTypeOK
  BY DEF Init, CacheInit, CacheTypeOK, FeedIds
<1>2. QueueTypeOK
  BY DEF Init, QueueInit, QueueTypeOK
<1>3. WorkerTypeOK
  BY DEF Init, WorkerInit, WorkerTypeOK, Steps, FeedIds
<1>4. ApiTypeOK
  BY DEF Init, ApiInit, ApiTypeOK, PostSteps, GetSteps
<1>5. SlotShape /\ RequestShape
  BY DEF Init, QueueInit, WorkerInit, ApiInit, SlotShape, RequestShape, PublishSteps
<1> QED BY <1>1, <1>2, <1>3, <1>4, <1>5 DEF Init, Shaped, TypeOK

\* The queue keeps its type under every operation on it.
LEMMA EnqueueTyped ==
  ASSUME NEW j \in FeedJob, QueueTypeOK, Enqueue(j)
  PROVE  QueueTypeOK'
  BY DEF QueueTypeOK, Enqueue, WithId

LEMMA JobTyped ==
  ASSUME NEW n \in Nat
  PROVE  /\ BuildJob("miss", n) \in FeedJob
         /\ BuildJob("invalidation", n) \in FeedJob
         /\ \A f \in FeedIds : RefillJob(f, n) \in FeedJob
  BY DEF BuildJob, RefillJob, FeedJob, DeduplicationIds, Reasons, FeedIds,
         buildDeduplicationId, refillDeduplicationId

BoundTypeOK == faults \in 0 .. MaxFaults /\ expiries \in 0 .. MaxExpiries

\* Types do not move when the variables do not.
LEMMA UnchangedTypes ==
  ASSUME TypeOK
  PROVE  /\ UNCHANGED cacheVars /\ UNCHANGED databaseVars => CacheTypeOK'
         /\ UNCHANGED queueVars => QueueTypeOK'
         /\ UNCHANGED workerVars => WorkerTypeOK'
         /\ UNCHANGED apiVars => ApiTypeOK'
         /\ UNCHANGED boundVars => BoundTypeOK'
<1>1. UNCHANGED cacheVars /\ UNCHANGED databaseVars => CacheTypeOK'
  BY DEF TypeOK, cacheVars, databaseVars, CacheTypeOK
<1>2. UNCHANGED queueVars => QueueTypeOK'
  BY DEF TypeOK, queueVars, QueueTypeOK
<1>3. UNCHANGED workerVars => WorkerTypeOK'
  BY DEF TypeOK, workerVars, WorkerTypeOK
<1>4. UNCHANGED apiVars => ApiTypeOK'
  BY DEF TypeOK, apiVars, ApiTypeOK
<1>5. UNCHANGED boundVars => BoundTypeOK'
  BY DEF TypeOK, boundVars, BoundTypeOK
<1> QED BY <1>1, <1>2, <1>3, <1>4, <1>5

\* A slot's steps while it builds read the cache and move its own locals.
LEMMA BuildShaped ==
  ASSUME Shaped, NEW w \in Workers, Build(w), UNCHANGED <<apiVars, boundVars>>
  PROVE  Shaped'
<1>a. WorkerTypeOK /\ SlotShape /\ job \in [Workers -> FeedJob \cup {None}]
  BY DEF Shaped, TypeOK, QueueTypeOK
<1>b. /\ active \in FeedIds \cup {None} /\ stored \in SUBSET Events
      /\ profile \in (SUBSET Events) \cup {None}
  BY DEF Shaped, TypeOK, CacheTypeOK
<1>c. Unpublished /\ UNCHANGED <<nextFeed, feed, evicted>>
  BY DEF Build, CheckEpoch, PeekActive, PeekGeneration, GetUserProfile, LoadMissing,
         PersistMissing, Rank, ReadOnly
<1>d. UNCHANGED <<job, shown, nextFeed, feed, evicted>>
  BY <1>c DEF Unpublished, queueVars
<1>e. CacheTypeOK'
  <2>1. profile' \in (SUBSET Events) \cup {None}
    BY <1>a, <1>b DEF Build, CheckEpoch, PeekActive, PeekGeneration, GetUserProfile,
                      LoadMissing, PersistMissing, Rank, ReadOnly, WorkerTypeOK
  <2> QED BY <2>1, <1>c DEF Shaped, TypeOK, CacheTypeOK, Unpublished, cacheVars
<1> USE DEF WorkerTypeOK, SlotShape, Goto, BuildSteps, PublishSteps, Steps
<1>1. WorkerTypeOK' /\ SlotShape'
  <2>1. CASE CheckEpoch(w, "check", "peek", "readProfile")
    BY <2>1, <1>a, <1>d DEF CheckEpoch
  <2>2. CASE PeekActive(w, "peek", "peekGeneration", "readProfile")
    <3>1. CASE active = None
      BY <2>2, <3>1, <1>a, <1>d DEF PeekActive
    <3>2. CASE active # None
      <4>1. /\ Goto(w, "peek", "peekGeneration") /\ active \in FeedIds
            /\ peeked' = [peeked EXCEPT ![w] = active] /\ UNCHANGED <<known, draft>>
        BY <2>2, <3>2, <1>b DEF PeekActive
      <4> QED BY <4>1, <1>a, <1>d
    <3> QED BY <3>1, <3>2
  <2>3. CASE PeekGeneration(w, "peekGeneration", "readProfile")
    BY <2>3, <1>a, <1>d DEF PeekGeneration
  <2>4. CASE Rank(w)
    <3>1. PICK short \in Shortages :
            draft' = [draft EXCEPT ![w] =
                       [basis |-> known[w], seen |-> stored, shortage |-> short]]
      BY <2>4 DEF Rank
    <3>2. [basis |-> known[w], seen |-> stored, shortage |-> short] \in Draft
      BY <1>a, <1>b DEF Draft
    <3> QED BY <2>4, <3>1, <3>2, <1>a, <1>d DEF Rank
  <2>8. CASE GetUserProfile(w)
    <3>1. CASE profile = None
      BY <2>8, <3>1, <1>a, <1>d DEF GetUserProfile
    <3>2. CASE profile # None
      <4>1. /\ Goto(w, "readProfile", "rank") /\ profile \in SUBSET Events
            /\ known' = [known EXCEPT ![w] = profile] /\ UNCHANGED <<peeked, draft>>
        BY <2>8, <3>2, <1>b DEF GetUserProfile
      <4> QED BY <4>1, <1>a, <1>d
    <3> QED BY <3>1, <3>2
  <2>9. CASE LoadMissing(w)
    BY <2>9, <1>a, <1>b, <1>d DEF LoadMissing
  <2>10. CASE PersistMissing(w)
    BY <2>10, <1>a, <1>d DEF PersistMissing
  <2>5. CASE CheckEpoch(w, "recheck", "repeek", "setPayload")
    BY <2>5, <1>a, <1>d DEF CheckEpoch
  <2>6. CASE PeekActive(w, "repeek", "repeekGeneration", "setPayload")
    <3>1. CASE active = None
      BY <2>6, <3>1, <1>a, <1>d DEF PeekActive
    <3>2. CASE active # None
      <4>1. /\ Goto(w, "repeek", "repeekGeneration") /\ active \in FeedIds
            /\ peeked' = [peeked EXCEPT ![w] = active] /\ UNCHANGED <<known, draft>>
        BY <2>6, <3>2, <1>b DEF PeekActive
      <4> QED BY <4>1, <1>a, <1>d
    <3> QED BY <3>1, <3>2
  <2>7. CASE PeekGeneration(w, "repeekGeneration", "setPayload")
    BY <2>7, <1>a, <1>d DEF PeekGeneration
  <2> QED BY <2>1, <2>2, <2>3, <2>4, <2>5, <2>6, <2>7, <2>8, <2>9, <2>10 DEF Build
<1>2. RequestShape'
  BY DEF Shaped, RequestShape, apiVars
<1> QED BY <1>1, <1>2, <1>c, <1>e, UnchangedTypes
        DEF Shaped, TypeOK, Unpublished, BoundTypeOK

\* A slot's commands while it publishes write the cache, one key at a time.
LEMMA PublishShaped ==
  ASSUME Shaped, NEW w \in Workers, Publish(w), UNCHANGED <<apiVars, boundVars>>
  PROVE  Shaped'
<1>a. /\ CacheTypeOK /\ WorkerTypeOK /\ SlotShape
      /\ job \in [Workers -> FeedJob \cup {None}]
  BY DEF Shaped, TypeOK, QueueTypeOK
<1>c. UNCHANGED queueVars /\ UNCHANGED <<stored, profile>>
  BY DEF Publish, WritePayload, WriteSidecar, Register, FlipPointer, ReadEvicted,
         Trim, DeleteEvicted, ReadOnly, Unpublished, databaseVars
<1>d. UNCHANGED job
  BY <1>c DEF queueVars
<1> USE DEF CacheTypeOK, WorkerTypeOK, SlotShape, Goto, BuildSteps, PublishSteps, Steps
<1>1. CacheTypeOK' /\ WorkerTypeOK' /\ SlotShape'
  <2>1. CASE WritePayload(w)
    <3> DEFINE g == [epoch |-> job[w].epoch, basis |-> draft[w].basis,
                     seen |-> draft[w].seen, shortage |-> draft[w].shortage]
    <3>1. job[w] \in FeedJob /\ draft[w] \in Draft
      BY <2>1, <1>a DEF WritePayload
    <3>2. g \in Generation
      BY <3>1 DEF Generation, FeedJob, Draft
    <3>3. nextFeed \in FeedIds
      BY <2>1, <1>a DEF WritePayload, FeedIds
    <3>4. CacheTypeOK'
      BY <2>1, <3>2, <3>3, <1>a, <1>c DEF WritePayload, SetPayload
    <3>5. WorkerTypeOK' /\ SlotShape'
      BY <2>1, <3>1, <3>3, <1>a, <1>d DEF WritePayload, FeedIds
    <3> QED BY <3>4, <3>5
  <2>2. CASE WriteSidecar(w)
    BY <2>2, <1>a, <1>c, <1>d DEF WriteSidecar, SetSidecar
  <2>3. CASE Register(w)
    BY <2>3, <1>a, <1>c, <1>d DEF Register, PushIndex
  <2>4. CASE FlipPointer(w)
    BY <2>4, <1>a, <1>c, <1>d DEF FlipPointer, SetActive
  <2>5. CASE ReadEvicted(w)
    <3>1. BeyondRetention \in SUBSET FeedIds
      BY <1>a DEF BeyondRetention, MAX_RETAINED_GENERATIONS_PER_USER
    <3>2. CacheTypeOK'
      BY <2>5, <1>a DEF ReadEvicted, ReadOnly, Unpublished, cacheVars
    <3> QED BY <2>5, <3>1, <3>2, <1>a, <1>d DEF ReadEvicted, ReadOnly, Unpublished
  <2>6. CASE Trim(w)
    <3>1. index' \in Seq(FeedIds)
      BY <2>6, <1>a DEF Trim, TrimIndex, MAX_RETAINED_GENERATIONS_PER_USER
    <3> QED BY <2>6, <3>1, <1>a, <1>c, <1>d DEF Trim, TrimIndex
  <2>7. CASE DeleteEvicted(w)
    BY <2>7, <1>a, <1>c, <1>d DEF DeleteEvicted, DeleteGenerations
  <2> QED BY <2>1, <2>2, <2>3, <2>4, <2>5, <2>6, <2>7 DEF Publish
<1>2. RequestShape'
  BY DEF Shaped, RequestShape, apiVars
<1> QED BY <1>1, <1>2, <1>c, UnchangedTypes DEF Shaped, TypeOK, BoundTypeOK

\* Taking a job, finishing it and failing it move it between queue and slot.
LEMMA JobShaped ==
  ASSUME Shaped, NEW w \in Workers, TakeJob(w) \/ FinishJob(w) \/ FailJob(w)
  PROVE  QueueTypeOK' /\ WorkerTypeOK' /\ SlotShape'
<1>a. QueueTypeOK /\ WorkerTypeOK /\ SlotShape
  BY DEF Shaped, TypeOK
<1> USE DEF QueueTypeOK, WorkerTypeOK, SlotShape, Goto, BuildSteps, PublishSteps, Steps
<1>1. ASSUME job[w] # None, Retry(w) PROVE QueueTypeOK' /\ job' = [job EXCEPT ![w] = None]
  <2>1. [job[w] EXCEPT !.failures = @ + 1] \in FeedJob
    <3>1. ASSUME NEW j \in FeedJob PROVE [j EXCEPT !.failures = @ + 1] \in FeedJob
      <4>1. j.failures + 1 \in Nat
        BY DEF FeedJob
      <4> QED BY <4>1 DEF FeedJob
    <3>2. job[w] \in FeedJob
      BY <1>1, <1>a
    <3> QED BY <3>1, <3>2
  <2> QED BY <1>1, <2>1, <1>a DEF Retry
<1>2. ASSUME Release(w) PROVE QueueTypeOK' /\ job' = [job EXCEPT ![w] = None]
  BY <1>2, <1>a DEF Release, WithId
<1>3. CASE TakeJob(w)
  BY <1>3, <1>a DEF TakeJob, Dequeue
<1>4. CASE FinishJob(w)
  <2>1. QueueTypeOK' /\ job' = [job EXCEPT ![w] = None]
    BY <1>4, <1>2 DEF FinishJob
  <2> QED BY <1>4, <2>1, <1>a DEF FinishJob, DropLocals
<1>5. CASE FailJob(w)
  <2>1. QueueTypeOK' /\ job' = [job EXCEPT ![w] = None]
    BY <1>5, <1>1, <1>2, <1>a DEF FailJob
  <2> QED BY <1>5, <2>1, <1>a DEF FailJob, DropLocals
<1> QED BY <1>3, <1>4, <1>5

\* POST /interactions and its failures.
LEMMA PostShaped ==
  ASSUME Shaped, NEW e \in Events, PostInteraction(e) \/ RefreshFails(e),
         UNCHANGED workerVars
  PROVE  CacheTypeOK' /\ QueueTypeOK' /\ ApiTypeOK' /\ SlotShape' /\ RequestShape'
<1>a. CacheTypeOK /\ QueueTypeOK /\ ApiTypeOK /\ SlotShape /\ RequestShape
  BY DEF Shaped, TypeOK
<1>b. /\ UNCHANGED cacheVars /\ UNCHANGED databaseVars => CacheTypeOK'
      /\ UNCHANGED queueVars => QueueTypeOK'
  BY UnchangedTypes DEF Shaped
<1>1. SlotShape'
  <2>1. UNCHANGED job
    BY DEF PostInteraction, HandlePost, RecordInteraction, LoadHistory, PersistProfile,
           InvalidateFeed, EnqueueInvalidation, Resend, RefreshFails, queueVars, Enqueue
  <2> QED BY <2>1, <1>a DEF SlotShape, workerVars
<1>2. RequestShape'
  BY <1>a DEF PostInteraction, HandlePost, RecordInteraction, LoadHistory, PersistProfile,
              InvalidateFeed, EnqueueInvalidation, Resend, RefreshFails, getVars, RequestShape
<1>3. CASE RecordInteraction(e)
  BY <1>1, <1>2, <1>3, <1>a, <1>b
     DEF RecordInteraction, cacheVars, databaseVars, getVars, CacheTypeOK, ApiTypeOK, PostSteps
<1>4. CASE InvalidateFeed(e)
  BY <1>1, <1>2, <1>4, <1>a, <1>b
     DEF InvalidateFeed, Invalidate, databaseVars, getVars, CacheTypeOK, ApiTypeOK, PostSteps
<1>5. CASE EnqueueInvalidation(e)
  <2>1. BuildJob("invalidation", opened[e]) \in FeedJob
    BY <1>a, JobTyped DEF ApiTypeOK
  <2>2. QueueTypeOK'
    BY <2>1, <1>5, <1>a, EnqueueTyped DEF EnqueueInvalidation
  <2> QED BY <2>2, <1>1, <1>2, <1>5, <1>a, <1>b
             DEF EnqueueInvalidation, getVars, ApiTypeOK, PostSteps
<1>6. CASE RefreshFails(e)
  BY <1>1, <1>2, <1>6, <1>a, <1>b DEF RefreshFails, getVars, ApiTypeOK, PostSteps
<1>9. CASE Resend(e)
  BY <1>1, <1>2, <1>9, <1>a, <1>b DEF Resend, getVars, ApiTypeOK, PostSteps
<1>7. CASE LoadHistory(e)
  BY <1>1, <1>2, <1>7, <1>a, <1>b
     DEF LoadHistory, getVars, CacheTypeOK, ApiTypeOK, PostSteps
<1>8. CASE PersistProfile(e)
  <2>1. /\ post' = [post EXCEPT ![e] = "refresh"] \/ post' = [post EXCEPT ![e] = "done"]
        /\ profile' = history[e] /\ history' = [history EXCEPT ![e] = {}]
        /\ UNCHANGED <<cacheVars, queueVars, stored, opened, getVars>>
    BY <1>8 DEF PersistProfile
  <2>2. CacheTypeOK'
    BY <2>1, <1>a DEF CacheTypeOK, ApiTypeOK, cacheVars
  <2>3. ApiTypeOK'
    BY <2>1, <1>a DEF getVars, ApiTypeOK, PostSteps
  <2> QED BY <2>1, <2>2, <2>3, <1>1, <1>2, <1>b
<1> QED BY <1>3, <1>4, <1>5, <1>6, <1>7, <1>8, <1>9 DEF PostInteraction, HandlePost

\* GET /feed and its failures.
LEMMA GetShaped ==
  ASSUME Shaped, NEW r \in Readers, GetFeed(r) \/ RequestFails(r),
         UNCHANGED workerVars
  PROVE  CacheTypeOK' /\ QueueTypeOK' /\ ApiTypeOK' /\ SlotShape' /\ RequestShape'
<1>a. CacheTypeOK /\ QueueTypeOK /\ ApiTypeOK /\ SlotShape /\ RequestShape
  BY DEF Shaped, TypeOK
<1>b. UNCHANGED cacheVars /\ UNCHANGED databaseVars /\ UNCHANGED postVars
  BY DEF GetFeed, OpenSession, ReadActiveGeneration, ContinueSession, ReadEpoch,
         EnqueueMiss, EnqueueRefill, RequestFails
<1>1. CacheTypeOK' /\ (UNCHANGED queueVars => QueueTypeOK')
  BY <1>b, UnchangedTypes DEF Shaped
<1>2. SlotShape'
  <2>1. UNCHANGED job
    BY DEF GetFeed, OpenSession, ReadActiveGeneration, ContinueSession, ReadEpoch,
           EnqueueMiss, EnqueueRefill, RequestFails, queueVars, Enqueue
  <2> QED BY <2>1, <1>a DEF SlotShape, workerVars
<1> USE DEF ApiTypeOK, RequestShape, GetSteps, postVars
<1>3. ASSUME NEW f \in FeedIds \cup {None}, NEW more \in BOOLEAN, Deliver(r, f, more)
      PROVE  ApiTypeOK' /\ RequestShape'
  BY <1>3, <1>a, <1>b DEF Deliver
<1>4. ASSUME NEW f \in FeedIds, Serve(r, f)
      PROVE  ApiTypeOK' /\ RequestShape'
  <2>1. CASE \E more \in BOOLEAN : Deliver(r, f, more)
    BY <2>1, <1>3, <1>4
  <2>2. CASE /\ get' = [get EXCEPT ![r] = "refillEpoch"]
             /\ want' = [want EXCEPT ![r] = f]
             /\ UNCHANGED <<heard, session>>
    BY <2>2, <1>4, <1>a, <1>b, CacheAssumption
  <2> QED BY <2>1, <2>2, <1>4 DEF Serve
<1>5. ASSUME Miss(r) PROVE ApiTypeOK' /\ RequestShape'
  BY <1>5, <1>a, <1>b DEF Miss
<1>6. ApiTypeOK' /\ QueueTypeOK' /\ RequestShape'
  <2>1. CASE OpenSession(r)
    <3>1. CASE active = None /\ Miss(r)
      BY <2>1, <3>1, <1>1, <1>5 DEF OpenSession
    <3>2. CASE active # None
      <4>1. active \in FeedIds
        BY <3>2, <1>a DEF CacheTypeOK
      <4>2. /\ get' = [get EXCEPT ![r] = "readGeneration"]
            /\ want' = [want EXCEPT ![r] = active]
            /\ UNCHANGED <<heard, session, queueVars>>
        BY <2>1, <3>2 DEF OpenSession
      <4> QED BY <4>1, <4>2, <1>1, <1>a, <1>b, CacheAssumption
    <3> QED BY <2>1, <3>1, <3>2 DEF OpenSession
  <2>2. CASE ReadActiveGeneration(r)
    <3>1. Readable(want[r]) => want[r] \in FeedIds
      BY DEF Readable
    <3> QED BY <2>2, <3>1, <1>1, <1>4, <1>5 DEF ReadActiveGeneration
  <2>3. CASE ContinueSession(r)
    <3>1. Readable(session[r]) => session[r] \in FeedIds
      BY DEF Readable
    <3> QED BY <2>3, <3>1, <1>1, <1>3, <1>4 DEF ContinueSession
  <2>4. CASE ReadEpoch(r)
    <3>1. /\ epoch \in Nat /\ heard' = [heard EXCEPT ![r] = epoch]
          /\ UNCHANGED queueVars /\ want' = want /\ session' = session
      BY <2>4, <1>a DEF ReadEpoch, CacheTypeOK
    <3>2. CASE get' = [get EXCEPT ![r] = "missEnqueue"]
      BY <3>1, <3>2, <1>1, <1>a, <1>b
    <3>3. CASE get[r] = "refillEpoch" /\ get' = [get EXCEPT ![r] = "refillEnqueue"]
      BY <3>1, <3>3, <1>1, <1>a, <1>b
    <3> QED BY <2>4, <3>2, <3>3 DEF ReadEpoch
  <2>5. CASE EnqueueMiss(r)
    <3>1. BuildJob("miss", heard[r]) \in FeedJob
      BY <1>a, JobTyped
    <3> QED BY <2>5, <3>1, <1>3, <1>a, EnqueueTyped DEF EnqueueMiss
  <2>6. CASE EnqueueRefill(r)
    <3>1. want[r] \in FeedIds
      BY <2>6, <1>a DEF EnqueueRefill
    <3>2. RefillJob(want[r], heard[r]) \in FeedJob
      BY <3>1, <1>a, JobTyped
    <3>3. QueueTypeOK'
      BY <2>6, <3>2, <1>a, EnqueueTyped DEF EnqueueRefill
    <3> QED BY <2>6, <3>1, <3>3, <1>a, <1>b DEF EnqueueRefill, Deliver
  <2>7. CASE RequestFails(r)
    BY <2>7, <1>1, <1>3, <1>a DEF RequestFails
  <2> QED BY <2>1, <2>2, <2>3, <2>4, <2>5, <2>6, <2>7 DEF GetFeed
<1> QED BY <1>1, <1>2, <1>6

LEMMA ExpiryShaped ==
  ASSUME Shaped, Expiry
  PROVE  Shaped'
<1>1. CacheTypeOK'
  <2>1. CacheTypeOK /\ UNCHANGED <<stored, profile>>
    BY DEF Shaped, TypeOK, Expiry, databaseVars
  <2> USE <2>1 DEF CacheTypeOK
  <2>2. CASE ExpireActive
    BY <2>2 DEF ExpireActive
  <2>3. ASSUME NEW f \in FeedIds, ExpirePayload(f) PROVE CacheTypeOK'
    BY <2>3 DEF ExpirePayload
  <2>4. ASSUME NEW f \in FeedIds, ExpireSidecar(f) PROVE CacheTypeOK'
    BY <2>4 DEF ExpireSidecar
  <2>5. CASE ExpireIndex
    BY <2>5 DEF ExpireIndex
  <2> QED BY <2>2, <2>3, <2>4, <2>5 DEF Expiry
<1>2. expiries' \in 0 .. MaxExpiries /\ faults' \in 0 .. MaxFaults
  BY DEF Shaped, TypeOK, Expiry
<1>3. SlotShape' /\ RequestShape'
  BY DEF Shaped, Expiry, SlotShape, RequestShape, workerVars, queueVars, apiVars
<1> QED BY <1>1, <1>2, <1>3, UnchangedTypes DEF Shaped, TypeOK, Expiry

LEMMA ShapedStep == Shaped /\ [Next]_vars => Shaped'
<1> SUFFICES ASSUME Shaped, [Next]_vars PROVE Shaped'
  OBVIOUS
<1>1. ASSUME NEW w \in Workers, WorkerStep(w) PROVE Shaped'
  <2>1. CASE TakeJob(w) \/ FinishJob(w)
    <3>1. UNCHANGED <<cacheVars, databaseVars, apiVars, boundVars>>
      BY <2>1, <1>1 DEF WorkerStep, TakeJob, FinishJob
    <3>2. RequestShape'
      BY <3>1 DEF Shaped, RequestShape, apiVars
    <3> QED BY <2>1, <3>1, <3>2, JobShaped, UnchangedTypes DEF Shaped, TypeOK, BoundTypeOK
  <2> QED BY <2>1, <1>1, BuildShaped, PublishShaped DEF WorkerStep, BuildFeed
<1>2. CASE ApiStep
  <2>1. UNCHANGED workerVars /\ UNCHANGED boundVars
    BY <1>2 DEF ApiStep
  <2>2. WorkerTypeOK' /\ BoundTypeOK'
    BY <2>1, UnchangedTypes DEF Shaped
  <2> QED BY <1>2, <2>1, <2>2, PostShaped, GetShaped DEF ApiStep, Shaped, TypeOK, BoundTypeOK
<1>3. CASE Fault
  <2>1. BoundTypeOK'
    BY <1>3 DEF Fault, Shaped, TypeOK, BoundTypeOK
  <2>2. ASSUME NEW w \in Workers, FailJob(w), UNCHANGED apiVars PROVE Shaped'
    <3>1. UNCHANGED <<cacheVars, databaseVars>>
      BY <2>2 DEF FailJob
    <3>2. RequestShape'
      BY <2>2 DEF Shaped, RequestShape, apiVars
    <3> QED BY <2>1, <2>2, <3>1, <3>2, JobShaped, UnchangedTypes
            DEF Shaped, TypeOK, BoundTypeOK
  <2>3. ASSUME NEW e \in Events, RefreshFails(e), UNCHANGED workerVars PROVE Shaped'
    BY <2>1, <2>3, PostShaped, UnchangedTypes DEF Shaped, TypeOK, BoundTypeOK
  <2>4. ASSUME NEW r \in Readers, RequestFails(r), UNCHANGED workerVars PROVE Shaped'
    BY <2>1, <2>4, GetShaped, UnchangedTypes DEF Shaped, TypeOK, BoundTypeOK
  <2> QED BY <1>3, <2>2, <2>3, <2>4 DEF Fault
<1>4. CASE Expiry
  BY <1>4, ExpiryShaped
<1>5. CASE UNCHANGED vars
  BY <1>5, UnchangedTypes
     DEF vars, Shaped, TypeOK, BoundTypeOK, SlotShape, RequestShape, queueVars,
         workerVars, apiVars
<1> QED BY <1>1, <1>2, <1>3, <1>4, <1>5 DEF Next

LEMMA ShapeInvariant == Spec => []Shaped
<1>1. Init => Shaped
  BY ShapedInit
<1>2. Shaped /\ [Next]_vars => Shaped'
  BY ShapedStep
<1> QED BY <1>1, <1>2, PTL DEF Spec

(***************************************************************************)
(* Every variable keeps its type.  The invariant behind it, Shaped, adds   *)
(* that no slot or request uses a job, draft or feedId it does not have.   *)
(***************************************************************************)
THEOREM TypeCorrect == Spec => []TypeOK
<1>1. Shaped => TypeOK
  BY DEF Shaped
<1> QED BY <1>1, ShapeInvariant, PTL

-----------------------------------------------------------------------------
(***************************************************************************)
(* Why a generation covers its epoch: rows are committed before the epoch  *)
(* moves, no job is ahead of the epoch, and what a slot ranked while its   *)
(* job was not ahead covers that job for good - an interaction that is     *)
(* invalidated later opens a later epoch.                                  *)
(***************************************************************************)
Covers(n, S) == \A e \in Events : opened[e] \in 1 .. n => e \in S

OpenedStored ==
  \A e \in Events :
    /\ post[e] # "unsent" => e \in stored
    /\ opened[e] <= epoch
    /\ opened[e] # 0 => e \in stored

JobsBehind ==
  /\ \A j \in waiting \cup kept : j.epoch <= epoch
  /\ \A w \in Workers : job[w] # None => job[w].epoch <= epoch
  /\ \A r \in Readers : heard[r] <= epoch

DraftsCover ==
  \A w \in Workers : draft[w] # None => Covers(job[w].epoch, draft[w].seen)

PayloadsCover ==
  \A f \in FeedIds : payload[f] # None =>
    /\ payload[f].epoch <= epoch
    /\ Covers(payload[f].epoch, payload[f].seen)

EpochInv == OpenedStored /\ JobsBehind /\ DraftsCover /\ PayloadsCover

LEMMA EpochInvInit == Init => EpochInv
  BY DEF Init, CacheInit, QueueInit, WorkerInit, ApiInit, EpochInv, OpenedStored,
         JobsBehind, DraftsCover, PayloadsCover

\* Adding a job that is not ahead of the epoch.
LEMMA EnqueueBehind ==
  ASSUME NEW j \in FeedJob, Enqueue(j), j.epoch <= epoch,
         \A i \in waiting \cup kept : i.epoch <= epoch
  PROVE  \A i \in waiting' \cup kept' : i.epoch <= epoch
  BY DEF Enqueue, WithId

LEMMA JobBehind ==
  ASSUME Shaped, EpochInv, NEW w \in Workers,
         TakeJob(w) \/ FinishJob(w) \/ FailJob(w), UNCHANGED apiVars
  PROVE  EpochInv'
<1>a. QueueTypeOK /\ WorkerTypeOK /\ SlotShape /\ UNCHANGED <<cacheVars, stored>>
  BY DEF Shaped, TypeOK, TakeJob, FinishJob, FailJob, databaseVars
<1> USE DEF QueueTypeOK, WorkerTypeOK, SlotShape, Goto
<1>1. OpenedStored' /\ PayloadsCover'
  BY <1>a DEF EpochInv, OpenedStored, PayloadsCover, Covers, cacheVars, apiVars
<1>2. JobsBehind'
  <2>1. UNCHANGED <<epoch, heard>>
    BY <1>a DEF cacheVars, apiVars
  <2>2. ASSUME Release(w) PROVE JobsBehind'
    BY <2>1, <2>2, <1>a DEF Release, WithId, EpochInv, JobsBehind
  <2>3. ASSUME job[w] # None, Retry(w) PROVE JobsBehind'
    <3>1. job[w] \in FeedJob /\ job[w].epoch <= epoch
      BY <2>3, <1>a DEF EpochInv, JobsBehind
    <3>2. [job[w] EXCEPT !.failures = @ + 1].epoch <= epoch
      BY <3>1 DEF FeedJob
    <3> QED BY <2>1, <2>3, <3>2, <1>a DEF Retry, EpochInv, JobsBehind
  <2>4. ASSUME NEW j \in waiting, Dequeue(w, j) PROVE JobsBehind'
    BY <2>1, <2>4, <1>a DEF Dequeue, EpochInv, JobsBehind
  <2> QED BY <2>2, <2>3, <2>4, <1>a DEF TakeJob, FinishJob, FailJob
<1>3. DraftsCover'
  <2>1. \A v \in Workers : v # w => job'[v] = job[v] /\ draft'[v] = draft[v]
    BY <1>a DEF TakeJob, FinishJob, FailJob, Dequeue, Release, Retry, DropLocals
  <2>2. draft'[w] = None
    BY <1>a DEF TakeJob, FinishJob, FailJob, DropLocals
  <2> QED BY <2>1, <2>2 DEF EpochInv, DraftsCover, Covers, apiVars
<1> QED BY <1>1, <1>2, <1>3 DEF EpochInv

\* Until it publishes a build writes nothing but the profile.
LEMMA BuildUnpublished ==
  ASSUME NEW w \in Workers, Build(w)
  PROVE  Unpublished /\ UNCHANGED <<nextFeed, feed, evicted>>
  BY DEF Build, CheckEpoch, PeekActive, PeekGeneration, GetUserProfile, LoadMissing,
         PersistMissing, Rank, ReadOnly, Unpublished

LEMMA BuildCovers ==
  ASSUME Shaped, EpochInv, NEW w \in Workers, Build(w), UNCHANGED apiVars
  PROVE  EpochInv'
<1>a. QueueTypeOK /\ WorkerTypeOK /\ SlotShape /\ Unpublished
  BY BuildUnpublished DEF Shaped, TypeOK
<1>1. OpenedStored' /\ PayloadsCover' /\ JobsBehind'
  BY <1>a DEF Unpublished, EpochInv, OpenedStored, PayloadsCover, JobsBehind,
              Covers, cacheVars, queueVars, apiVars
<1>2. DraftsCover'
  <2>1. CASE Rank(w)
    <3>1. job[w] # None
      BY <2>1, <1>a DEF Rank, SlotShape, Goto
    <3>2. PICK short \in Shortages :
            draft' = [draft EXCEPT ![w] =
                       [basis |-> known[w], seen |-> stored, shortage |-> short]]
      BY <2>1 DEF Rank
    <3>3. draft'[w].seen = stored
      BY <3>2, <1>a DEF WorkerTypeOK
    <3>4. Covers(job[w].epoch, stored)
      BY DEF Covers, EpochInv, OpenedStored
    <3>5. \A v \in Workers : v # w => draft'[v] = draft[v]
      BY <3>2, <1>a DEF WorkerTypeOK
    <3> QED BY <3>3, <3>4, <3>5, <1>a
            DEF EpochInv, DraftsCover, Covers, Unpublished, queueVars, apiVars
  <2>2. CASE UNCHANGED draft
    BY <2>2, <1>a DEF EpochInv, DraftsCover, Covers, Unpublished, queueVars,
                      apiVars
  <2> QED BY <2>1, <2>2
          DEF Build, CheckEpoch, PeekActive, PeekGeneration, GetUserProfile, LoadMissing,
              PersistMissing
<1> QED BY <1>1, <1>2 DEF EpochInv

LEMMA PublishCovers ==
  ASSUME Shaped, EpochInv, NEW w \in Workers, Publish(w), UNCHANGED apiVars
  PROVE  EpochInv'
<1>a. /\ CacheTypeOK /\ QueueTypeOK /\ WorkerTypeOK /\ SlotShape
      /\ UNCHANGED <<epoch, stored, queueVars, draft>>
  BY DEF Shaped, TypeOK, Publish, WritePayload, WriteSidecar, Register, FlipPointer,
         ReadEvicted, Trim, DeleteEvicted, SetPayload, SetSidecar, PushIndex, SetActive,
         TrimIndex, DeleteGenerations, ReadOnly, Unpublished, cacheVars, databaseVars
<1>1. OpenedStored' /\ JobsBehind' /\ DraftsCover'
  BY <1>a DEF EpochInv, OpenedStored, JobsBehind, DraftsCover, Covers, queueVars, apiVars
<1>2. PayloadsCover'
  <2>1. CASE WritePayload(w)
    <3>1. job[w] # None /\ draft[w] # None
      BY <2>1, <1>a DEF WritePayload, SlotShape, Goto, PublishSteps
    <3>2. nextFeed \in FeedIds
      BY <2>1, <1>a DEF WritePayload, WorkerTypeOK, FeedIds
    <3>3. /\ payload'[nextFeed].epoch = job[w].epoch
          /\ payload'[nextFeed].seen = draft[w].seen
      BY <2>1, <3>2, <1>a DEF WritePayload, SetPayload, CacheTypeOK
    <3>4. \A f \in FeedIds : f # nextFeed => payload'[f] = payload[f]
      BY <2>1, <1>a DEF WritePayload, SetPayload, CacheTypeOK
    <3> QED BY <3>1, <3>3, <3>4, <1>a
            DEF EpochInv, PayloadsCover, DraftsCover, JobsBehind, Covers, apiVars
  <2>2. CASE UNCHANGED payload
    BY <2>2, <1>a DEF EpochInv, PayloadsCover, Covers, apiVars
  <2>3. CASE DeleteEvicted(w)
    <3>1. \A f \in FeedIds : payload'[f] \in {payload[f], None}
      BY <2>3 DEF DeleteEvicted, DeleteGenerations
    <3> QED BY <3>1, <1>a DEF EpochInv, PayloadsCover, Covers, apiVars
  <2> QED BY <2>1, <2>2, <2>3
          DEF Publish, WriteSidecar, Register, FlipPointer, ReadEvicted, Trim,
              SetSidecar, PushIndex, SetActive, TrimIndex, ReadOnly, Unpublished,
              cacheVars
<1> QED BY <1>1, <1>2 DEF EpochInv

\* An invalidation opens an epoch later than every state built so far.
LEMMA InvalidationCovers ==
  ASSUME Shaped, NEW e \in Events, InvalidateFeed(e),
         NEW n \in Nat, n <= epoch, NEW S, Covers(n, S)
  PROVE  \A d \in Events : opened'[d] \in 1 .. n => d \in S
  BY DEF Shaped, TypeOK, CacheTypeOK, ApiTypeOK, InvalidateFeed, Invalidate, Covers

LEMMA PostCovers ==
  ASSUME Shaped, EpochInv, NEW e \in Events, PostInteraction(e) \/ RefreshFails(e),
         UNCHANGED workerVars
  PROVE  EpochInv'
<1>a. CacheTypeOK /\ QueueTypeOK /\ ApiTypeOK /\ UNCHANGED <<payload, job, heard, draft>>
  BY DEF Shaped, TypeOK, PostInteraction, HandlePost, RecordInteraction, LoadHistory,
         PersistProfile, InvalidateFeed, EnqueueInvalidation, Resend, RefreshFails,
         Invalidate, Enqueue, cacheVars, queueVars, workerVars, getVars
<1> USE DEF EpochInv, OpenedStored, JobsBehind, DraftsCover, PayloadsCover, Covers
<1>1. CASE RecordInteraction(e)
  BY <1>1, <1>a DEF RecordInteraction, cacheVars, queueVars, CacheTypeOK, ApiTypeOK
<1>2. CASE InvalidateFeed(e)
  <2>1. /\ epoch' = epoch + 1 /\ epoch \in Nat
        /\ opened' = [opened EXCEPT ![e] = epoch + 1]
        /\ post' = [post EXCEPT ![e] = "invalidated"] /\ post[e] = "refresh"
        /\ UNCHANGED <<stored, waiting, kept>>
    BY <1>2, <1>a DEF InvalidateFeed, Invalidate, CacheTypeOK, queueVars, databaseVars
  <2>2. \A n \in Nat : \A S : n <= epoch /\ Covers(n, S) => Covers(n, S)'
    BY <2>1, <1>a DEF ApiTypeOK
  <2>3. OpenedStored'
    BY <2>1, <1>a DEF ApiTypeOK
  <2>4. JobsBehind'
    <3>1. \A j \in waiting \cup kept : j.epoch \in Nat
      BY <1>a DEF QueueTypeOK, FeedJob
    <3>2. \A w \in Workers : job[w] # None => job[w].epoch \in Nat
      BY <1>a DEF QueueTypeOK, FeedJob
    <3> QED BY <2>1, <3>1, <3>2, <1>a DEF ApiTypeOK
  <2>5. DraftsCover'
    <3>1. \A w \in Workers : draft[w] # None => job[w] # None
      BY DEF Shaped, SlotShape
    <3>2. \A w \in Workers : job[w] # None => job[w].epoch \in Nat
      BY <1>a DEF QueueTypeOK, FeedJob
    <3>3. \A w \in Workers : draft[w] # None =>
            job[w].epoch <= epoch /\ Covers(job[w].epoch, draft[w].seen)
      BY <3>1
    <3>4. \A w \in Workers : draft[w] # None => Covers(job[w].epoch, draft[w].seen)'
      BY <2>2, <3>1, <3>2, <3>3, <1>a
    <3> QED BY <3>4, <1>a
  <2>6. PayloadsCover'
    <3>1. \A f \in FeedIds : payload[f] # None => payload[f].epoch \in Nat
      BY <1>a DEF CacheTypeOK, Generation
    <3>2. \A f \in FeedIds : payload[f] # None => Covers(payload[f].epoch, payload[f].seen)'
      BY <2>2, <3>1, <1>a
    <3> QED BY <2>1, <3>1, <3>2, <1>a
  <2> QED BY <2>3, <2>4, <2>5, <2>6
<1>3. CASE EnqueueInvalidation(e)
  <2>1. BuildJob("invalidation", opened[e]) \in FeedJob
    BY <1>a, JobTyped DEF ApiTypeOK
  <2>2. BuildJob("invalidation", opened[e]).epoch <= epoch
    BY DEF BuildJob
  <2>3. \A j \in waiting' \cup kept' : j.epoch <= epoch
    BY <1>3, <2>1, <2>2, EnqueueBehind DEF EnqueueInvalidation
  <2>4. /\ UNCHANGED <<epoch, stored, opened>>
        /\ \A d \in Events : post'[d] # "unsent" => d = e \/ post[d] # "unsent"
        /\ post[e] # "unsent"
    BY <1>3, <1>a DEF EnqueueInvalidation, cacheVars, databaseVars, ApiTypeOK
  <2> QED BY <2>3, <2>4, <1>a
<1>4. CASE RefreshFails(e)
  BY <1>4, <1>a DEF RefreshFails, cacheVars, databaseVars, queueVars, ApiTypeOK
<1>7. CASE Resend(e)
  BY <1>7, <1>a DEF Resend, cacheVars, databaseVars, queueVars, ApiTypeOK
<1>5. CASE LoadHistory(e)
  BY <1>5, <1>a DEF LoadHistory, cacheVars, databaseVars, queueVars, ApiTypeOK
<1>6. CASE PersistProfile(e)
  BY <1>6, <1>a DEF PersistProfile, cacheVars, queueVars, ApiTypeOK
<1> QED BY <1>1, <1>2, <1>3, <1>4, <1>5, <1>6, <1>7 DEF PostInteraction, HandlePost

LEMMA GetCovers ==
  ASSUME Shaped, EpochInv, NEW r \in Readers, GetFeed(r) \/ RequestFails(r),
         UNCHANGED workerVars
  PROVE  EpochInv'
<1>a. /\ CacheTypeOK /\ QueueTypeOK /\ ApiTypeOK
      /\ UNCHANGED <<epoch, payload, stored, post, opened, job, draft>>
  BY DEF Shaped, TypeOK, GetFeed, OpenSession, ReadActiveGeneration, ContinueSession,
         ReadEpoch, EnqueueMiss, EnqueueRefill, RequestFails, Enqueue, cacheVars,
         queueVars, postVars, workerVars, databaseVars
<1>1. OpenedStored' /\ DraftsCover' /\ PayloadsCover'
  BY <1>a DEF EpochInv, OpenedStored, DraftsCover, PayloadsCover, Covers
<1>2. \A q \in Readers : heard'[q] <= epoch
  <2>1. epoch \in Nat /\ heard \in [Readers -> Nat] /\ \A q \in Readers : heard[q] <= epoch
    BY <1>a DEF EpochInv, JobsBehind, CacheTypeOK, ApiTypeOK
  <2>2. \/ heard' = heard
        \/ heard' = [heard EXCEPT ![r] = 0]
        \/ heard' = [heard EXCEPT ![r] = epoch]
    BY DEF GetFeed, OpenSession, ReadActiveGeneration, ContinueSession, ReadEpoch,
           EnqueueMiss, EnqueueRefill, RequestFails, Serve, Deliver, Miss
  <2> QED BY <2>1, <2>2
<1>3. \A j \in waiting' \cup kept' : j.epoch <= epoch
  <2>1. CASE EnqueueMiss(r)
    <3>1. BuildJob("miss", heard[r]) \in FeedJob
      BY <1>a, JobTyped DEF ApiTypeOK
    <3>2. BuildJob("miss", heard[r]).epoch <= epoch
      BY DEF BuildJob, EpochInv, JobsBehind
    <3> QED BY <2>1, <3>1, <3>2, EnqueueBehind DEF EnqueueMiss, EpochInv, JobsBehind
  <2>2. CASE EnqueueRefill(r)
    <3>1. want[r] \in FeedIds
      BY <2>2, <1>a DEF EnqueueRefill, Shaped, RequestShape, ApiTypeOK
    <3>2. RefillJob(want[r], heard[r]) \in FeedJob
      BY <3>1, <1>a, JobTyped DEF ApiTypeOK
    <3>3. RefillJob(want[r], heard[r]).epoch <= epoch
      BY DEF RefillJob, EpochInv, JobsBehind
    <3> QED BY <2>2, <3>2, <3>3, EnqueueBehind DEF EnqueueRefill, EpochInv, JobsBehind
  <2>3. CASE UNCHANGED queueVars
    BY <2>3 DEF queueVars, EpochInv, JobsBehind
  <2> QED BY <2>1, <2>2, <2>3
          DEF GetFeed, OpenSession, ReadActiveGeneration, ContinueSession, ReadEpoch,
              RequestFails
<1>4. JobsBehind'
  BY <1>2, <1>3, <1>a DEF EpochInv, JobsBehind
<1> QED BY <1>1, <1>4 DEF EpochInv

LEMMA EpochInvStep == Shaped /\ EpochInv /\ [Next]_vars => EpochInv'
<1> SUFFICES ASSUME Shaped, EpochInv, [Next]_vars PROVE EpochInv'
  OBVIOUS
<1>1. ASSUME NEW w \in Workers, WorkerStep(w) PROVE EpochInv'
  BY <1>1, JobBehind, BuildCovers, PublishCovers DEF WorkerStep, BuildFeed
<1>2. CASE ApiStep
  BY <1>2, PostCovers, GetCovers DEF ApiStep
<1>3. CASE Fault
  BY <1>3, JobBehind, PostCovers, GetCovers DEF Fault
<1>4. CASE Expiry
  <2>1. UNCHANGED <<epoch, stored, queueVars, workerVars, apiVars>>
    BY <1>4 DEF Expiry, ExpireActive, ExpirePayload, ExpireSidecar, ExpireIndex,
                databaseVars
  <2>2. \A f \in FeedIds : payload'[f] \in {payload[f], None}
    BY <1>4 DEF Expiry, ExpireActive, ExpirePayload, ExpireSidecar, ExpireIndex,
                Shaped, TypeOK, CacheTypeOK
  <2>3. PayloadsCover'
    BY <2>1, <2>2 DEF EpochInv, PayloadsCover, Covers, apiVars
  <2> QED BY <2>1, <2>3 DEF EpochInv, OpenedStored, JobsBehind, DraftsCover, Covers,
                            queueVars, workerVars, apiVars
<1>5. CASE UNCHANGED vars
  BY <1>5 DEF vars, EpochInv, OpenedStored, JobsBehind, DraftsCover, PayloadsCover,
              Covers, cacheVars, queueVars, workerVars, apiVars, databaseVars
<1> QED BY <1>1, <1>2, <1>3, <1>4, <1>5 DEF Next

(***************************************************************************)
(* Why its profile counts the interactions of its epoch, too, as long as   *)
(* no two rebuilds of the profile overlap: what has been stored in the     *)
(* profile is in every history loaded later, so no rebuild takes it out.   *)
(***************************************************************************)
Persisted == {e \in Events : post[e] \in {"refresh", "invalidated"} \/ opened[e] # 0}

ProfileCounts == \A e \in Persisted : profile # None /\ e \in profile

HistoriesCount ==
  \A d \in Events :
    post[d] \in {"persist", "repersist"} => d \in history[d] /\ Persisted \subseteq history[d]

MissingCounts == \A w \in Workers : pc[w] = "persistMissing" => Persisted \subseteq known[w]

KnownCounts == \A w \in Workers : pc[w] = "rank" => Covers(job[w].epoch, known[w])

DraftsCount ==
  \A w \in Workers : draft[w] # None => Covers(job[w].epoch, draft[w].basis)

PayloadsCount ==
  \A f \in FeedIds : payload[f] # None => Covers(payload[f].epoch, payload[f].basis)

BasisInv ==
  /\ ProfileCounts /\ HistoriesCount /\ MissingCounts
  /\ KnownCounts /\ DraftsCount /\ PayloadsCount

LEMMA BasisInvInit == Init => BasisInv
  BY DEF Init, CacheInit, WorkerInit, ApiInit, BasisInv, Persisted, ProfileCounts,
         HistoriesCount, MissingCounts, KnownCounts, DraftsCount, PayloadsCount

LEMMA PersistedStored == OpenedStored => Persisted \subseteq stored
  BY DEF OpenedStored, Persisted

LEMMA JobBasis ==
  ASSUME Shaped, BasisInv, NEW w \in Workers,
         TakeJob(w) \/ FinishJob(w) \/ FailJob(w), UNCHANGED apiVars
  PROVE  BasisInv'
<1>1. QueueTypeOK /\ WorkerTypeOK /\ UNCHANGED <<payload, profile, post, history, opened>>
  BY DEF Shaped, TypeOK, TakeJob, FinishJob, FailJob, cacheVars, databaseVars, apiVars
<1>2. \A v \in Workers : v # w =>
        job'[v] = job[v] /\ draft'[v] = draft[v] /\ known'[v] = known[v] /\ pc'[v] = pc[v]
  BY <1>1 DEF TakeJob, FinishJob, FailJob, Dequeue, Release, Retry, DropLocals, Goto,
              QueueTypeOK, WorkerTypeOK
<1>3. pc'[w] \notin {"persistMissing", "rank"} /\ draft'[w] = None
  BY <1>1 DEF TakeJob, FinishJob, FailJob, DropLocals, Goto, WorkerTypeOK, Shaped, SlotShape
<1> QED BY <1>1, <1>2, <1>3
        DEF BasisInv, Persisted, ProfileCounts, HistoriesCount, MissingCounts, KnownCounts,
            DraftsCount, PayloadsCount, Covers

\* A build reads the profile, or stores the one it computed on its own.
LEMMA BuildBasis ==
  ASSUME Shaped, EpochInv, BasisInv, ~Overlapping, NEW w \in Workers, Build(w),
         UNCHANGED apiVars
  PROVE  BasisInv'
<1>1. /\ WorkerTypeOK /\ SlotShape
      /\ UNCHANGED <<payload, stored, job, post, history, opened>>
  BY BuildUnpublished DEF Shaped, TypeOK, Unpublished, cacheVars, queueVars, apiVars
<1>2. \A v \in Workers : v # w =>
        draft'[v] = draft[v] /\ known'[v] = known[v] /\ pc'[v] = pc[v]
  BY <1>1 DEF Build, CheckEpoch, PeekActive, PeekGeneration, GetUserProfile, LoadMissing,
              PersistMissing, Rank, Goto, WorkerTypeOK
<1>3. Persisted' = Persisted /\ Persisted \subseteq stored
  BY <1>1, PersistedStored DEF EpochInv, Persisted
<1>4. HistoriesCount' /\ PayloadsCount'
  BY <1>1, <1>3 DEF BasisInv, HistoriesCount, PayloadsCount, Covers
<1>5. \A n \in Nat : \A S : Persisted \subseteq S => Covers(n, S)
  BY DEF Persisted, Covers
<1>6. pc[w] # "idle" => job[w].epoch \in Nat
  BY <1>1 DEF Shaped, TypeOK, QueueTypeOK, SlotShape, FeedJob
<1> USE DEF ProfileCounts, MissingCounts, KnownCounts, DraftsCount
<1>7. ASSUME /\ UNCHANGED <<profile, known, draft>>
             /\ pc'[w] \notin {"persistMissing", "rank"}
      PROVE  BasisInv'
  BY <1>7, <1>1, <1>2, <1>3, <1>4 DEF BasisInv, Covers
<1>8. CASE GetUserProfile(w)
  <2>1. CASE profile = None
    BY <2>1, <1>7, <1>8, <1>1 DEF GetUserProfile, Goto, ReadOnly, WorkerTypeOK
  <2>2. CASE profile # None
    <3>1. /\ pc[w] # "idle" /\ pc'[w] = "rank" /\ known'[w] = profile
          /\ UNCHANGED <<profile, draft>>
      BY <2>2, <1>8, <1>1 DEF GetUserProfile, Goto, ReadOnly, WorkerTypeOK
    <3>2. Covers(job[w].epoch, profile)
      BY <3>1, <1>5, <1>6 DEF BasisInv
    <3> QED BY <3>1, <3>2, <1>1, <1>2, <1>3, <1>4 DEF BasisInv, Covers
  <2> QED BY <2>1, <2>2
<1>9. CASE LoadMissing(w)
  <2>1. /\ pc'[w] = "persistMissing" /\ known'[w] = stored /\ UNCHANGED <<profile, draft>>
    BY <1>9, <1>1 DEF LoadMissing, Goto, ReadOnly, WorkerTypeOK
  <2> QED BY <2>1, <1>1, <1>2, <1>3, <1>4 DEF BasisInv, Covers
<1>10. CASE PersistMissing(w)
  <2>1. /\ pc[w] = "persistMissing" /\ pc'[w] = "rank" /\ profile' = known[w]
        /\ UNCHANGED <<known, draft>> /\ known[w] \in SUBSET Events
    BY <1>10, <1>1 DEF PersistMissing, Goto, WorkerTypeOK
  <2>2. Persisted \subseteq known[w] /\ profile' # None
    BY <2>1 DEF BasisInv
  <2>3. Covers(job[w].epoch, known[w])
    BY <2>1, <2>2, <1>5, <1>6
  <2> QED BY <2>1, <2>2, <2>3, <1>1, <1>2, <1>3, <1>4 DEF BasisInv, Covers
<1>11. CASE Rank(w)
  <2>1. PICK short \in Shortages :
          draft' = [draft EXCEPT ![w] =
                     [basis |-> known[w], seen |-> stored, shortage |-> short]]
    BY <1>11 DEF Rank
  <2>2. /\ pc[w] = "rank" /\ pc'[w] = "recheck" /\ draft'[w].basis = known[w]
        /\ UNCHANGED profile
    BY <2>1, <1>11, <1>1 DEF Rank, Goto, ReadOnly, WorkerTypeOK
  <2> QED BY <2>2, <1>1, <1>2, <1>3, <1>4 DEF BasisInv, Covers
<1>12. CASE ~(GetUserProfile(w) \/ LoadMissing(w) \/ PersistMissing(w) \/ Rank(w))
  BY <1>7, <1>12, <1>1
     DEF Build, CheckEpoch, PeekActive, PeekGeneration, Goto, ReadOnly, WorkerTypeOK
<1> QED BY <1>8, <1>9, <1>10, <1>11, <1>12

LEMMA PublishBasis ==
  ASSUME Shaped, BasisInv, NEW w \in Workers, Publish(w), UNCHANGED apiVars
  PROVE  BasisInv'
<1>a. /\ CacheTypeOK /\ WorkerTypeOK /\ SlotShape
      /\ UNCHANGED <<profile, job, known, draft, post, history, opened>>
  BY DEF Shaped, TypeOK, Publish, WritePayload, WriteSidecar, Register, FlipPointer,
         ReadEvicted, Trim, DeleteEvicted, ReadOnly, Unpublished, databaseVars, queueVars,
         apiVars
<1>b. \A v \in Workers : pc'[v] = pc[v] \/ pc'[v] \notin {"persistMissing", "rank"}
  BY <1>a DEF Publish, WritePayload, WriteSidecar, Register, FlipPointer, ReadEvicted,
              Trim, DeleteEvicted, Goto, WorkerTypeOK
<1>1. /\ ProfileCounts' /\ HistoriesCount' /\ MissingCounts'
      /\ KnownCounts' /\ DraftsCount'
  BY <1>a, <1>b
     DEF BasisInv, Persisted, ProfileCounts, HistoriesCount, MissingCounts, KnownCounts,
         DraftsCount, Covers
<1>2. PayloadsCount'
  <2>1. CASE WritePayload(w)
    <3>1. job[w] # None /\ draft[w] # None
      BY <2>1, <1>a DEF WritePayload, SlotShape, Goto, PublishSteps
    <3>2. nextFeed \in FeedIds
      BY <2>1, <1>a DEF WritePayload, WorkerTypeOK, FeedIds
    <3>3. /\ payload'[nextFeed].epoch = job[w].epoch
          /\ payload'[nextFeed].basis = draft[w].basis
      BY <2>1, <3>2, <1>a DEF WritePayload, SetPayload, CacheTypeOK
    <3>4. \A f \in FeedIds : f # nextFeed => payload'[f] = payload[f]
      BY <2>1, <1>a DEF WritePayload, SetPayload, CacheTypeOK
    <3> QED BY <3>1, <3>3, <3>4, <1>a DEF BasisInv, PayloadsCount, DraftsCount, Covers
  <2>2. CASE UNCHANGED payload
    BY <2>2, <1>a DEF BasisInv, PayloadsCount, Covers
  <2>3. CASE DeleteEvicted(w)
    <3>1. \A f \in FeedIds : payload'[f] \in {payload[f], None}
      BY <2>3 DEF DeleteEvicted, DeleteGenerations
    <3> QED BY <3>1, <1>a DEF BasisInv, PayloadsCount, Covers
  <2> QED BY <2>1, <2>2, <2>3
          DEF Publish, WriteSidecar, Register, FlipPointer, ReadEvicted, Trim, SetSidecar,
              PushIndex, SetActive, TrimIndex, ReadOnly, Unpublished, cacheVars
<1> QED BY <1>1, <1>2 DEF BasisInv

\* A request stores a history no shorter than what it replaces, unless another
\* rebuild that has loaded less is about to store.
LEMMA PostBasis ==
  ASSUME Shaped, EpochInv, BasisInv, ~Overlapping, NEW e \in Events,
         PostInteraction(e) \/ RefreshFails(e), UNCHANGED workerVars
  PROVE  BasisInv'
<1>a. CacheTypeOK /\ QueueTypeOK /\ ApiTypeOK /\ UNCHANGED <<payload, job, known, draft, pc>>
  BY DEF Shaped, TypeOK, PostInteraction, HandlePost, RecordInteraction, LoadHistory,
         PersistProfile, InvalidateFeed, EnqueueInvalidation, Resend, RefreshFails,
         Invalidate, Enqueue, cacheVars, queueVars, workerVars
<1>b. ASSUME UNCHANGED opened PROVE KnownCounts' /\ DraftsCount' /\ PayloadsCount'
  BY <1>b, <1>a DEF BasisInv, KnownCounts, DraftsCount, PayloadsCount, Covers
<1>c. Persisted \subseteq stored
  BY PersistedStored DEF EpochInv
<1> USE DEF ApiTypeOK
<1>1. ASSUME UNCHANGED <<opened, profile>>, Persisted' \subseteq Persisted, HistoriesCount'
      PROVE  BasisInv'
  BY <1>1, <1>a, <1>b DEF BasisInv, ProfileCounts, MissingCounts
<1>2. CASE RecordInteraction(e)
  <2>1. /\ UNCHANGED <<opened, profile, history>>
        /\ post' = [post EXCEPT ![e] = "load"]
    BY <1>2 DEF RecordInteraction
  <2>2. Persisted' \subseteq Persisted
    BY <2>1, <1>a DEF Persisted
  <2>3. HistoriesCount'
    BY <2>1, <2>2, <1>a DEF BasisInv, HistoriesCount
  <2> QED BY <2>1, <2>2, <2>3, <1>1
<1>3. CASE LoadHistory(e)
  <2>1. /\ UNCHANGED <<opened, profile, stored>> /\ history' = [history EXCEPT ![e] = stored]
        /\ post[e] # "unsent" /\ \A d \in Events : d # e => post'[d] = post[d]
        /\ post'[e] \in {"persist", "repersist"}
    BY <1>3, <1>a DEF LoadHistory, databaseVars
  <2>2. Persisted' \subseteq Persisted
    BY <2>1, <1>a DEF Persisted
  <2>3. e \in stored
    BY <2>1 DEF EpochInv, OpenedStored
  <2>4. HistoriesCount'
    BY <2>1, <2>2, <2>3, <1>a, <1>c DEF BasisInv, HistoriesCount
  <2> QED BY <2>1, <2>2, <2>4, <1>1
<1>4. CASE PersistProfile(e)
  <2>1. /\ UNCHANGED opened /\ profile' = history[e]
        /\ post[e] \in {"persist", "repersist"} /\ post'[e] \notin {"persist", "repersist"}
        /\ \A d \in Events : d # e => post'[d] = post[d] /\ history'[d] = history[d]
    BY <1>4, <1>a DEF PersistProfile
  <2>2. /\ \A d \in Events : d # e => post[d] \notin {"persist", "repersist"}
        /\ \A w \in Workers : pc[w] # "persistMissing"
    BY <2>1 DEF Overlapping, Rebuilding
  <2>3. Persisted' \subseteq Persisted \cup {e}
    BY <2>1 DEF Persisted
  <2>4. e \in history[e] /\ Persisted \subseteq history[e] /\ history[e] # None
    BY <2>1, <1>a DEF BasisInv, HistoriesCount
  <2>5. ProfileCounts'
    BY <2>1, <2>3, <2>4 DEF ProfileCounts
  <2>6. HistoriesCount' /\ MissingCounts'
    BY <2>1, <2>2, <1>a DEF HistoriesCount, MissingCounts
  <2> QED BY <2>1, <2>5, <2>6, <1>b DEF BasisInv
<1>5. CASE InvalidateFeed(e)
  <2>1. /\ UNCHANGED <<profile, history>> /\ post[e] = "refresh"
        /\ post' = [post EXCEPT ![e] = "invalidated"]
        /\ \A d \in Events : d # e => opened'[d] = opened[d]
    BY <1>5, <1>a DEF InvalidateFeed, databaseVars
  <2>2. Persisted' \subseteq Persisted
    BY <2>1, <1>a DEF Persisted
  <2>3. HistoriesCount' /\ ProfileCounts' /\ MissingCounts'
    BY <2>1, <2>2, <1>a DEF BasisInv, HistoriesCount, ProfileCounts, MissingCounts
  <2>4. \A w \in Workers : job[w] # None => job[w].epoch \in Nat /\ job[w].epoch <= epoch
    BY <1>a DEF QueueTypeOK, FeedJob, EpochInv, JobsBehind
  <2>5. KnownCounts' /\ DraftsCount'
    <3>1. \A w \in Workers : pc[w] = "rank" \/ draft[w] # None => job[w] # None
      BY DEF Shaped, SlotShape
    <3> QED BY <3>1, <2>4, <1>5, <1>a, InvalidationCovers
            DEF BasisInv, KnownCounts, DraftsCount, Covers
  <2>6. PayloadsCount'
    <3>1. \A f \in FeedIds : payload[f] # None =>
            payload[f].epoch \in Nat /\ payload[f].epoch <= epoch
      BY <1>a DEF CacheTypeOK, Generation, EpochInv, PayloadsCover
    <3> QED BY <3>1, <1>5, <1>a, InvalidationCovers DEF BasisInv, PayloadsCount, Covers
  <2> QED BY <2>3, <2>5, <2>6 DEF BasisInv
<1>6. CASE EnqueueInvalidation(e) \/ Resend(e) \/ RefreshFails(e)
  <2>1. /\ UNCHANGED <<opened, profile>>
        /\ post'[e] \in {"done", "reload", "failed"}
        /\ \A d \in Events : d # e => post'[d] = post[d] /\ history'[d] = history[d]
    BY <1>6, <1>a DEF EnqueueInvalidation, Resend, RefreshFails, databaseVars
  <2>2. Persisted' \subseteq Persisted
    BY <2>1 DEF Persisted
  <2>3. HistoriesCount'
    BY <2>1, <2>2 DEF BasisInv, HistoriesCount
  <2> QED BY <2>1, <2>2, <2>3, <1>1
<1> QED BY <1>2, <1>3, <1>4, <1>5, <1>6 DEF PostInteraction, HandlePost

\* Steps that write neither profiles nor payloads, or take payloads away.
LEMMA QuietBasis ==
  ASSUME BasisInv, UNCHANGED <<profile, workerVars, job, post, history, opened>>,
         \A f \in FeedIds : payload'[f] \in {payload[f], None}
  PROVE  BasisInv'
  BY DEF BasisInv, Persisted, ProfileCounts, HistoriesCount, MissingCounts, KnownCounts,
         DraftsCount, PayloadsCount, Covers, workerVars

LEMMA BasisStep == Shaped /\ EpochInv /\ BasisInv /\ ~Overlapping /\ [Next]_vars => BasisInv'
<1> SUFFICES ASSUME Shaped, EpochInv, BasisInv, ~Overlapping, [Next]_vars PROVE BasisInv'
  OBVIOUS
<1>1. ASSUME NEW w \in Workers, WorkerStep(w) PROVE BasisInv'
  BY <1>1, JobBasis, BuildBasis, PublishBasis DEF WorkerStep, BuildFeed
<1>2. ASSUME NEW r \in Readers, GetFeed(r) \/ RequestFails(r), UNCHANGED workerVars
      PROVE  BasisInv'
  <2>1. UNCHANGED <<profile, workerVars, job, post, history, opened, payload>>
    BY <1>2 DEF GetFeed, OpenSession, ReadActiveGeneration, ContinueSession, ReadEpoch,
                EnqueueMiss, EnqueueRefill, RequestFails, Enqueue, cacheVars, databaseVars,
                queueVars, postVars
  <2> QED BY <2>1, QuietBasis
<1>3. CASE ApiStep
  BY <1>2, <1>3, PostBasis DEF ApiStep
<1>4. CASE Fault
  BY <1>2, <1>4, JobBasis, PostBasis DEF Fault
<1>5. CASE Expiry
  <2>1. UNCHANGED <<profile, workerVars, job, post, history, opened>>
    BY <1>5 DEF Expiry, databaseVars, queueVars, apiVars
  <2>2. \A f \in FeedIds : payload'[f] \in {payload[f], None}
    BY <1>5 DEF Expiry, ExpireActive, ExpirePayload, ExpireSidecar, ExpireIndex,
                Shaped, TypeOK, CacheTypeOK
  <2> QED BY <2>1, <2>2, QuietBasis
<1>6. CASE UNCHANGED vars
  <2>1. UNCHANGED <<profile, workerVars, job, post, history, opened, payload>>
    BY <1>6 DEF vars, cacheVars, databaseVars, queueVars, apiVars
  <2> QED BY <2>1, QuietBasis
<1> QED BY <1>1, <1>3, <1>4, <1>5, <1>6 DEF Next

OverlapInv == (Overlapping => overlapped) /\ (~overlapped => BasisInv)

LEMMA OverlapInvInit == OverlapInit => OverlapInv
<1>1. Init => ~Overlapping
  BY DEF Init, WorkerInit, ApiInit, Overlapping, Rebuilding
<1> QED BY <1>1, BasisInvInit DEF OverlapInit, OverlapInv

LEMMA OverlapNextSteps == OverlapNext => Next /\ Noticed
BY DEF OverlapNext, Next

LEMMA OverlapInvStep ==
  Shaped /\ EpochInv /\ OverlapInv /\ [OverlapNext]_overlapVars => OverlapInv'
<1> SUFFICES ASSUME Shaped, EpochInv, OverlapInv, [OverlapNext]_overlapVars
             PROVE  OverlapInv'
  OBVIOUS
<1>1. CASE OverlapNext
  BY <1>1, OverlapNextSteps, BasisStep DEF Noticed, OverlapInv
<1>2. CASE UNCHANGED overlapVars
  <2>1. UNCHANGED vars /\ overlapped' = overlapped /\ UNCHANGED <<post, pc>>
    BY <1>2 DEF overlapVars, vars, apiVars, workerVars
  <2>2. Overlapping' = Overlapping
    BY <2>1 DEF Overlapping, Rebuilding
  <2> QED BY <2>1, <2>2, BasisStep DEF OverlapInv
<1> QED BY <1>1, <1>2

LEMMA OverlapsAreServing == OverlapSpec => Spec
<1>1. OverlapInit => Init
  BY DEF OverlapInit
<1>2. [OverlapNext]_overlapVars => [Next]_vars
  BY OverlapNextSteps DEF overlapVars
<1> QED BY <1>1, <1>2, PTL DEF OverlapSpec, Spec

(***************************************************************************)
(* A generation built for epoch n leaves out every interaction whose       *)
(* invalidation returned n or less, for any number of concurrent slots and *)
(* requests, with crashes, retries, failed enqueues and expiries.  The     *)
(* profile it was ranked over counts them, too, unless two rebuilds of     *)
(* that profile overlapped.                                                *)
(***************************************************************************)
THEOREM FeedsCoverTheirEpoch == OverlapSpec => []BasisCoversEpoch
<1>1. Init => EpochInv
  BY EpochInvInit
<1>2. Shaped /\ EpochInv /\ [Next]_vars => EpochInv'
  BY EpochInvStep
<1>3. Spec => []EpochInv
  BY <1>1, <1>2, ShapeInvariant, PTL DEF Spec
<1>4. EpochInv /\ OverlapInv => BasisCoversEpoch
  BY DEF EpochInv, PayloadsCover, OverlapInv, BasisInv, PayloadsCount, Covers,
         BasisCoversEpoch, Readable
<1> QED BY <1>3, <1>4, OverlapInvInit, OverlapInvStep, OverlapsAreServing, ShapeInvariant, PTL
        DEF OverlapSpec

(***************************************************************************)
(* Publication.                                                            *)
(***************************************************************************)

\* The steps that write the cache, or the locals a publication is about.
SlotActs(w) ==
  \/ TakeJob(w) \/ Build(w) \/ WritePayload(w) \/ WriteSidecar(w) \/ Register(w)
  \/ FlipPointer(w) \/ ReadEvicted(w) \/ Trim(w) \/ DeleteEvicted(w)
  \/ FinishJob(w) \/ FailJob(w)

feedVars == <<cacheVars, workerVars, job>>

\* Every step is one of a slot, an invalidation, an expiry, or no matter.
LEMMA StepCases ==
  ASSUME [Next]_vars
  PROVE  \/ \E w \in Workers : SlotActs(w)
         \/ Invalidate /\ UNCHANGED <<workerVars, job>>
         \/ Expiry
         \/ UNCHANGED feedVars
<1>1. ASSUME NEW w \in Workers, WorkerStep(w) PROVE SlotActs(w)
  BY <1>1 DEF WorkerStep, BuildFeed, Publish, SlotActs
<1>2. ASSUME NEW e \in Events, PostInteraction(e) \/ RefreshFails(e), UNCHANGED workerVars
      PROVE  (Invalidate \/ UNCHANGED cacheVars) /\ UNCHANGED <<workerVars, job>>
  BY <1>2 DEF PostInteraction, HandlePost, RecordInteraction, LoadHistory,
              PersistProfile, InvalidateFeed, EnqueueInvalidation, Resend, RefreshFails,
              Enqueue, queueVars
<1>3. ASSUME NEW r \in Readers, GetFeed(r) \/ RequestFails(r), UNCHANGED workerVars
      PROVE  UNCHANGED feedVars
  BY <1>3 DEF GetFeed, OpenSession, ReadActiveGeneration, ContinueSession, ReadEpoch,
              EnqueueMiss, EnqueueRefill, RequestFails, Enqueue, queueVars, feedVars
<1>4. CASE ApiStep
  BY <1>4, <1>2, <1>3 DEF ApiStep, feedVars
<1>5. CASE Fault
  BY <1>5, <1>2, <1>3 DEF Fault, SlotActs, feedVars
<1>6. CASE UNCHANGED vars
  BY <1>6 DEF vars, feedVars, queueVars
<1> QED BY <1>1, <1>4, <1>5, <1>6 DEF Next

\* A slot moves its own locals only.
LEMMA OneSlotMoves ==
  ASSUME Shaped, NEW w \in Workers, SlotActs(w)
  PROVE  \A v \in Workers \ {w} :
           /\ pc'[v] = pc[v]
           /\ peeked'[v] = peeked[v]
           /\ draft'[v] = draft[v]
           /\ feed'[v] = feed[v]
           /\ evicted'[v] = evicted[v]
           /\ job'[v] = job[v]
<1>1. QueueTypeOK /\ WorkerTypeOK
  BY DEF Shaped, TypeOK
<1>2. CASE TakeJob(w)
  BY <1>2, <1>1 DEF TakeJob, Dequeue, Goto, QueueTypeOK, WorkerTypeOK
<1>3. CASE Build(w)
  BY <1>3, <1>1 DEF Build, CheckEpoch, PeekActive, PeekGeneration, GetUserProfile,
                    LoadMissing, PersistMissing, Rank, ReadOnly, Unpublished, Goto,
                    queueVars, QueueTypeOK, WorkerTypeOK
<1>4. CASE Publish(w)
  BY <1>4, <1>1 DEF Publish, WritePayload, WriteSidecar, Register, FlipPointer,
                    ReadEvicted, Trim, DeleteEvicted, ReadOnly, Unpublished, Goto,
                    queueVars, QueueTypeOK, WorkerTypeOK
<1>5. CASE FinishJob(w) \/ FailJob(w)
  BY <1>5, <1>1 DEF FinishJob, FailJob, Release, Retry, DropLocals, Goto, QueueTypeOK,
                    WorkerTypeOK
<1> QED BY <1>2, <1>3, <1>4, <1>5 DEF SlotActs, Publish

\* While it takes, builds, finishes or loses a job a slot writes no key, and
\* what it was publishing is what it publishes or is forgotten.
LEMMA QuietActs ==
  ASSUME Shaped, NEW w \in Workers,
         TakeJob(w) \/ Build(w) \/ FinishJob(w) \/ FailJob(w)
  PROVE  /\ UNCHANGED <<cacheVars, nextFeed, shown>>
         /\ feed'[w] \in {feed[w], None}
         /\ evicted'[w] \in {evicted[w], {}}
         /\ pc'[w] \notin PublishSteps \ {"setPayload"}
<1>1. WorkerTypeOK
  BY DEF Shaped, TypeOK
<1> USE DEF PublishSteps, Goto, WorkerTypeOK
<1>2. CASE TakeJob(w)
  BY <1>2, <1>1 DEF TakeJob
<1>3. CASE Build(w)
  BY <1>3, <1>1 DEF Build, CheckEpoch, PeekActive, PeekGeneration, GetUserProfile,
                    LoadMissing, PersistMissing, Rank, ReadOnly, Unpublished
<1>4. CASE FinishJob(w) \/ FailJob(w)
  BY <1>4, <1>1 DEF FinishJob, FailJob, DropLocals
<1> QED BY <1>2, <1>3, <1>4

-----------------------------------------------------------------------------
(***************************************************************************)
(* The commands on the index, entry by entry.                              *)
(***************************************************************************)
LEMMA PushFacts ==
  ASSUME index \in Seq(FeedIds), NEW f \in FeedIds, PushIndex(f)
  PROVE  /\ Len(index') = Len(index) + 1
         /\ index'[1] = f
         /\ \A i \in DOMAIN index : index'[i + 1] = index[i]
         /\ \A i \in DOMAIN index' : i # 1 => i - 1 \in DOMAIN index /\ index'[i] = index[i - 1]
  BY DEF PushIndex

LEMMA TrimFacts ==
  ASSUME index \in Seq(FeedIds), TrimIndex
  PROVE  /\ Len(index') <= Len(index) /\ Len(index') <= MAX_RETAINED_GENERATIONS_PER_USER
         /\ Len(index') = Len(index) \/ Len(index') = MAX_RETAINED_GENERATIONS_PER_USER
         /\ \A i \in DOMAIN index' : i \in DOMAIN index /\ index'[i] = index[i]
  BY DEF TrimIndex, MAX_RETAINED_GENERATIONS_PER_USER
\* Keys expire only for feeds nobody publishes, and the index all at once.
LEMMA ExpiryFacts ==
  ASSUME Shaped, Expiry
  PROVE  /\ UNCHANGED <<epoch, workerVars, queueVars>>
         /\ active' \in {active, None}
         /\ \A f \in FeedIds : payload'[f] = payload[f] \/ (payload'[f] = None /\ active # f
                                                           /\ ~Publishing(f))
         /\ index' = index \/ (index' = <<>> /\ \A i \in DOMAIN index : ~Readable(index[i]))
<1>1. CacheTypeOK
  BY DEF Shaped, TypeOK
<1>2. \A i \in DOMAIN index : index[i] \in Range(index)
  BY DEF Range
<1> QED BY <1>1, <1>2 DEF Expiry, ExpireActive, ExpirePayload, ExpireSidecar, ExpireIndex,
                          CacheTypeOK, Readable

-----------------------------------------------------------------------------
(***************************************************************************)
(* Eviction, for any number of slots.  feedIds are drawn once and pushed   *)
(* once, so an id that was past the retention window only moves further    *)
(* back, until some trim takes it out for good.                            *)
(***************************************************************************)
NamesAreDistinct ==
  /\ \A i \in DOMAIN index : index[i] < nextFeed
  /\ \A i, j \in DOMAIN index : index[i] = index[j] => i = j
  /\ \A w \in Workers :
       /\ feed[w] # None => feed[w] < nextFeed
       /\ \A f \in evicted[w] : f < nextFeed
       /\ \A v \in Workers : feed[v] = feed[w] /\ feed[w] # None => v = w

PushedOnce ==
  \A v \in Workers : pc[v] \in {"setSidecar", "pushIndex"} =>
    /\ \A i \in DOMAIN index : index[i] # feed[v]
    /\ \A w \in Workers : feed[v] \notin evicted[w]

EvictedBehind ==
  \A w \in Workers :
    /\ pc[w] = "trimIndex" =>
         \A i \in DOMAIN index :
           index[i] \in evicted[w] => i > MAX_RETAINED_GENERATIONS_PER_USER
    /\ pc[w] = "deleteEvicted" => \A i \in DOMAIN index : index[i] \notin evicted[w]

EvictionInv == NamesAreDistinct /\ PushedOnce /\ EvictedBehind

LEMMA EvictionInit == Init => EvictionInv
  BY DEF Init, CacheInit, WorkerInit, EvictionInv, NamesAreDistinct, PushedOnce, EvictedBehind

LEMMA QuietEviction ==
  ASSUME Shaped, EvictionInv, NEW w \in Workers,
         TakeJob(w) \/ Build(w) \/ FinishJob(w) \/ FailJob(w)
  PROVE  EvictionInv'
<1>1. /\ UNCHANGED <<index, nextFeed>>
      /\ feed'[w] \in {feed[w], None} /\ evicted'[w] \in {evicted[w], {}}
      /\ pc'[w] \notin {"setSidecar", "pushIndex", "trimIndex", "deleteEvicted"}
  BY QuietActs DEF cacheVars, PublishSteps
<1>2. \A v \in Workers \ {w} :
        pc'[v] = pc[v] /\ feed'[v] = feed[v] /\ evicted'[v] = evicted[v]
  BY OneSlotMoves DEF SlotActs
<1>3. NamesAreDistinct'
  BY <1>1, <1>2 DEF EvictionInv, NamesAreDistinct
<1>4. PushedOnce' /\ EvictedBehind'
  BY <1>1, <1>2 DEF EvictionInv, PushedOnce, EvictedBehind
<1> QED BY <1>3, <1>4 DEF EvictionInv

LEMMA PublishEviction ==
  ASSUME Shaped, EvictionInv, NEW w \in Workers, Publish(w)
  PROVE  EvictionInv'
<1>a. CacheTypeOK /\ WorkerTypeOK /\ SlotShape
  BY DEF Shaped, TypeOK
<1>b. \A v \in Workers \ {w} :
        pc'[v] = pc[v] /\ feed'[v] = feed[v] /\ evicted'[v] = evicted[v]
  BY OneSlotMoves DEF SlotActs, Publish
<1>c. index \in Seq(FeedIds) /\ nextFeed \in Nat /\ pc \in [Workers -> Steps]
  BY <1>a DEF CacheTypeOK, WorkerTypeOK
<1> USE DEF EvictionInv, NamesAreDistinct, PushedOnce, EvictedBehind
<1>1. CASE WritePayload(w)
  <2>1. /\ UNCHANGED <<index, evicted>> /\ nextFeed' = nextFeed + 1
        /\ feed'[w] = nextFeed /\ pc'[w] \in {"setSidecar", "pushIndex"}
    BY <1>1, <1>a DEF WritePayload, SetPayload, Goto, WorkerTypeOK
  <2>2. \A i \in DOMAIN index : index[i] \in Nat
    BY <1>c DEF FeedIds
  <2>3. \A v \in Workers : feed[v] # None => feed[v] \in Nat
    BY <1>a DEF WorkerTypeOK, FeedIds
  <2>4. \A v \in Workers : \A f \in evicted[v] : f \in Nat
    BY <1>a DEF WorkerTypeOK, FeedIds
  <2>5. NamesAreDistinct'
    BY <2>1, <2>2, <2>3, <2>4, <1>b, <1>c
  <2>6. PushedOnce'
    BY <2>1, <2>2, <2>4, <1>b, <1>c
  <2>7. EvictedBehind'
    BY <2>1, <1>b
  <2> QED BY <2>5, <2>6, <2>7
<1>2. CASE WriteSidecar(w)
  <2>1. /\ UNCHANGED <<index, evicted, nextFeed, feed>>
        /\ pc[w] = "setSidecar" /\ pc'[w] = "pushIndex"
    BY <1>2, <1>c DEF WriteSidecar, SetSidecar, Goto
  <2> QED BY <2>1, <1>b
<1>3. CASE Register(w)
  <2>1. /\ UNCHANGED <<evicted, nextFeed, feed>> /\ PushIndex(feed[w])
        /\ pc[w] = "pushIndex" /\ pc'[w] = "setActive"
    BY <1>3, <1>c DEF Register, Goto
  <2>2. feed[w] \in FeedIds
    BY <2>1, <1>a DEF SlotShape, PublishSteps, WorkerTypeOK
  <2>3. /\ Len(index') = Len(index) + 1 /\ index'[1] = feed[w]
        /\ \A i \in DOMAIN index' :
             i # 1 => i - 1 \in DOMAIN index /\ index'[i] = index[i - 1]
    BY <2>1, <2>2, <1>c, PushFacts
  <2>4. \A i \in DOMAIN index' : i \in Int
    BY <1>c, <2>1 DEF PushIndex
  <2>5. NamesAreDistinct'
    <3>1. \A i \in DOMAIN index' : index'[i] < nextFeed
      BY <2>1, <2>2, <2>3, <2>4
    <3>2. ASSUME NEW i \in DOMAIN index', NEW j \in DOMAIN index', index'[i] = index'[j]
          PROVE  i = j
      BY <3>2, <2>1, <2>3, <2>4
    <3> QED BY <3>1, <3>2, <2>1
  <2>6. PushedOnce'
    <3>1. ASSUME NEW v \in Workers, pc'[v] \in {"setSidecar", "pushIndex"}
          PROVE  v # w /\ feed[v] # None
      BY <3>1, <2>1, <1>a, <1>b DEF SlotShape, PublishSteps
    <3>2. \A v \in Workers : pc'[v] \in {"setSidecar", "pushIndex"} =>
            \A i \in DOMAIN index' : index'[i] # feed[v]
      BY <3>1, <2>1, <2>3, <1>b
    <3> QED BY <3>1, <3>2, <2>1, <1>b
  <2>7. EvictedBehind'
    <3>1. \A v \in Workers : feed[w] \notin evicted[v]
      BY <2>1
    <3>2. ASSUME NEW v \in Workers, NEW i \in DOMAIN index', index'[i] \in evicted[v]
          PROVE  /\ i - 1 \in DOMAIN index /\ index[i - 1] \in evicted[v]
                 /\ i - 1 > MAX_RETAINED_GENERATIONS_PER_USER
                      => i > MAX_RETAINED_GENERATIONS_PER_USER
      BY <3>1, <3>2, <2>3, <2>4 DEF MAX_RETAINED_GENERATIONS_PER_USER
    <3>3. \A v \in Workers : pc'[v] \in {"trimIndex", "deleteEvicted"} => pc'[v] = pc[v]
      BY <2>1, <1>b
    <3> QED BY <3>2, <3>3, <2>1
  <2> QED BY <2>5, <2>6, <2>7
<1>4. CASE FlipPointer(w)
  <2>1. /\ UNCHANGED <<index, evicted, nextFeed, feed>> /\ pc'[w] = "readEvicted"
    BY <1>4, <1>c DEF FlipPointer, SetActive, Goto
  <2> QED BY <2>1, <1>b
<1>5. CASE ReadEvicted(w)
  <2>1. /\ UNCHANGED <<index, nextFeed, feed>> /\ evicted'[w] = BeyondRetention
        /\ pc'[w] \in {"finish", "trimIndex"}
    BY <1>5, <1>a, <1>c DEF ReadEvicted, ReadOnly, Unpublished, cacheVars, Goto,
                            WorkerTypeOK
  <2>2. \A f \in BeyondRetention :
          \E i \in DOMAIN index : i > MAX_RETAINED_GENERATIONS_PER_USER /\ f = index[i]
    BY <1>c DEF BeyondRetention, MAX_RETAINED_GENERATIONS_PER_USER
  <2>3. NamesAreDistinct'
    BY <2>1, <2>2, <1>b
  <2>4. PushedOnce'
    BY <2>1, <2>2, <1>b
  <2>5. EvictedBehind'
    BY <2>1, <2>2, <1>b
  <2> QED BY <2>3, <2>4, <2>5
<1>6. CASE Trim(w)
  <2>1. /\ UNCHANGED <<evicted, nextFeed, feed>> /\ TrimIndex
        /\ pc[w] = "trimIndex" /\ pc'[w] = "deleteEvicted"
    BY <1>6, <1>c DEF Trim, Goto
  <2>2. /\ Len(index') <= MAX_RETAINED_GENERATIONS_PER_USER /\ Len(index') \in Nat
        /\ \A i \in DOMAIN index' : i \in DOMAIN index /\ index'[i] = index[i]
                                    /\ i <= Len(index') /\ i \in Nat
    BY <2>1, <1>c, TrimFacts DEF TrimIndex, MAX_RETAINED_GENERATIONS_PER_USER
  <2>3. NamesAreDistinct' /\ PushedOnce'
    BY <2>1, <2>2, <1>b
  <2>4. EvictedBehind'
    BY <2>1, <2>2, <1>b DEF MAX_RETAINED_GENERATIONS_PER_USER
  <2> QED BY <2>3, <2>4
<1>7. CASE DeleteEvicted(w)
  <2>1. UNCHANGED <<index, evicted, nextFeed, feed>> /\ pc'[w] = "finish"
    BY <1>7, <1>c DEF DeleteEvicted, DeleteGenerations, Goto
  <2> QED BY <2>1, <1>b
<1> QED BY <1>1, <1>2, <1>3, <1>4, <1>5, <1>6, <1>7 DEF Publish

LEMMA EvictionStep == Shaped /\ EvictionInv /\ [Next]_vars => EvictionInv'
<1> SUFFICES ASSUME Shaped, EvictionInv, [Next]_vars PROVE EvictionInv'
  OBVIOUS
<1>1. CASE \E w \in Workers : SlotActs(w)
  BY <1>1, QuietEviction, PublishEviction DEF SlotActs, Publish
<1>2. CASE UNCHANGED workerVars /\ (index' = index \/ index' = <<>>)
  BY <1>2 DEF EvictionInv, NamesAreDistinct, PushedOnce, EvictedBehind, workerVars
<1>3. UNCHANGED feedVars => <1>2!1
  BY DEF feedVars, cacheVars
<1> QED BY <1>1, <1>2, <1>3, StepCases, ExpiryFacts DEF Invalidate

(***************************************************************************)
(* What a slot is about to delete is not in the index any more, however    *)
(* many slots publish and trim between its LRANGE, LTRIM and DEL, and      *)
(* whatever fails or expires there.                                        *)
(***************************************************************************)
THEOREM EvictionIsSafe == Spec => []EvictedLeftIndex
<1>1. Init => EvictionInv
  BY EvictionInit
<1>2. Shaped /\ EvictionInv /\ [Next]_vars => EvictionInv'
  BY EvictionStep
<1>3. EvictionInv => EvictedLeftIndex
  BY DEF EvictionInv, EvictedBehind, EvictedLeftIndex, Range
<1> QED BY <1>1, <1>2, <1>3, ShapeInvariant, PTL DEF Spec

-----------------------------------------------------------------------------
(***************************************************************************)
(* From here on one job slot publishes for the user at a time.             *)
(***************************************************************************)
OneSlot == \A v, w \in Workers : v = w

\* The steps of a slot that has passed its last checks, that has named the
\* generation it publishes, listed it in the index, and moved the pointer.
RecheckedSteps == {"repeek", "repeekGeneration", "setPayload"}
FlippedSteps == {"readEvicted", "trimIndex", "deleteEvicted"}
ListedSteps == {"setActive"} \cup FlippedSteps
NamedSteps == {"setSidecar", "pushIndex"} \cup ListedSteps

(***************************************************************************)
(* feedIds are an age: the slot publishes the newest, the index lists      *)
(* newer ones before older ones.                                           *)
(***************************************************************************)
NewestFirst ==
  /\ \A w \in Workers : feed[w] # None => feed[w] = nextFeed - 1
  /\ \A i, j \in DOMAIN index : i < j => index[i] > index[j]
  /\ active # None => active < nextFeed
  /\ \A f \in FeedIds : Readable(f) => f < nextFeed

(***************************************************************************)
(* Why the pointer never dangles: the generation being published stays     *)
(* readable, is at the head of the index when the slot reads what to       *)
(* evict, and is then the only one that can be on offer.                   *)
(***************************************************************************)
OfferIsKept ==
  /\ ActiveReadable
  /\ \A w \in Workers :
      /\ pc[w] \in NamedSteps => Readable(feed[w])
      /\ pc[w] \in ListedSteps => index # <<>> /\ index[1] = feed[w]
      /\ pc[w] \in FlippedSteps => active \in {None, feed[w]}
      /\ pc[w] \in {"trimIndex", "deleteEvicted"} => feed[w] \notin evicted[w]

\* A newer generation is of no older epoch, and the next one will not be either.
EpochsInOrder ==
  /\ \A f, g \in FeedIds :
       f < g /\ Readable(f) /\ Readable(g) => payload[f].epoch <= payload[g].epoch
  /\ \A w \in Workers : pc[w] \in RecheckedSteps =>
       \A f \in FeedIds : Readable(f) => payload[f].epoch <= job[w].epoch

OfferInv == NewestFirst /\ OfferIsKept /\ EpochsInOrder

LEMMA OfferInit == Init => OfferInv
  BY DEF Init, CacheInit, WorkerInit, OfferInv, NewestFirst, OfferIsKept, EpochsInOrder,
         ActiveReadable, Readable, NamedSteps, ListedSteps, FlippedSteps, RecheckedSteps

\* Only a job of the current epoch gets past the second check.
LEMMA LastCheck ==
  ASSUME Shaped, NEW w \in Workers, TakeJob(w) \/ Build(w) \/ FinishJob(w) \/ FailJob(w),
         pc'[w] \in RecheckedSteps
  PROVE  /\ job'[w] = job[w] /\ job[w] # None
         /\ pc[w] \in RecheckedSteps \/ job[w].epoch = epoch
<1>1. pc \in [Workers -> Steps] /\ SlotShape
  BY DEF Shaped, TypeOK, WorkerTypeOK
<1> QED BY <1>1 DEF TakeJob, Build, CheckEpoch, PeekActive, PeekGeneration,
                    GetUserProfile, LoadMissing, PersistMissing, Rank, FinishJob,
                    FailJob, Goto, ReadOnly, Unpublished, queueVars, RecheckedSteps,
                    SlotShape

LEMMA QuietOffer ==
  ASSUME OneSlot, Shaped, EpochInv, OfferInv, NEW w \in Workers,
         TakeJob(w) \/ Build(w) \/ FinishJob(w) \/ FailJob(w)
  PROVE  OfferInv'
<1>1. /\ UNCHANGED <<payload, index, active, nextFeed>>
      /\ feed'[w] \in {feed[w], None} /\ pc'[w] \notin NamedSteps
  BY QuietActs DEF cacheVars, PublishSteps, NamedSteps, ListedSteps, FlippedSteps
<1>2. \A v \in Workers : v = w
  BY DEF OneSlot
<1>3. NewestFirst'
  BY <1>1, <1>2 DEF OfferInv, NewestFirst, Readable
<1>4. OfferIsKept'
  BY <1>1, <1>2 DEF OfferInv, OfferIsKept, ActiveReadable, Readable, NamedSteps, ListedSteps,
                    FlippedSteps
<1>5. EpochsInOrder'
  <2>1. \A f \in FeedIds : Readable(f) => payload[f].epoch <= epoch
    BY DEF EpochInv, PayloadsCover, Readable
  <2>2. pc'[w] \in RecheckedSteps =>
          \A f \in FeedIds : Readable(f) => payload[f].epoch <= job'[w].epoch
    BY <2>1, LastCheck DEF OfferInv, EpochsInOrder
  <2> QED BY <1>1, <1>2, <2>2 DEF OfferInv, EpochsInOrder, Readable
<1> QED BY <1>3, <1>4, <1>5 DEF OfferInv

LEMMA WritePayloadOffer ==
  ASSUME OneSlot, Shaped, OfferInv, NEW w \in Workers, WritePayload(w)
  PROVE  /\ OfferInv'
         /\ {f \in FeedIds : Readable(f)}' = {f \in FeedIds : Readable(f)} \cup {nextFeed}
         /\ payload'[nextFeed].epoch = job[w].epoch
         /\ payload'[nextFeed].shortage = draft[w].shortage
<1>1. CacheTypeOK /\ WorkerTypeOK /\ SlotShape /\ job \in [Workers -> FeedJob \cup {None}]
  BY DEF Shaped, TypeOK, QueueTypeOK
<1> DEFINE g == [epoch |-> job[w].epoch, basis |-> draft[w].basis,
                 seen |-> draft[w].seen, shortage |-> draft[w].shortage]
<1>2. /\ UNCHANGED <<index, active, job>> /\ nextFeed' = nextFeed + 1
      /\ feed'[w] = nextFeed /\ pc[w] = "setPayload"
      /\ pc'[w] \in {"setSidecar", "pushIndex"} /\ nextFeed \in FeedIds
      /\ payload' = [payload EXCEPT ![nextFeed] = g]
  BY <1>1 DEF WritePayload, SetPayload, Goto, WorkerTypeOK, FeedIds, queueVars
<1>3. job[w] \in FeedJob /\ draft[w] \in Draft
  BY <1>1, <1>2 DEF SlotShape, PublishSteps, WorkerTypeOK
<1>4. g \in Generation /\ g.epoch = job[w].epoch /\ g.shortage = draft[w].shortage
  BY <1>3 DEF Generation, FeedJob, Draft
<1> HIDE DEF g
<1>5. /\ payload'[nextFeed] = g /\ g # None
      /\ \A f \in FeedIds : f # nextFeed => payload'[f] = payload[f]
  BY <1>1, <1>2, <1>4 DEF CacheTypeOK
<1>6. \A v \in Workers : v = w
  BY DEF OneSlot
<1>7. \A f \in FeedIds : f \in Nat
  BY DEF FeedIds
<1>8. NewestFirst'
  <2>1. \A i \in DOMAIN index : index[i] \in Nat
    BY <1>1, <1>7 DEF CacheTypeOK
  <2>2. nextFeed \in Nat /\ active \in FeedIds \cup {None} /\ nextFeed = (nextFeed + 1) - 1
    BY <1>1, <1>2, <1>7 DEF CacheTypeOK
  <2>3. \A v \in Workers : feed'[v] # None => feed'[v] = nextFeed' - 1
    BY <1>2, <1>6, <2>2
  <2>4. active' # None => active' < nextFeed'
    BY <1>2, <1>7, <2>2 DEF OfferInv, NewestFirst
  <2>5. ASSUME NEW f \in FeedIds, Readable(f)' PROVE f < nextFeed'
    BY <1>2, <1>5, <1>7, <2>2, <2>5 DEF OfferInv, NewestFirst, Readable
  <2> QED BY <1>2, <2>3, <2>4, <2>5 DEF OfferInv, NewestFirst
<1>9. OfferIsKept'
  BY <1>1, <1>2, <1>5, <1>6 DEF OfferInv, OfferIsKept, ActiveReadable, Readable, NamedSteps,
                                ListedSteps, FlippedSteps, CacheTypeOK
<1>10. EpochsInOrder'
  <2>1. \A f \in FeedIds : Readable(f) => payload[f].epoch <= job[w].epoch /\ f < nextFeed
    BY <1>2 DEF OfferInv, EpochsInOrder, NewestFirst, RecheckedSteps
  <2>2. pc'[w] \notin RecheckedSteps
    BY <1>2 DEF RecheckedSteps
  <2>3. ASSUME NEW a \in FeedIds, NEW b \in FeedIds, a < b, Readable(a)', Readable(b)'
        PROVE  payload'[a].epoch <= payload'[b].epoch
    <3>1. a # nextFeed
      BY <2>1, <2>3, <1>2, <1>5, <1>7 DEF Readable
    <3>2. Readable(a) /\ payload'[a] = payload[a]
      BY <3>1, <2>3, <1>5 DEF Readable
    <3>3. CASE b = nextFeed
      BY <3>2, <3>3, <2>1, <1>4, <1>5
    <3>4. CASE b # nextFeed
      BY <3>2, <3>4, <2>3, <1>5 DEF Readable, OfferInv, EpochsInOrder
    <3> QED BY <3>3, <3>4
  <2> QED BY <2>2, <2>3, <1>6 DEF EpochsInOrder
<1> QED BY <1>2, <1>4, <1>5, <1>8, <1>9, <1>10 DEF OfferInv, Readable

LEMMA RegisterOffer ==
  ASSUME OneSlot, Shaped, EvictionInv, OfferInv, NEW w \in Workers, Register(w)
  PROVE  OfferInv'
<1>1. CacheTypeOK /\ WorkerTypeOK /\ SlotShape
  BY DEF Shaped, TypeOK
<1>2. /\ UNCHANGED <<payload, active, feed, evicted, nextFeed, job>> /\ PushIndex(feed[w])
      /\ pc[w] = "pushIndex" /\ pc'[w] = "setActive"
  BY <1>1 DEF Register, PushIndex, Goto, WorkerTypeOK, queueVars
<1>3. \A v \in Workers : v = w
  BY DEF OneSlot
<1>4. feed[w] \in FeedIds /\ feed[w] = nextFeed - 1 /\ nextFeed \in Nat
  BY <1>1, <1>2 DEF SlotShape, PublishSteps, WorkerTypeOK, OfferInv, NewestFirst
<1>5. /\ index' # <<>> /\ index'[1] = feed[w]
      /\ \A i \in DOMAIN index' :
           i \in Nat /\ i >= 1
           /\ (i # 1 => i - 1 \in DOMAIN index /\ index'[i] = index[i - 1])
  BY <1>1, <1>2, <1>4, PushFacts DEF PushIndex, CacheTypeOK
<1>6. NewestFirst'
  <2>1. \A i \in DOMAIN index : index[i] \in Nat /\ index[i] < feed[w] /\ i \in Nat
    <3>1. \A i \in DOMAIN index : index[i] \in Nat /\ i \in Nat
      BY <1>1 DEF CacheTypeOK, FeedIds
    <3>2. \A i \in DOMAIN index : index[i] < nextFeed
      BY DEF EvictionInv, NamesAreDistinct
    <3>3. \A i \in DOMAIN index : index[i] # feed[w]
      BY <1>2 DEF EvictionInv, PushedOnce
    <3> QED BY <3>1, <3>2, <3>3, <1>4
  <2>2. ASSUME NEW i \in DOMAIN index', NEW j \in DOMAIN index', i < j
        PROVE  index'[i] > index'[j]
    <3>1. j - 1 \in DOMAIN index /\ index'[j] = index[j - 1]
      BY <2>2, <1>5
    <3>2. CASE i = 1
      BY <3>1, <3>2, <2>1, <1>4, <1>5 DEF FeedIds
    <3>3. CASE i # 1
      BY <3>1, <3>3, <2>1, <2>2, <1>5 DEF OfferInv, NewestFirst
    <3> QED BY <3>2, <3>3
  <2> QED BY <2>2, <1>2 DEF OfferInv, NewestFirst, Readable
<1>7. OfferIsKept'
  BY <1>2, <1>3, <1>5 DEF OfferInv, OfferIsKept, ActiveReadable, Readable, NamedSteps,
                          ListedSteps, FlippedSteps
<1>8. EpochsInOrder'
  BY <1>2, <1>3 DEF OfferInv, EpochsInOrder, Readable, RecheckedSteps
<1> QED BY <1>6, <1>7, <1>8 DEF OfferInv

LEMMA SidecarFlipOffer ==
  ASSUME OneSlot, Shaped, OfferInv, NEW w \in Workers, WriteSidecar(w) \/ FlipPointer(w)
  PROVE  OfferInv'
<1>1. CacheTypeOK /\ WorkerTypeOK /\ SlotShape
  BY DEF Shaped, TypeOK
<1>2. /\ UNCHANGED <<payload, index, feed, evicted, nextFeed, job>>
      /\ \/ pc[w] = "setSidecar" /\ pc'[w] = "pushIndex" /\ active' = active
         \/ pc[w] = "setActive" /\ pc'[w] = "readEvicted" /\ active' = feed[w]
  BY <1>1 DEF WriteSidecar, SetSidecar, FlipPointer, SetActive, Goto, WorkerTypeOK, queueVars
<1>3. \A v \in Workers : v = w
  BY DEF OneSlot
<1>4. feed[w] \in FeedIds /\ feed[w] = nextFeed - 1 /\ nextFeed \in Nat
  BY <1>1, <1>2 DEF SlotShape, PublishSteps, WorkerTypeOK, OfferInv, NewestFirst
<1>5. NewestFirst'
  BY <1>2, <1>4 DEF OfferInv, NewestFirst, Readable
<1>6. OfferIsKept'
  BY <1>2, <1>3 DEF OfferInv, OfferIsKept, ActiveReadable, Readable, NamedSteps, ListedSteps,
                    FlippedSteps
<1>7. EpochsInOrder'
  BY <1>2, <1>3 DEF OfferInv, EpochsInOrder, Readable, RecheckedSteps
<1> QED BY <1>5, <1>6, <1>7 DEF OfferInv

\* LRANGE, LTRIM and DEL: the generation just offered is at the head of the index.
LEMMA EvictOffer ==
  ASSUME OneSlot, Shaped, EvictionInv, OfferInv, NEW w \in Workers,
         ReadEvicted(w) \/ Trim(w) \/ DeleteEvicted(w)
  PROVE  OfferInv'
<1>1. CacheTypeOK /\ WorkerTypeOK /\ SlotShape
  BY DEF Shaped, TypeOK
<1>2. \A v \in Workers : v = w
  BY DEF OneSlot
<1>3. /\ UNCHANGED <<active, feed, nextFeed, job>>
      /\ pc'[w] \notin RecheckedSteps
  BY <1>1 DEF ReadEvicted, Trim, DeleteEvicted, TrimIndex, DeleteGenerations, ReadOnly,
              Unpublished, Goto, WorkerTypeOK, queueVars, cacheVars, RecheckedSteps
<1> USE DEF NamedSteps, ListedSteps, FlippedSteps
<1>4. CASE ReadEvicted(w)
  <2>1. /\ UNCHANGED <<index, payload>> /\ pc[w] = "readEvicted"
        /\ pc'[w] \in {"trimIndex", "finish"} /\ evicted'[w] = BeyondRetention
    BY <1>1, <1>4 DEF ReadEvicted, ReadOnly, Unpublished, cacheVars, Goto, WorkerTypeOK
  <2>2. feed[w] \notin BeyondRetention
    <3>1. index[1] = feed[w] /\ 1 \in DOMAIN index
      BY <2>1, <1>1 DEF OfferInv, OfferIsKept, CacheTypeOK
    <3> QED BY <3>1, <1>1 DEF BeyondRetention, MAX_RETAINED_GENERATIONS_PER_USER,
                              EvictionInv, NamesAreDistinct, CacheTypeOK
  <2>3. OfferIsKept'
    BY <2>1, <2>2, <1>2, <1>3 DEF OfferInv, OfferIsKept, ActiveReadable, Readable
  <2> QED BY <2>1, <2>3, <1>2, <1>3 DEF OfferInv, NewestFirst, EpochsInOrder, Readable
<1>5. CASE Trim(w)
  <2>1. /\ UNCHANGED <<payload, evicted>> /\ TrimIndex /\ pc[w] = "trimIndex"
        /\ pc'[w] = "deleteEvicted"
    BY <1>1, <1>5 DEF Trim, TrimIndex, Goto, WorkerTypeOK
  <2>2. index[1] = feed[w] /\ index # <<>>
    BY <2>1 DEF OfferInv, OfferIsKept
  <2>3. /\ index' # <<>> /\ index'[1] = index[1]
        /\ \A i \in DOMAIN index' : i \in DOMAIN index /\ index'[i] = index[i]
    BY <2>1, <2>2, <1>1, TrimFacts
       DEF CacheTypeOK, TrimIndex, MAX_RETAINED_GENERATIONS_PER_USER
  <2>4. OfferIsKept'
    BY <2>1, <2>2, <2>3, <1>2, <1>3 DEF OfferInv, OfferIsKept, ActiveReadable, Readable
  <2>5. NewestFirst'
    BY <2>1, <2>3, <1>3 DEF OfferInv, NewestFirst, Readable
  <2> QED BY <2>1, <2>4, <2>5, <1>2, <1>3 DEF OfferInv, EpochsInOrder, Readable
<1>6. CASE DeleteEvicted(w)
  <2>1. /\ UNCHANGED <<index, evicted>> /\ pc[w] = "deleteEvicted" /\ pc'[w] = "finish"
        /\ \A f \in FeedIds : payload'[f] = IF f \in evicted[w] THEN None ELSE payload[f]
    BY <1>1, <1>6 DEF DeleteEvicted, DeleteGenerations, Goto, WorkerTypeOK
  <2>2. active # None => active \in FeedIds /\ active \notin evicted[w]
    BY <2>1, <1>1 DEF OfferInv, OfferIsKept, CacheTypeOK
  <2>3. OfferIsKept'
    BY <2>1, <2>2, <1>2, <1>3 DEF OfferInv, OfferIsKept, ActiveReadable, Readable
  <2>4. \A f \in FeedIds : Readable(f)' => Readable(f) /\ payload'[f] = payload[f]
    BY <2>1 DEF Readable
  <2> QED BY <2>1, <2>3, <2>4, <1>2, <1>3 DEF OfferInv, NewestFirst, EpochsInOrder
<1> QED BY <1>4, <1>5, <1>6

LEMMA ExpiryOffer ==
  ASSUME OneSlot, Shaped, OfferInv, Expiry
  PROVE  OfferInv'
<1>1. CacheTypeOK /\ WorkerTypeOK /\ SlotShape
  BY DEF Shaped, TypeOK
<1>2. UNCHANGED <<pc, feed, evicted, nextFeed, job>>
  BY ExpiryFacts DEF workerVars, queueVars
<1>3. \A f \in FeedIds : Readable(f)' => Readable(f) /\ payload'[f] = payload[f]
  BY ExpiryFacts DEF Readable
<1>4. NewestFirst'
  BY <1>2, <1>3, ExpiryFacts DEF OfferInv, NewestFirst
<1>5. EpochsInOrder'
  BY <1>2, <1>3 DEF OfferInv, EpochsInOrder
<1>6. \A w \in Workers : pc[w] \in NamedSteps => feed[w] \in FeedIds /\ Readable(feed[w])'
  <2>1. \A w \in Workers : feed[w] # None => Publishing(feed[w])
    BY DEF Publishing
  <2>2. ASSUME NEW w \in Workers, pc[w] \in NamedSteps
        PROVE  feed[w] \in FeedIds /\ payload'[feed[w]] = payload[feed[w]]
    BY <2>1, <2>2, <1>1, ExpiryFacts
       DEF SlotShape, PublishSteps, WorkerTypeOK, NamedSteps, ListedSteps, FlippedSteps
  <2> QED BY <1>2, <2>2 DEF OfferInv, OfferIsKept, Readable
<1>7. \A w \in Workers : pc[w] \in ListedSteps => index' = index
  <2>1. ASSUME NEW w \in Workers, pc[w] \in ListedSteps PROVE index' = index
    <3>1. 1 \in DOMAIN index /\ Readable(index[1])
      BY <2>1, <1>1 DEF OfferInv, OfferIsKept, CacheTypeOK, NamedSteps
    <3> QED BY <3>1, ExpiryFacts
  <2> QED BY <2>1
<1>8. ActiveReadable'
  BY <1>1, ExpiryFacts DEF OfferInv, OfferIsKept, ActiveReadable, Readable, CacheTypeOK
<1>9. OfferIsKept'
  BY <1>2, <1>6, <1>7, <1>8, ExpiryFacts DEF OfferInv, OfferIsKept
<1> QED BY <1>4, <1>5, <1>9 DEF OfferInv

LEMMA OfferStep ==
  ASSUME OneSlot
  PROVE  Shaped /\ EpochInv /\ EvictionInv /\ OfferInv /\ [Next]_vars => OfferInv'
<1> SUFFICES ASSUME Shaped, EpochInv, EvictionInv, OfferInv, [Next]_vars PROVE OfferInv'
  OBVIOUS
<1>1. CASE \E w \in Workers : SlotActs(w)
  BY <1>1, QuietOffer, WritePayloadOffer, RegisterOffer, SidecarFlipOffer, EvictOffer
     DEF SlotActs
<1>2. CASE UNCHANGED <<workerVars, job, payload, index>> /\ active' \in {active, None}
  BY <1>2 DEF OfferInv, NewestFirst, OfferIsKept, ActiveReadable, EpochsInOrder, Readable,
              workerVars
<1>3. UNCHANGED feedVars => <1>2!1
  BY DEF feedVars, cacheVars
<1>4. Invalidate /\ UNCHANGED <<workerVars, job>> => <1>2!1
  BY DEF Invalidate
<1> QED BY <1>1, <1>2, <1>3, <1>4, StepCases, ExpiryOffer

\* The invariants this far, of a specification with one slot.
LEMMA OneSlotInvariant ==
  ASSUME OneSlot
  PROVE  Spec => [](Shaped /\ EpochInv /\ EvictionInv /\ OfferInv)
<1>1. Init => EpochInv /\ EvictionInv /\ OfferInv
  BY EpochInvInit, EvictionInit, OfferInit
<1>2. Shaped /\ EpochInv /\ EvictionInv /\ OfferInv /\ [Next]_vars
        => EpochInv' /\ EvictionInv' /\ OfferInv'
  BY EpochInvStep, EvictionStep, OfferStep
<1> QED BY <1>1, <1>2, ShapeInvariant, PTL DEF Spec

(***************************************************************************)
(* With one slot no reader is ever pointed at a missing generation,        *)
(* whatever command fails, is retried, or expires in between.              *)
(***************************************************************************)
THEOREM OfferIsReadable ==
  ASSUME OneSlot
  PROVE  Spec => []ActiveReadable
<1>1. OfferInv => ActiveReadable
  BY DEF OfferInv, OfferIsKept
<1> QED BY <1>1, OneSlotInvariant, PTL

(***************************************************************************)
(* With one slot the index never lists a newer generation that was built   *)
(* for an older state than one behind it.                                  *)
(***************************************************************************)
THEOREM IndexIsNewestFirst ==
  ASSUME OneSlot
  PROVE  Spec => []IndexNewestFirst
<1>1. Shaped /\ OfferInv => IndexNewestFirst
  <2> SUFFICES ASSUME Shaped, OfferInv, NEW i \in DOMAIN index, NEW j \in DOMAIN index,
                      i < j, Readable(index[i]), Readable(index[j])
               PROVE  payload[index[i]].epoch >= payload[index[j]].epoch
    BY DEF IndexNewestFirst
  <2>1. index[i] \in FeedIds /\ index[j] \in FeedIds /\ index[j] < index[i]
    BY DEF Shaped, TypeOK, CacheTypeOK, OfferInv, NewestFirst, FeedIds
  <2>2. payload[index[j]].epoch <= payload[index[i]].epoch
    BY <2>1 DEF OfferInv, EpochsInOrder
  <2>3. payload[index[i]].epoch \in Nat /\ payload[index[j]].epoch \in Nat
    BY <2>1 DEF Shaped, TypeOK, CacheTypeOK, Readable, Generation
  <2> QED BY <2>2, <2>3
<1> QED BY <1>1, OneSlotInvariant, PTL

\* A generation is written once: later it is what it was, or it is gone.
LEMMA SameOrGone ==
  ASSUME Shaped, OfferInv, [Next]_vars, NEW f \in FeedIds, Readable(f), Readable(f)'
  PROVE  payload'[f] = payload[f]
<1>1. CacheTypeOK /\ WorkerTypeOK
  BY DEF Shaped, TypeOK
<1>2. ASSUME NEW w \in Workers, SlotActs(w) PROVE payload'[f] = payload[f]
  <2>1. CASE WritePayload(w)
    <3>1. f # nextFeed
      BY <1>1 DEF OfferInv, NewestFirst, WorkerTypeOK, FeedIds
    <3> QED BY <2>1, <3>1, <1>1 DEF WritePayload, SetPayload, CacheTypeOK
  <2>2. CASE DeleteEvicted(w)
    BY <2>2 DEF DeleteEvicted, DeleteGenerations, Readable
  <2> QED BY <2>1, <2>2, <1>2, QuietActs
          DEF SlotActs, WriteSidecar, Register, FlipPointer, ReadEvicted, Trim,
              SetSidecar, PushIndex, SetActive, TrimIndex, ReadOnly, Unpublished,
              cacheVars
<1> QED BY <1>2, StepCases, ExpiryFacts DEF Invalidate, feedVars, cacheVars, Readable

\* The pointer is cleared, or moved by the slot that publishes.
LEMMA PointerMoves ==
  ASSUME Shaped, [Next]_vars
  PROVE  \/ active' \in {active, None}
         \/ \E w \in Workers : FlipPointer(w)
<1>1. ASSUME NEW w \in Workers, SlotActs(w)
      PROVE  active' \in {active, None} \/ FlipPointer(w)
  BY <1>1, QuietActs DEF SlotActs, WritePayload, WriteSidecar, Register, ReadEvicted,
                         Trim, DeleteEvicted, SetPayload, SetSidecar, PushIndex,
                         TrimIndex, DeleteGenerations, ReadOnly, Unpublished, cacheVars
<1> QED BY <1>1, StepCases, ExpiryFacts DEF Invalidate, feedVars, cacheVars

(***************************************************************************)
(* With one slot a slow build never overwrites a fresher feed: the         *)
(* comparison worker.ts does not make at the moment it moves the pointer   *)
(* is implied by the two checks it made before.                            *)
(***************************************************************************)
THEOREM PointerNeverGoesBack ==
  ASSUME OneSlot
  PROVE  Spec => NeverOverwritesFresher
<1>1. ASSUME Shaped, OfferInv, [Next]_vars, Readable(active), Readable(active)'
      PROVE  payload'[active'].epoch >= payload[active].epoch
  <2>1. active \in FeedIds /\ payload[active] # None
    BY <1>1 DEF Readable
  <2>2. payload[active].epoch \in Nat
    BY <1>1, <2>1 DEF Shaped, TypeOK, CacheTypeOK, Generation
  <2>3. ASSUME NEW w \in Workers, FlipPointer(w)
        PROVE  payload'[active'].epoch >= payload[active].epoch
    <3>1. /\ active' = feed[w] /\ payload' = payload /\ pc[w] = "setActive"
      BY <2>3 DEF FlipPointer, SetActive, Goto
    <3>2. feed[w] = nextFeed - 1 /\ active < nextFeed /\ nextFeed \in Nat /\ active \in Nat
      BY <1>1, <2>1, <3>1 DEF OfferInv, NewestFirst, Shaped, SlotShape, PublishSteps, TypeOK,
                              WorkerTypeOK, FeedIds
    <3>3. feed[w] \in FeedIds /\ Readable(feed[w])
      BY <1>1, <3>1 DEF Readable
    <3>4. active = feed[w] \/ active < feed[w]
      BY <3>2
    <3>5. payload[active].epoch <= payload[feed[w]].epoch
      BY <1>1, <2>1, <2>2, <3>3, <3>4 DEF OfferInv, EpochsInOrder, Readable
    <3>6. payload[feed[w]].epoch \in Nat
      BY <1>1, <3>3 DEF Shaped, TypeOK, CacheTypeOK, Generation, Readable
    <3> QED BY <3>1, <3>5, <3>6, <2>2
  <2>4. CASE active' \in {active, None}
    <3>1. active' = active
      BY <2>4, <1>1 DEF Readable
    <3>2. payload'[active] = payload[active]
      BY <3>1, <1>1, <2>1, SameOrGone
    <3> QED BY <3>1, <3>2, <2>2
  <2> QED BY <2>3, <2>4, <1>1, PointerMoves
<1>2. Shaped /\ OfferInv /\ [Next]_vars
        => [Readable(active) /\ Readable(active)'
              => payload'[active'].epoch >= payload[active].epoch]_vars
  BY <1>1
<1> QED BY <1>2, OneSlotInvariant, PTL DEF Spec, NeverOverwritesFresher

-----------------------------------------------------------------------------
(***************************************************************************)
(* The refinement, step by step: WritePayload is Add, FlipPointer is       *)
(* Offer, an invalidation is Change, DEL and an expired payload are Drop,  *)
(* an expired pointer is Withdraw, and nothing else shows.                 *)
(***************************************************************************)
heldFeeds == {f \in FeedIds : Readable(f)}

LEMMA InitPromised == Init => Promise!Init
  BY DEF Init, CacheInit, WorkerInit, Promise!Init, Readable

LEMMA SlotPromised ==
  ASSUME OneSlot, Shaped, OfferInv, NEW w \in Workers, SlotActs(w)
  PROVE  [Promise!Next]_Promise!promiseVars
<1>1. CacheTypeOK /\ WorkerTypeOK /\ SlotShape
  BY DEF Shaped, TypeOK
<1>2. CASE UNCHANGED <<epoch, active, payload, nextFeed>>
  BY <1>2 DEF Promise!promiseVars, Readable
<1>3. CASE WritePayload(w)
  <2>1. /\ UNCHANGED <<epoch, active>> /\ nextFeed' = nextFeed + 1
        /\ nextFeed \in FeedIds /\ nextFeed \in Nat
    BY <1>1, <1>3 DEF WritePayload, SetPayload, WorkerTypeOK, FeedIds
  <2>2. heldFeeds' = heldFeeds \cup {nextFeed}
    BY <1>3, WritePayloadOffer DEF heldFeeds
  <2>3. /\ nextFeed \notin 1 .. nextFeed - 1
        /\ 1 .. nextFeed' - 1 = (1 .. nextFeed - 1) \cup {nextFeed}
    BY <2>1 DEF FeedIds
  <2>4. Promise!Add(nextFeed)
    BY <2>1, <2>2, <2>3 DEF Promise!Add, heldFeeds
  <2> QED BY <2>1, <2>4 DEF Promise!Next
<1>4. CASE FlipPointer(w)
  <2>1. /\ UNCHANGED <<epoch, payload, nextFeed>> /\ active' = feed[w]
        /\ pc[w] = "setActive"
    BY <1>4 DEF FlipPointer, SetActive, Goto
  <2>2. feed[w] = nextFeed - 1 /\ feed[w] \in FeedIds /\ Readable(feed[w])
    BY <2>1, <1>1 DEF SlotShape, PublishSteps, WorkerTypeOK, OfferInv, NewestFirst,
                      OfferIsKept, NamedSteps, ListedSteps
  <2>3. \A g \in 1 .. nextFeed - 1 : g <= feed[w]
    BY <2>2
  <2>4. Promise!Offer(feed[w])
    BY <2>1, <2>2, <2>3 DEF Promise!Offer, Readable
  <2> QED BY <2>2, <2>4 DEF Promise!Next
<1>5. CASE DeleteEvicted(w)
  <2>1. /\ UNCHANGED <<epoch, active, nextFeed>> /\ pc[w] = "deleteEvicted"
        /\ \A f \in FeedIds : payload'[f] = IF f \in evicted[w] THEN None ELSE payload[f]
    BY <1>5 DEF DeleteEvicted, DeleteGenerations, Goto
  <2>2. active \notin evicted[w]
    BY <2>1, <1>1 DEF OfferInv, OfferIsKept, FlippedSteps, WorkerTypeOK
  <2>3. heldFeeds' = heldFeeds \ (evicted[w] \cap heldFeeds)
    BY <2>1 DEF heldFeeds, Readable
  <2>4. Promise!Drop(evicted[w] \cap heldFeeds)
    BY <2>1, <2>2, <2>3 DEF Promise!Drop, heldFeeds
  <2>5. evicted[w] \cap heldFeeds \in SUBSET {f \in FeedIds : Readable(f)}
    BY DEF heldFeeds
  <2> QED BY <2>4, <2>5 DEF Promise!Next
<1> QED BY <1>2, <1>3, <1>4, <1>5, QuietActs
        DEF SlotActs, WriteSidecar, Register, ReadEvicted, Trim, SetSidecar, PushIndex,
            TrimIndex, ReadOnly, Unpublished, cacheVars

LEMMA ExpiryPromised ==
  ASSUME Shaped, Expiry
  PROVE  [Promise!Next]_Promise!promiseVars
<1>1. CacheTypeOK /\ UNCHANGED nextFeed
  BY DEF Shaped, TypeOK, Expiry, workerVars
<1>2. CASE ExpireActive
  <2>1. Promise!Withdraw
    BY <1>1, <1>2 DEF ExpireActive, Promise!Withdraw, Readable
  <2> QED BY <2>1 DEF Promise!Next
<1>3. ASSUME NEW f \in FeedIds, ExpirePayload(f) PROVE Promise!Next
  <2>1. /\ UNCHANGED <<epoch, active>> /\ active # f /\ Readable(f)
        /\ \A g \in FeedIds : payload'[g] = IF g = f THEN None ELSE payload[g]
    BY <1>1, <1>3 DEF ExpirePayload, CacheTypeOK
  <2>2. heldFeeds' = heldFeeds \ {f}
    BY <2>1 DEF heldFeeds, Readable
  <2>3. Promise!Drop({f})
    BY <1>1, <2>1, <2>2 DEF Promise!Drop, heldFeeds
  <2> QED BY <2>1, <2>3 DEF Promise!Next
<1>4. CASE (\E f \in FeedIds : ExpireSidecar(f)) \/ ExpireIndex
  BY <1>1, <1>4 DEF ExpireSidecar, ExpireIndex, Promise!promiseVars, Readable
<1> QED BY <1>2, <1>3, <1>4 DEF Expiry

LEMMA StepPromised ==
  ASSUME OneSlot, Shaped, OfferInv, [Next]_vars
  PROVE  [Promise!Next]_Promise!promiseVars
<1>1. CASE Invalidate /\ UNCHANGED <<workerVars, job>>
  <2>1. Promise!Change
    BY <1>1 DEF Invalidate, workerVars, Promise!Change, Readable
  <2> QED BY <2>1 DEF Promise!Next
<1>2. CASE UNCHANGED feedVars
  BY <1>2 DEF feedVars, cacheVars, workerVars, Promise!promiseVars, Readable
<1> QED BY <1>1, <1>2, StepCases, SlotPromised, ExpiryPromised

(***************************************************************************)
(* With one slot the feed cache implements FeedPromise: seven commands of  *)
(* Redis without a transaction, interrupted, retried and expiring at will, *)
(* look to every session like generations offered one at a time, newest    *)
(* last, and never dropped while on offer.                                 *)
(***************************************************************************)
THEOREM ServingKeepsPromise ==
  ASSUME OneSlot
  PROVE  Spec => KeepsPromise
<1>1. Shaped /\ OfferInv /\ [Next]_vars => [Promise!Next]_Promise!promiseVars
  BY StepPromised
<1> QED BY <1>1, InitPromised, OneSlotInvariant, PTL DEF Spec, KeepsPromise, Promise!Spec

-----------------------------------------------------------------------------
(***************************************************************************)
(* What holds as long as no build dies half way: one that does may leave a *)
(* stored payload that no index lists, or an entry nobody was offered.     *)
(***************************************************************************)
NoFaults == faults = 0
NoExpiries == expiries = 0

LEMMA CountersGrow ==
  ASSUME Shaped, [Next]_vars
  PROVE  /\ NoFaults' => NoFaults /\ ~Fault
         /\ NoExpiries' => NoExpiries /\ ~Expiry
<1>1. faults \in Nat /\ expiries \in Nat
  BY DEF Shaped, TypeOK
<1>2. CASE Fault
  BY <1>1, <1>2 DEF Fault, Expiry, NoFaults, NoExpiries
<1>3. CASE Expiry
  BY <1>1, <1>3 DEF Expiry, Fault, NoFaults, NoExpiries
<1>4. CASE UNCHANGED boundVars /\ ~Fault /\ ~Expiry
  BY <1>4 DEF boundVars, NoFaults, NoExpiries
<1>5. UNCHANGED boundVars => ~Fault /\ ~Expiry
  BY <1>1 DEF boundVars, Fault, Expiry
<1> QED BY <1>2, <1>3, <1>4, <1>5 DEF Next, WorkerStep, ApiStep, vars

\* The steps a slot takes by itself.
LEMMA HealthyCases ==
  ASSUME Shaped, [Next]_vars, NoFaults'
  PROVE  \/ \E w \in Workers : TakeJob(w) \/ Build(w) \/ Publish(w) \/ FinishJob(w)
         \/ Invalidate /\ UNCHANGED <<workerVars, job>>
         \/ Expiry
         \/ UNCHANGED feedVars
<1>1. ~Fault
  BY CountersGrow
<1>2. ASSUME NEW e \in Events, PostInteraction(e), UNCHANGED workerVars
      PROVE  (Invalidate \/ UNCHANGED cacheVars) /\ UNCHANGED <<workerVars, job>>
  BY <1>2 DEF PostInteraction, HandlePost, RecordInteraction, LoadHistory,
              PersistProfile, InvalidateFeed, EnqueueInvalidation, Resend, Enqueue,
              queueVars
<1>3. ASSUME NEW r \in Readers, GetFeed(r), UNCHANGED workerVars
      PROVE  UNCHANGED feedVars
  BY <1>3 DEF GetFeed, OpenSession, ReadActiveGeneration, ContinueSession, ReadEpoch,
              EnqueueMiss, EnqueueRefill, Enqueue, queueVars, feedVars
<1>4. CASE UNCHANGED vars
  BY <1>4 DEF vars, feedVars, queueVars
<1> QED BY <1>1, <1>2, <1>3, <1>4 DEF Next, WorkerStep, BuildFeed, ApiStep, feedVars

\* A slot that is not publishing has nothing named, before and after.
LEMMA QuietSteps ==
  ASSUME OneSlot, Shaped, NEW w \in Workers, TakeJob(w) \/ Build(w) \/ FinishJob(w)
  PROVE  \A v \in Workers : pc[v] \notin NamedSteps /\ pc'[v] \notin NamedSteps
<1>1. \A v \in Workers : v = w
  BY DEF OneSlot
<1>2. pc'[w] \notin NamedSteps
  BY QuietActs DEF PublishSteps, NamedSteps, ListedSteps, FlippedSteps
<1>3. pc[w] \notin NamedSteps
  BY DEF TakeJob, Build, CheckEpoch, PeekActive, PeekGeneration, GetUserProfile,
         LoadMissing, PersistMissing, Rank, FinishJob, Goto, NamedSteps, ListedSteps,
         FlippedSteps
<1> QED BY <1>1, <1>2, <1>3

(***************************************************************************)
(* Nothing readable is out of sight of the next trim, and the index is one *)
(* entry too long only while a publication has not trimmed it.             *)
(***************************************************************************)
ReadableIsListed ==
  \A f \in FeedIds : Readable(f) =>
    \/ \E i \in DOMAIN index : index[i] = f
    \/ \E w \in Workers : pc[w] \in {"setSidecar", "pushIndex"} /\ feed[w] = f
    \/ \E w \in Workers : pc[w] = "deleteEvicted" /\ f \in evicted[w]

IndexIsShort ==
  /\ Len(index) <= MAX_RETAINED_GENERATIONS_PER_USER + 1
  /\ Len(index) > MAX_RETAINED_GENERATIONS_PER_USER
       => \E w \in Workers : pc[w] \in {"setActive", "readEvicted", "trimIndex"}
  /\ \A w \in Workers :
       /\ pc[w] = "trimIndex" => evicted[w] = BeyondRetention
       /\ pc[w] = "deleteEvicted" => \E f \in FeedIds : evicted[w] \subseteq {f}

RetentionInv == ReadableIsListed /\ IndexIsShort

LEMMA RetentionInit == Init => RetentionInv
  BY DEF Init, CacheInit, WorkerInit, RetentionInv, ReadableIsListed, IndexIsShort, Readable,
         MAX_RETAINED_GENERATIONS_PER_USER

LEMMA PublishRetention ==
  ASSUME OneSlot, Shaped, OfferInv, RetentionInv, NEW w \in Workers, Publish(w)
  PROVE  RetentionInv'
<1>1. CacheTypeOK /\ WorkerTypeOK /\ SlotShape
  BY DEF Shaped, TypeOK
<1>2. \A v \in Workers : v = w
  BY DEF OneSlot
<1> USE DEF RetentionInv, ReadableIsListed, IndexIsShort, MAX_RETAINED_GENERATIONS_PER_USER
<1>3. CASE WritePayload(w)
  <2>1. /\ UNCHANGED index /\ pc[w] = "setPayload" /\ feed'[w] = nextFeed
        /\ pc'[w] \in {"setSidecar", "pushIndex"}
    BY <1>1, <1>3 DEF WritePayload, SetPayload, Goto, WorkerTypeOK
  <2>2. \A f \in FeedIds : Readable(f)' => Readable(f) \/ f = nextFeed
    BY <1>1, <1>3 DEF WritePayload, SetPayload, Readable, CacheTypeOK
  <2> QED BY <2>1, <2>2, <1>2
<1>4. CASE WriteSidecar(w)
  <2>1. /\ UNCHANGED <<index, payload, feed, evicted>>
        /\ pc[w] = "setSidecar" /\ pc'[w] = "pushIndex"
    BY <1>1, <1>4 DEF WriteSidecar, SetSidecar, Goto, WorkerTypeOK
  <2> QED BY <2>1, <1>2 DEF Readable
<1>5. CASE Register(w)
  <2>1. /\ UNCHANGED <<payload, feed, evicted>> /\ PushIndex(feed[w])
        /\ pc[w] = "pushIndex" /\ pc'[w] = "setActive"
    BY <1>1, <1>5 DEF Register, PushIndex, Goto, WorkerTypeOK
  <2>2. feed[w] \in FeedIds
    BY <2>1, <1>1 DEF SlotShape, PublishSteps, WorkerTypeOK
  <2>3. /\ Len(index') = Len(index) + 1 /\ index'[1] = feed[w] /\ 1 \in DOMAIN index'
        /\ \A i \in DOMAIN index : i + 1 \in DOMAIN index' /\ index'[i + 1] = index[i]
    BY <2>1, <2>2, <1>1, PushFacts DEF PushIndex, CacheTypeOK
  <2>4. Len(index) <= 2 /\ Len(index) \in Nat
    BY <2>1, <1>1, <1>2 DEF CacheTypeOK
  <2>5. IndexIsShort'
    BY <2>1, <2>3, <2>4, <1>2
  <2>6. ReadableIsListed'
    BY <2>1, <2>3, <1>2 DEF Readable
  <2> QED BY <2>5, <2>6
<1>6. CASE FlipPointer(w)
  <2>1. /\ UNCHANGED <<index, payload, feed, evicted>>
        /\ pc[w] = "setActive" /\ pc'[w] = "readEvicted"
    BY <1>1, <1>6 DEF FlipPointer, SetActive, Goto, WorkerTypeOK
  <2> QED BY <2>1, <1>2 DEF Readable
<1>7. CASE ReadEvicted(w)
  <2>1. /\ UNCHANGED <<index, payload, feed>> /\ evicted'[w] = BeyondRetention
        /\ pc[w] = "readEvicted"
        /\ pc'[w] = IF BeyondRetention = {} THEN "finish" ELSE "trimIndex"
    BY <1>1, <1>7 DEF ReadEvicted, ReadOnly, Unpublished, cacheVars, Goto, WorkerTypeOK
  <2>2. BeyondRetention' = BeyondRetention
    BY <2>1 DEF BeyondRetention
  <2>3. Len(index) > 2 => BeyondRetention # {}
    BY <1>1 DEF BeyondRetention, CacheTypeOK
  <2> QED BY <2>1, <2>2, <2>3, <1>2 DEF Readable
<1>8. CASE Trim(w)
  <2>1. /\ UNCHANGED <<payload, feed, evicted>> /\ TrimIndex
        /\ pc[w] = "trimIndex" /\ pc'[w] = "deleteEvicted"
    BY <1>1, <1>8 DEF Trim, TrimIndex, Goto, WorkerTypeOK
  <2>2. evicted[w] = BeyondRetention
    BY <2>1
  <2>3. /\ Len(index') <= 2 /\ Len(index') \in Nat
        /\ Len(index') = Len(index) \/ Len(index') = 2
        /\ \A i \in DOMAIN index' : i \in DOMAIN index /\ index'[i] = index[i]
    BY <2>1, <1>1, TrimFacts DEF TrimIndex, CacheTypeOK
  <2>4. \A i \in DOMAIN index : index[i] \in evicted[w] \/ i \in DOMAIN index'
    BY <2>2, <2>3, <1>1 DEF BeyondRetention, CacheTypeOK
  <2>5. \E f \in FeedIds : evicted[w] \subseteq {f}
    <3>1. evicted[w] \subseteq {index[3]}
      BY <2>2, <1>1 DEF BeyondRetention, CacheTypeOK
    <3>2. CASE evicted[w] = {}
      <4>1. FeedIds # {}
        BY <2>1, <1>1 DEF SlotShape, PublishSteps, WorkerTypeOK
      <4> QED BY <3>2, <4>1
    <3>3. CASE evicted[w] # {}
      BY <3>1, <3>3, <1>1 DEF WorkerTypeOK
    <3> QED BY <3>2, <3>3
  <2>6. IndexIsShort'
    BY <2>1, <2>3, <2>5, <1>2
  <2>7. ReadableIsListed'
    BY <2>1, <2>3, <2>4, <1>2 DEF Readable
  <2> QED BY <2>6, <2>7
<1>9. CASE DeleteEvicted(w)
  <2>1. /\ UNCHANGED <<index, evicted>> /\ pc[w] = "deleteEvicted" /\ pc'[w] = "finish"
        /\ \A f \in FeedIds : payload'[f] = IF f \in evicted[w] THEN None ELSE payload[f]
    BY <1>1, <1>9 DEF DeleteEvicted, DeleteGenerations, Goto, WorkerTypeOK
  <2>2. \A f \in FeedIds : Readable(f)' => Readable(f) /\ f \notin evicted[w]
    BY <2>1 DEF Readable
  <2> QED BY <2>1, <2>2, <1>2
<1> QED BY <1>3, <1>4, <1>5, <1>6, <1>7, <1>8, <1>9 DEF Publish

LEMMA ExpiryRetention ==
  ASSUME OneSlot, Shaped, RetentionInv, Expiry, OfferInv
  PROVE  RetentionInv'
<1>1. CacheTypeOK /\ UNCHANGED <<pc, feed, evicted>>
  BY ExpiryFacts DEF Shaped, TypeOK, workerVars
<1>2. \A f \in FeedIds : Readable(f)' => Readable(f)
  BY ExpiryFacts DEF Readable
<1>3. CASE index' = index
  BY <1>1, <1>2, <1>3 DEF RetentionInv, ReadableIsListed, IndexIsShort, BeyondRetention
<1>4. CASE index' = <<>> /\ \A i \in DOMAIN index : ~Readable(index[i])
  <2>1. \A w \in Workers : pc[w] \notin ListedSteps
    BY <1>1, <1>4 DEF OfferInv, OfferIsKept, NamedSteps, CacheTypeOK
  <2> QED BY <1>1, <1>2, <1>4, <2>1
          DEF RetentionInv, ReadableIsListed, IndexIsShort, ListedSteps, FlippedSteps,
              MAX_RETAINED_GENERATIONS_PER_USER
<1> QED BY <1>3, <1>4, ExpiryFacts

LEMMA RetentionStep ==
  ASSUME OneSlot
  PROVE  Shaped /\ OfferInv /\ (NoFaults => RetentionInv) /\ [Next]_vars
           => (NoFaults => RetentionInv)'
<1> SUFFICES ASSUME Shaped, OfferInv, NoFaults => RetentionInv, [Next]_vars, NoFaults'
             PROVE  RetentionInv'
  OBVIOUS
<1>0. RetentionInv
  BY CountersGrow
<1> USE <1>0
<1>1. ASSUME NEW w \in Workers, TakeJob(w) \/ Build(w) \/ FinishJob(w)
      PROVE  RetentionInv'
  BY <1>1, QuietActs, QuietSteps
     DEF RetentionInv, ReadableIsListed, IndexIsShort, Readable, cacheVars, NamedSteps,
         ListedSteps, FlippedSteps
<1>2. CASE UNCHANGED <<workerVars, payload, index>>
  BY <1>2 DEF RetentionInv, ReadableIsListed, IndexIsShort, Readable, BeyondRetention,
              workerVars
<1>3. UNCHANGED feedVars => <1>2!1
  BY DEF feedVars, cacheVars
<1> QED BY <1>1, <1>2, <1>3, HealthyCases, PublishRetention, ExpiryRetention DEF Invalidate

\* As many elements as the set has names.
LEMMA NamedElements ==
  ASSUME NEW a, NEW b, NEW c, NEW S
  PROVE  /\ S \subseteq {a, b} => Cardinality(S) \in Nat /\ Cardinality(S) <= 2
         /\ S \subseteq {a, b, c} => Cardinality(S) \in Nat /\ Cardinality(S) <= 3
         /\ Cardinality({a}) = 1 /\ Cardinality({}) = 0
<1>1. IsFiniteSet({}) /\ Cardinality({}) = 0
  BY FS_EmptySet
<1>2. IsFiniteSet({a}) /\ Cardinality({a}) = 1
  BY FS_Singleton
<1>3. ASSUME NEW T, NEW x, IsFiniteSet(T)
      PROVE  /\ IsFiniteSet(T \cup {x})
             /\ Cardinality(T) \in Nat /\ Cardinality(T \cup {x}) \in Nat
             /\ Cardinality(T \cup {x}) <= Cardinality(T) + 1
  <2>1. Cardinality(T) \in Nat
    BY <1>3, FS_CardinalityType
  <2>2. /\ IsFiniteSet(T \cup {x})
        /\ Cardinality(T \cup {x}) = IF x \in T THEN Cardinality(T) ELSE Cardinality(T) + 1
    BY <1>3, FS_AddElement
  <2> QED BY <2>1, <2>2
<1>4. IsFiniteSet({a, b}) /\ Cardinality({a, b}) <= 2 /\ Cardinality({a, b}) \in Nat
  <2>1. {a} \cup {b} = {a, b}
    OBVIOUS
  <2>2. /\ IsFiniteSet({a, b}) /\ Cardinality({a, b}) \in Nat
        /\ Cardinality({a, b}) <= Cardinality({a}) + 1
    <3>1. /\ IsFiniteSet({a} \cup {b}) /\ Cardinality({a} \cup {b}) \in Nat
          /\ Cardinality({a} \cup {b}) <= Cardinality({a}) + 1
      BY <1>2, <1>3
    <3> QED BY <3>1, <2>1
  <2> QED BY <1>2, <2>2
<1>5. /\ IsFiniteSet({a, b, c}) /\ Cardinality({a, b, c}) <= 3
      /\ Cardinality({a, b, c}) \in Nat
  <2>1. {a, b} \cup {c} = {a, b, c}
    OBVIOUS
  <2>2. /\ IsFiniteSet({a, b, c}) /\ Cardinality({a, b, c}) \in Nat
        /\ Cardinality({a, b, c}) <= Cardinality({a, b}) + 1
    <3>1. /\ IsFiniteSet({a, b} \cup {c}) /\ Cardinality({a, b} \cup {c}) \in Nat
          /\ Cardinality({a, b} \cup {c}) <= Cardinality({a, b}) + 1
      BY <1>4, <1>3
    <3> QED BY <3>1, <2>1
  <2> QED BY <1>4, <2>2
<1>6. ASSUME S \subseteq {a, b} PROVE Cardinality(S) \in Nat /\ Cardinality(S) <= 2
  BY <1>4, <1>6, FS_Subset, FS_CardinalityType
<1>7. ASSUME S \subseteq {a, b, c} PROVE Cardinality(S) \in Nat /\ Cardinality(S) <= 3
  BY <1>5, <1>7, FS_Subset, FS_CardinalityType
<1> QED BY <1>1, <1>2, <1>6, <1>7

(***************************************************************************)
(* With one slot, until something fails, at most two generations are       *)
(* stored for a user, three while one is being published, however keys     *)
(* expire.                                                                 *)
(***************************************************************************)
THEOREM RetentionIsBounded ==
  ASSUME OneSlot
  PROVE  Spec => []RetentionBound
<1>1. Init => (NoFaults => RetentionInv)
  BY RetentionInit
<1>2. Shaped /\ OfferInv /\ (NoFaults => RetentionInv) /\ [Next]_vars
        => (NoFaults => RetentionInv)'
  BY RetentionStep
<1>3. Shaped /\ (NoFaults => RetentionInv) => RetentionBound
  <2> SUFFICES ASSUME Shaped, NoFaults, RetentionInv PROVE RetentionBound
    BY DEF RetentionBound, NoFaults
  <2> DEFINE publishing == {w \in Workers : feed[w] # None}
  <2>1. CacheTypeOK /\ WorkerTypeOK /\ SlotShape
    BY DEF Shaped, TypeOK
  <2> USE DEF MAX_RETAINED_GENERATIONS_PER_USER
  <2>2. CASE publishing = {}
    <3>1. \A w \in Workers : pc[w] \notin NamedSteps
      BY <2>1, <2>2 DEF SlotShape, PublishSteps, NamedSteps, ListedSteps, FlippedSteps
    <3>2. Len(index) <= 2
      BY <3>1, <2>1
         DEF RetentionInv, IndexIsShort, NamedSteps, ListedSteps, FlippedSteps, CacheTypeOK
    <3>3. \A i \in DOMAIN index : index[i] \in {index[1], index[2]}
      BY <3>2, <2>1 DEF CacheTypeOK
    <3>4. heldFeeds \subseteq {index[1], index[2]}
      BY <3>1, <3>3 DEF RetentionInv, ReadableIsListed, NamedSteps, ListedSteps,
                        FlippedSteps, heldFeeds
    <3>5. Cardinality(heldFeeds) <= 2 /\ Cardinality(publishing) = 0
      BY <3>4, <2>2, NamedElements
    <3> QED BY <3>5 DEF RetentionBound, heldFeeds
  <2>3. CASE publishing # {}
    <3>1. PICK w \in Workers : publishing = {w}
      BY <2>3 DEF OneSlot
    <3>2. \A v \in Workers : v = w
      BY DEF OneSlot
    <3>3. \E c : heldFeeds \subseteq {index[1], index[2], c}
      <4>1. CASE Len(index) <= 2
        <5>1. \A i \in DOMAIN index : index[i] \in {index[1], index[2]}
          BY <4>1, <2>1 DEF CacheTypeOK
        <5>2. CASE pc[w] = "deleteEvicted"
          <6>1. PICK f \in FeedIds : evicted[w] \subseteq {f}
            BY <5>2 DEF RetentionInv, IndexIsShort
          <6>2. heldFeeds \subseteq {index[1], index[2], f}
            BY <5>1, <5>2, <6>1, <3>2 DEF RetentionInv, ReadableIsListed, heldFeeds
          <6> QED BY <6>2
        <5>3. CASE pc[w] # "deleteEvicted"
          <6>1. heldFeeds \subseteq {index[1], index[2], feed[w]}
            BY <5>1, <5>3, <3>2 DEF RetentionInv, ReadableIsListed, heldFeeds
          <6> QED BY <6>1
        <5> QED BY <5>2, <5>3
      <4>2. CASE Len(index) > 2
        <5>a. Len(index) \in Nat /\ Len(index) <= 3
          BY <2>1 DEF RetentionInv, IndexIsShort, CacheTypeOK
        <5>b. pc[w] \in {"setActive", "readEvicted", "trimIndex"}
          BY <4>2, <3>2 DEF RetentionInv, IndexIsShort
        <5>1. Len(index) = 3
          <6>1. \A n \in Nat : n <= 3 /\ n > 2 => n = 3
            OBVIOUS
          <6> QED BY <6>1, <5>a, <4>2
        <5>2. \A i \in DOMAIN index : index[i] \in {index[1], index[2], index[3]}
          BY <5>1, <2>1 DEF CacheTypeOK
        <5>3. heldFeeds \subseteq {index[1], index[2], index[3]}
          BY <5>b, <5>2, <3>2 DEF RetentionInv, ReadableIsListed, heldFeeds
        <5> QED BY <5>3
      <4> QED BY <4>1, <4>2, <2>1 DEF CacheTypeOK
    <3>4. Cardinality(heldFeeds) <= 3 /\ Cardinality(publishing) = 1
      BY <3>1, <3>3, NamedElements
    <3> QED BY <3>4 DEF RetentionBound, heldFeeds
  <2> QED BY <2>2, <2>3
<1> QED BY <1>1, <1>2, <1>3, OneSlotInvariant, PTL DEF Spec

(***************************************************************************)
(* The two newest entries of the index are the two generations new         *)
(* sessions were sent to last, behind the one that is about to be offered. *)
(***************************************************************************)
ShownIsListed ==
  /\ \A i \in DOMAIN index : Readable(index[i])
  /\ \A k \in {0, 1} : k < Len(shown) =>
       /\ (\A w \in Workers : pc[w] # "setActive") =>
            k + 1 \in DOMAIN index /\ index[k + 1] = shown[Len(shown) - k]
       /\ \A w \in Workers : pc[w] = "setActive" =>
            k + 2 \in DOMAIN index /\ index[k + 2] = shown[Len(shown) - k]

LEMMA ShownInit == Init => ShownIsListed
  BY DEF Init, CacheInit, WorkerInit, ShownIsListed

LEMMA PublishShown ==
  ASSUME OneSlot, Shaped, EvictionInv, OfferInv, ShownIsListed, NEW w \in Workers, Publish(w)
  PROVE  ShownIsListed'
<1>1. CacheTypeOK /\ WorkerTypeOK /\ SlotShape
  BY DEF Shaped, TypeOK
<1>2. \A v \in Workers : v = w
  BY DEF OneSlot
<1>3. shown \in Seq(FeedIds) /\ index \in Seq(FeedIds)
  BY <1>1 DEF CacheTypeOK, WorkerTypeOK
<1>4. CASE WritePayload(w)
  <2>1. /\ UNCHANGED <<index, shown>> /\ pc[w] = "setPayload"
        /\ pc'[w] \in {"setSidecar", "pushIndex"}
    BY <1>1, <1>4 DEF WritePayload, SetPayload, Goto, WorkerTypeOK
  <2>2. \A f \in FeedIds : Readable(f) => Readable(f)'
    <3>1. heldFeeds' = heldFeeds \cup {nextFeed}
      BY <1>4, WritePayloadOffer DEF heldFeeds
    <3> QED BY <3>1 DEF heldFeeds
  <2> QED BY <2>1, <2>2, <1>2, <1>3 DEF ShownIsListed
<1>5. CASE WriteSidecar(w)
  <2>1. /\ UNCHANGED <<index, payload, shown>> /\ pc[w] = "setSidecar" /\ pc'[w] = "pushIndex"
    BY <1>1, <1>5 DEF WriteSidecar, SetSidecar, Goto, WorkerTypeOK
  <2> QED BY <2>1, <1>2 DEF ShownIsListed, Readable
<1>6. CASE Register(w)
  <2>1. /\ UNCHANGED <<payload, shown>> /\ PushIndex(feed[w])
        /\ pc[w] = "pushIndex" /\ pc'[w] = "setActive"
    BY <1>1, <1>6 DEF Register, PushIndex, Goto, WorkerTypeOK
  <2>2. Readable(feed[w]) /\ feed[w] \in FeedIds
    BY <2>1 DEF OfferInv, OfferIsKept, NamedSteps, Readable
  <2>3. /\ index'[1] = feed[w]
        /\ \A i \in DOMAIN index : i + 1 \in DOMAIN index' /\ index'[i + 1] = index[i]
        /\ \A i \in DOMAIN index' : i # 1 => i - 1 \in DOMAIN index /\ index'[i] = index[i - 1]
    BY <2>1, <2>2, <1>3, PushFacts DEF PushIndex
  <2>4. \A i \in DOMAIN index' : Readable(index[i])'
    BY <2>1, <2>2, <2>3 DEF ShownIsListed, Readable
  <2>5. ASSUME NEW k \in {0, 1}, k < Len(shown)
        PROVE  k + 2 \in DOMAIN index' /\ index'[k + 2] = shown[Len(shown) - k]
    <3>1. k + 1 \in DOMAIN index /\ index[k + 1] = shown[Len(shown) - k]
      BY <2>1, <2>5, <1>2 DEF ShownIsListed
    <3>2. (k + 1) + 1 \in DOMAIN index' /\ index'[(k + 1) + 1] = index[k + 1]
      BY <2>3, <3>1
    <3>3. (k + 1) + 1 = k + 2
      OBVIOUS
    <3> QED BY <3>1, <3>2, <3>3
  <2> QED BY <2>1, <2>4, <2>5, <1>2 DEF ShownIsListed
<1>7. CASE FlipPointer(w)
  <2>1. /\ UNCHANGED <<index, payload>> /\ shown' = Append(shown, feed[w])
        /\ pc[w] = "setActive" /\ pc'[w] = "readEvicted"
    BY <1>1, <1>7 DEF FlipPointer, SetActive, Goto, WorkerTypeOK
  <2>2. 1 \in DOMAIN index /\ index[1] = feed[w] /\ feed[w] \in FeedIds
    BY <2>1, <1>1 DEF OfferInv, OfferIsKept, NamedSteps, ListedSteps, CacheTypeOK, Readable
  <2>3. Len(shown') = Len(shown) + 1 /\ shown'[Len(shown')] = feed[w]
        /\ \A i \in 1 .. Len(shown) : shown'[i] = shown[i]
    BY <2>1, <2>2, <1>3
  <2>4. ASSUME NEW k \in {0, 1}, k < Len(shown')
        PROVE  k + 1 \in DOMAIN index /\ index[k + 1] = shown'[Len(shown') - k]
    <3>1. CASE k = 0
      BY <3>1, <2>2, <2>3, <1>3
    <3>2. CASE k = 1
      <4>1. 0 < Len(shown)
        BY <3>2, <2>3, <2>4, <1>3
      <4>2. 0 + 2 \in DOMAIN index /\ index[0 + 2] = shown[Len(shown) - 0]
        BY <2>1, <4>1 DEF ShownIsListed
      <4> QED BY <3>2, <4>1, <4>2, <2>3, <1>3
    <3> QED BY <3>1, <3>2
  <2> QED BY <2>1, <2>4, <1>2 DEF ShownIsListed, Readable
<1>8. CASE ReadEvicted(w)
  <2>1. /\ UNCHANGED <<index, payload, shown>> /\ pc[w] = "readEvicted"
        /\ pc'[w] # "setActive"
    BY <1>1, <1>8 DEF ReadEvicted, ReadOnly, Unpublished, cacheVars, Goto, WorkerTypeOK
  <2> QED BY <2>1, <1>2 DEF ShownIsListed, Readable
<1>9. CASE Trim(w)
  <2>1. /\ UNCHANGED <<payload, shown>> /\ TrimIndex
        /\ pc[w] = "trimIndex" /\ pc'[w] = "deleteEvicted"
    BY <1>1, <1>9 DEF Trim, TrimIndex, Goto, WorkerTypeOK
  <2>2. /\ Len(index') = Len(index) \/ Len(index') = 2
        /\ \A i \in DOMAIN index' : i \in DOMAIN index /\ index'[i] = index[i]
    BY <2>1, <1>3, TrimFacts DEF MAX_RETAINED_GENERATIONS_PER_USER
  <2>3. \A i \in {1, 2} : i \in DOMAIN index => i \in DOMAIN index'
    BY <2>1, <2>2, <1>3 DEF TrimIndex, MAX_RETAINED_GENERATIONS_PER_USER
  <2> QED BY <2>1, <2>2, <2>3, <1>2 DEF ShownIsListed, Readable
<1>10. CASE DeleteEvicted(w)
  <2>1. /\ UNCHANGED <<index, shown>> /\ pc[w] = "deleteEvicted" /\ pc'[w] = "finish"
        /\ \A f \in FeedIds : payload'[f] = IF f \in evicted[w] THEN None ELSE payload[f]
    BY <1>1, <1>10 DEF DeleteEvicted, DeleteGenerations, Goto, WorkerTypeOK
  <2>2. \A i \in DOMAIN index : index[i] \notin evicted[w]
    BY <2>1 DEF EvictionInv, EvictedBehind
  <2> QED BY <2>1, <2>2, <1>2 DEF ShownIsListed, Readable
<1> QED BY <1>4, <1>5, <1>6, <1>7, <1>8, <1>9, <1>10 DEF Publish

(***************************************************************************)
(* With one slot, until something fails or expires, a cursor survives      *)
(* exactly one refresh: what was offered to new sessions is readable until *)
(* two later generations have been.                                        *)
(***************************************************************************)
THEOREM CursorsSurviveOneRefresh ==
  ASSUME OneSlot
  PROVE  Spec => []CursorSurvivesOneRefresh
<1>1. Init => (NoFaults /\ NoExpiries => ShownIsListed)
  BY ShownInit
<1>2. Shaped /\ EvictionInv /\ OfferInv /\ (NoFaults /\ NoExpiries => ShownIsListed)
        /\ [Next]_vars => (NoFaults /\ NoExpiries => ShownIsListed)'
  <2> SUFFICES ASSUME Shaped, EvictionInv, OfferInv, [Next]_vars, NoFaults', NoExpiries',
                      NoFaults /\ NoExpiries => ShownIsListed
               PROVE  ShownIsListed'
    OBVIOUS
  <2>0. ShownIsListed
    BY CountersGrow
  <2> USE <2>0
  <2>1. ASSUME NEW w \in Workers, TakeJob(w) \/ Build(w) \/ FinishJob(w)
        PROVE  ShownIsListed'
    BY <2>1, QuietActs, QuietSteps
       DEF ShownIsListed, Readable, cacheVars, NamedSteps, ListedSteps
  <2>2. CASE UNCHANGED <<workerVars, payload, index>>
    BY <2>2 DEF ShownIsListed, Readable, workerVars
  <2>3. UNCHANGED feedVars => <2>2!1
    BY DEF feedVars, cacheVars
  <2>4. ~Expiry
    BY CountersGrow
  <2> QED BY <2>1, <2>2, <2>3, <2>4, HealthyCases, PublishShown DEF Invalidate
<1>3. Shaped /\ (NoFaults /\ NoExpiries => ShownIsListed) => CursorSurvivesOneRefresh
  <2> SUFFICES ASSUME Shaped, ShownIsListed, NEW i \in DOMAIN shown, Len(shown) < i + 2
               PROVE  Readable(shown[i])
    BY DEF CursorSurvivesOneRefresh, NoFaults, NoExpiries, Shaped, TypeOK, WorkerTypeOK
  <2>1. shown \in Seq(FeedIds)
    BY DEF Shaped, TypeOK, WorkerTypeOK
  <2>2. /\ Len(shown) - i \in {0, 1} /\ Len(shown) - i < Len(shown)
        /\ Len(shown) - (Len(shown) - i) = i
    BY <2>1
  <2>3. \E j \in DOMAIN index : index[j] = shown[i]
    BY <2>2 DEF ShownIsListed
  <2> QED BY <2>3 DEF ShownIsListed
<1> QED BY <1>1, <1>2, <1>3, OneSlotInvariant, PTL DEF Spec

-----------------------------------------------------------------------------
(***************************************************************************)
(* Why a stale feed is on its way out.  The rebuild is named by its        *)
(* deduplication id: refills share the queue, and may hold jobs of any     *)
(* epoch, but a job with the id of an epoch is a build for that epoch.     *)
(***************************************************************************)
IdNamesEpoch(j) == \A n \in Nat : j.id = buildDeduplicationId(n) => j.epoch = n

IdsNameEpochs ==
  /\ \A j \in waiting \cup kept : IdNamesEpoch(j)
  /\ \A w \in Workers : job[w] # None => IdNamesEpoch(job[w])

LEMMA JobIdNamesEpoch ==
  ASSUME NEW e \in Nat
  PROVE  /\ \A reason : IdNamesEpoch(BuildJob(reason, e))
         /\ \A f : IdNamesEpoch(RefillJob(f, e))
<1>1. ASSUME NEW n \in Nat, buildDeduplicationId(e) = buildDeduplicationId(n) PROVE e = n
  BY <1>1 DEF buildDeduplicationId
<1>2. ASSUME NEW n \in Nat, NEW f PROVE refillDeduplicationId(f) # buildDeduplicationId(n)
  <2>1. refillDeduplicationId(f).kind # buildDeduplicationId(n).kind
    BY DEF refillDeduplicationId, buildDeduplicationId
  <2> QED BY <2>1
<1> QED BY <1>1, <1>2 DEF IdNamesEpoch, BuildJob, RefillJob

LEMMA EnqueueFacts ==
  ASSUME NEW j, Enqueue(j)
  PROVE  /\ job' = job
         /\ waiting' \cup kept' \subseteq waiting \cup kept \cup {j}
         /\ \E i \in waiting' \cup kept' : i.id = j.id
         /\ \A i \in waiting \cup kept : \E k \in waiting' \cup kept' : k.id = i.id
  BY DEF Enqueue, WithId

LEMMA ReleaseFacts ==
  ASSUME Shaped, NEW w \in Workers, Release(w)
  PROVE  /\ waiting' \cup kept' = waiting \cup kept
         /\ job' = [job EXCEPT ![w] = None]
  BY DEF Release, WithId

LEMMA FailFacts ==
  ASSUME Shaped, NEW w \in Workers, FailJob(w)
  PROVE  /\ pc[w] # "idle" /\ job[w] # None /\ pc'[w] = "idle"
         /\ job' = [job EXCEPT ![w] = None]
         /\ \/ waiting' \cup kept' = waiting \cup kept /\ job[w].failures + 1 >= MaxAttempts
            \/ \E j : /\ waiting' \cup kept' = waiting \cup kept \cup {j}
                     /\ j.id = job[w].id /\ j.epoch = job[w].epoch
<1>1. /\ pc[w] # "idle" /\ pc'[w] = "idle" /\ job[w] # None /\ job[w] \in FeedJob
  BY DEF FailJob, Shaped, TypeOK, WorkerTypeOK, QueueTypeOK, SlotShape
<1>2. CASE Retry(w)
  <2> DEFINE j == [job[w] EXCEPT !.failures = @ + 1]
  <2>1. j.id = job[w].id /\ j.epoch = job[w].epoch
    BY <1>1 DEF FeedJob
  <2>2. waiting' \cup kept' = waiting \cup kept \cup {j} /\ job' = [job EXCEPT ![w] = None]
    BY <1>2 DEF Retry
  <2> HIDE DEF j
  <2> QED BY <1>1, <2>1, <2>2
<1>3. CASE Release(w) /\ job[w].failures + 1 >= MaxAttempts
  BY <1>1, <1>3, ReleaseFacts
<1> QED BY <1>2, <1>3 DEF FailJob

LEMMA IdsInit == Init => IdsNameEpochs
  BY DEF Init, QueueInit, IdsNameEpochs

LEMMA IdsStep == Shaped /\ IdsNameEpochs /\ [Next]_vars => IdsNameEpochs'
<1> SUFFICES ASSUME Shaped, IdsNameEpochs, [Next]_vars PROVE IdsNameEpochs'
  OBVIOUS
<1>1. QueueTypeOK /\ ApiTypeOK
  BY DEF Shaped, TypeOK
<1>2. ASSUME NEW j, Enqueue(j), IdNamesEpoch(j) PROVE IdsNameEpochs'
  <2>1. \A i \in waiting' \cup kept' : IdNamesEpoch(i)
    BY <1>2, EnqueueFacts DEF IdsNameEpochs
  <2> QED BY <2>1, <1>2, EnqueueFacts DEF IdsNameEpochs
<1>3. CASE UNCHANGED queueVars
  BY <1>3 DEF queueVars, IdsNameEpochs
<1>4. ASSUME NEW w \in Workers, WorkerStep(w) PROVE IdsNameEpochs'
  <2>1. CASE TakeJob(w)
    BY <2>1, <1>1 DEF TakeJob, Dequeue, IdsNameEpochs, QueueTypeOK
  <2>2. CASE FinishJob(w)
    BY <2>2, <1>1, ReleaseFacts DEF FinishJob, IdsNameEpochs, QueueTypeOK
  <2>3. CASE Build(w) \/ Publish(w)
    BY <2>3, <1>3 DEF Build, CheckEpoch, PeekActive, PeekGeneration, GetUserProfile,
                      LoadMissing, PersistMissing, Rank, ReadOnly, Unpublished, Publish,
                      WritePayload, WriteSidecar, Register, FlipPointer, ReadEvicted,
                      Trim, DeleteEvicted
  <2> QED BY <2>1, <2>2, <2>3, <1>4 DEF WorkerStep, BuildFeed
<1>5. ASSUME NEW e \in Events, PostInteraction(e) PROVE IdsNameEpochs'
  <2>1. IdNamesEpoch(BuildJob("invalidation", opened[e]))
    BY <1>1, JobIdNamesEpoch DEF ApiTypeOK
  <2> QED BY <2>1, <1>2, <1>3, <1>5
          DEF PostInteraction, HandlePost, RecordInteraction, LoadHistory,
              PersistProfile, InvalidateFeed, EnqueueInvalidation, Resend
<1>6. ASSUME NEW r \in Readers, GetFeed(r) PROVE IdsNameEpochs'
  <2>1. /\ IdNamesEpoch(BuildJob("miss", heard[r]))
        /\ IdNamesEpoch(RefillJob(want[r], heard[r]))
    BY <1>1, JobIdNamesEpoch DEF ApiTypeOK
  <2> QED BY <2>1, <1>2, <1>3, <1>6
          DEF GetFeed, OpenSession, ReadActiveGeneration, ContinueSession, ReadEpoch,
              EnqueueMiss, EnqueueRefill
<1>7. ASSUME NEW w \in Workers, FailJob(w) PROVE IdsNameEpochs'
  <2>1. IdNamesEpoch(job[w]) /\ job[w] # None
    BY <1>7, FailFacts DEF IdsNameEpochs
  <2>2. ASSUME NEW j, j.id = job[w].id, j.epoch = job[w].epoch PROVE IdNamesEpoch(j)
    BY <2>1, <2>2 DEF IdNamesEpoch
  <2>3. \A i \in waiting' \cup kept' : IdNamesEpoch(i)
    BY <2>2, <1>7, FailFacts DEF IdsNameEpochs
  <2>4. \A v \in Workers : job'[v] = None \/ job'[v] = job[v]
    BY <1>1, <1>7, FailFacts DEF QueueTypeOK
  <2> QED BY <2>3, <2>4 DEF IdsNameEpochs
<1>8. CASE Fault
  BY <1>3, <1>7, <1>8 DEF Fault, RefreshFails, RequestFails
<1> QED BY <1>3, <1>4, <1>5, <1>6, <1>8 DEF Next, ApiStep, Expiry, vars

(***************************************************************************)
(* A build for the epoch waits, runs, or is about to be queued.            *)
(***************************************************************************)
QueuedFor(n) ==
  \/ \E j \in waiting \cup kept : j.id = buildDeduplicationId(n)
  \/ \E w \in Workers : job[w] # None /\ job[w].id = buildDeduplicationId(n)

RebuildComing ==
  QueuedFor(epoch) \/ \E e \in Events : post[e] = "invalidated" /\ opened[e] = epoch

UpToDate(f) == Readable(f) => payload[f].epoch = epoch

\* The epoch began while a slot was past its last check, and what it shows
\* will be replaced, or was to be replaced by a build that is lost.
Excused == (RebuildComing \/ epoch \in lost) /\ epoch \in overtaken

\* What a step does to the history variables.
LossStep ==
  /\ lost \subseteq lost' /\ overtaken \subseteq overtaken'
  /\ \A w \in GivenUp : job[w].epoch \in lost'
  /\ \A e \in Refused : opened[e] \in lost'
  /\ epoch' # epoch /\ (\E w \in Workers : pc[w] \in PastRecheck) => epoch' \in overtaken'

LEMMA LossFacts == [LossNext]_lossVars => [Next]_vars /\ LossStep
<1>1. CASE LossNext
  <2>1. LossStep
    BY <1>1 DEF LossNext, LossStep
  <2> QED BY <1>1, <2>1 DEF LossNext
<1>2. CASE UNCHANGED lossVars
  <2>1. UNCHANGED <<lost, overtaken, epoch>> /\ GivenUp = {} /\ Refused = {}
    BY <1>2 DEF lossVars, vars, cacheVars, workerVars, apiVars, GivenUp, Refused
  <2>2. LossStep
    BY <2>1 DEF LossStep
  <2> QED BY <1>2, <2>2 DEF lossVars
<1> QED BY <1>1, <1>2

LEMMA LossesAreServing == LossSpec => Spec
<1>1. LossInit => Init
  BY DEF LossInit
<1> QED BY <1>1, LossFacts, PTL DEF LossSpec, Spec

LEMMA ExcusedStays ==
  ASSUME LossStep, UNCHANGED epoch, RebuildComing => RebuildComing' \/ epoch \in lost'
  PROVE  Excused => Excused'
  BY DEF Excused, LossStep

(***************************************************************************)
(* A slot that passed its last check holds a build for the epoch, or one   *)
(* that was overtaken, and then the next is coming or lost; a slot that    *)
(* leaves a job of the epoch leaves an offer of that epoch behind.         *)
(***************************************************************************)
StaleIsReplaced ==
  /\ UpToDate(active) \/ Excused
  /\ \A w \in Workers :
      /\ pc[w] \in PastRecheck => job[w].epoch = epoch \/ Excused
      /\ pc[w] \in NamedSteps => payload[feed[w]].epoch = job[w].epoch
      /\ pc[w] \in {"peekGeneration", "repeekGeneration"} /\ job[w].epoch = epoch
           => active \in {None, peeked[w]}
      /\ pc[w] \in FlippedSteps \cup {"finish"} /\ job[w].epoch = epoch => UpToDate(active)

LEMMA StaleInit == Init => StaleIsReplaced
  BY DEF Init, CacheInit, WorkerInit, StaleIsReplaced, UpToDate, Readable, PastRecheck,
         NamedSteps, ListedSteps, FlippedSteps

LEMMA JobStale ==
  ASSUME OneSlot, Shaped, IdsNameEpochs, StaleIsReplaced, LossStep, NEW w \in Workers,
         TakeJob(w) \/ FinishJob(w) \/ FailJob(w), UNCHANGED apiVars
  PROVE  StaleIsReplaced'
<1>1. QueueTypeOK /\ WorkerTypeOK /\ CacheTypeOK /\ SlotShape
  BY DEF Shaped, TypeOK
<1>2. /\ UNCHANGED <<epoch, active, payload, post, opened>> /\ pc'[w] \in {"check", "idle"}
  BY <1>1 DEF TakeJob, FinishJob, FailJob, Goto, WorkerTypeOK, cacheVars, apiVars
<1>3. \A v \in Workers : v = w
  BY DEF OneSlot
<1>4. ASSUME pc[w] = "finish", job[w] # None, job[w].id = buildDeduplicationId(epoch)
      PROVE  UpToDate(active)
  <2>1. job[w].epoch = epoch
    BY <1>1, <1>4 DEF IdsNameEpochs, IdNamesEpoch, CacheTypeOK
  <2> QED BY <2>1, <1>4 DEF StaleIsReplaced
<1>5. RebuildComing => UpToDate(active) \/ RebuildComing' \/ epoch \in lost'
  <2>1. CASE TakeJob(w)
    <3>1. PICK j \in waiting : /\ waiting' = waiting \ {j} /\ kept' = kept
                               /\ job[w] = None /\ job'[w] = j
      BY <2>1, <1>1 DEF TakeJob, Dequeue, QueueTypeOK
    <3>2. j # None
      BY <3>1, <1>1 DEF QueueTypeOK
    <3> QED BY <3>1, <3>2, <1>2, <1>3 DEF RebuildComing, QueuedFor
  <2>2. CASE FinishJob(w)
    <3>1. waiting' \cup kept' = waiting \cup kept
      BY <2>2, ReleaseFacts DEF FinishJob
    <3>2. pc[w] = "finish" /\ job[w] # None
      BY <2>2, <1>1 DEF FinishJob, Goto, SlotShape
    <3> QED BY <3>1, <3>2, <1>2, <1>3, <1>4 DEF RebuildComing, QueuedFor
  <2>3. CASE FailJob(w)
    <3>1. job[w] # None /\ pc[w] # "idle" /\ pc'[w] = "idle"
      BY <2>3, FailFacts
    <3>2. ASSUME job[w].failures + 1 >= MaxAttempts, pc[w] # "finish",
                 job[w].id = buildDeduplicationId(epoch)
          PROVE  epoch \in lost'
      <4>1. job[w].epoch = epoch
        BY <1>1, <3>1, <3>2 DEF IdsNameEpochs, IdNamesEpoch, CacheTypeOK
      <4>2. w \in GivenUp
        BY <3>1, <3>2, <4>1 DEF GivenUp
      <4> QED BY <4>1, <4>2 DEF LossStep
    <3>3. CASE waiting' \cup kept' = waiting \cup kept /\ job[w].failures + 1 >= MaxAttempts
      BY <3>1, <3>2, <3>3, <1>2, <1>3, <1>4 DEF RebuildComing, QueuedFor
    <3>4. ASSUME NEW j, waiting' \cup kept' = waiting \cup kept \cup {j}, j.id = job[w].id
          PROVE  RebuildComing => RebuildComing'
      BY <3>4, <1>2, <1>3 DEF RebuildComing, QueuedFor
    <3> QED BY <2>3, <3>3, <3>4, FailFacts
  <2> QED BY <2>1, <2>2, <2>3
<1>6. UpToDate(active)' <=> UpToDate(active)
  BY <1>2 DEF UpToDate, Readable
<1>7. UpToDate(active) \/ Excused'
  BY <1>2, <1>5, ExcusedStays DEF StaleIsReplaced, Excused
<1> QED BY <1>2, <1>3, <1>6, <1>7 DEF StaleIsReplaced, PastRecheck, NamedSteps, ListedSteps,
                                      FlippedSteps

LEMMA BuildStale ==
  ASSUME OneSlot, Shaped, StaleIsReplaced, LossStep, NEW w \in Workers, Build(w),
         UNCHANGED apiVars
  PROVE  StaleIsReplaced'
<1>1. WorkerTypeOK
  BY DEF Shaped, TypeOK
<1>2. Unpublished /\ UNCHANGED feed
  BY BuildUnpublished
<1>3. \A v \in Workers : v = w
  BY DEF OneSlot
<1>4. /\ UNCHANGED <<epoch, active, payload, waiting, kept, job, post, opened>>
      /\ RebuildComing' = RebuildComing /\ UpToDate(active)' = UpToDate(active)
  BY <1>2 DEF Unpublished, cacheVars, queueVars, apiVars, RebuildComing,
              QueuedFor, UpToDate, Readable
<1>5. pc'[w] \in RecheckedSteps => job[w].epoch = epoch \/ Excused
  BY LastCheck DEF StaleIsReplaced, PastRecheck, RecheckedSteps
<1>6. pc'[w] \notin NamedSteps
  BY QuietActs DEF PublishSteps, NamedSteps, ListedSteps, FlippedSteps
<1>7. pc'[w] \in {"peekGeneration", "repeekGeneration"} => peeked'[w] = active
  BY <1>1 DEF Build, CheckEpoch, PeekActive, PeekGeneration, GetUserProfile,
              LoadMissing, PersistMissing, Rank, Goto, WorkerTypeOK
<1>8. pc'[w] = "finish" /\ job[w].epoch = epoch => UpToDate(active)
  <2>1. ASSUME NEW here, NEW go, PeekGeneration(w, here, go), pc'[w] = "finish", go # "finish",
               here \in {"peekGeneration", "repeekGeneration"}, job[w].epoch = epoch
        PROVE  UpToDate(active)
    <3>1. AlreadySatisfied(w) /\ pc[w] = here
      BY <2>1, <1>1 DEF PeekGeneration, Goto, WorkerTypeOK
    <3>2. active \in {None, peeked[w]}
      BY <2>1, <3>1 DEF StaleIsReplaced
    <3> QED BY <2>1, <3>1, <3>2 DEF AlreadySatisfied, UpToDate, Readable
  <2>2. ASSUME pc'[w] = "finish", job[w].epoch = epoch
        PROVE  \/ PeekGeneration(w, "peekGeneration", "readProfile")
               \/ PeekGeneration(w, "repeekGeneration", "setPayload")
    BY <2>2, <1>1 DEF Build, CheckEpoch, PeekActive, GetUserProfile, LoadMissing,
                      PersistMissing, Rank, Goto, WorkerTypeOK
  <2> QED BY <2>1, <2>2
<1>9. Excused => Excused'
  BY <1>4, ExcusedStays
<1> QED BY <1>3, <1>4, <1>5, <1>6, <1>7, <1>8, <1>9
        DEF StaleIsReplaced, PastRecheck, RecheckedSteps, NamedSteps, ListedSteps, FlippedSteps

LEMMA PublishStale ==
  ASSUME OneSlot, Shaped, OfferInv, StaleIsReplaced, LossStep, NEW w \in Workers,
         Publish(w), UNCHANGED apiVars
  PROVE  StaleIsReplaced'
<1>1. WorkerTypeOK /\ CacheTypeOK /\ SlotShape
  BY DEF Shaped, TypeOK
<1>2. \A v \in Workers : v = w
  BY DEF OneSlot
<1>3. UNCHANGED <<epoch, job, waiting, kept, post, opened>>
  BY DEF Publish, WritePayload, WriteSidecar, Register, FlipPointer, ReadEvicted, Trim,
         DeleteEvicted, SetPayload, SetSidecar, PushIndex, SetActive, TrimIndex,
         DeleteGenerations, ReadOnly, Unpublished, cacheVars, queueVars, apiVars
<1>4. Excused => Excused'
  <2>1. RebuildComing' = RebuildComing
    BY <1>3 DEF RebuildComing, QueuedFor
  <2> QED BY <2>1, <1>3, ExcusedStays
<1> USE DEF NamedSteps, ListedSteps, FlippedSteps, PastRecheck
<1>5. CASE WritePayload(w)
  <2>1. /\ UNCHANGED active /\ pc[w] = "setPayload" /\ feed'[w] = nextFeed
        /\ pc'[w] \in {"setSidecar", "pushIndex"}
        /\ \A f \in FeedIds : f # nextFeed => payload'[f] = payload[f]
    BY <1>1, <1>5 DEF WritePayload, SetPayload, Goto, WorkerTypeOK, CacheTypeOK
  <2>2. payload'[nextFeed].epoch = job[w].epoch
    BY <1>5, WritePayloadOffer
  <2>3. active # nextFeed
    <3>1. nextFeed \in FeedIds
      BY <1>1, <1>5 DEF WritePayload, WorkerTypeOK, FeedIds
    <3>2. active = None \/ active < nextFeed
      BY <1>1 DEF OfferInv, NewestFirst, CacheTypeOK
    <3> QED BY <3>1, <3>2, <1>1, CacheAssumption DEF FeedIds, CacheTypeOK
  <2>4. UpToDate(active) => UpToDate(active)'
    BY <2>1, <2>3, <1>3 DEF UpToDate, Readable
  <2>5. job[w].epoch = epoch \/ Excused
    BY <2>1 DEF StaleIsReplaced
  <2> QED BY <2>1, <2>2, <2>4, <2>5, <1>2, <1>3, <1>4 DEF StaleIsReplaced
<1>6. CASE WriteSidecar(w) \/ Register(w)
  <2>1. /\ UNCHANGED <<active, payload, feed>> /\ pc[w] \in {"setSidecar", "pushIndex"}
        /\ pc'[w] \in {"pushIndex", "setActive"}
    BY <1>1, <1>6 DEF WriteSidecar, SetSidecar, Register, PushIndex, Goto, WorkerTypeOK
  <2>2. UpToDate(active)' = UpToDate(active)
    BY <2>1, <1>3 DEF UpToDate, Readable
  <2> QED BY <2>1, <2>2, <1>2, <1>3, <1>4 DEF StaleIsReplaced
<1>7. CASE FlipPointer(w)
  <2>1. /\ UNCHANGED <<payload, feed>> /\ pc[w] = "setActive" /\ pc'[w] = "readEvicted"
        /\ active' = feed[w]
    BY <1>1, <1>7 DEF FlipPointer, SetActive, Goto, WorkerTypeOK
  <2>2. payload[feed[w]].epoch = job[w].epoch /\ (job[w].epoch = epoch \/ Excused)
    BY <2>1 DEF StaleIsReplaced
  <2>3. job[w].epoch = epoch => UpToDate(active)'
    BY <2>1, <2>2, <1>3 DEF UpToDate
  <2> QED BY <2>1, <2>2, <2>3, <1>2, <1>3, <1>4 DEF StaleIsReplaced
<1>8. CASE ReadEvicted(w) \/ Trim(w)
  <2>1. /\ UNCHANGED <<active, payload, feed>> /\ pc[w] \in FlippedSteps
        /\ pc'[w] \in FlippedSteps \cup {"finish"} /\ pc'[w] \notin {"setActive"}
    BY <1>1, <1>8 DEF ReadEvicted, ReadOnly, Unpublished, cacheVars, Trim, TrimIndex,
                      Goto, WorkerTypeOK
  <2>2. UpToDate(active)' = UpToDate(active)
    BY <2>1, <1>3 DEF UpToDate, Readable
  <2> QED BY <2>1, <2>2, <1>2, <1>3, <1>4 DEF StaleIsReplaced
<1>9. CASE DeleteEvicted(w)
  <2>1. /\ UNCHANGED <<active, feed>> /\ pc[w] = "deleteEvicted" /\ pc'[w] = "finish"
        /\ \A f \in FeedIds : payload'[f] = IF f \in evicted[w] THEN None ELSE payload[f]
    BY <1>1, <1>9 DEF DeleteEvicted, DeleteGenerations, Goto, WorkerTypeOK
  <2>2. UpToDate(active) => UpToDate(active)'
    BY <2>1, <1>3 DEF UpToDate, Readable
  <2> QED BY <2>1, <2>2, <1>2, <1>3, <1>4 DEF StaleIsReplaced
<1> QED BY <1>5, <1>6, <1>7, <1>8, <1>9 DEF Publish

LEMMA PostStale ==
  ASSUME Shaped, EpochInv, StaleIsReplaced, LossStep, NEW e \in Events,
         PostInteraction(e) \/ RefreshFails(e), UNCHANGED workerVars
  PROVE  StaleIsReplaced'
<1>1. ApiTypeOK /\ CacheTypeOK /\ SlotShape /\ QueueTypeOK
  BY DEF Shaped, TypeOK
<1>2. UNCHANGED <<payload, job, pc, peeked, feed>>
  BY DEF PostInteraction, HandlePost, RecordInteraction, LoadHistory, PersistProfile,
         InvalidateFeed, EnqueueInvalidation, Resend, RefreshFails, Invalidate, Enqueue,
         cacheVars, queueVars, workerVars
<1>3. ASSUME RebuildComing => RebuildComing' \/ epoch \in lost', UNCHANGED <<epoch, active>>
      PROVE  StaleIsReplaced'
  BY <1>2, <1>3, ExcusedStays DEF StaleIsReplaced, UpToDate, Readable
<1>4. CASE RecordInteraction(e) \/ LoadHistory(e) \/ PersistProfile(e) \/ Resend(e)
  <2>1. /\ UNCHANGED <<epoch, active, waiting, kept, opened>>
        /\ post[e] # "invalidated"
        /\ \A d \in Events \ {e} : post'[d] = post[d]
    BY <1>1, <1>4 DEF RecordInteraction, LoadHistory, PersistProfile, Resend, cacheVars,
                      queueVars, ApiTypeOK
  <2>2. RebuildComing => RebuildComing'
    BY <2>1, <1>2 DEF RebuildComing, QueuedFor
  <2> QED BY <2>1, <2>2, <1>3
<1>5. CASE InvalidateFeed(e)
  <2>1. /\ epoch' = epoch + 1 /\ epoch' # epoch /\ active' = None
        /\ post'[e] = "invalidated" /\ opened'[e] = epoch'
    BY <1>1, <1>5 DEF InvalidateFeed, Invalidate, ApiTypeOK, CacheTypeOK
  <2>2. RebuildComing'
    BY <2>1 DEF RebuildComing
  <2>3. \A w \in Workers : pc[w] # "idle" => job[w].epoch # epoch'
    <3>1. \A w \in Workers : pc[w] # "idle" => job[w].epoch \in Nat /\ job[w].epoch <= epoch
      BY <1>1 DEF SlotShape, QueueTypeOK, FeedJob, EpochInv, JobsBehind
    <3> QED BY <3>1, <2>1, <1>1 DEF CacheTypeOK
  <2>4. \A w \in Workers : pc[w] \in PastRecheck => Excused'
    BY <2>1, <2>2 DEF Excused, LossStep
  <2>5. UpToDate(active)'
    BY <2>1, CacheAssumption DEF UpToDate, Readable
  <2> QED BY <2>1, <2>3, <2>4, <2>5, <1>2 DEF StaleIsReplaced, NamedSteps, ListedSteps,
                                              FlippedSteps
<1>6. CASE EnqueueInvalidation(e)
  <2>1. /\ UNCHANGED <<epoch, active, opened>> /\ Enqueue(BuildJob("invalidation", opened[e]))
        /\ \A d \in Events \ {e} : post'[d] = post[d]
    BY <1>1, <1>6 DEF EnqueueInvalidation, cacheVars, ApiTypeOK
  <2>2. \E i \in waiting' \cup kept' : i.id = buildDeduplicationId(opened[e])
    BY <2>1, EnqueueFacts DEF BuildJob
  <2>3. QueuedFor(epoch) => QueuedFor(epoch)'
    BY <2>1, <1>2, EnqueueFacts DEF QueuedFor
  <2>4. RebuildComing => RebuildComing'
    BY <2>1, <2>2, <2>3 DEF RebuildComing, QueuedFor
  <2> QED BY <2>1, <2>4, <1>3
<1>7. CASE RefreshFails(e)
  <2>1. /\ UNCHANGED <<epoch, active, waiting, kept, opened>> /\ post'[e] = "failed"
        /\ \A d \in Events \ {e} : post'[d] = post[d]
    BY <1>1, <1>7 DEF RefreshFails, cacheVars, queueVars, ApiTypeOK
  <2>2. post[e] = "invalidated" => opened[e] \in lost'
    BY <2>1 DEF Refused, LossStep
  <2>3. RebuildComing => RebuildComing' \/ epoch \in lost'
    BY <2>1, <2>2, <1>2 DEF RebuildComing, QueuedFor
  <2> QED BY <2>1, <2>3, <1>3
<1> QED BY <1>4, <1>5, <1>6, <1>7 DEF PostInteraction, HandlePost

LEMMA GetStale ==
  ASSUME StaleIsReplaced, LossStep, NEW r \in Readers, GetFeed(r) \/ RequestFails(r),
         UNCHANGED workerVars
  PROVE  StaleIsReplaced'
<1>1. UNCHANGED <<cacheVars, job, post, opened>>
  BY DEF GetFeed, OpenSession, ReadActiveGeneration, ContinueSession, ReadEpoch, EnqueueMiss,
         EnqueueRefill, RequestFails, Enqueue, queueVars, postVars
<1>2. UNCHANGED <<waiting, kept>> \/ \E j : Enqueue(j)
  BY DEF GetFeed, OpenSession, ReadActiveGeneration, ContinueSession, ReadEpoch, EnqueueMiss,
         EnqueueRefill, RequestFails, queueVars
<1>3. QueuedFor(epoch) => QueuedFor(epoch)'
  BY <1>1, <1>2, EnqueueFacts DEF QueuedFor, cacheVars
<1>4. RebuildComing => RebuildComing'
  BY <1>1, <1>3 DEF RebuildComing, cacheVars
<1>5. Excused => Excused'
  BY <1>1, <1>4, ExcusedStays DEF cacheVars
<1> QED BY <1>1, <1>5 DEF StaleIsReplaced, UpToDate, Readable, cacheVars, workerVars

LEMMA ExpiryStale ==
  ASSUME Shaped, StaleIsReplaced, LossStep, Expiry
  PROVE  StaleIsReplaced'
<1>1. UNCHANGED <<epoch, pc, peeked, feed, waiting, kept, job, post, opened>>
  BY ExpiryFacts DEF workerVars, queueVars, Expiry, apiVars
<1>2. CacheTypeOK /\ WorkerTypeOK /\ SlotShape
  BY DEF Shaped, TypeOK
<1>3. Excused => Excused'
  <2>1. RebuildComing' = RebuildComing
    BY <1>1 DEF RebuildComing, QueuedFor
  <2> QED BY <2>1, <1>1, ExcusedStays
<1>4. UpToDate(active) => UpToDate(active)'
  BY <1>1, <1>2, ExpiryFacts DEF UpToDate, Readable
<1>5. \A w \in Workers : pc[w] \in NamedSteps => payload'[feed[w]] = payload[feed[w]]
  <2>1. \A w \in Workers : feed[w] # None => Publishing(feed[w])
    BY DEF Publishing
  <2> QED BY <2>1, <1>2, ExpiryFacts DEF SlotShape, PublishSteps, WorkerTypeOK, NamedSteps,
                                         ListedSteps, FlippedSteps
<1> QED BY <1>1, <1>3, <1>4, <1>5, ExpiryFacts DEF StaleIsReplaced, workerVars

(***************************************************************************)
(* With one slot a new session is sent to a feed that predates an          *)
(* invalidation only while the build that replaces it is about to be       *)
(* queued, waiting or running, whatever fails, dies or expires: or else    *)
(* that build was lost, the enqueue refused (server.ts:140-144) or its     *)
(* attempts used up, and the epoch began under a build past its last       *)
(* check.  A lost build by itself never leaves a stale feed.               *)
(***************************************************************************)
THEOREM StaleFeedsAreReplaced ==
  ASSUME OneSlot
  PROVE  LossSpec => []StaleOnlyWhileRebuilding
<1>1. LossInit => IdsNameEpochs /\ StaleIsReplaced
  BY IdsInit, StaleInit DEF LossInit
<1>2. Shaped /\ IdsNameEpochs /\ [LossNext]_lossVars => IdsNameEpochs'
  BY IdsStep, LossFacts
<1>3. Shaped /\ EpochInv /\ OfferInv /\ IdsNameEpochs /\ StaleIsReplaced
        /\ [LossNext]_lossVars => StaleIsReplaced'
  <2> SUFFICES ASSUME Shaped, EpochInv, OfferInv, IdsNameEpochs, StaleIsReplaced,
                      [Next]_vars, LossStep
               PROVE  StaleIsReplaced'
    BY LossFacts
  <2>1. CASE UNCHANGED vars
    <3>1. Excused => Excused'
      <4>1. UNCHANGED epoch /\ (RebuildComing => RebuildComing')
        BY <2>1 DEF vars, cacheVars, queueVars, workerVars, apiVars, RebuildComing, QueuedFor
      <4> QED BY <4>1, ExcusedStays
    <3> QED BY <2>1, <3>1 DEF vars, cacheVars, queueVars, workerVars, StaleIsReplaced,
                              UpToDate, Readable
  <2>2. CASE Fault
    BY <2>2, JobStale, PostStale, GetStale DEF Fault
  <2> QED BY <2>1, <2>2, JobStale, BuildStale, PublishStale, PostStale, GetStale, ExpiryStale
          DEF Next, WorkerStep, BuildFeed, ApiStep
<1>4. Shaped /\ IdsNameEpochs /\ StaleIsReplaced => StaleOnlyWhileRebuilding
  <2> SUFFICES ASSUME Shaped, IdsNameEpochs, StaleIsReplaced, Stale
               PROVE  RebuildPending \/ epoch \in lost \cap overtaken
    BY DEF StaleOnlyWhileRebuilding
  <2>1. epoch \in Nat /\ active \in FeedIds /\ payload[active].epoch \in Nat
    BY DEF Shaped, TypeOK, CacheTypeOK, Stale, Readable, Generation
  <2>2. Excused
    BY <2>1 DEF StaleIsReplaced, UpToDate, Stale
  <2>3. RebuildComing => RebuildPending
    BY <2>1 DEF RebuildComing, QueuedFor, RebuildPending, Running, IdsNameEpochs, IdNamesEpoch
  <2> QED BY <2>2, <2>3 DEF Excused
<1> QED BY <1>1, <1>2, <1>3, <1>4, OneSlotInvariant, LossesAreServing, PTL DEF LossSpec

-----------------------------------------------------------------------------
(***************************************************************************)
(* Builds that are not refills.  Over a corpus the recommender always      *)
(* exhausts no page asks for a refill, so every job goes through the       *)
(* already-built guard.                                                    *)
(***************************************************************************)
AlwaysShort == Shortages \subseteq {TRUE}

NoRefills ==
  /\ \A w \in Workers : draft[w] # None => draft[w].shortage = TRUE
  /\ \A f \in FeedIds : Readable(f) => payload[f].shortage = TRUE
  /\ \A r \in Readers : get[r] \notin {"refillEpoch", "refillEnqueue"}
  /\ \A j \in waiting \cup kept : j.reason # "refill"
  /\ \A w \in Workers : job[w] # None => job[w].reason # "refill"

LEMMA NoRefillsInit == Init => NoRefills
  BY DEF Init, CacheInit, QueueInit, WorkerInit, ApiInit, NoRefills, Readable

LEMMA WorkerNoRefills ==
  ASSUME OneSlot, AlwaysShort, Shaped, OfferInv, NoRefills,
         NEW w \in Workers, WorkerStep(w)
  PROVE  NoRefills'
<1>1. WorkerTypeOK /\ QueueTypeOK /\ CacheTypeOK /\ SlotShape
  BY DEF Shaped, TypeOK
<1>2. UNCHANGED get
  BY DEF WorkerStep, apiVars
<1>3. CASE TakeJob(w)
  BY <1>1, <1>2, <1>3 DEF TakeJob, Dequeue, NoRefills, Readable, cacheVars, QueueTypeOK
<1>4. CASE FinishJob(w)
  <2>1. UNCHANGED payload /\ draft' = [draft EXCEPT ![w] = None]
    BY <1>4 DEF FinishJob, DropLocals, cacheVars
  <2> QED BY <1>1, <1>2, <1>4, <2>1, ReleaseFacts
          DEF FinishJob, NoRefills, Readable, WorkerTypeOK, QueueTypeOK
<1>5. CASE Build(w)
  <2>1. UNCHANGED <<payload, waiting, kept, job>>
    BY <1>5, BuildUnpublished DEF Unpublished, cacheVars, queueVars
  <2>2. \A v \in Workers : draft'[v] = draft[v] \/ draft'[v].shortage = TRUE
    <3>1. CASE Rank(w)
      <4>1. PICK short \in Shortages :
              draft' = [draft EXCEPT ![w] =
                         [basis |-> known[w], seen |-> stored, shortage |-> short]]
        BY <3>1 DEF Rank
      <4>2. short = TRUE
        BY DEF AlwaysShort
      <4> QED BY <4>1, <4>2, <1>1 DEF WorkerTypeOK
    <3> QED BY <3>1, <1>5 DEF Build, CheckEpoch, PeekActive, PeekGeneration,
                              GetUserProfile, LoadMissing, PersistMissing
  <2> QED BY <2>1, <2>2, <1>2 DEF NoRefills, Readable
<1>6. CASE WritePayload(w)
  <2>1. /\ UNCHANGED <<queueVars, draft>> /\ pc[w] = "setPayload"
        /\ \A f \in FeedIds : f # nextFeed => payload'[f] = payload[f]
    BY <1>1, <1>6 DEF WritePayload, SetPayload, Goto, CacheTypeOK
  <2>2. draft[w] # None /\ payload'[nextFeed].shortage = draft[w].shortage
    BY <2>1, <1>1, <1>6, WritePayloadOffer DEF SlotShape, PublishSteps
  <2> QED BY <2>1, <2>2, <1>2 DEF NoRefills, Readable, queueVars
<1>7. CASE \/ WriteSidecar(w) \/ Register(w) \/ FlipPointer(w) \/ ReadEvicted(w) \/ Trim(w)
           \/ DeleteEvicted(w)
  <2>1. /\ UNCHANGED <<queueVars, draft>>
        /\ \A f \in FeedIds : payload'[f] \in {payload[f], None}
    BY <1>7 DEF WriteSidecar, SetSidecar, Register, PushIndex, FlipPointer, SetActive,
                ReadEvicted, ReadOnly, Unpublished, cacheVars, Trim, TrimIndex,
                DeleteEvicted, DeleteGenerations
  <2> QED BY <2>1, <1>2 DEF NoRefills, Readable, queueVars
<1> QED BY <1>3, <1>4, <1>5, <1>6, <1>7 DEF WorkerStep, BuildFeed, Publish

LEMMA NoRefillsStep ==
  ASSUME OneSlot, AlwaysShort
  PROVE  Shaped /\ OfferInv /\ NoRefills /\ [Next]_vars /\ NoFaults' => NoRefills'
<1> SUFFICES ASSUME Shaped, OfferInv, NoRefills, [Next]_vars, NoFaults' PROVE NoRefills'
  OBVIOUS
<1>1. ApiTypeOK /\ RequestShape
  BY DEF Shaped, TypeOK
<1>2. ASSUME NEW j, Enqueue(j), j.reason # "refill"
      PROVE  /\ job' = job
             /\ \A i \in waiting' \cup kept' : i.reason # "refill"
  BY <1>2, EnqueueFacts DEF NoRefills
<1>3. ASSUME NEW e \in Events, PostInteraction(e), UNCHANGED <<workerVars, boundVars>>
      PROVE  NoRefills'
  <2>1. UNCHANGED <<payload, draft, get>>
    BY <1>3 DEF PostInteraction, HandlePost, RecordInteraction, LoadHistory,
                PersistProfile, InvalidateFeed, EnqueueInvalidation, Resend, Invalidate,
                cacheVars, getVars, workerVars
  <2>2. UNCHANGED queueVars \/ Enqueue(BuildJob("invalidation", opened[e]))
    BY <1>3 DEF PostInteraction, HandlePost, RecordInteraction, LoadHistory,
                PersistProfile, InvalidateFeed, EnqueueInvalidation, Resend
  <2>3. BuildJob("invalidation", opened[e]).reason # "refill"
    BY DEF BuildJob
  <2> QED BY <2>1, <2>2, <2>3, <1>2 DEF NoRefills, Readable, queueVars
<1>4. ASSUME NEW r \in Readers, GetFeed(r), UNCHANGED <<workerVars, boundVars>>
      PROVE  NoRefills'
  <2>1. UNCHANGED <<payload, draft>>
    BY <1>4 DEF GetFeed, OpenSession, ReadActiveGeneration, ContinueSession, ReadEpoch,
                EnqueueMiss, EnqueueRefill, cacheVars, workerVars
  <2>2. \A f : Readable(f) => payload[f].shortage = TRUE
    BY DEF NoRefills, Readable
  <2>3. get[r] \notin {"refillEpoch", "refillEnqueue"}
    BY DEF NoRefills
  <2>4. \A q \in Readers : get'[q] = get[q] \/ get'[q] \notin {"refillEpoch", "refillEnqueue"}
    BY <1>1, <1>4, <2>2, <2>3
       DEF GetFeed, OpenSession, ReadActiveGeneration, ContinueSession, ReadEpoch,
           EnqueueMiss, EnqueueRefill, Serve, Miss, Deliver, ApiTypeOK
  <2>5. UNCHANGED queueVars \/ Enqueue(BuildJob("miss", heard[r]))
    BY <1>4, <2>3 DEF GetFeed, OpenSession, ReadActiveGeneration, ContinueSession, ReadEpoch,
                      EnqueueMiss, EnqueueRefill
  <2>6. BuildJob("miss", heard[r]).reason # "refill"
    BY DEF BuildJob
  <2> QED BY <2>1, <2>4, <2>5, <2>6, <1>2 DEF NoRefills, Readable, queueVars
<1>5. CASE Expiry
  <2>1. UNCHANGED <<draft, get, waiting, kept, job>>
    BY <1>5 DEF Expiry, apiVars, workerVars, queueVars
  <2> QED BY <1>5, <2>1, ExpiryFacts DEF NoRefills, Readable
<1>6. CASE UNCHANGED vars
  BY <1>6 DEF vars, cacheVars, queueVars, workerVars, apiVars, NoRefills, Readable
<1>7. ~Fault
  BY CountersGrow
<1> QED BY <1>3, <1>4, <1>5, <1>6, <1>7, WorkerNoRefills DEF Next, ApiStep

(***************************************************************************)
(* A slot that got past the already-built guard knows that no generation   *)
(* of its epoch is stored: the one there could be is the one on offer.     *)
(***************************************************************************)
Built(n) == \E f \in FeedIds : Readable(f) /\ payload[f].epoch = n

OnePerEpoch ==
  \A f, g \in FeedIds :
    Readable(f) /\ Readable(g) /\ payload[f].epoch = payload[g].epoch => f = g

CurrentIsOffered ==
  \A f \in FeedIds : Readable(f) /\ payload[f].epoch = epoch =>
    \/ active = f
    \/ \E w \in Workers : pc[w] \in NamedSteps \ FlippedSteps /\ feed[w] = f

RankingSteps == {"readProfile", "loadMissing", "persistMissing", "rank", "recheck"}

GuardsHold ==
  \A w \in Workers :
    /\ pc[w] = "peekGeneration" /\ job[w].epoch = epoch => active = peeked[w]
    /\ pc[w] \in RankingSteps /\ job[w].epoch = epoch => ~Built(epoch)
    /\ pc[w] \in RecheckedSteps => ~Built(job[w].epoch)

BuiltOnce == OnePerEpoch /\ CurrentIsOffered /\ GuardsHold

LEMMA BuiltOnceInit == Init => BuiltOnce
  BY DEF Init, CacheInit, WorkerInit, BuiltOnce, OnePerEpoch, CurrentIsOffered,
         GuardsHold, Built, Readable, RankingSteps, RecheckedSteps, NamedSteps, ListedSteps,
         FlippedSteps

LEMMA BuildOnce ==
  ASSUME OneSlot, Shaped, NoRefills, BuiltOnce, NEW w \in Workers, Build(w)
  PROVE  BuiltOnce'
<1>1. WorkerTypeOK /\ QueueTypeOK /\ CacheTypeOK /\ SlotShape
  BY DEF Shaped, TypeOK
<1>3. UNCHANGED <<payload, active, epoch, job>>
  BY BuildUnpublished DEF Unpublished, cacheVars, queueVars
<1>4. \A v \in Workers : v = w
  BY DEF OneSlot
<1>5. \A n : Built(n)' <=> Built(n)
  BY <1>3 DEF Built, Readable
<1>6. pc[w] \notin NamedSteps /\ pc'[w] \notin NamedSteps /\ pc[w] # "idle"
  BY <1>1, QuietActs DEF Build, CheckEpoch, PeekActive, PeekGeneration, GetUserProfile,
                         LoadMissing, PersistMissing, Rank, Goto, PublishSteps,
                         NamedSteps, ListedSteps, FlippedSteps
<1>7. satisfiedByActiveGeneration(job[w].reason)
  BY <1>1, <1>6 DEF SlotShape, NoRefills, satisfiedByActiveGeneration, QueueTypeOK, FeedJob,
                    Reasons
<1>8. active = None => ~Built(epoch)
  BY <1>4, <1>6 DEF BuiltOnce, CurrentIsOffered, Built
<1>9. active = peeked[w] /\ ~AlreadySatisfied(w) /\ job[w].epoch = epoch => ~Built(epoch)
  BY <1>4, <1>6 DEF BuiltOnce, CurrentIsOffered, Built, AlreadySatisfied
<1>10. pc[w] \in {"recheck", "repeek", "repeekGeneration"} /\ pc'[w] \in RecheckedSteps
         => ~Built(job[w].epoch)
  BY <1>1, <1>7 DEF Build, CheckEpoch, PeekActive, PeekGeneration, GetUserProfile,
                    LoadMissing, PersistMissing, Rank, Goto, WorkerTypeOK, BuiltOnce,
                    GuardsHold, RankingSteps, RecheckedSteps
<1>11. CASE \/ CheckEpoch(w, "check", "peek", "readProfile")
            \/ PeekActive(w, "peek", "peekGeneration", "readProfile")
  BY <1>1, <1>3, <1>4, <1>5, <1>6, <1>7, <1>8, <1>11
     DEF CheckEpoch, PeekActive, Goto, WorkerTypeOK, BuiltOnce, OnePerEpoch,
         CurrentIsOffered, GuardsHold, Readable, RankingSteps, RecheckedSteps
<1>12. CASE PeekGeneration(w, "peekGeneration", "readProfile")
  BY <1>1, <1>3, <1>4, <1>5, <1>6, <1>9, <1>12
     DEF PeekGeneration, Goto, WorkerTypeOK, BuiltOnce, OnePerEpoch, CurrentIsOffered,
         GuardsHold, Readable, RankingSteps, RecheckedSteps
<1>14. CASE GetUserProfile(w) \/ LoadMissing(w) \/ PersistMissing(w) \/ Rank(w)
  <2>1. pc[w] \in RankingSteps /\ pc'[w] \in RankingSteps
    BY <1>1, <1>14 DEF GetUserProfile, LoadMissing, PersistMissing, Rank, Goto, WorkerTypeOK,
                       RankingSteps
  <2> QED BY <2>1, <1>3, <1>4, <1>5, <1>6
          DEF BuiltOnce, OnePerEpoch, CurrentIsOffered, GuardsHold, Readable, RankingSteps,
              RecheckedSteps
<1>13. CASE \/ CheckEpoch(w, "recheck", "repeek", "setPayload")
            \/ PeekActive(w, "repeek", "repeekGeneration", "setPayload")
            \/ PeekGeneration(w, "repeekGeneration", "setPayload")
  <2>1. /\ pc[w] \in {"recheck", "repeek", "repeekGeneration"}
        /\ pc'[w] \in RecheckedSteps \cup {"finish"}
    BY <1>1, <1>13 DEF CheckEpoch, PeekActive, PeekGeneration, Goto, WorkerTypeOK,
                       RecheckedSteps
  <2> QED BY <2>1, <1>3, <1>4, <1>5, <1>6, <1>10
          DEF BuiltOnce, OnePerEpoch, CurrentIsOffered, GuardsHold, Readable,
              RankingSteps, RecheckedSteps
<1> QED BY <1>11, <1>12, <1>13, <1>14 DEF Build

LEMMA PublishOnce ==
  ASSUME OneSlot, Shaped, EpochInv, OfferInv, BuiltOnce, NEW w \in Workers, Publish(w)
  PROVE  BuiltOnce'
<1>1. WorkerTypeOK /\ CacheTypeOK /\ SlotShape
  BY DEF Shaped, TypeOK
<1>2. UNCHANGED <<epoch, job>>
  BY DEF Publish, WritePayload, WriteSidecar, Register, FlipPointer, ReadEvicted, Trim,
         DeleteEvicted, SetPayload, SetSidecar, PushIndex, SetActive, TrimIndex,
         DeleteGenerations, ReadOnly, Unpublished, cacheVars, queueVars
<1>3. \A v \in Workers : v = w
  BY DEF OneSlot
<1>4. pc'[w] \in NamedSteps \cup {"finish"}
  BY <1>1 DEF Publish, WritePayload, WriteSidecar, Register, FlipPointer, ReadEvicted, Trim,
              DeleteEvicted, Goto, WorkerTypeOK, NamedSteps, ListedSteps, FlippedSteps
<1>5. GuardsHold'
  BY <1>3, <1>4 DEF GuardsHold, RankingSteps, RecheckedSteps, NamedSteps, ListedSteps, FlippedSteps
<1>6. CASE WritePayload(w)
  <2>1. /\ UNCHANGED active /\ pc[w] = "setPayload" /\ feed'[w] = nextFeed
        /\ pc'[w] \in {"setSidecar", "pushIndex"}
        /\ \A f \in FeedIds : f # nextFeed => payload'[f] = payload[f]
    BY <1>1, <1>6 DEF WritePayload, SetPayload, Goto, WorkerTypeOK, CacheTypeOK
  <2>2. payload'[nextFeed].epoch = job[w].epoch
    BY <1>6, WritePayloadOffer
  <2>3. ~Built(job[w].epoch)
    BY <2>1 DEF BuiltOnce, GuardsHold, RecheckedSteps
  <2>4. OnePerEpoch'
    <3>1. ASSUME NEW f \in FeedIds, NEW g \in FeedIds, Readable(f)', Readable(g)',
                 payload'[f].epoch = payload'[g].epoch, f # g
          PROVE  FALSE
      <4>1. CASE f = nextFeed
        BY <4>1, <3>1, <2>1, <2>2, <2>3 DEF Built, Readable
      <4>2. CASE g = nextFeed
        BY <4>2, <3>1, <2>1, <2>2, <2>3 DEF Built, Readable
      <4>3. CASE f # nextFeed /\ g # nextFeed
        BY <4>3, <3>1, <2>1 DEF BuiltOnce, OnePerEpoch, Readable
      <4> QED BY <4>1, <4>2, <4>3
    <3> QED BY <3>1 DEF OnePerEpoch
  <2>5. CurrentIsOffered'
    BY <2>1, <1>2, <1>3 DEF BuiltOnce, CurrentIsOffered, Readable, NamedSteps, ListedSteps,
                            FlippedSteps
  <2> QED BY <2>4, <2>5, <1>5 DEF BuiltOnce
<1>7. CASE WriteSidecar(w) \/ Register(w)
  <2>1. /\ UNCHANGED <<active, payload, feed>>
        /\ pc'[w] \in {"pushIndex", "setActive"}
    BY <1>1, <1>7 DEF WriteSidecar, SetSidecar, Register, PushIndex, Goto, WorkerTypeOK
  <2> QED BY <2>1, <1>2, <1>3, <1>5
          DEF BuiltOnce, OnePerEpoch, CurrentIsOffered, Readable, NamedSteps,
              ListedSteps, FlippedSteps
<1>8. CASE FlipPointer(w)
  <2>1. /\ UNCHANGED <<payload, feed>> /\ pc[w] = "setActive" /\ active' = feed[w]
    BY <1>1, <1>8 DEF FlipPointer, SetActive, Goto, WorkerTypeOK
  <2>2. /\ feed[w] \in FeedIds /\ Readable(feed[w]) /\ feed[w] = nextFeed - 1
        /\ nextFeed \in Nat
    BY <2>1, <1>1 DEF SlotShape, PublishSteps, WorkerTypeOK, OfferInv, NewestFirst,
                      OfferIsKept, NamedSteps, ListedSteps
  <2>3. ASSUME NEW f \in FeedIds, Readable(f), payload[f].epoch = epoch
        PROVE  f = feed[w]
    <3>1. f < nextFeed /\ f \in Nat /\ epoch \in Nat
      BY <2>3, <1>1 DEF OfferInv, NewestFirst, FeedIds, CacheTypeOK
    <3>2. f # feed[w] => f < feed[w]
      BY <3>1, <2>2
    <3>3. f # feed[w] => epoch <= payload[feed[w]].epoch
      BY <3>2, <2>2, <2>3 DEF OfferInv, EpochsInOrder
    <3>4. payload[feed[w]].epoch \in Nat /\ payload[feed[w]].epoch <= epoch
      BY <2>2, <1>1 DEF EpochInv, PayloadsCover, Readable, CacheTypeOK, Generation
    <3>5. f # feed[w] => payload[feed[w]].epoch = epoch
      BY <3>1, <3>3, <3>4
    <3> QED BY <3>5, <2>2, <2>3 DEF BuiltOnce, OnePerEpoch
  <2> QED BY <2>1, <2>3, <1>2, <1>5
          DEF BuiltOnce, OnePerEpoch, CurrentIsOffered, Readable
<1>9. CASE ReadEvicted(w) \/ Trim(w) \/ DeleteEvicted(w)
  <2>1. /\ UNCHANGED <<active, feed>> /\ pc[w] \in FlippedSteps
        /\ \A f \in FeedIds : payload'[f] \in {payload[f], None}
    BY <1>9 DEF ReadEvicted, ReadOnly, Unpublished, cacheVars, Trim, TrimIndex,
                DeleteEvicted, DeleteGenerations, Goto, FlippedSteps
  <2> QED BY <2>1, <1>2, <1>3, <1>5
          DEF BuiltOnce, OnePerEpoch, CurrentIsOffered, Readable, NamedSteps,
              ListedSteps, FlippedSteps
<1> QED BY <1>6, <1>7, <1>8, <1>9 DEF Publish

LEMMA InvalidateOnce ==
  ASSUME Shaped, EpochInv, BuiltOnce, Invalidate, UNCHANGED <<workerVars, job>>
  PROVE  BuiltOnce'
<1>1. CacheTypeOK /\ QueueTypeOK /\ SlotShape
  BY DEF Shaped, TypeOK
<1>2. UNCHANGED <<payload, pc, peeked, feed, job>> /\ epoch' = epoch + 1
  BY DEF Invalidate, workerVars
<1>3. \A f \in FeedIds : Readable(f) => payload[f].epoch # epoch'
  <2>1. \A f \in FeedIds : Readable(f) => payload[f].epoch \in Nat /\ payload[f].epoch <= epoch
    BY <1>1 DEF EpochInv, PayloadsCover, Readable, CacheTypeOK, Generation
  <2> QED BY <2>1, <1>1, <1>2 DEF CacheTypeOK
<1>4. \A w \in Workers : pc[w] # "idle" => job[w].epoch # epoch'
  <2>1. \A w \in Workers : pc[w] # "idle" => job[w].epoch \in Nat /\ job[w].epoch <= epoch
    BY <1>1 DEF SlotShape, QueueTypeOK, FeedJob, EpochInv, JobsBehind
  <2> QED BY <2>1, <1>1, <1>2 DEF CacheTypeOK
<1> QED BY <1>2, <1>3, <1>4 DEF BuiltOnce, OnePerEpoch, CurrentIsOffered, GuardsHold,
                                Built, Readable

BuiltOnceInv == NoFaults /\ NoExpiries => NoRefills /\ BuiltOnce

(***************************************************************************)
(* With one slot, over a corpus without refills, until something fails or  *)
(* expires, one state of the user is built once: however misses and        *)
(* invalidations queue up for it, the stored generations are of different  *)
(* epochs.                                                                 *)
(***************************************************************************)
THEOREM EpochsAreBuiltOnce ==
  ASSUME OneSlot, AlwaysShort
  PROVE  Spec => []OneGenerationPerEpoch
<1>1. Init => BuiltOnceInv
  BY NoRefillsInit, BuiltOnceInit DEF BuiltOnceInv
<1>2. Shaped /\ EpochInv /\ OfferInv /\ BuiltOnceInv /\ [Next]_vars => BuiltOnceInv'
  <2> SUFFICES ASSUME Shaped, EpochInv, OfferInv, BuiltOnceInv, [Next]_vars,
                      NoFaults', NoExpiries'
               PROVE  NoRefills' /\ BuiltOnce'
    BY DEF BuiltOnceInv
  <2>0. NoRefills /\ BuiltOnce /\ ~Expiry
    BY CountersGrow DEF BuiltOnceInv
  <2> USE <2>0
  <2>1. ASSUME NEW w \in Workers, TakeJob(w) \/ FinishJob(w) PROVE BuiltOnce'
    <3>1. /\ UNCHANGED <<epoch, active, payload>>
          /\ pc[w] \in {"idle", "finish"} /\ pc'[w] \in {"check", "idle"}
      BY <2>1 DEF TakeJob, FinishJob, Goto, cacheVars, Shaped, TypeOK, WorkerTypeOK
    <3>2. \A v \in Workers : v = w
      BY DEF OneSlot
    <3> QED BY <3>1, <3>2 DEF BuiltOnce, OnePerEpoch, CurrentIsOffered, GuardsHold, Readable,
                              RankingSteps, RecheckedSteps, NamedSteps, ListedSteps,
                              FlippedSteps
  <2>2. ASSUME UNCHANGED feedVars PROVE BuiltOnce'
    BY <2>2 DEF feedVars, cacheVars, workerVars, BuiltOnce, OnePerEpoch, CurrentIsOffered,
                GuardsHold, Built, Readable
  <2>3. \/ \E w \in Workers : TakeJob(w) \/ Build(w) \/ Publish(w) \/ FinishJob(w)
        \/ Invalidate /\ UNCHANGED <<workerVars, job>>
        \/ UNCHANGED feedVars
    BY HealthyCases
  <2>4. BuiltOnce'
    BY <2>1, <2>2, <2>3, BuildOnce, PublishOnce, InvalidateOnce
  <2> QED BY <2>4, NoRefillsStep
<1>3. BuiltOnceInv => OneGenerationPerEpoch
  BY DEF BuiltOnceInv, BuiltOnce, OnePerEpoch, OneGenerationPerEpoch, NoFaults, NoExpiries
<1> QED BY <1>1, <1>2, <1>3, OneSlotInvariant, PTL DEF Spec

=============================================================================
