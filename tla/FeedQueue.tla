------------------------------ MODULE FeedQueue ------------------------------
(***************************************************************************)
(* The feed-build queue of one user (src/src/feed/queue.ts) over BullMQ.   *)
(* BullMQ is not part of the repository: the queue is modelled from the    *)
(* options the code passes - deduplication { id, keepLastIfActive }, three *)
(* attempts with backoff - and from what queue.ts says they mean.          *)
(*                                                                         *)
(* A deduplication id is held by a job from the moment it is added until   *)
(* the job completes or fails for good.  Adding a job whose id is held by  *)
(* a waiting one is a no-op; when the holder is running, the last job      *)
(* added is kept and becomes a waiting job as soon as the holder is done.  *)
(* Waiting jobs form a set: with retries delayed by an exponential backoff *)
(* any of them may be the next to start.                                   *)
(***************************************************************************)
EXTENDS FeedCache

CONSTANTS
  Workers,     \* job slots: feed worker processes times FEED_CONCURRENCY
  MaxAttempts  \* attempts: 3

VARIABLES
  waiting,  \* jobs waiting or delayed, at most one per deduplication id
  kept,     \* keepLastIfActive: the next job of an id whose holder is running
  job       \* job[w]: the job slot w is running, or None

queueVars == <<waiting, kept, job>>

Reasons == {"miss", "invalidation", "refill"}

\* The two forms of deduplication id.
buildDeduplicationId(e) == [kind |-> "feed", of |-> e]
refillDeduplicationId(f) == [kind |-> "refill", of |-> f]

DeduplicationIds == [kind : {"feed", "refill"}, of : Nat]

FeedJob == [reason : Reasons, epoch : Nat, id : DeduplicationIds, failures : Nat]

ASSUME QueueAssumption ==
  /\ MaxAttempts \in Nat \ {0}
  /\ None \notin FeedJob

QueueTypeOK ==
  /\ waiting \in SUBSET FeedJob
  /\ kept \in SUBSET FeedJob
  /\ job \in [Workers -> FeedJob \cup {None}]

QueueInit ==
  /\ waiting = {}
  /\ kept = {}
  /\ job = [w \in Workers |-> None]

Running == {job[w] : w \in {v \in Workers : job[v] # None}}

\* The jobs a producer adds.
BuildJob(reason, e) ==
  [reason |-> reason, epoch |-> e, id |-> buildDeduplicationId(e), failures |-> 0]

RefillJob(f, e) ==
  [reason |-> "refill", epoch |-> e, id |-> refillDeduplicationId(f), failures |-> 0]

WithId(jobs, id) == {j \in jobs : j.id = id}

\* enqueueFeedBuild: feedQueue().add with { id, keepLastIfActive: true }.
Enqueue(j) ==
  /\ \/ /\ WithId(waiting, j.id) # {}
        /\ UNCHANGED <<waiting, kept>>
     \/ /\ WithId(waiting, j.id) = {}
        /\ WithId(Running, j.id) # {}
        /\ kept' = (kept \ WithId(kept, j.id)) \cup {j}
        /\ UNCHANGED waiting
     \/ /\ WithId(waiting \cup Running, j.id) = {}
        /\ waiting' = waiting \cup {j}
        /\ UNCHANGED kept
  /\ UNCHANGED job

\* A worker slot takes a waiting job.
Dequeue(w, j) ==
  /\ job[w] = None
  /\ j \in waiting
  /\ waiting' = waiting \ {j}
  /\ job' = [job EXCEPT ![w] = j]
  /\ UNCHANGED kept

\* The job leaves the queue; the one kept behind it, if any, starts waiting.
Release(w) ==
  LET next == WithId(kept, job[w].id)
  IN  /\ waiting' = waiting \cup next
      /\ kept' = kept \ next
      /\ job' = [job EXCEPT ![w] = None]

\* A failed or stalled run goes back to waiting, until its attempts are used up.
Retry(w) ==
  /\ job[w].failures + 1 < MaxAttempts
  /\ waiting' = waiting \cup {[job[w] EXCEPT !.failures = @ + 1]}
  /\ job' = [job EXCEPT ![w] = None]
  /\ UNCHANGED kept

=============================================================================
