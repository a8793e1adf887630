------------------------------ MODULE FeedWorker ------------------------------
(***************************************************************************)
(* The feed worker: buildFeed (src/src/feed/worker.ts) and, inlined at its *)
(* end, publishGeneration (src/src/feed/cache.ts).  Every job slot runs    *)
(* buildFeed; an action is one await: one Redis command, or one read of    *)
(* Postgres.  All slots interleave, across processes and within one.       *)
(***************************************************************************)
EXTENDS FeedQueue

CONSTANTS
  DebugSidecar,  \* FEED_DEBUG_SIDECAR
  Shortages      \* what candidateShortage can be: depends on the corpus

VARIABLES
  pc,        \* pc[w]: the await slot w is at
  peeked,    \* peeked[w]: the feedId readActiveGeneration got from the pointer
  known,     \* known[w]: the profile recommendCandidates works with
  draft,     \* draft[w]: what recommendCandidates returned, or None
  feed,      \* feed[w]: the feedId being published, or None
  evicted,   \* evicted[w]: what LRANGE returned
  nextFeed,  \* feedIds are drawn in order: the next one newFeedId() returns
  shown      \* history: the feedIds the pointer has been set to, in order

workerVars == <<pc, peeked, known, draft, feed, evicted, nextFeed, shown>>

Draft == [basis : SUBSET Events, seen : SUBSET Events, shortage : BOOLEAN]

ASSUME WorkerAssumption ==
  /\ DebugSidecar \in BOOLEAN
  /\ Shortages \in SUBSET BOOLEAN
  /\ None \notin Draft

\* The awaits of buildFeed, then those of publishGeneration.
BuildSteps == {"check", "peek", "peekGeneration",
               "readProfile", "loadMissing", "persistMissing", "rank",
               "recheck", "repeek", "repeekGeneration"}
PublishSteps == {"setPayload", "setSidecar", "pushIndex", "setActive",
                 "readEvicted", "trimIndex", "deleteEvicted"}
Steps == BuildSteps \cup PublishSteps \cup {"idle", "finish"}

WorkerTypeOK ==
  /\ pc \in [Workers -> Steps]
  /\ peeked \in [Workers -> FeedIds \cup {None}]
  /\ known \in [Workers -> SUBSET Events]
  /\ draft \in [Workers -> Draft \cup {None}]
  /\ feed \in [Workers -> FeedIds \cup {None}]
  /\ evicted \in [Workers -> SUBSET FeedIds]
  /\ nextFeed \in 1 .. MaxFeeds + 1
  /\ shown \in Seq(FeedIds)

WorkerInit ==
  /\ pc = [w \in Workers |-> "idle"]
  /\ peeked = [w \in Workers |-> None]
  /\ known = [w \in Workers |-> {}]
  /\ draft = [w \in Workers |-> None]
  /\ feed = [w \in Workers |-> None]
  /\ evicted = [w \in Workers |-> {}]
  /\ nextFeed = 1
  /\ shown = <<>>

Goto(w, from, to) ==
  /\ pc[w] = from
  /\ pc' = [pc EXCEPT ![w] = to]

\* The locals of buildFeed go out of scope.
DropLocals(w) ==
  /\ peeked' = [peeked EXCEPT ![w] = None]
  /\ known' = [known EXCEPT ![w] = {}]
  /\ draft' = [draft EXCEPT ![w] = None]
  /\ feed' = [feed EXCEPT ![w] = None]
  /\ evicted' = [evicted EXCEPT ![w] = {}]
  /\ UNCHANGED nextFeed

\* What buildFeed leaves alone until it publishes; it may write the profile.
Unpublished == UNCHANGED <<cacheVars, queueVars, stored, shown>>

ReadOnly == Unpublished /\ UNCHANGED profile

\* Mutation of the reasons below: a miss rebuilds what is already built.
SatisfiedInvalidationOnly(reason) == reason = "invalidation"

satisfiedByActiveGeneration(reason) == reason \in {"miss", "invalidation"}

-----------------------------------------------------------------------------
TakeJob(w) ==
  /\ Goto(w, "idle", "check")
  /\ \E j \in waiting : Dequeue(w, j)
  /\ UNCHANGED <<cacheVars, peeked, known, draft, feed, evicted, nextFeed, databaseVars, shown>>

\* Mutation of CheckEpoch: a superseded job builds all the same.
CheckReasonOnly(w, here, peek, go) ==
  /\ Goto(w, here, IF satisfiedByActiveGeneration(job[w].reason) THEN peek ELSE go)
  /\ ReadOnly
  /\ UNCHANGED <<peeked, known, draft, feed, evicted, nextFeed>>

(***************************************************************************)
(* The epoch guard and the already-built guard, run before ranking and     *)
(* again after it.  A refill skips the second one: it asks for a new       *)
(* generation while one is active.                                         *)
(***************************************************************************)
CheckEpoch(w, here, peek, go) ==
  /\ \/ /\ Goto(w, here, "finish")                      \* superseded: discarded
        /\ job[w].epoch # epoch
     \/ /\ Goto(w, here, IF satisfiedByActiveGeneration(job[w].reason) THEN peek ELSE go)
        /\ job[w].epoch = epoch
  /\ ReadOnly
  /\ UNCHANGED <<peeked, known, draft, feed, evicted, nextFeed>>

PeekActive(w, here, generation, go) ==
  /\ \/ /\ Goto(w, here, go)
        /\ active = None
        /\ UNCHANGED peeked
     \/ /\ Goto(w, here, generation)
        /\ active # None
        /\ peeked' = [peeked EXCEPT ![w] = active]
  /\ ReadOnly
  /\ UNCHANGED <<known, draft, feed, evicted, nextFeed>>

AlreadySatisfied(w) ==
  /\ Readable(peeked[w])
  /\ payload[peeked[w]].epoch = job[w].epoch

PeekGeneration(w, here, go) ==
  /\ Goto(w, here, IF AlreadySatisfied(w) THEN "finish" ELSE go)
  /\ peeked' = [peeked EXCEPT ![w] = None]
  /\ ReadOnly
  /\ UNCHANGED <<known, draft, feed, evicted, nextFeed>>

(***************************************************************************)
(* recommendCandidates ranks over the stored profile.  The row and its     *)
(* affinities are two reads, of which the first is the step.  Without a    *)
(* row the profile is computed from the user's history and stored.         *)
(***************************************************************************)
GetUserProfile(w) ==
  /\ \/ /\ Goto(w, "readProfile", "loadMissing")
        /\ profile = None
        /\ UNCHANGED known
     \/ /\ Goto(w, "readProfile", "rank")
        /\ profile # None
        /\ known' = [known EXCEPT ![w] = profile]
  /\ ReadOnly
  /\ UNCHANGED <<peeked, draft, feed, evicted, nextFeed>>

LoadMissing(w) ==
  /\ Goto(w, "loadMissing", "persistMissing")
  /\ known' = [known EXCEPT ![w] = stored]
  /\ ReadOnly
  /\ UNCHANGED <<peeked, draft, feed, evicted, nextFeed>>

PersistMissing(w) ==
  /\ Goto(w, "persistMissing", "rank")
  /\ profile' = known[w]
  /\ Unpublished
  /\ UNCHANGED <<peeked, known, draft, feed, evicted, nextFeed>>

\* The candidates leave out what the user has seen by now.
Rank(w) ==
  /\ Goto(w, "rank", "recheck")
  /\ \E short \in Shortages :
       draft' = [draft EXCEPT ![w] =
                  [basis |-> known[w], seen |-> stored, shortage |-> short]]
  /\ known' = [known EXCEPT ![w] = {}]
  /\ ReadOnly
  /\ UNCHANGED <<peeked, feed, evicted, nextFeed>>

Build(w) ==
  \/ CheckEpoch(w, "check", "peek", "readProfile")
  \/ PeekActive(w, "peek", "peekGeneration", "readProfile")
  \/ PeekGeneration(w, "peekGeneration", "readProfile")
  \/ GetUserProfile(w)
  \/ LoadMissing(w)
  \/ PersistMissing(w)
  \/ Rank(w)
  \/ CheckEpoch(w, "recheck", "repeek", "setPayload")
  \/ PeekActive(w, "repeek", "repeekGeneration", "setPayload")
  \/ PeekGeneration(w, "repeekGeneration", "setPayload")

-----------------------------------------------------------------------------
(***************************************************************************)
(* publishGeneration: seven commands, no transaction.                      *)
(***************************************************************************)

\* Mutation of WritePayload: the new feedId is not kept for the commands that follow.
WritePayloadUnnamed(w) ==
  /\ nextFeed <= MaxFeeds
  /\ Goto(w, "setPayload", IF DebugSidecar THEN "setSidecar" ELSE "pushIndex")
  /\ SetPayload(nextFeed, [epoch    |-> job[w].epoch,
                           basis    |-> draft[w].basis,
                           seen     |-> draft[w].seen,
                           shortage |-> draft[w].shortage])
  /\ nextFeed' = nextFeed + 1
  /\ UNCHANGED <<queueVars, peeked, known, draft, feed, evicted, databaseVars, shown>>

WritePayload(w) ==
  /\ nextFeed <= MaxFeeds
  /\ Goto(w, "setPayload", IF DebugSidecar THEN "setSidecar" ELSE "pushIndex")
  /\ SetPayload(nextFeed, [epoch    |-> job[w].epoch,
                           basis    |-> draft[w].basis,
                           seen     |-> draft[w].seen,
                           shortage |-> draft[w].shortage])
  /\ feed' = [feed EXCEPT ![w] = nextFeed]
  /\ nextFeed' = nextFeed + 1
  /\ UNCHANGED <<queueVars, peeked, known, draft, evicted, databaseVars, shown>>

WriteSidecar(w) ==
  /\ Goto(w, "setSidecar", "pushIndex")
  /\ SetSidecar(feed[w])
  /\ UNCHANGED <<queueVars, peeked, known, draft, feed, evicted, nextFeed, databaseVars, shown>>

Register(w) ==
  /\ Goto(w, "pushIndex", "setActive")
  /\ PushIndex(feed[w])
  /\ UNCHANGED <<queueVars, peeked, known, draft, feed, evicted, nextFeed, databaseVars, shown>>

FlipPointer(w) ==
  /\ Goto(w, "setActive", "readEvicted")
  /\ SetActive(feed[w])
  /\ shown' = Append(shown, feed[w])
  /\ UNCHANGED <<queueVars, peeked, known, draft, feed, evicted, nextFeed, databaseVars>>

ReadEvicted(w) ==
  /\ Goto(w, "readEvicted", IF BeyondRetention = {} THEN "finish" ELSE "trimIndex")
  /\ evicted' = [evicted EXCEPT ![w] = BeyondRetention]
  /\ ReadOnly
  /\ UNCHANGED <<peeked, known, draft, feed, nextFeed>>

Trim(w) ==
  /\ Goto(w, "trimIndex", "deleteEvicted")
  /\ TrimIndex
  /\ UNCHANGED <<queueVars, peeked, known, draft, feed, evicted, nextFeed, databaseVars, shown>>

DeleteEvicted(w) ==
  /\ Goto(w, "deleteEvicted", "finish")
  /\ DeleteGenerations(evicted[w])
  /\ UNCHANGED <<queueVars, peeked, known, draft, feed, evicted, nextFeed, databaseVars, shown>>

Publish(w) ==
  \/ WritePayload(w)
  \/ WriteSidecar(w)
  \/ Register(w)
  \/ FlipPointer(w)
  \/ ReadEvicted(w)
  \/ Trim(w)
  \/ DeleteEvicted(w)

-----------------------------------------------------------------------------
\* buildFeed has returned, whatever its outcome: the job is complete.
FinishJob(w) ==
  /\ Goto(w, "finish", "idle")
  /\ Release(w)
  /\ DropLocals(w)
  /\ UNCHANGED <<cacheVars, databaseVars, shown>>

(***************************************************************************)
(* The run ends early: an await throws (Redis or Postgres), or the process *)
(* dies and BullMQ finds the job stalled.  What was written stays written. *)
(***************************************************************************)
FailJob(w) ==
  /\ pc[w] # "idle"
  /\ pc' = [pc EXCEPT ![w] = "idle"]
  /\ \/ Retry(w)
     \/ job[w].failures + 1 >= MaxAttempts /\ Release(w)
  /\ DropLocals(w)
  /\ UNCHANGED <<cacheVars, databaseVars, shown>>

BuildFeed(w) == TakeJob(w) \/ Build(w) \/ Publish(w) \/ FinishJob(w)

=============================================================================
