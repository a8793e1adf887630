------------------------------ MODULE FeedCache ------------------------------
(***************************************************************************)
(* The Redis keys behind one user's feed (src/src/feed/cache.ts), with one *)
(* operator per command the code sends.  Every key carries the user id, so *)
(* users do not share state and one user stands for all of them.           *)
(*                                                                         *)
(* Redis executes a command, or a MULTI/EXEC block, atomically; anything   *)
(* may happen between two commands of the same caller.  Each operator here *)
(* constrains all five variables, so a step that combines one of them with *)
(* its caller's state says nothing more about the cache.  The tables of    *)
(* Postgres that feeds are computed from are declared here too.            *)
(***************************************************************************)
EXTENDS Integers, Sequences, FiniteSets, Functions

CONSTANTS
  Events,     \* interactions the user may send; a feed is ranked over a set of them
  MaxFeeds,   \* bound of the model: how many generations are ever built
  None        \* absent key, no feed, no job

FeedIds == 1 .. MaxFeeds

(***************************************************************************)
(* A generation, reduced to what later decisions read: the epoch it was    *)
(* built for, the interactions its profile counts and those its candidates *)
(* leave out as seen, and whether the recommender ran short of candidates. *)
(***************************************************************************)
Generation ==
  [epoch : Nat, basis : SUBSET Events, seen : SUBSET Events, shortage : BOOLEAN]

ASSUME CacheAssumption ==
  /\ MaxFeeds \in Nat
  /\ None \notin FeedIds
  /\ None \notin Generation
  /\ \A E \in SUBSET Events : E # None

\* The current generation and the one it replaced.
MAX_RETAINED_GENERATIONS_PER_USER == 2

VARIABLES
  epoch,    \* feed:{user}:epoch; an absent key reads as 0
  active,   \* feed:{user}:active: the feedId a new session starts on, or None
  payload,  \* feed:gen:{user}:{feedId}: the generation, or None
  sidecar,  \* the feedIds that have a feed:debug:{user}:{feedId} key
  index,    \* feed:{user}:generations: feedIds, newest first
  stored,   \* the user's rows in the interactions table of Postgres
  profile   \* the interactions the user's stored profile counts, or None

cacheVars == <<epoch, active, payload, sidecar, index>>
databaseVars == <<stored, profile>>

CacheTypeOK ==
  /\ epoch \in Nat
  /\ active \in FeedIds \cup {None}
  /\ payload \in [FeedIds -> Generation \cup {None}]
  /\ sidecar \in SUBSET FeedIds
  /\ index \in Seq(FeedIds)
  /\ stored \in SUBSET Events
  /\ profile \in (SUBSET Events) \cup {None}

CacheInit ==
  /\ epoch = 0
  /\ active = None
  /\ payload = [f \in FeedIds |-> None]
  /\ sidecar = {}
  /\ index = <<>>
  /\ stored = {}
  /\ profile = None

Readable(f) == f \in FeedIds /\ payload[f] # None

-----------------------------------------------------------------------------
\* Mutation of Invalidate: the DEL of the pointer is forgotten.
InvalidateKeepingPointer ==
  /\ epoch' = epoch + 1
  /\ UNCHANGED <<active, payload, sidecar, index>>

\* invalidateFeed: INCR epoch and DEL active in one MULTI/EXEC.
Invalidate ==
  /\ epoch' = epoch + 1
  /\ active' = None
  /\ UNCHANGED <<payload, sidecar, index>>

\* publishGeneration, first command: the payload is stored under its feedId.
SetPayload(f, generation) ==
  /\ payload' = [payload EXCEPT ![f] = generation]
  /\ UNCHANGED <<epoch, active, sidecar, index>>

SetSidecar(f) ==
  /\ sidecar' = sidecar \cup {f}
  /\ UNCHANGED <<epoch, active, payload, index>>

\* Mutation of PushIndex: RPUSH, so that trimming takes the newest first.
PushIndexAtTail(f) ==
  /\ index' = Append(index, f)
  /\ UNCHANGED <<epoch, active, payload, sidecar>>

\* LPUSH; the EXPIRE that follows only refreshes the list's lifetime.
PushIndex(f) ==
  /\ index' = <<f>> \o index
  /\ UNCHANGED <<epoch, active, payload, sidecar>>

SetActive(f) ==
  /\ active' = f
  /\ UNCHANGED <<epoch, payload, sidecar, index>>

\* Mutation of BeyondRetention: the range starts one early.
BeyondRetentionEager ==
  {index[i] : i \in MAX_RETAINED_GENERATIONS_PER_USER .. Len(index)}

\* LRANGE index 2 -1: the feedIds past the retention window.
BeyondRetention ==
  {index[i] : i \in MAX_RETAINED_GENERATIONS_PER_USER + 1 .. Len(index)}

\* Mutation of TrimIndex: the stop of LTRIM read as exclusive, one entry too many stays.
TrimIndexLoosely ==
  /\ index' = IF Len(index) > MAX_RETAINED_GENERATIONS_PER_USER + 1
              THEN SubSeq(index, 1, MAX_RETAINED_GENERATIONS_PER_USER + 1)
              ELSE index
  /\ UNCHANGED <<epoch, active, payload, sidecar>>

\* LTRIM index 0 1: whatever is past the window when the command runs.
TrimIndex ==
  /\ index' = IF Len(index) > MAX_RETAINED_GENERATIONS_PER_USER
              THEN SubSeq(index, 1, MAX_RETAINED_GENERATIONS_PER_USER)
              ELSE index
  /\ UNCHANGED <<epoch, active, payload, sidecar>>

\* Mutation of DeleteGenerations: only the sidecars go.
DeleteSidecars(F) ==
  /\ sidecar' = sidecar \ F
  /\ UNCHANGED <<epoch, active, payload, index>>

\* DEL of the payload and the sidecar of every evicted feedId.
DeleteGenerations(F) ==
  /\ payload' = [f \in FeedIds |-> IF f \in F THEN None ELSE payload[f]]
  /\ sidecar' = sidecar \ F
  /\ UNCHANGED <<epoch, active, index>>

-----------------------------------------------------------------------------
(***************************************************************************)
(* Key expiry.  The pointer lives FEED_TTL_SECONDS, payload, sidecar and   *)
(* index twice that.  The order below is the order the code's EX arguments *)
(* give, provided a publication takes less than FEED_TTL_SECONDS.          *)
(***************************************************************************)
ExpireActive ==
  /\ active # None
  /\ active' = None
  /\ UNCHANGED <<epoch, payload, sidecar, index>>

\* Set before the pointer that names it, and for twice as long.
ExpirePayload(f) ==
  /\ Readable(f)
  /\ active # f
  /\ payload' = [payload EXCEPT ![f] = None]
  /\ UNCHANGED <<epoch, active, sidecar, index>>

\* Set after the payload it explains, for as long.
ExpireSidecar(f) ==
  /\ f \in sidecar
  /\ ~Readable(f)
  /\ sidecar' = sidecar \ {f}
  /\ UNCHANGED <<epoch, active, payload, index>>

\* Every publication extends the index past the payloads it lists.
ExpireIndex ==
  /\ index # <<>>
  /\ \A f \in Range(index) : ~Readable(f)
  /\ index' = <<>>
  /\ UNCHANGED <<epoch, active, payload, sidecar>>

=============================================================================
