------------------------------- MODULE FeedApi -------------------------------
(***************************************************************************)
(* The API process as far as one user's feed is concerned: POST            *)
(* /interactions and GET /feed (src/src/api/server.ts, feed/service.ts).   *)
(* A request is a process of its own; an action is one await of its        *)
(* handler.  How one event sent many times at once is recorded once is     *)
(* left to another module.                                                 *)
(***************************************************************************)
EXTENDS FeedQueue

CONSTANTS
  Readers,      \* client sessions reading the feed
  Invalidating  \* the events whose type invalidatesFeed() accepts

ASSUME ApiAssumption == Invalidating \in SUBSET Events

VARIABLES
  post,     \* post[e]: where the request that reports event e is
  history,  \* history[e]: the rows its rebuild has loaded
  opened,   \* opened[e]: the epoch its invalidation returned, 0 before that
  get,      \* get[r]: where the request of session r is
  want,     \* want[r]: the feedId that request is serving, or None
  heard,    \* heard[r]: the epoch that request read
  session   \* session[r]: the feedId of the cursor the client holds, or None

apiVars == <<post, history, opened, get, want, heard, session>>

PostSteps == {"unsent", "load", "persist", "refresh", "invalidated", "done",
              "failed", "reload", "repersist"}
GetSteps == {"idle", "readGeneration", "missEpoch", "missEnqueue",
             "refillEpoch", "refillEnqueue"}

ApiTypeOK ==
  /\ post \in [Events -> PostSteps]
  /\ history \in [Events -> SUBSET Events]
  /\ opened \in [Events -> Nat]
  /\ get \in [Readers -> GetSteps]
  /\ want \in [Readers -> FeedIds \cup {None}]
  /\ heard \in [Readers -> Nat]
  /\ session \in [Readers -> FeedIds \cup {None}]

ApiInit ==
  /\ post = [e \in Events |-> "unsent"]
  /\ history = [e \in Events |-> {}]
  /\ opened = [e \in Events |-> 0]
  /\ get = [r \in Readers |-> "idle"]
  /\ want = [r \in Readers |-> None]
  /\ heard = [r \in Readers |-> 0]
  /\ session = [r \in Readers |-> None]

postVars == <<post, history, opened>>
getVars == <<get, want, heard, session>>

-----------------------------------------------------------------------------
(***************************************************************************)
(* POST /interactions.  The row commits first, then the profile is rebuilt *)
(* from the history; the cache is invalidated next, and the rebuild of the *)
(* feed is queued last.                                                    *)
(***************************************************************************)
\* Mutation of RecordInteraction: POST no longer rebuilds the profile.
RecordWithoutRebuild(e) ==
  /\ post[e] = "unsent"
  /\ stored' = stored \cup {e}
  /\ post' = [post EXCEPT ![e] = IF e \in Invalidating THEN "refresh" ELSE "done"]
  /\ UNCHANGED <<cacheVars, queueVars, profile, history, opened, getVars>>

RecordInteraction(e) ==
  /\ post[e] = "unsent"
  /\ stored' = stored \cup {e}
  /\ post' = [post EXCEPT ![e] = "load"]
  /\ UNCHANGED <<cacheVars, queueVars, profile, history, opened, getVars>>

LoadHistory(e) ==
  /\ \/ post[e] = "load" /\ post' = [post EXCEPT ![e] = "persist"]
     \/ post[e] = "reload" /\ post' = [post EXCEPT ![e] = "repersist"]
  /\ history' = [history EXCEPT ![e] = stored]
  /\ UNCHANGED <<cacheVars, queueVars, databaseVars, opened, getVars>>

\* A recorded event may invalidate the feed; a duplicate leaves it alone.
PersistProfile(e) ==
  /\ \/ /\ post[e] = "persist"
        /\ post' = [post EXCEPT ![e] = IF e \in Invalidating THEN "refresh" ELSE "done"]
     \/ post[e] = "repersist" /\ post' = [post EXCEPT ![e] = "done"]
  /\ profile' = history[e]
  /\ history' = [history EXCEPT ![e] = {}]
  /\ UNCHANGED <<cacheVars, queueVars, stored, opened, getVars>>

InvalidateFeed(e) ==
  /\ post[e] = "refresh"
  /\ Invalidate
  /\ opened' = [opened EXCEPT ![e] = epoch']
  /\ post' = [post EXCEPT ![e] = "invalidated"]
  /\ UNCHANGED <<queueVars, databaseVars, history, getVars>>

\* Mutation of EnqueueInvalidation: the epoch is the one before the invalidation.
EnqueuePreviousEpoch(e) ==
  /\ post[e] = "invalidated"
  /\ Enqueue(BuildJob("invalidation", opened[e] - 1))
  /\ post' = [post EXCEPT ![e] = "done"]
  /\ UNCHANGED <<cacheVars, databaseVars, history, opened, getVars>>

EnqueueInvalidation(e) ==
  /\ post[e] = "invalidated"
  /\ Enqueue(BuildJob("invalidation", opened[e]))
  /\ post' = [post EXCEPT ![e] = "done"]
  /\ UNCHANGED <<cacheVars, databaseVars, history, opened, getVars>>

(***************************************************************************)
(* The profile rebuild throws, Redis or the queue fails, or the process    *)
(* dies: the row stays and nothing retries the rest.                       *)
(***************************************************************************)
RefreshFails(e) ==
  /\ post[e] \notin {"unsent", "done", "failed"}
  /\ post' = [post EXCEPT ![e] = "failed"]
  /\ history' = [history EXCEPT ![e] = {}]
  /\ UNCHANGED <<cacheVars, queueVars, databaseVars, opened, getVars>>

\* The client got no answer and sends the event again: its row is there.
Resend(e) ==
  /\ post[e] = "failed"
  /\ post' = [post EXCEPT ![e] = "reload"]
  /\ UNCHANGED <<cacheVars, queueVars, databaseVars, history, opened, getVars>>

\* The awaits of a request that was sent.
HandlePost(e) ==
  \/ LoadHistory(e)
  \/ PersistProfile(e)
  \/ InvalidateFeed(e)
  \/ EnqueueInvalidation(e)

PostInteraction(e) == RecordInteraction(e) \/ HandlePost(e) \/ Resend(e)

-----------------------------------------------------------------------------
(***************************************************************************)
(* GET /feed.  Delivering a page of f leaves the client with a cursor into *)
(* f when more items follow.  A page far from the end always has more.     *)
(***************************************************************************)
Deliver(r, f, more) ==
  /\ get' = [get EXCEPT ![r] = "idle"]
  /\ want' = [want EXCEPT ![r] = None]
  /\ heard' = [heard EXCEPT ![r] = 0]
  /\ session' = [session EXCEPT ![r] = IF more THEN f ELSE None]

\* withRefill: deliver at once, or queue the next generation first.
Serve(r, f) ==
  \/ Deliver(r, f, TRUE)                                \* above the watermark
  \/ /\ payload[f].shortage                             \* at it, but no refill
     /\ \E more \in BOOLEAN : Deliver(r, f, more)
  \/ /\ ~payload[f].shortage
     /\ get' = [get EXCEPT ![r] = "refillEpoch"]
     /\ want' = [want EXCEPT ![r] = f]
     /\ UNCHANGED <<heard, session>>

Miss(r) ==
  /\ get' = [get EXCEPT ![r] = "missEpoch"]
  /\ want' = [want EXCEPT ![r] = None]
  /\ UNCHANGED <<heard, session>>

\* Without a cursor: readActiveGeneration, the pointer first.
OpenSession(r) ==
  /\ get[r] = "idle"
  /\ session[r] = None
  /\ \/ active = None /\ Miss(r)
     \/ /\ active # None
        /\ get' = [get EXCEPT ![r] = "readGeneration"]
        /\ want' = [want EXCEPT ![r] = active]
        /\ UNCHANGED <<heard, session>>
  /\ UNCHANGED <<cacheVars, queueVars, databaseVars, postVars>>

ReadActiveGeneration(r) ==
  /\ get[r] = "readGeneration"
  /\ \/ Readable(want[r]) /\ Serve(r, want[r])
     \/ ~Readable(want[r]) /\ Miss(r)
  /\ UNCHANGED <<cacheVars, queueVars, databaseVars, postVars>>

\* With a cursor: the pinned generation, or 410 and a new session.
ContinueSession(r) ==
  /\ get[r] = "idle"
  /\ session[r] # None
  /\ \/ Readable(session[r]) /\ Serve(r, session[r])
     \/ ~Readable(session[r]) /\ Deliver(r, None, FALSE)
  /\ UNCHANGED <<cacheVars, queueVars, databaseVars, postVars>>

ReadEpoch(r) ==
  /\ \/ /\ get[r] = "missEpoch"
        /\ get' = [get EXCEPT ![r] = "missEnqueue"]
     \/ /\ get[r] = "refillEpoch"
        /\ get' = [get EXCEPT ![r] = "refillEnqueue"]
  /\ heard' = [heard EXCEPT ![r] = epoch]
  /\ UNCHANGED <<cacheVars, queueVars, databaseVars, postVars, want, session>>

\* 202: a build was queued, nothing was computed.
EnqueueMiss(r) ==
  /\ get[r] = "missEnqueue"
  /\ Enqueue(BuildJob("miss", heard[r]))
  /\ Deliver(r, None, FALSE)
  /\ UNCHANGED <<cacheVars, databaseVars, postVars>>

EnqueueRefill(r) ==
  /\ get[r] = "refillEnqueue"
  /\ Enqueue(RefillJob(want[r], heard[r]))
  /\ \E more \in BOOLEAN : Deliver(r, want[r], more)
  /\ UNCHANGED <<cacheVars, databaseVars, postVars>>

\* An await throws: the client gets an error and keeps the cursor it had.
RequestFails(r) ==
  /\ get[r] # "idle"
  /\ Deliver(r, session[r], TRUE)
  /\ UNCHANGED <<cacheVars, queueVars, databaseVars, postVars>>

GetFeed(r) ==
  \/ OpenSession(r)
  \/ ReadActiveGeneration(r)
  \/ ContinueSession(r)
  \/ ReadEpoch(r)
  \/ EnqueueMiss(r)
  \/ EnqueueRefill(r)

=============================================================================
