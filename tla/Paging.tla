-------------------------------- MODULE Paging --------------------------------
(***************************************************************************)
(* What a client of the feed can observe of the server: pages of immutable *)
(* generations, cursors, and the answer of each endpoint                   *)
(* (src/src/feed/cursor.ts, feed/service.ts, api/server.ts, api/demo.ts).  *)
(* Building is one step here: FeedServing has its details.                 *)
(***************************************************************************)
EXTENDS Integers, Sequences, FiniteSetsExt

CONSTANTS
  Users,
  Length,        \* items of a generation
  PAGE_SIZE,     \* limit of a request
  MaxFeeds,      \* bound of the model: generations built
  MaxOutages,    \* bound of the model: answers and generations lost to Redis
  None

ASSUME PagingAssumption ==
  /\ None \notin Users
  /\ None \notin Users \X Nat
  /\ None \notin [user : Users, feed : Users \X Nat, offset : Nat]
  /\ Length \in Nat
  /\ PAGE_SIZE \in Nat \ {0}
  /\ MaxFeeds \in Nat
  /\ MaxOutages \in Nat

VARIABLES
  built,       \* built[u]: generations published for u; feed <<u, n>> is the n-th
  active,      \* active[u]: the number of the active one, 0 when there is none
  retained,    \* retained[u]: those still stored
  outages      \* failures so far

serverVars == <<built, active, retained, outages>>

FeedIds == Users \X (1 .. MaxFeeds)
Cursors == [user : Users, feed : FeedIds, offset : 1 .. Length]

PagingInit ==
  /\ built = [u \in Users |-> 0]
  /\ active = [u \in Users |-> 0]
  /\ retained = [u \in Users |-> {}]
  /\ outages = 0

-----------------------------------------------------------------------------
\* A build ends, after a miss, an invalidation or a refill: the new generation
\* is active and the one before it is kept.
Publish(u) ==
  /\ MapThenSumSet(LAMBDA w : built[w], Users) < MaxFeeds
  /\ built' = [built EXCEPT ![u] = @ + 1]
  /\ active' = [active EXCEPT ![u] = built[u] + 1]
  /\ retained' = [retained EXCEPT ![u] = (@ \cap {built[u]}) \cup {built[u] + 1}]
  /\ UNCHANGED outages

\* A key expires or is evicted: readers miss it, the pointer may dangle.
Lose(u) ==
  /\ outages < MaxOutages
  /\ outages' = outages + 1
  /\ \E n \in retained[u] : retained' = [retained EXCEPT ![u] = @ \ {n}]
  /\ UNCHANGED <<built, active>>

-----------------------------------------------------------------------------
Smaller(m, n) == IF m < n THEN m ELSE n

\* generation.items.slice(offset, offset + limit)
slice(feed, offset) ==
  [i \in 1 .. Smaller(PAGE_SIZE, Length - offset) |-> [feed |-> feed, rank |-> offset + i]]

\* A page, and the cursor of the next one while there is more.
page(feed, offset) ==
  LET items == slice(feed, offset)
      nextOffset == offset + Len(items)
  IN  [status |-> 200, feed |-> feed, items |-> items,
       nextCursor |-> IF nextOffset < Length
                      THEN [user |-> feed[1], feed |-> feed, offset |-> nextOffset]
                      ELSE None]

Status(code) == [status |-> code, feed |-> None, items |-> <<>>, nextCursor |-> None]

\* A cursor is only good for the user it was issued to.
CursorRefused(u, cursor) == cursor.user # u

\* GET /feed: a cursor pins its generation.
FeedAnswer(u, cursor) ==
  IF cursor # None
  THEN IF CursorRefused(u, cursor) THEN Status(400)
       ELSE IF cursor.feed[2] \notin retained[u] THEN Status(410)
       ELSE page(cursor.feed, cursor.offset)
  ELSE IF active[u] \notin retained[u] THEN Status(202)
       ELSE page(<<u, active[u]>>, 0)

\* Redis cannot be reached (503), or the user does not exist (404).
Unavailable(code) ==
  /\ outages < MaxOutages
  /\ outages' = outages + 1
  /\ code \in {404, 503}
  /\ UNCHANGED <<built, active, retained>>

\* POST /interactions: a duplicate, a type without preference or a Redis outage
\* leaves the feed as it was.
Record(u, invalidates) ==
  /\ active' = IF invalidates THEN [active EXCEPT ![u] = 0] ELSE active
  /\ UNCHANGED <<built, retained, outages>>

\* GET /demo/api/feed-debug: the key holds both ids.
DebugAnswer(u, feed) == feed[1] = u /\ feed[2] \in retained[u]

=============================================================================
