------------------------------- MODULE Profile -------------------------------
(***************************************************************************)
(* One user's interactions and the preference profile rebuilt from them    *)
(* (src/src/reco/interactions.ts, profile.ts, signals.ts), as POST         *)
(* /interactions drives them.  Requests interleave between their awaits;   *)
(* the client sends an event again when it got no answer, or twice at      *)
(* once.  A profile is rebuilt from the whole history and replaces the     *)
(* stored one, whoever computed it: a build of the feed rebuilds it, too,  *)
(* when it finds none (recommender.ts).  Events carry an eventId.          *)
(***************************************************************************)
EXTENDS Integers, FiniteSets, FiniteSetsExt, Functions

CONSTANTS
  Events,        \* the interactions the client reports, one eventId each
  Type,          \* Type[e]: the kind of signal
  Age,           \* Age[e]: how many half-lives ago it occurred
  Video,         \* Video[e]: the video it is about
  Creators,
  Creator,       \* Creator[v]: who made the video
  ColdStartMin,  \* COLD_START_MIN_INTERACTIONS
  Requests,      \* handlers the API may run at once
  Builders,      \* feed builds of the user that may run at once
  MaxSends,      \* bound of the model: requests the client sends
  MaxFaults,     \* bound of the model: rebuilds that throw, processes that die
  MaxOutages,    \* bound of the model: refreshes Redis or the queue refuses
  None

\* Percent, so that sums stay integers.
EVENT_WEIGHTS == [impression |-> 0, view |-> 25, watch |-> 25, complete |-> 60,
                  like |-> 100, skip |-> -50, dislike |-> -100]

SignalEvent == DOMAIN EVENT_WEIGHTS
Videos == Range(Video)
MaxAge == 3  \* bound of the model: the oldest event, in half-lives

StoredProfile ==
  [interactionCount : Nat, effectiveSignalCount : Nat, skippedNoFeatures : Nat,
   denominator : Nat, isColdStart : BOOLEAN, affinity : [Creators -> Int]]

ASSUME ProfileAssumption ==
  /\ Type \in [Events -> SignalEvent]
  /\ Age \in [Events -> 0 .. MaxAge]
  /\ Video \in [Events -> Videos]
  /\ Creator \in [Videos -> Creators]
  /\ {ColdStartMin, MaxSends, MaxFaults, MaxOutages} \subseteq Nat
  /\ None \notin Events /\ None \notin StoredProfile
  /\ Requests \cap Builders = {}

isMeaningful(e) == EVENT_WEIGHTS[Type[e]] # 0
invalidatesFeed(e) == isMeaningful(e)

\* eventWeight x 0.5^age, scaled by 2^MaxAge.
signalStrength(e) == EVENT_WEIGHTS[Type[e]] * 2^(MaxAge - Age[e])

-----------------------------------------------------------------------------
VARIABLES
  rows,         \* the events table: its unique event_id makes it a set
  analysed,     \* the videos that have an embedding
  profile,      \* the stored profile, or None
  at,           \* at[q]: the await handler q is at
  event,        \* event[q]: what it was sent, or None
  recorded,     \* recorded[q]: whether its insert added the row
  history,      \* history[q]: what loadHistory returned
  build,        \* build[b]: the await of rebuildUserProfile that build b is at
  missing,      \* missing[b]: what its loadHistory returned
  invalidated,  \* history variable: how often e has invalidated the feed
  answers,      \* history variable: answers the client got for e, by recorded
  sends, faults, outages

requestVars == <<at, event, recorded, history>>
builderVars == <<build, missing>>
boundVars == <<sends, faults, outages>>
vars == <<rows, analysed, profile, requestVars, builderVars, invalidated, answers, boundVars>>

NoHistory == [rows |-> {}, analysed |-> {}]
Awaits == {"idle", "insert", "load", "persist", "refresh", "answer"}

\* Mutation of computeProfile: a like and a skip cancel in the denominator.
SignedDenominator(loaded) ==
  LET effective == {e \in loaded.rows : isMeaningful(e) /\ Video[e] \in loaded.analysed}
      Total(E) == MapThenSumSet(signalStrength, E)
  IN  [interactionCount     |-> Cardinality(loaded.rows),
       effectiveSignalCount |-> Cardinality(effective),
       skippedNoFeatures    |-> 0,
       denominator          |-> Total(effective),
       isColdStart          |-> Cardinality(effective) < ColdStartMin,
       affinity             |-> [c \in Creators |->
                                  Total({e \in effective : Creator[Video[e]] = c})]]

(***************************************************************************)
(* computeProfile: impressions count as interactions only; an event whose  *)
(* video has no embedding is counted as skipped; the rest is summed.       *)
(***************************************************************************)
computeProfile(loaded) ==
  LET meaningful == {e \in loaded.rows : isMeaningful(e)}
      effective == {e \in meaningful : Video[e] \in loaded.analysed}
      Total(E) == MapThenSumSet(signalStrength, E)
      liked == {e \in effective : signalStrength(e) > 0}
  IN  [interactionCount     |-> Cardinality(loaded.rows),
       effectiveSignalCount |-> Cardinality(effective),
       skippedNoFeatures    |-> Cardinality(meaningful \ effective),
       denominator          |-> Total(liked) - Total(effective \ liked),
       isColdStart          |-> Cardinality(effective) < ColdStartMin,
       affinity             |-> [c \in Creators |->
                                  Total({e \in effective : Creator[Video[e]] = c})]]

Init ==
  /\ rows = {}
  /\ analysed \in SUBSET Videos
  /\ profile = None
  /\ at = [q \in Requests |-> "idle"]
  /\ event = [q \in Requests |-> None]
  /\ recorded = [q \in Requests |-> FALSE]
  /\ history = [q \in Requests |-> NoHistory]
  /\ build = [b \in Builders |-> "idle"]
  /\ missing = [b \in Builders |-> NoHistory]
  /\ invalidated = [e \in Events |-> 0]
  /\ answers = [e \in Events |-> {}]
  /\ sends = 0 /\ faults = 0 /\ outages = 0

Goto(q, from, to) ==
  /\ at[q] = from
  /\ at' = [at EXCEPT ![q] = to]

-----------------------------------------------------------------------------
Send(q, e) ==
  /\ sends < MaxSends
  /\ sends' = sends + 1
  /\ Goto(q, "idle", "insert")
  /\ event' = [event EXCEPT ![q] = e]
  /\ UNCHANGED <<rows, analysed, profile, recorded, history, invalidated, answers,
                 faults, outages>>

\* Mutation of recordInteraction: looked up now, inserted whatever others did since.
RecordAfterLookup(q) ==
  /\ Goto(q, "insert", "load")
  /\ recorded' = [recorded EXCEPT ![q] = answers[event[q]] = {}]
  /\ rows' = rows \cup {event[q]}
  /\ UNCHANGED <<analysed, profile, event, history, invalidated, answers, boundVars>>

\* INSERT .. ON CONFLICT DO NOTHING RETURNING id.
recordInteraction(q) ==
  /\ Goto(q, "insert", "load")
  /\ recorded' = [recorded EXCEPT ![q] = event[q] \notin rows]
  /\ rows' = rows \cup {event[q]}
  /\ UNCHANGED <<analysed, profile, event, history, invalidated, answers, boundVars>>

\* Mutation of loadHistory: only the event just reported, not the whole history.
LoadLatestOnly(q) ==
  /\ Goto(q, "load", "persist")
  /\ history' = [history EXCEPT ![q] = [rows |-> {event[q]}, analysed |-> analysed]]
  /\ UNCHANGED <<rows, analysed, profile, event, recorded, invalidated, answers, boundVars>>

\* One SELECT: a snapshot of the events and of the embeddings they join.
loadHistory(q) ==
  /\ Goto(q, "load", "persist")
  /\ history' = [history EXCEPT ![q] = [rows |-> rows, analysed |-> analysed]]
  /\ UNCHANGED <<rows, analysed, profile, event, recorded, invalidated, answers, boundVars>>

\* Mutation of persistProfile: a duplicate leaves the profile alone.
PersistRecordedOnly(q) ==
  /\ Goto(q, "persist", IF recorded[q] /\ invalidatesFeed(event[q]) THEN "refresh" ELSE "answer")
  /\ profile' = IF recorded[q] THEN computeProfile(history[q]) ELSE profile
  /\ UNCHANGED <<rows, analysed, event, recorded, history, invalidated, answers, boundVars>>

\* Mutation of persistProfile: a duplicate refreshes the feed as well.
PersistAndRefresh(q) ==
  /\ Goto(q, "persist", IF invalidatesFeed(event[q]) THEN "refresh" ELSE "answer")
  /\ profile' = computeProfile(history[q])
  /\ UNCHANGED <<rows, analysed, event, recorded, history, invalidated, answers, boundVars>>

\* One transaction replaces the profile row and the affinity rows.
persistProfile(q) ==
  /\ Goto(q, "persist", IF recorded[q] /\ invalidatesFeed(event[q]) THEN "refresh" ELSE "answer")
  /\ profile' = computeProfile(history[q])
  /\ UNCHANGED <<rows, analysed, event, recorded, history, invalidated, answers, boundVars>>

\* Invalidate and queue the rebuild; the answer does not depend on the outcome.
RefreshFeed(q) ==
  /\ Goto(q, "refresh", "answer")
  /\ invalidated' = [invalidated EXCEPT ![event[q]] = @ + 1]
  /\ UNCHANGED <<rows, analysed, profile, event, recorded, history, answers, boundVars>>

RefreshRefused(q) ==
  /\ outages < MaxOutages
  /\ outages' = outages + 1
  /\ Goto(q, "refresh", "answer")
  /\ UNCHANGED <<rows, analysed, profile, event, recorded, history, invalidated, answers,
                 sends, faults>>

Forget(q) ==
  /\ at' = [at EXCEPT ![q] = "idle"]
  /\ event' = [event EXCEPT ![q] = None]
  /\ recorded' = [recorded EXCEPT ![q] = FALSE]
  /\ history' = [history EXCEPT ![q] = NoHistory]

\* 201 when the row is new, 200 for a duplicate.
Answer(q) ==
  /\ at[q] = "answer"
  /\ answers' = [answers EXCEPT ![event[q]] = @ \cup {recorded[q]}]
  /\ Forget(q)
  /\ UNCHANGED <<rows, analysed, profile, invalidated, boundVars>>

\* The await throws (500) or the process dies: no answer, nothing undone.
Fail(q) ==
  /\ faults < MaxFaults
  /\ faults' = faults + 1
  /\ at[q] # "idle"
  /\ Forget(q)
  /\ UNCHANGED <<rows, analysed, profile, invalidated, answers, sends, outages>>

\* Meanwhile the analysis worker writes an embedding.
Analyse(v) ==
  /\ v \in Videos \ analysed
  /\ analysed' = analysed \cup {v}
  /\ UNCHANGED <<rows, profile, requestVars, invalidated, answers, boundVars>>

Handle(q) ==
  \/ \E e \in Events : Send(q, e)
  \/ recordInteraction(q)
  \/ loadHistory(q)
  \/ persistProfile(q)
  \/ RefreshFeed(q)
  \/ RefreshRefused(q)
  \/ Answer(q)
  \/ Fail(q)

-----------------------------------------------------------------------------
(***************************************************************************)
(* A build of the feed: recommendCandidates goes on with the profile that  *)
(* getUserProfile found; when there is none it rebuilds one.               *)
(***************************************************************************)
GetUserProfile(b) ==
  /\ build[b] = "idle"
  /\ profile = None
  /\ build' = [build EXCEPT ![b] = "load"]
  /\ UNCHANGED <<profile, missing, faults>>

LoadMissing(b) ==
  /\ build[b] = "load"
  /\ build' = [build EXCEPT ![b] = "persist"]
  /\ missing' = [missing EXCEPT ![b] = [rows |-> rows, analysed |-> analysed]]
  /\ UNCHANGED <<profile, faults>>

PersistMissing(b) ==
  /\ build[b] = "persist"
  /\ build' = [build EXCEPT ![b] = "idle"]
  /\ profile' = computeProfile(missing[b])
  /\ missing' = [missing EXCEPT ![b] = NoHistory]
  /\ UNCHANGED faults

BuildFails(b) ==
  /\ faults < MaxFaults
  /\ faults' = faults + 1
  /\ build[b] # "idle"
  /\ build' = [build EXCEPT ![b] = "idle"]
  /\ missing' = [missing EXCEPT ![b] = NoHistory]
  /\ UNCHANGED profile

Build(b) ==
  /\ \/ GetUserProfile(b)
     \/ LoadMissing(b)
     \/ PersistMissing(b)
     \/ BuildFails(b)
  /\ UNCHANGED <<rows, analysed, requestVars, invalidated, answers, sends, outages>>

Next ==
  \/ \E q \in Requests : Handle(q) /\ UNCHANGED builderVars
  \/ \E b \in Builders : Build(b)
  \/ \E v \in Videos : Analyse(v) /\ UNCHANGED builderVars

Spec == Init /\ [][Next]_vars

-----------------------------------------------------------------------------
History == [rows : SUBSET Events, analysed : SUBSET Videos]

\* Types; in particular the total signal mass of a profile is never negative.
TypeOK ==
  /\ rows \in SUBSET Events
  /\ analysed \in SUBSET Videos
  /\ profile = None \/ profile \in StoredProfile
  /\ at \in [Requests -> Awaits]
  /\ event \in [Requests -> Events \cup {None}]
  /\ recorded \in [Requests -> BOOLEAN]
  /\ history \in [Requests -> History]
  /\ build \in [Builders -> {"idle", "load", "persist"}]
  /\ missing \in [Builders -> History]
  /\ invalidated \in [Events -> Nat]
  /\ answers \in [Events -> SUBSET BOOLEAN]
  /\ sends \in 0 .. MaxSends
  /\ faults \in 0 .. MaxFaults
  /\ outages \in 0 .. MaxOutages

(***************************************************************************)
(* Two sends of one event, at once or one after the other, never both      *)
(* count as its recording (interactions.ts: "the database settles it").    *)
(***************************************************************************)
RecordedOnce ==
  \A q \in Requests : recorded[q] =>
    /\ TRUE \notin answers[event[q]]
    /\ \A p \in Requests \ {q} : event[p] = event[q] => ~recorded[p]

\* However often it is sent, an event throws away at most one feed.
InvalidatedOnce == \A e \in Events : invalidated[e] <= 1

(***************************************************************************)
(* A creator's affinity stays within one: the denominator is the mass of   *)
(* all signals, so likes and skips of one user do not blow the scale up.   *)
(***************************************************************************)
AffinityNormalised ==
  profile # None =>
    \A c \in Creators : profile.affinity[c] \in -profile.denominator .. profile.denominator

(***************************************************************************)
(* Once every event on record has been answered and no request runs, the   *)
(* stored profile counts all of them: a rebuild that failed is repaired by *)
(* the retry, duplicate or not (server.ts: "Rebuilt even when the event    *)
(* was a duplicate no-op").                                                *)
(***************************************************************************)
ProfileCoversRows ==
  /\ \A q \in Requests : at[q] = "idle"
  /\ rows # {}
  /\ \A e \in rows : answers[e] # {}
  => profile # None /\ profile.interactionCount = Cardinality(rows)

Warm == profile # None /\ ~profile.isColdStart

=============================================================================
