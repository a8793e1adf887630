------------------------------ MODULE Candidates ------------------------------
(***************************************************************************)
(* Candidate generation (src/src/reco/candidates.ts): the queries, each a  *)
(* snapshot of its own moment, and the five sources over them.  Ids are    *)
(* sets: no order of a source survives the union.                          *)
(***************************************************************************)
EXTENDS Ranking

CONSTANTS
  LimitOf,       \* CAND_*_K
  TopTags,       \* topN of topPreferredTags
  Profiles,      \* bound of the model: what user_profiles may hold
  Corpora,       \* bound of the model: the analyses there are at first
  Histories,     \* bound of the model: the interactions there are at first
  Weights,       \* bound of the model: eventWeight of what arrives
  MaxChanges     \* bound of the model: changes made by others meanwhile

Event == [own : BOOLEAN, video : Videos, weight : Int, inWindow : BOOLEAN]

ASSUME CandidatesAssumption ==
  /\ LimitOf \in [{"similar", "tag", "trending", "fresh", "explore"} -> Nat]
  /\ TopTags \in Nat
  /\ Histories \subseteq Seq(Event)
  /\ Weights \subseteq Int
  /\ MaxChanges \in Nat

VARIABLES
  corpus,        \* corpus[v]: "pending" (not analysed), "stale" (another taxonomy) or "current"
  events,        \* interactions, newest first, of this user and of others
  changes,       \* how many changes others made
  profile,
  eligible,      \* the ids that loadEligibleVideos saw
  seen,
  engagement,
  returned,      \* returned[source]: the ids of a source
  waiting        \* the queries of the current Promise.all not yet answered

database == <<corpus, events, changes>>
loaded == <<profile, eligible, seen, engagement, returned, waiting>>

CANDIDATE_SOURCES == {"similar", "tag", "trending", "fresh", "explore"}

OwnEvents == SelectSeq(events, LAMBDA e : e.own)

\* As distinct ids.
OwnVideos == {events[i].video : i \in {j \in DOMAIN events : events[j].own}}

-----------------------------------------------------------------------------
\* Others write while the recommendation waits; a client may date an event back.
Interact ==
  /\ changes < MaxChanges
  /\ changes' = changes + 1
  /\ \E v \in Videos, own \in BOOLEAN, weight \in Weights :
       LET e == [own |-> own, video |-> v, weight |-> weight, inWindow |-> TRUE]
       IN  events' \in {<<e>> \o events, Append(events, [e EXCEPT !.inWindow = FALSE])}
  /\ UNCHANGED corpus

\* An analysis ends, or a new one begins and takes the video out.
Analyse ==
  /\ changes < MaxChanges
  /\ changes' = changes + 1
  /\ \E v \in Videos :
       corpus' = [corpus EXCEPT ![v] = IF @ = "current" THEN "pending" ELSE "current"]
  /\ UNCHANGED events

-----------------------------------------------------------------------------
Answered(query) == query \in waiting /\ waiting' = waiting \ {query}

\* A vector of another taxonomy version is not comparable.
loadEligibleVideos ==
  /\ Answered("eligible")
  /\ eligible' = {v \in Videos : corpus[v] = "current"}
  /\ UNCHANGED <<database, profile, seen, engagement, returned>>

loadSeen ==
  /\ Answered("seen")
  /\ seen' = OwnVideos
  /\ UNCHANGED <<database, profile, eligible, engagement, returned>>

\* Everybody's signed engagement in the window; an event without weight is none.
loadEngagement ==
  /\ Answered("engagement")
  /\ LET counted == {i \in DOMAIN events : events[i].inWindow /\ events[i].weight # 0}
         weight == [i \in DOMAIN events |-> events[i].weight]
     IN  engagement' = [v \in {events[i].video : i \in counted} |->
                          SumFunctionOnSet(weight, {i \in counted : events[i].video = v})]
  /\ UNCHANGED <<database, profile, eligible, seen, returned>>

-----------------------------------------------------------------------------
\* T is a first k of S by score; ties fall either way.
IsTop(T, S, k, score(_)) ==
  /\ T \subseteq S
  /\ Cardinality(T) = Min({k, Cardinality(S)})
  /\ \A v \in T, w \in S \ T : score(v) >= score(w)

\* The one first k when ties are broken by id.
TopById(S, k, score(_)) ==
  {v \in S : Cardinality({w \in S \ {v} : Precedes(w, v, score)}) < k}

\* The strongest positive preferences worth retrieving on.
PreferredTags(tags, vec) ==
  IsTop(tags, {s \in Slots \ (Unknown \cup Absent) : vec[s] > 0}, TopTags, LAMBDA s : vec[s])

sourceSimilar ==
  /\ Answered("similar")
  /\ \E found \in SUBSET Videos :
       /\ IF profile.isColdStart \/ \A s \in Slots : profile.vector[s] = 0
          THEN found = {}
          ELSE IsTop(found, {v \in Videos : corpus[v] = "current"} \ seen, LimitOf.similar,
                     LAMBDA v : cosine(profile.vector, v))
       /\ returned' = [returned EXCEPT !["similar"] = found]
  /\ UNCHANGED <<database, profile, eligible, seen, engagement>>

\* Mutation of sourceTag: retrieves for a cold start too.
TagForEverybody ==
  /\ Answered("tag")
  /\ \E tags \in SUBSET Slots, found \in SUBSET Videos :
       /\ PreferredTags(tags, profile.vector)
       /\ IsTop(found,
                {v \in Videos : corpus[v] # "pending" /\ Carries[v] \cap tags # {}} \ seen,
                LimitOf.tag, LAMBDA v : 0)
       /\ returned' = [returned EXCEPT !["tag"] = found]
  /\ UNCHANGED <<database, profile, eligible, seen, engagement>>

\* No taxonomy version is asked for, and no order: the limit keeps any of them.
sourceTag ==
  /\ Answered("tag")
  /\ \E tags \in SUBSET Slots, found \in SUBSET Videos :
       /\ PreferredTags(tags, profile.vector)
       /\ IF profile.isColdStart
          THEN found = {}
          ELSE IsTop(found,
                     {v \in Videos : corpus[v] # "pending" /\ Carries[v] \cap tags # {}} \ seen,
                     LimitOf.tag, LAMBDA v : 0)
       /\ returned' = [returned EXCEPT !["tag"] = found]
  /\ UNCHANGED <<database, profile, eligible, seen, engagement>>

\* Newest first: ids grow with the time of creation.
sourceFresh ==
  /\ Answered("fresh")
  /\ \E found \in SUBSET Videos :
       /\ IsTop(found, {v \in Videos : corpus[v] # "pending"} \ seen, LimitOf.fresh, LAMBDA v : v)
       /\ returned' = [returned EXCEPT !["fresh"] = found]
  /\ UNCHANGED <<database, profile, eligible, seen, engagement>>

-----------------------------------------------------------------------------
Unseen == eligible \ seen

\* Only what people liked more than they skipped it.
sourceTrending ==
  TopById({v \in Unseen \cap DOMAIN engagement : engagement[v] > 0}, LimitOf.trending,
          LAMBDA v : engagement[v])

sourceExplore == TopById(Unseen, LimitOf.explore, LAMBDA v : Exploration[v])

allReturned == [returned EXCEPT !["trending"] = sourceTrending, !["explore"] = sourceExplore]

SourcesOf(perSource, v) == {s \in CANDIDATE_SOURCES : v \in perSource[s]}

\* Mutation of unionCandidates: without the safety net.
UnionOfAll(perSource) ==
  [v \in UNION {perSource[s] : s \in CANDIDATE_SOURCES} |-> SourcesOf(perSource, v)]

\* The sources of each candidate; what the eligible snapshot lacks is dropped.
unionCandidates(perSource) ==
  [v \in {w \in eligible : SourcesOf(perSource, w) # {}} |-> SourcesOf(perSource, v)]

=============================================================================
