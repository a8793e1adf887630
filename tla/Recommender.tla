----------------------------- MODULE Recommender -----------------------------
(***************************************************************************)
(* recommendCandidates (src/src/reco/recommender.ts): one recommendation,  *)
(* from the profile to the diversified list, while interactions arrive     *)
(* and analyses finish between its queries.  The synchronous stages are    *)
(* one step, except for the loops of Diversity.                            *)
(***************************************************************************)
EXTENDS Candidates

CONSTANT RecentRows      \* FATIGUE_RECENT_VIDEOS * 5: the slice of events read

VARIABLES
  pc,             \* the await or stage the call is in
  seenBefore,     \* history: the videos the user had touched when it was called
  candidates,     \* id -> its sources
  exhausted,      \* candidateShortage
  recentVideos    \* the fatigue window, newest first

call == <<pc, seenBefore, candidates, exhausted, recentVideos>>
allVars == <<database, loaded, call, vars>>

RecommenderInit ==
  /\ corpus \in Corpora
  /\ events \in Histories
  /\ changes = 0
  /\ profile \in Profiles
  /\ eligible = {}
  /\ seen = {}
  /\ engagement = <<>>
  /\ returned = [s \in CANDIDATE_SOURCES |-> {}]
  /\ waiting = {"eligible", "seen", "engagement"}
  /\ pc = "load"
  /\ seenBefore = OwnVideos
  /\ candidates = <<>>
  /\ exhausted = FALSE
  /\ recentVideos = <<>>
  /\ baseScore = <<>>
  /\ limit \in Limits
  /\ maxSameCreator \in Caps
  /\ maxSameTagInTop10 \in Caps
  /\ pass = "done"
  /\ selected = <<>>
  /\ remaining = {}
  /\ creatorCounts = [c \in Creators |-> 0]
  /\ tagCounts = [t \in DiversityTags |-> 0]

-----------------------------------------------------------------------------
\* The writes of others are seen by queries only: none is left after "recent".
Others ==
  /\ pc \in {"load", "sources", "recent"}
  /\ Interact \/ Analyse
  /\ UNCHANGED <<loaded, call, vars>>

\* The first Promise.all: three snapshots in any order.
Load ==
  /\ pc = "load"
  /\ loadEligibleVideos \/ loadSeen \/ loadEngagement
  /\ UNCHANGED <<call, vars>>

AskSources ==
  /\ pc = "load"
  /\ waiting = {}
  /\ pc' = "sources"
  /\ waiting' = {"similar", "tag", "fresh"}
  /\ UNCHANGED <<database, profile, eligible, seen, engagement, returned, vars,
                 seenBefore, candidates, exhausted, recentVideos>>

Source ==
  /\ pc = "sources"
  /\ sourceSimilar \/ sourceTag \/ sourceFresh
  /\ UNCHANGED <<call, vars>>

\* Mutation of generateCandidates: what the user has seen counts as left.
ShortageOfEligible ==
  /\ pc = "sources"
  /\ waiting = {}
  /\ returned' = allReturned
  /\ candidates' = unionCandidates(allReturned)
  /\ exhausted' = (Cardinality(eligible) < limit)
  /\ pc' = "recent"
  /\ waiting' = {"recent"}
  /\ UNCHANGED <<database, profile, eligible, seen, engagement, vars,
                 seenBefore, recentVideos>>

\* The sources in memory, the union and the shortage; then the next query.
generateCandidates ==
  /\ pc = "sources"
  /\ waiting = {}
  /\ returned' = allReturned
  /\ candidates' = unionCandidates(allReturned)
  /\ exhausted' = (Cardinality(Unseen) < limit)
  /\ pc' = "recent"
  /\ waiting' = {"recent"}
  /\ UNCHANGED <<database, profile, eligible, seen, engagement, vars,
                 seenBefore, recentVideos>>

\* The rows read, each video at its newest event.
NewestOf(rows) ==
  {i \in DOMAIN rows : \A j \in 1 .. i - 1 : rows[j].video # rows[i].video}

\* Only videos with features count, and the walk stops when the window is full.
RecentIn(rows) ==
  LET known == {i \in NewestOf(rows) : rows[i].video \in eligible}
      rank(i) == Cardinality({j \in known : j <= i})
  IN  [n \in 1 .. Min({FATIGUE_RECENT_VIDEOS, Cardinality(known)}) |->
        rows[CHOOSE i \in known : rank(i) = n].video]

loadRecentVideos ==
  /\ pc = "recent"
  /\ Answered("recent")
  /\ recentVideos' = RecentIn(SubSeq(OwnEvents, 1, Min({RecentRows, Len(OwnEvents)})))
  /\ pc' = "rank"
  /\ UNCHANGED <<database, profile, eligible, seen, engagement, returned, vars,
                 seenBefore, candidates, exhausted>>

Rank ==
  /\ pc = "rank"
  /\ baseScore' =
       rankCandidates(DOMAIN candidates, eligible, profile, recentVideos, engagement)
  /\ remaining' = DOMAIN baseScore'
  /\ pass' = "strict"
  /\ pc' = "diversify"
  /\ UNCHANGED <<database, loaded, seenBefore, candidates, exhausted, recentVideos,
                 limit, maxSameCreator, maxSameTagInTop10, selected, creatorCounts, tagCounts>>

Diversify ==
  /\ pc = "diversify"
  /\ SelectBest \/ EndStrictPass \/ Relax \/ EndRelaxedPass
  /\ UNCHANGED <<database, loaded, call>>

\* A rejected query rejects its Promise.all and with it the call.
QueryFails ==
  /\ pc \in {"load", "sources", "recent"}
  /\ waiting # {}
  /\ pc' = "failed"
  /\ UNCHANGED <<database, loaded, vars, seenBefore, candidates, exhausted, recentVideos>>

RecommenderNext ==
  \/ Others
  \/ Load
  \/ AskSources
  \/ Source
  \/ generateCandidates
  \/ loadRecentVideos
  \/ Rank
  \/ Diversify
  \/ QueryFails

RecommenderSpec == RecommenderInit /\ [][RecommenderNext]_allVars

-----------------------------------------------------------------------------
\* Types; the list is that of Diversity.
RecommenderTypeOK ==
  /\ TypeOK
  /\ corpus \in [Videos -> {"pending", "stale", "current"}]
  /\ \A i \in DOMAIN events : events[i] \in Event
  /\ changes \in 0 .. MaxChanges
  /\ profile \in Profiles
  /\ eligible \subseteq Videos
  /\ seen \subseteq Videos
  /\ DOMAIN engagement \subseteq Videos /\ \A v \in DOMAIN engagement : engagement[v] \in Int
  /\ returned \in [CANDIDATE_SOURCES -> SUBSET Videos]
  /\ waiting \subseteq {"eligible", "seen", "engagement", "similar", "tag", "fresh", "recent"}
  /\ pc \in {"load", "sources", "recent", "rank", "diversify", "failed"}
  /\ seenBefore \subseteq Videos
  /\ DOMAIN candidates \subseteq Videos
  /\ exhausted \in BOOLEAN
  /\ Len(recentVideos) <= FATIGUE_RECENT_VIDEOS

Finished == pc = "diversify" /\ pass = "done"

(***************************************************************************)
(* Whatever changed between the queries, a candidate is in the eligible    *)
(* snapshot, names a source that returned it, and is a video the user had  *)
(* not touched when the call began.                                        *)
(***************************************************************************)
Recommendable ==
  \A v \in DOMAIN candidates :
    /\ v \in eligible
    /\ v \notin seen \cup seenBefore
    /\ candidates[v] # {}
    /\ candidates[v] = {s \in CANDIDATE_SOURCES : v \in returned[s]}

(***************************************************************************)
(* The list is short exactly when candidateShortage says so, although the  *)
(* queries may spend their limits on videos the union drops: exploration   *)
(* makes up for it, provided CAND_EXPLORE_K is not below the limit.        *)
(***************************************************************************)
ShortageReported ==
  Finished /\ LimitOf.explore >= limit => (Len(selected) < limit <=> exhausted)

(***************************************************************************)
(* "Personalised terms are zeroed and the global signals decide": with a   *)
(* cold start neither the candidates nor their scores depend on what the   *)
(* profile holds.  (Fatigue and exploration stay, and are the user's.)     *)
(***************************************************************************)
ColdStartIsGlobal ==
  profile.isColdStart =>
    /\ \A v \in DOMAIN candidates : candidates[v] \subseteq {"trending", "fresh", "explore"}
    /\ \A p \in Profiles : p.isColdStart /\ pc = "diversify" =>
         baseScore = rankCandidates(DOMAIN candidates, eligible, p, recentVideos, engagement)

(***************************************************************************)
(* Nobody is promoted by dislikes: in a window where everything is         *)
(* net-negative nothing is popular, and more engagement is never less      *)
(* popularity.                                                             *)
(***************************************************************************)
DislikesNeverPromote ==
  \A v \in DOMAIN engagement :
    /\ popularityOf(engagement, v) > 0 => engagement[v] > 0
    /\ \A w \in DOMAIN engagement :
         engagement[v] >= engagement[w] =>
           popularityOf(engagement, v) >= popularityOf(engagement, w)

=============================================================================
