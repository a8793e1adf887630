---------------------------- MODULE MCRecommender ----------------------------
(***************************************************************************)
(* Four videos of two creators and an unknown one, over two tags, an       *)
(* unknown value and an absent one.  Limits are below the number of        *)
(* videos, so that a source spends them on what the union drops.           *)
(*                                                                         *)
(* A behaviour starts with a call of recommendCandidates, or with a call   *)
(* of diversifyCandidates by itself, over every ranking of some of the     *)
(* videos with three scores, every limit and both caps.                    *)
(***************************************************************************)
EXTENDS Recommender

MCCreator == <<"c1", "c1", "c2", None>>
MCCarries == <<{"pool", "pov"}, {"pool", "unknown"}, {"pov", "none"}, {"unknown", "none"}>>
MCTags == [v \in Videos |-> MCCarries[v] \cap {"pool", "pov"}]
MCVector ==
  [v \in Videos |-> [s \in Slots |-> IF s \in MCCarries[v] \ Unknown THEN 1 ELSE 0]]
MCSimilarity ==
  [v \in Videos |-> [w \in Videos |->
    MapThenSumSet(LAMBDA s : MCVector[v][s] * MCVector[w][s], Slots)]]
MCAestheticScore == <<2, None, 0, 1>>
MCAge == <<2, 1, 1, -1>>
MCExploration == <<0, 2, 1, 2>>
MCWeight ==
  [affinity |-> 2, quality |-> 1, freshness |-> 1, popularity |-> 1, fatigue |-> 1,
   exploration |-> 1, creatorAffinity |-> 1]
MCLimitOf == [similar |-> 1, tag |-> 1, trending |-> 1, fresh |-> 1, explore |-> 3]

Taste(pool, pov) == [s \in Slots |-> IF s = "pool" THEN pool ELSE IF s = "pov" THEN pov ELSE 0]
MCProfiles ==
  { [isColdStart |-> TRUE, vector |-> Taste(1, 0), creatorAffinity |-> [c1 |-> 1, c2 |-> 0]],
    [isColdStart |-> TRUE, vector |-> Taste(0, 0), creatorAffinity |-> [c1 |-> 0, c2 |-> 0]],
    [isColdStart |-> FALSE, vector |-> Taste(2, -1), creatorAffinity |-> [c1 |-> -1, c2 |-> 1]] }

MCScores == -20 .. 20

MCCorpora ==
  { <<"current", "current", "current", "current">>, <<"current", "stale", "current", "stale">>,
    <<"pending", "current", "pending", "current">> }

By(own, v, weight, inWindow) ==
  [own |-> own, video |-> v, weight |-> weight, inWindow |-> inWindow]
MCHistories ==
  { <<>>, <<By(TRUE, 4, 0, FALSE), By(TRUE, 4, 1, FALSE), By(TRUE, 1, 1, FALSE)>>,
    <<By(FALSE, 3, -1, TRUE), By(FALSE, 2, -2, TRUE)>> }

MCCall == RecommenderInit /\ limit = 3 /\ maxSameCreator = 1 /\ maxSameTagInTop10 = 1

MCRankings == UNION {[V -> 0 .. 2] : V \in SUBSET Videos}

MCList ==
  /\ corpus = [v \in Videos |-> "current"]
  /\ events = <<>>
  /\ changes = 0
  /\ profile \in {p \in Profiles : ~p.isColdStart}
  /\ eligible = Videos
  /\ seen = {}
  /\ engagement = <<>>
  /\ returned = [s \in CANDIDATE_SOURCES |-> {}]
  /\ waiting = {}
  /\ pc = "diversify"
  /\ seenBefore = {}
  /\ candidates = <<>>
  /\ recentVideos = <<>>
  /\ baseScore \in MCRankings
  /\ limit \in Limits
  /\ maxSameCreator \in Caps
  /\ maxSameTagInTop10 \in Caps
  /\ exhausted = (Cardinality(DOMAIN baseScore) < limit)
  /\ pass = "strict"
  /\ selected = <<>>
  /\ remaining = DOMAIN baseScore
  /\ creatorCounts = [c \in Creators |-> 0]
  /\ tagCounts = [t \in DiversityTags |-> 0]

MCSpec == (MCCall \/ MCList) /\ [][RecommenderNext]_allVars

=============================================================================
