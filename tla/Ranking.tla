------------------------------- MODULE Ranking -------------------------------
(***************************************************************************)
(* The score of a candidate (src/src/reco/ranking.ts): a weighted sum of   *)
(* signals.  Reals are integers over One, rounded down; the features, the  *)
(* vectors and the hash of an id are tables.                               *)
(***************************************************************************)
EXTENDS Diversity

CONSTANTS
  Slots,                   \* the taxonomy layout: one dimension per field:value
  Unknown,                 \* the slots of `unknown`: never encoded
  Absent,                  \* the slots of `none`: encoded, but no preference
  Carries,                 \* Carries[v]: the slots of v's features
  Vector,                  \* Vector[v]: encodeFeatures, normalised
  One,                     \* the integer that stands for 1
  FATIGUE_RECENT_VIDEOS,
  AestheticScore,          \* of v's features, or None
  Age,                     \* Age[v]: in half-lives; negative for a clock ahead of ours
  Exploration,             \* of this user and day
  Weight                   \* RANK_W_*

\* The values that say something about v.
Meaningful(v) == Carries[v] \ (Unknown \cup Absent)

\* Those of the fields that count as "the same kind of thing".
diversityTags(v) == Meaningful(v) \cap DiversityTags

ASSUME RankingAssumption ==
  /\ Unknown \subseteq Slots
  /\ Absent \subseteq Slots
  /\ Carries \in [Videos -> SUBSET Slots]
  /\ Vector \in [Videos -> [Slots -> Nat]]
  /\ \A v \in Videos, s \in Slots : Vector[v][s] > 0 => s \in Carries[v] \ Unknown
  /\ One \in Nat \ {0}
  /\ FATIGUE_RECENT_VIDEOS \in Nat \ {0}
  /\ AestheticScore \in [Videos -> (0 .. One) \cup {None}]
  /\ Age \in [Videos -> Int]
  /\ Exploration \in [Videos -> 0 .. One]
  /\ Weight \in [{"affinity", "quality", "freshness", "popularity", "fatigue",
                  "exploration", "creatorAffinity"} -> Nat]
  /\ \A v \in Videos : Tags[v] = diversityTags(v)

-----------------------------------------------------------------------------
\* Both vectors are stored with length 1.
cosine(vec, v) == MapThenSumSet(LAMBDA s : vec[s] * Vector[v][s], Slots)

\* The mean of the signed preferences for what the video carries.
tagAffinity(vec, v) ==
  IF Meaningful(v) = {} THEN 0
  ELSE MapThenSumSet(LAMBDA s : vec[s], Meaningful(v)) \div Cardinality(Meaningful(v))

\* Mutation of normalisePopularity: min-max over the signed values.
MinMaxPopularity(engagement) ==
  LET values == {engagement[v] : v \in DOMAIN engagement}
  IN  [v \in DOMAIN engagement |->
        IF Cardinality(values) = 1 THEN One
        ELSE (One * (engagement[v] - Min(values))) \div (Max(values) - Min(values))]

\* Scaled by the strongest positive engagement of the window; the rest is 0.
normalisePopularity(engagement) ==
  LET maxPositive == Max({0} \cup {engagement[v] : v \in DOMAIN engagement})
  IN  [v \in DOMAIN engagement |->
        IF maxPositive = 0 THEN 0 ELSE (One * Max({0, engagement[v]})) \div maxPositive]

popularityOf(engagement, v) ==
  IF v \in DOMAIN engagement THEN normalisePopularity(engagement)[v] ELSE 0

\* The share of the recent videos that repeat v's creator or its commonest tag,
\* less while the window is not full.
fatigue(v, recent) ==
  LET window == DOMAIN recent
      sameCreator == {i \in window : Creator[v] # None /\ Creator[recent[i]] = Creator[v]}
      sameTag(t) == {i \in window : t \in Tags[recent[i]]}
      most == Max({Cardinality(sameCreator)} \cup {Cardinality(sameTag(t)) : t \in Tags[v]})
  IN  IF recent = <<>> THEN 0
      ELSE (One * most * Min({Len(recent), FATIGUE_RECENT_VIDEOS}))
             \div (Len(recent) * FATIGUE_RECENT_VIDEOS)

\* Halved with every half-life; an upload from the future is new.
freshness(v) == One \div 2 ^ Max({0, Age[v]})

quality(v) == IF AestheticScore[v] = None THEN 0 ELSE AestheticScore[v]

\* A cold start zeroes the personalised terms.
affinity(profile, v) ==
  IF profile.isColdStart THEN 0
  ELSE (cosine(profile.vector, v) + tagAffinity(profile.vector, v)) \div 2

creatorAffinity(profile, v) ==
  IF profile.isColdStart \/ Creator[v] = None THEN 0 ELSE profile.creatorAffinity[Creator[v]]

scoreCandidate(v, profile, recent, engagement) ==
    Weight.affinity * affinity(profile, v)
  + Weight.quality * quality(v)
  + Weight.freshness * freshness(v)
  + Weight.popularity * popularityOf(engagement, v)
  - Weight.fatigue * fatigue(v, recent)
  + Weight.exploration * Exploration[v]
  + Weight.creatorAffinity * creatorAffinity(profile, v)

\* A candidate without an eligible row is dropped; the order is that of the
\* scores (IsFirst).
rankCandidates(candidates, eligible, profile, recent, engagement) ==
  [v \in candidates \cap eligible |-> scoreCandidate(v, profile, recent, engagement)]

=============================================================================
