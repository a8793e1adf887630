------------------------------ MODULE Diversity ------------------------------
(***************************************************************************)
(* diversifyCandidates (src/src/reco/diversity.ts): the greedy choice of   *)
(* one call.  The first pass picks under the caps, the second lifts them.  *)
(* One action is one iteration of a loop.  Scores and similarities are     *)
(* integers.  Every candidate is eligible: ranking drops the others.       *)
(***************************************************************************)
EXTENDS Integers, Sequences, FiniteSets, FiniteSetsExt

CONSTANTS
  Videos,      \* ids, as numbers: ties are broken by comparing them
  Creators,
  Creator,     \* Creator[v], or None when it is not known
  DiversityTags,
  Tags,        \* Tags[v]: the meaningful tags of v
  Similarity,  \* Similarity[v][w]: cosine of the two vectors; may be negative
  Lambda,      \* DIVERSITY_LAMBDA
  TOP_WINDOW,
  Scores,      \* bound of the model: the base scores
  Limits,      \* bound of the model: the limits asked for
  Caps,        \* bound of the model: the values of either cap
  None

ASSUME DiversityAssumption ==
  /\ Videos \subseteq Int /\ IsFiniteSet(Videos)
  /\ None \notin Creators
  /\ Creator \in [Videos -> Creators \cup {None}]
  /\ Tags \in [Videos -> SUBSET DiversityTags]
  /\ Similarity \in [Videos -> [Videos -> Int]]
  /\ Lambda \in Nat
  /\ TOP_WINDOW \in Nat
  /\ Scores \subseteq Int
  /\ Limits \subseteq Nat
  /\ Caps \subseteq Nat

VARIABLES
  baseScore,          \* the ranked candidates and their scores
  limit,
  maxSameCreator,
  maxSameTagInTop10,
  pass,               \* the loop that runs: "strict", "relaxed", or "done"
  selected,           \* the list so far
  remaining,          \* the candidates not looked at yet in this pass
  creatorCounts,
  tagCounts

input == <<baseScore, limit, maxSameCreator, maxSameTagInTop10>>
vars == <<input, pass, selected, remaining, creatorCounts, tagCounts>>

Pick == [video : Videos, diversityPenalty : Nat, admittedByRelaxation : BOOLEAN]

Init ==
  /\ baseScore \in UNION {[V -> Scores] : V \in SUBSET Videos}
  /\ limit \in Limits
  /\ maxSameCreator \in Caps
  /\ maxSameTagInTop10 \in Caps
  /\ pass = "strict"
  /\ selected = <<>>
  /\ remaining = DOMAIN baseScore
  /\ creatorCounts = [c \in Creators |-> 0]
  /\ tagCounts = [t \in DiversityTags |-> 0]

\* The videos among the first n picks.
Chosen(n) == {selected[i].video : i \in 1 .. n}

\* Only positive similarity is penalised.
similarityPenalty(v, chosen) == Lambda * Max({0} \cup {Similarity[v][w] : w \in chosen})

\* Mutation of violatesCaps: the tag cap is not limited to the top window.
CapTagsEverywhere(v) ==
  \/ /\ Creator[v] # None
     /\ creatorCounts[Creator[v]] >= maxSameCreator
  \/ \E t \in Tags[v] : tagCounts[t] >= maxSameTagInTop10

\* Mutation of violatesCaps: a cap counts as violated only when it is exceeded.
CapsExceeded(v) ==
  \/ /\ Creator[v] # None
     /\ creatorCounts[Creator[v]] > maxSameCreator
  \/ /\ Len(selected) < TOP_WINDOW
     /\ \E t \in Tags[v] : tagCounts[t] > maxSameTagInTop10

\* An unknown creator is exempt; tags count in the top window only.
violatesCaps(v) ==
  \/ /\ Creator[v] # None
     /\ creatorCounts[Creator[v]] >= maxSameCreator
  \/ /\ Len(selected) < TOP_WINDOW
     /\ \E t \in Tags[v] : tagCounts[t] >= maxSameTagInTop10

admit(v, relaxed) ==
  /\ selected' = Append(selected,
       [video |-> v, diversityPenalty |-> similarityPenalty(v, Chosen(Len(selected))),
        admittedByRelaxation |-> relaxed])
  /\ creatorCounts' =
       [c \in Creators |-> creatorCounts[c] + IF Creator[v] = c THEN 1 ELSE 0]
  /\ tagCounts' =
       [t \in DiversityTags |->
         tagCounts[t] + IF Len(selected) < TOP_WINDOW /\ t \in Tags[v] THEN 1 ELSE 0]

\* Higher score first, ties by id.
Precedes(v, w, score(_)) == score(v) > score(w) \/ (score(v) = score(w) /\ v < w)

IsFirst(v, S, score(_)) == \A w \in S \ {v} : Precedes(v, w, score)

-----------------------------------------------------------------------------
Admissible == {v \in remaining : ~violatesCaps(v)}

rerankScore(v) == baseScore[v] - similarityPenalty(v, Chosen(Len(selected)))

SelectBest ==
  /\ pass = "strict"
  /\ Len(selected) < limit
  /\ \E v \in Admissible :
       /\ IsFirst(v, Admissible, rerankScore)
       /\ admit(v, FALSE)
       /\ remaining' = remaining \ {v}
  /\ UNCHANGED <<input, pass>>

EndStrictPass ==
  /\ pass = "strict"
  /\ Len(selected) >= limit \/ Admissible = {}
  /\ pass' = IF Len(selected) < limit /\ remaining # {} THEN "relaxed" ELSE "done"
  /\ UNCHANGED <<input, selected, remaining, creatorCounts, tagCounts>>

\* Mutation of LeftoverScore: the tail in an order that is not the score's.
NoScore(v) == 0

\* The leftovers are sorted by base score, the penalty does not count.
LeftoverScore(v) == baseScore[v]

Relax ==
  /\ pass = "relaxed"
  /\ Len(selected) < limit
  /\ \E v \in remaining :
       /\ IsFirst(v, remaining, LeftoverScore)
       /\ admit(v, TRUE)
       /\ remaining' = remaining \ {v}
  /\ UNCHANGED <<input, pass>>

EndRelaxedPass ==
  /\ pass = "relaxed"
  /\ Len(selected) >= limit \/ remaining = {}
  /\ pass' = "done"
  /\ UNCHANGED <<input, selected, remaining, creatorCounts, tagCounts>>

Next == SelectBest \/ EndStrictPass \/ Relax \/ EndRelaxedPass

Spec == Init /\ [][Next]_vars

-----------------------------------------------------------------------------
\* Types; in particular a penalty is never negative (diversity.ts: "Always >= 0").
TypeOK ==
  /\ DOMAIN baseScore \subseteq Videos
  /\ \A v \in DOMAIN baseScore : baseScore[v] \in Scores
  /\ limit \in Limits
  /\ maxSameCreator \in Caps
  /\ maxSameTagInTop10 \in Caps
  /\ pass \in {"strict", "relaxed", "done"}
  /\ selected \in Seq(Pick)
  /\ remaining \subseteq DOMAIN baseScore
  /\ creatorCounts \in [Creators -> Nat]
  /\ tagCounts \in [DiversityTags -> Nat]

\* Positions of the picks made under the caps, by creator and by tag.
StrictPositions == {i \in DOMAIN selected : ~selected[i].admittedByRelaxation}
ByCreator(c) == {i \in StrictPositions : Creator[selected[i].video] = c}
InTopWindow(t) == {i \in StrictPositions : i <= TOP_WINDOW /\ t \in Tags[selected[i].video]}

(***************************************************************************)
(* Every pick not marked as relaxed honours both caps, whatever the order  *)
(* of picks and wherever the window ends in the list.                      *)
(***************************************************************************)
CapsHold ==
  /\ \A c \in Creators : Cardinality(ByCreator(c)) <= maxSameCreator
  /\ \A t \in DiversityTags : Cardinality(InTopWindow(t)) <= maxSameTagInTop10

\* Whether v breaks a cap after the first n picks, from the list alone.
BlockedAfter(n, v) ==
  \/ /\ Creator[v] # None
     /\ Cardinality({i \in 1 .. n : Creator[selected[i].video] = Creator[v]}) >= maxSameCreator
  \/ /\ n < TOP_WINDOW
     /\ \E t \in Tags[v] :
          Cardinality({i \in 1 .. n : t \in Tags[selected[i].video]}) >= maxSameTagInTop10

Unselected(n) == DOMAIN baseScore \ Chosen(n)

(***************************************************************************)
(* The result is the greedy list: each strict pick is first, by score less *)
(* penalty, of those the caps allowed at its position; each relaxed pick   *)
(* is first, by score alone, of those left when the caps allowed nobody.   *)
(***************************************************************************)
IsGreedy ==
  \A i \in DOMAIN selected :
    LET Reranked(v) == baseScore[v] - similarityPenalty(v, Chosen(i - 1))
        Allowed == {v \in Unselected(i - 1) : ~BlockedAfter(i - 1, v)}
    IN  IF i \in StrictPositions
        THEN selected[i].video \in Allowed /\ IsFirst(selected[i].video, Allowed, Reranked)
        ELSE \A v \in Unselected(i) : Precedes(selected[i].video, v, LAMBDA w : baseScore[w])

(***************************************************************************)
(* The caps are lifted for good, and only once they blocked every          *)
(* candidate that was left.                                                *)
(***************************************************************************)
RelaxedOnlyWhenBlocked ==
  LET strict == Cardinality(StrictPositions)
  IN  strict < Len(selected) =>
        /\ StrictPositions = 1 .. strict
        /\ \A v \in Unselected(strict) : BlockedAfter(strict, v)

=============================================================================
