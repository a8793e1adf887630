--------------------------- MODULE DiversityProofs ---------------------------
(***************************************************************************)
(* Every list the greedy choice builds honours the caps outside its        *)
(* relaxed tail, and is the greedy one, for every corpus, window and pair  *)
(* of caps.  The counts the code keeps are those of the list while the     *)
(* strict pass runs; later picks are marked as relaxed and leave the       *)
(* strict positions, and every prefix of the list, alone.                  *)
(***************************************************************************)
EXTENDS Diversity, FiniteSetTheorems, TLAPS

\* A pick whose penalty is only known to have been computed.
Picked ==
  [video : Videos,
   diversityPenalty : {Lambda * Max({0} \cup M) : M \in SUBSET Int},
   admittedByRelaxation : BOOLEAN]

Shape ==
  /\ limit \in Nat
  /\ maxSameCreator \in Nat
  /\ maxSameTagInTop10 \in Nat
  /\ remaining \subseteq Videos
  /\ selected \in Seq(Picked)
  /\ creatorCounts \in [Creators -> Nat]
  /\ tagCounts \in [DiversityTags -> Nat]

CountsMatch ==
  pass = "strict" =>
    /\ \A i \in DOMAIN selected : ~selected[i].admittedByRelaxation
    /\ \A c \in Creators : creatorCounts[c] = Cardinality(ByCreator(c))
    /\ \A t \in DiversityTags : tagCounts[t] = Cardinality(InTopWindow(t))

IInv == Shape /\ CountsMatch /\ CapsHold

-----------------------------------------------------------------------------
\* The positions of a list are finitely many.
LEMMA PositionsFinite ==
  ASSUME Shape
  PROVE  /\ DOMAIN selected = 1 .. Len(selected)
         /\ Len(selected) \in Nat
         /\ \A P \in SUBSET (1 .. Len(selected)) :
              IsFiniteSet(P) /\ Cardinality(P) \in Nat
<1>1. DOMAIN selected = 1 .. Len(selected) /\ Len(selected) \in Nat
  BY DEF Shape
<1>2. IsFiniteSet(1 .. Len(selected))
  BY <1>1, FS_Interval
<1>3. ASSUME NEW P \in SUBSET (1 .. Len(selected))
      PROVE  IsFiniteSet(P) /\ Cardinality(P) \in Nat
  BY <1>2, FS_Subset, FS_CardinalityType
<1> QED BY <1>1, <1>3

\* What pushing a pick does to the list.
LEMMA AdmitAppends ==
  ASSUME Shape, NEW v \in Videos, NEW relaxed \in BOOLEAN, admit(v, relaxed)
  PROVE  /\ selected' \in Seq(Picked)
         /\ DOMAIN selected' = 1 .. Len(selected) + 1
         /\ \A i \in 1 .. Len(selected) : selected'[i] = selected[i]
         /\ selected'[Len(selected) + 1].video = v
         /\ selected'[Len(selected) + 1].admittedByRelaxation = relaxed
<1> DEFINE p == [video |-> v,
                 diversityPenalty |-> similarityPenalty(v, Chosen(Len(selected))),
                 admittedByRelaxation |-> relaxed]
<1>1. Chosen(Len(selected)) \subseteq Videos
  <2>1. \A i \in 1 .. Len(selected) : selected[i] \in Picked
    BY DEF Shape
  <2> QED BY <2>1 DEF Chosen, Picked
<1>2. {Similarity[v][w] : w \in Chosen(Len(selected))} \in SUBSET Int
  <2>1. \A w \in Videos : Similarity[v][w] \in Int
    BY DiversityAssumption
  <2> QED BY <1>1, <2>1
<1>3. p \in Picked
  <2>1. similarityPenalty(v, Chosen(Len(selected)))
          \in {Lambda * Max({0} \cup M) : M \in SUBSET Int}
    BY <1>2 DEF similarityPenalty
  <2> HIDE DEF similarityPenalty
  <2> QED BY <2>1 DEF Picked
<1>4. selected' = Append(selected, p)
  BY DEF admit
<1>5. p.video = v /\ p.admittedByRelaxation = relaxed
  OBVIOUS
<1> HIDE DEF p
<1> QED BY <1>3, <1>4, <1>5 DEF Shape

\* Pushing a pick keeps the shape of the state.
LEMMA AdmitKeepsShape ==
  ASSUME Shape, NEW v \in Videos, NEW relaxed \in BOOLEAN, admit(v, relaxed),
         UNCHANGED input, remaining' \subseteq remaining
  PROVE  Shape'
<1>1. selected' \in Seq(Picked)
  BY AdmitAppends
<1>2. creatorCounts' \in [Creators -> Nat] /\ tagCounts' \in [DiversityTags -> Nat]
  BY DEF admit, Shape
<1> QED BY <1>1, <1>2 DEF Shape, input

\* A strict pick joins the positions of its creator and, in the window, of its tags.
LEMMA StrictPickCounts ==
  ASSUME Shape, CountsMatch, pass = "strict", NEW v \in Videos, admit(v, FALSE)
  PROVE  /\ \A i \in DOMAIN selected' : ~selected'[i].admittedByRelaxation
         /\ \A c \in Creators : creatorCounts'[c] = Cardinality(ByCreator(c)')
         /\ \A t \in DiversityTags : tagCounts'[t] = Cardinality(InTopWindow(t)')
<1> DEFINE n == Len(selected)
<1>1. /\ DOMAIN selected = 1 .. n
      /\ n \in Nat
      /\ \A P \in SUBSET (1 .. n) : IsFiniteSet(P) /\ Cardinality(P) \in Nat
  BY PositionsFinite
<1>2. /\ DOMAIN selected' = 1 .. n + 1
      /\ \A i \in 1 .. n : selected'[i] = selected[i]
      /\ selected'[n + 1].video = v
      /\ ~selected'[n + 1].admittedByRelaxation
  BY AdmitAppends
<1>3. /\ \A i \in 1 .. n : ~selected[i].admittedByRelaxation
      /\ \A c \in Creators : creatorCounts[c] = Cardinality(ByCreator(c))
      /\ \A t \in DiversityTags : tagCounts[t] = Cardinality(InTopWindow(t))
  BY <1>1 DEF CountsMatch
<1>4. /\ creatorCounts' =
           [c \in Creators |-> creatorCounts[c] + IF Creator[v] = c THEN 1 ELSE 0]
      /\ tagCounts' =
           [t \in DiversityTags |->
             tagCounts[t] + IF n < TOP_WINDOW /\ t \in Tags[v] THEN 1 ELSE 0]
  BY DEF admit
<1> HIDE DEF n
<1>5. \A i \in DOMAIN selected' : ~selected'[i].admittedByRelaxation
  BY <1>1, <1>2, <1>3
<1>6. ASSUME NEW c \in Creators
      PROVE  creatorCounts'[c] = Cardinality(ByCreator(c)')
  <2>1. ByCreator(c) \in SUBSET (1 .. n) /\ n + 1 \notin ByCreator(c)
    BY <1>1 DEF ByCreator, StrictPositions
  <2>2. ByCreator(c)' = IF Creator[v] = c THEN ByCreator(c) \cup {n + 1} ELSE ByCreator(c)
    BY <1>1, <1>2, <1>3 DEF ByCreator, StrictPositions
  <2>3. IsFiniteSet(ByCreator(c)) /\ Cardinality(ByCreator(c)) \in Nat
    BY <1>1, <2>1
  <2>4. Cardinality(ByCreator(c) \cup {n + 1}) = Cardinality(ByCreator(c)) + 1
    BY <2>1, <2>3, FS_AddElement
  <2>5. creatorCounts'[c] = Cardinality(ByCreator(c)) + IF Creator[v] = c THEN 1 ELSE 0
    BY <1>3, <1>4
  <2> QED BY <2>2, <2>3, <2>4, <2>5
<1>7. ASSUME NEW t \in DiversityTags
      PROVE  tagCounts'[t] = Cardinality(InTopWindow(t)')
  <2>1. InTopWindow(t) \in SUBSET (1 .. n) /\ n + 1 \notin InTopWindow(t)
    BY <1>1 DEF InTopWindow, StrictPositions
  <2>2. InTopWindow(t)' = IF n < TOP_WINDOW /\ t \in Tags[v]
                          THEN InTopWindow(t) \cup {n + 1} ELSE InTopWindow(t)
    BY <1>1, <1>2, <1>3, DiversityAssumption DEF InTopWindow, StrictPositions
  <2>3. IsFiniteSet(InTopWindow(t)) /\ Cardinality(InTopWindow(t)) \in Nat
    BY <1>1, <2>1
  <2>4. Cardinality(InTopWindow(t) \cup {n + 1}) = Cardinality(InTopWindow(t)) + 1
    BY <2>1, <2>3, FS_AddElement
  <2>5. tagCounts'[t] = Cardinality(InTopWindow(t))
                          + IF n < TOP_WINDOW /\ t \in Tags[v] THEN 1 ELSE 0
    BY <1>3, <1>4
  <2> QED BY <2>2, <2>3, <2>4, <2>5
<1> QED BY <1>5, <1>6, <1>7

-----------------------------------------------------------------------------
\* The strict pass picks what the caps admit, so counting one more is within them.
LEMMA SelectBestInv == ASSUME IInv, SelectBest PROVE IInv'
<1>1. PICK v \in Admissible : admit(v, FALSE) /\ remaining' = remaining \ {v}
  BY DEF SelectBest
<1>2. /\ Shape /\ CountsMatch /\ CapsHold
      /\ pass = "strict" /\ UNCHANGED input
      /\ v \in Videos /\ ~violatesCaps(v)
  BY <1>1 DEF IInv, SelectBest, Admissible, Shape
<1>3. Shape'
  BY <1>1, <1>2, AdmitKeepsShape
<1>4. /\ \A i \in DOMAIN selected' : ~selected'[i].admittedByRelaxation
      /\ \A c \in Creators : creatorCounts'[c] = Cardinality(ByCreator(c)')
      /\ \A t \in DiversityTags : tagCounts'[t] = Cardinality(InTopWindow(t)')
  BY <1>1, <1>2, StrictPickCounts
<1>5. CountsMatch'
  BY <1>4 DEF CountsMatch
<1>6. /\ \A c \in Creators : creatorCounts[c] \in Nat /\ creatorCounts[c] <= maxSameCreator
      /\ \A t \in DiversityTags : tagCounts[t] \in Nat /\ tagCounts[t] <= maxSameTagInTop10
      /\ maxSameCreator \in Nat /\ maxSameTagInTop10 \in Nat
  BY <1>2 DEF Shape, CountsMatch, CapsHold
<1>7. ASSUME NEW c \in Creators PROVE creatorCounts'[c] <= maxSameCreator
  <2>1. creatorCounts'[c] = creatorCounts[c] + IF Creator[v] = c THEN 1 ELSE 0
    BY <1>1 DEF admit
  <2>2. Creator[v] = c => ~(creatorCounts[c] >= maxSameCreator)
    BY <1>2, DiversityAssumption DEF violatesCaps
  <2> QED BY <1>6, <2>1, <2>2
<1>8. ASSUME NEW t \in DiversityTags PROVE tagCounts'[t] <= maxSameTagInTop10
  <2>1. tagCounts'[t] =
          tagCounts[t] + IF Len(selected) < TOP_WINDOW /\ t \in Tags[v] THEN 1 ELSE 0
    BY <1>1 DEF admit
  <2>2. Len(selected) < TOP_WINDOW /\ t \in Tags[v] => ~(tagCounts[t] >= maxSameTagInTop10)
    BY <1>2 DEF violatesCaps
  <2> QED BY <1>6, <2>1, <2>2
<1>9. CapsHold'
  BY <1>2, <1>4, <1>7, <1>8 DEF CapsHold, input
<1> QED BY <1>3, <1>5, <1>9 DEF IInv

\* A relaxed pick is no strict position.
LEMMA RelaxInv == ASSUME IInv, Relax PROVE IInv'
<1>1. PICK v \in remaining : admit(v, TRUE) /\ remaining' = remaining \ {v}
  BY DEF Relax
<1>2. /\ Shape /\ CapsHold /\ v \in Videos /\ UNCHANGED <<input, pass>> /\ pass = "relaxed"
  BY <1>1 DEF IInv, Relax, Shape
<1>3. Shape'
  BY <1>1, <1>2, AdmitKeepsShape
<1>4. CountsMatch'
  BY <1>2 DEF CountsMatch
<1>5. /\ DOMAIN selected = 1 .. Len(selected) /\ Len(selected) \in Nat
      /\ DOMAIN selected' = 1 .. Len(selected) + 1
      /\ \A i \in 1 .. Len(selected) : selected'[i] = selected[i]
      /\ selected'[Len(selected) + 1].admittedByRelaxation
  BY <1>1, <1>2, AdmitAppends, PositionsFinite
<1>6. /\ StrictPositions' = StrictPositions
      /\ \A i \in StrictPositions : selected'[i] = selected[i]
  BY <1>5 DEF StrictPositions
<1>7. /\ \A c \in Creators : ByCreator(c)' = ByCreator(c)
      /\ \A t \in DiversityTags : InTopWindow(t)' = InTopWindow(t)
  BY <1>6 DEF ByCreator, InTopWindow
<1>8. CapsHold'
  BY <1>2, <1>7 DEF CapsHold, input
<1> QED BY <1>3, <1>4, <1>8 DEF IInv

\* The end of a pass changes no list.
LEMMA EndInv ==
  ASSUME IInv, UNCHANGED <<input, selected, remaining, creatorCounts, tagCounts>>,
         pass' = "strict" => pass = "strict"
  PROVE  IInv'
<1>1. Shape'
  BY DEF IInv, Shape, input
<1>2. CountsMatch'
  BY DEF IInv, CountsMatch, ByCreator, InTopWindow, StrictPositions
<1>3. CapsHold'
  BY DEF IInv, CapsHold, ByCreator, InTopWindow, StrictPositions, input
<1> QED BY <1>1, <1>2, <1>3 DEF IInv

-----------------------------------------------------------------------------
\* A call begins with an empty list and counts of zero.
LEMMA InitInv == ASSUME Init PROVE IInv
<1>1. /\ selected = <<>> /\ pass = "strict"
      /\ creatorCounts = [c \in Creators |-> 0]
      /\ tagCounts = [t \in DiversityTags |-> 0]
      /\ limit \in Nat /\ maxSameCreator \in Nat /\ maxSameTagInTop10 \in Nat
  BY DiversityAssumption DEF Init
<1>2. remaining \subseteq Videos
  BY DEF Init
<1>3. ASSUME NEW c \in Creators PROVE Cardinality(ByCreator(c)) = 0
  <2>1. ByCreator(c) = {}
    BY <1>1 DEF ByCreator, StrictPositions
  <2> QED BY <2>1, FS_EmptySet
<1>4. ASSUME NEW t \in DiversityTags PROVE Cardinality(InTopWindow(t)) = 0
  <2>1. InTopWindow(t) = {}
    BY <1>1 DEF InTopWindow, StrictPositions
  <2> QED BY <2>1, FS_EmptySet
<1>5. Shape
  BY <1>1, <1>2 DEF Shape
<1>6. CountsMatch
  BY <1>1, <1>3, <1>4 DEF CountsMatch
<1>7. CapsHold
  BY <1>1, <1>3, <1>4 DEF CapsHold
<1> QED BY <1>5, <1>6, <1>7 DEF IInv

\* No iteration of either loop breaks the counts or the caps.
LEMMA NextInv == ASSUME IInv, [Next]_vars PROVE IInv'
<1>1. CASE SelectBest
  BY <1>1, SelectBestInv
<1>2. CASE EndStrictPass
  BY <1>2, EndInv DEF EndStrictPass
<1>3. CASE Relax
  BY <1>3, RelaxInv
<1>4. CASE EndRelaxedPass
  BY <1>4, EndInv DEF EndRelaxedPass
<1>5. CASE UNCHANGED vars
  BY <1>5, EndInv DEF vars
<1> QED BY <1>1, <1>2, <1>3, <1>4, <1>5 DEF Next

-----------------------------------------------------------------------------
\* The strict picks are a prefix, and the caps blocked whoever was left after it.
StrictPrefix(n) ==
  /\ StrictPositions = 1 .. n
  /\ pass = "strict" => n = Len(selected)
  /\ pass = "relaxed" \/ n < Len(selected) =>
       \A v \in Unselected(n) : BlockedAfter(n, v)

PrefixInv == \E n \in 0 .. Len(selected) : StrictPrefix(n)

\* What has not been looked at is what has not been chosen.
RemainingMatches == remaining = Unselected(Len(selected))

\* IsGreedy at one position.
GreedyAt(i) ==
  IF i \in StrictPositions
  THEN /\ selected[i].video \in Unselected(i - 1)
       /\ ~BlockedAfter(i - 1, selected[i].video)
       /\ \A w \in Unselected(i - 1) :
            ~BlockedAfter(i - 1, w) /\ w # selected[i].video =>
              Precedes(selected[i].video, w,
                       LAMBDA v : baseScore[v] - similarityPenalty(v, Chosen(i - 1)))
  ELSE \A v \in Unselected(i) : Precedes(selected[i].video, v, LAMBDA w : baseScore[w])

ListInv == IInv /\ RemainingMatches /\ PrefixInv /\ \A i \in DOMAIN selected : GreedyAt(i)

\* A position says of the list what IsGreedy asks.
LEMMA GreedyEverywhere == (\A i \in DOMAIN selected : GreedyAt(i)) => IsGreedy
<1> SUFFICES ASSUME \A i \in DOMAIN selected : GreedyAt(i), NEW i \in DOMAIN selected
             PROVE  LET Reranked(v) == baseScore[v] - similarityPenalty(v, Chosen(i - 1))
                        Allowed == {v \in Unselected(i - 1) : ~BlockedAfter(i - 1, v)}
                    IN  IF i \in StrictPositions
                        THEN /\ selected[i].video \in Allowed
                             /\ IsFirst(selected[i].video, Allowed, Reranked)
                        ELSE \A v \in Unselected(i) :
                               Precedes(selected[i].video, v, LAMBDA w : baseScore[w])
  BY DEF IsGreedy
<1>1. GreedyAt(i)
  OBVIOUS
<1> QED BY <1>1 DEF GreedyAt, IsFirst, Precedes

\* What is said of a prefix stays true when the list grows.
LEMMA PrefixesStay ==
  ASSUME Shape, NEW v \in Videos, NEW relaxed \in BOOLEAN, admit(v, relaxed),
         UNCHANGED input, NEW n \in 0 .. Len(selected)
  PROVE  /\ Chosen(n)' = Chosen(n)
         /\ Unselected(n)' = Unselected(n)
         /\ \A w \in Videos : BlockedAfter(n, w)' = BlockedAfter(n, w)
<1>1. /\ Len(selected) \in Nat
      /\ \A i \in 1 .. Len(selected) : selected'[i] = selected[i]
  BY AdmitAppends, PositionsFinite
<1>2. \A i \in 1 .. n : selected'[i] = selected[i]
  BY <1>1
<1>3. Chosen(n)' = Chosen(n)
  BY <1>2 DEF Chosen
<1>4. Unselected(n)' = Unselected(n)
  BY <1>3 DEF Unselected, input
<1>5. ASSUME NEW w \in Videos PROVE BlockedAfter(n, w)' = BlockedAfter(n, w)
  <2>1. {i \in 1 .. n : Creator[selected'[i].video] = Creator[w]} =
          {i \in 1 .. n : Creator[selected[i].video] = Creator[w]}
    BY <1>2
  <2>2. \A t : {i \in 1 .. n : t \in Tags[selected'[i].video]} =
                 {i \in 1 .. n : t \in Tags[selected[i].video]}
    BY <1>2
  <2> QED BY <2>1, <2>2 DEF BlockedAfter, input
<1> QED BY <1>3, <1>4, <1>5

\* The pick is the one taken out of what is left.
LEMMA PickLeaves ==
  ASSUME Shape, RemainingMatches, NEW v \in Videos, NEW relaxed \in BOOLEAN,
         admit(v, relaxed), UNCHANGED input, remaining' = remaining \ {v}
  PROVE  /\ Len(selected') = Len(selected) + 1
         /\ RemainingMatches'
<1>1. PICK n \in Nat :
        /\ n = Len(selected)
        /\ selected' \in Seq(Picked)
        /\ DOMAIN selected' = 1 .. n + 1
        /\ \A i \in 1 .. n : selected'[i] = selected[i]
        /\ selected'[n + 1].video = v
  BY AdmitAppends, PositionsFinite
<1>2. Len(selected') = n + 1
  BY <1>1
<1>3. Chosen(Len(selected))' = Chosen(n) \cup {v}
  <2>1. 1 .. n + 1 = (1 .. n) \cup {n + 1}
    OBVIOUS
  <2>2. Chosen(Len(selected))' = {selected'[i].video : i \in 1 .. n + 1}
    BY <1>2 DEF Chosen
  <2> QED BY <1>1, <2>1, <2>2 DEF Chosen
<1>4. remaining = DOMAIN baseScore \ Chosen(n)
  BY <1>1 DEF RemainingMatches, Unselected
<1>5. remaining' = DOMAIN baseScore' \ Chosen(Len(selected))'
  BY <1>3, <1>4 DEF input
<1> QED BY <1>1, <1>2, <1>5 DEF RemainingMatches, Unselected

\* In the strict pass the counts say what the list says.
LEMMA CapsReadFromList ==
  ASSUME Shape, CountsMatch, pass = "strict", NEW v \in Videos
  PROVE  violatesCaps(v) = BlockedAfter(Len(selected), v)
<1> DEFINE n == Len(selected)
<1>1. /\ DOMAIN selected = 1 .. n /\ n \in Nat
      /\ \A i \in 1 .. n : ~selected[i].admittedByRelaxation
      /\ \A c \in Creators : creatorCounts[c] = Cardinality(ByCreator(c))
      /\ \A t \in DiversityTags : tagCounts[t] = Cardinality(InTopWindow(t))
  BY PositionsFinite DEF CountsMatch
<1>2. StrictPositions = 1 .. n
  BY <1>1 DEF StrictPositions
<1> HIDE DEF n
<1>3. Creator[v] \in Creators \cup {None} /\ Tags[v] \subseteq DiversityTags /\ TOP_WINDOW \in Nat
  BY DiversityAssumption
<1>4. \A c : ByCreator(c) = {i \in 1 .. n : Creator[selected[i].video] = c}
  BY <1>2 DEF ByCreator
<1>5. n < TOP_WINDOW =>
        \A t : InTopWindow(t) = {i \in 1 .. n : t \in Tags[selected[i].video]}
  BY <1>1, <1>2, <1>3 DEF InTopWindow
<1>6. Creator[v] # None =>
        creatorCounts[Creator[v]] =
          Cardinality({i \in 1 .. n : Creator[selected[i].video] = Creator[v]})
  BY <1>1, <1>3, <1>4
<1>7. n < TOP_WINDOW => \A t \in Tags[v] :
        tagCounts[t] = Cardinality({i \in 1 .. n : t \in Tags[selected[i].video]})
  BY <1>1, <1>3, <1>5
<1> QED BY <1>6, <1>7 DEF violatesCaps, BlockedAfter, n

-----------------------------------------------------------------------------
\* Positions that were greedy stay so when the list grows.
LEMMA GreedyStays ==
  ASSUME Shape, DOMAIN baseScore \subseteq Videos, NEW v \in Videos, NEW relaxed \in BOOLEAN,
         admit(v, relaxed), UNCHANGED input, NEW i \in 1 .. Len(selected), GreedyAt(i)
  PROVE  GreedyAt(i)'
<1>1. /\ Len(selected) \in Nat
      /\ DOMAIN selected = 1 .. Len(selected)
      /\ DOMAIN selected' = 1 .. Len(selected) + 1
      /\ selected'[i] = selected[i]
  BY AdmitAppends, PositionsFinite
<1>2. i \in 0 .. Len(selected) /\ i - 1 \in 0 .. Len(selected)
  BY <1>1
<1>3. /\ Chosen(i - 1)' = Chosen(i - 1)
      /\ Unselected(i - 1)' = Unselected(i - 1)
      /\ Unselected(i)' = Unselected(i)
      /\ \A w \in Videos : BlockedAfter(i - 1, w)' = BlockedAfter(i - 1, w)
  BY <1>2, PrefixesStay
<1>4. (i \in StrictPositions)' = (i \in StrictPositions)
  BY <1>1 DEF StrictPositions
<1>5. Unselected(i - 1) \subseteq Videos
  BY DEF Unselected
<1>6. baseScore' = baseScore
  BY DEF input
<1>7. CASE i \in StrictPositions
  <2>1. selected'[i].video \in Unselected(i - 1)' /\ ~BlockedAfter(i - 1, selected[i].video)'
    BY <1>1, <1>3, <1>5, <1>7 DEF GreedyAt
  <2>2. ASSUME NEW w \in Unselected(i - 1)', ~BlockedAfter(i - 1, w)', w # selected'[i].video
        PROVE  Precedes(selected[i].video, w,
                        LAMBDA x : baseScore[x] - similarityPenalty(x, Chosen(i - 1)))
    BY <1>1, <1>3, <1>5, <1>7, <2>2 DEF GreedyAt
  <2>3. ASSUME NEW w \in Unselected(i - 1)', ~BlockedAfter(i - 1, w)', w # selected'[i].video
        PROVE  Precedes(selected'[i].video, w,
                        LAMBDA x : baseScore'[x] - similarityPenalty(x, Chosen(i - 1)'))
    BY <1>1, <1>3, <1>6, <2>2, <2>3 DEF Precedes
  <2> QED BY <1>1, <1>3, <1>4, <1>7, <2>1, <2>3 DEF GreedyAt, similarityPenalty, Precedes
<1>8. CASE i \notin StrictPositions
  BY <1>1, <1>3, <1>4, <1>6, <1>8 DEF GreedyAt, Precedes
<1> QED BY <1>7, <1>8

-----------------------------------------------------------------------------
\* A strict pick is the first of those the caps admit.
LEMMA SelectBestListInv ==
  ASSUME ListInv, DOMAIN baseScore \subseteq Videos, SelectBest
  PROVE  RemainingMatches' /\ PrefixInv' /\ \A i \in DOMAIN selected' : GreedyAt(i)'
<1>1. PICK v \in Admissible :
        /\ IsFirst(v, Admissible, rerankScore)
        /\ admit(v, FALSE)
        /\ remaining' = remaining \ {v}
  BY DEF SelectBest
<1>2. /\ Shape /\ CountsMatch /\ RemainingMatches /\ PrefixInv
      /\ \A i \in DOMAIN selected : GreedyAt(i)
      /\ pass = "strict" /\ UNCHANGED <<input, pass>>
      /\ v \in Videos /\ v \in remaining /\ ~violatesCaps(v)
  BY <1>1 DEF ListInv, IInv, SelectBest, Admissible, Shape
<1>3. PICK n \in Nat :
        /\ n = Len(selected)
        /\ DOMAIN selected = 1 .. n
        /\ DOMAIN selected' = 1 .. n + 1
        /\ \A i \in 1 .. n : selected'[i] = selected[i]
        /\ selected'[n + 1].video = v
        /\ ~selected'[n + 1].admittedByRelaxation
  BY <1>1, <1>2, AdmitAppends, PositionsFinite
<1>4. Len(selected') = n + 1 /\ RemainingMatches'
  BY <1>1, <1>2, <1>3, PickLeaves
<1>5. StrictPositions' = 1 .. n + 1
  <2>1. \A i \in 1 .. n : ~selected[i].admittedByRelaxation
    BY <1>2, <1>3 DEF CountsMatch
  <2> QED BY <1>3, <2>1 DEF StrictPositions
<1>6. PrefixInv'
  <2>1. StrictPrefix(n + 1)'
    BY <1>2, <1>4, <1>5 DEF StrictPrefix
  <2>2. n + 1 \in 0 .. Len(selected')
    BY <1>4
  <2> QED BY <2>1, <2>2 DEF PrefixInv
<1>7. /\ Chosen(n)' = Chosen(n)
      /\ Unselected(n)' = Unselected(n)
      /\ \A w \in Videos : BlockedAfter(n, w)' = BlockedAfter(n, w)
  <2>1. n \in 0 .. Len(selected)
    BY <1>3
  <2> QED BY <1>1, <1>2, <2>1, PrefixesStay
<1>8. \A w \in Videos : violatesCaps(w) = BlockedAfter(n, w)
  BY <1>2, <1>3, CapsReadFromList
<1>9. remaining = Unselected(n) /\ Unselected(n) \subseteq Videos
  BY <1>2, <1>3 DEF RemainingMatches, Unselected
<1>10. v \in Unselected(n) /\ ~BlockedAfter(n, v)
  BY <1>2, <1>8, <1>9
<1>11. ASSUME NEW w \in Unselected(n), ~BlockedAfter(n, w), w # v
       PROVE  Precedes(v, w, LAMBDA x : baseScore[x] - similarityPenalty(x, Chosen(n)))
  <2>1. w \in Admissible
    BY <1>8, <1>9, <1>11 DEF Admissible
  <2> QED BY <1>1, <1>3, <1>11, <2>1 DEF IsFirst, Precedes, rerankScore
<1>12. GreedyAt(n + 1)'
  <2>1. PICK m \in Nat : m = n + 1 /\ m - 1 = n
    OBVIOUS
  <2>2. m \in StrictPositions'
    BY <1>5, <2>1
  <2>3. selected'[m].video = v
    BY <1>3, <2>1
  <2>4. v \in Unselected(n)' /\ ~BlockedAfter(n, v)'
    BY <1>2, <1>7, <1>10
  <2>5. ASSUME NEW w \in Unselected(n)', ~BlockedAfter(n, w)', w # v
        PROVE  Precedes(v, w, LAMBDA x : baseScore'[x] - similarityPenalty(x, Chosen(n)'))
    <3>1. w \in Unselected(n) /\ ~BlockedAfter(n, w)
      BY <1>7, <1>9, <2>5
    <3> QED BY <1>2, <1>7, <1>11, <2>5, <3>1 DEF Precedes, input
  <2>6. GreedyAt(m)'
    BY <2>1, <2>2, <2>3, <2>4, <2>5 DEF GreedyAt, Precedes, similarityPenalty
  <2> QED BY <2>1, <2>6
<1>13. ASSUME NEW i \in DOMAIN selected' PROVE GreedyAt(i)'
  <2>1. CASE i = n + 1
    BY <1>12, <2>1
  <2>2. CASE i # n + 1
    <3>1. i \in 1 .. Len(selected) /\ GreedyAt(i)
      BY <1>2, <1>3, <2>2
    <3> QED BY <1>1, <1>2, <3>1, GreedyStays
  <2> QED BY <2>1, <2>2
<1> QED BY <1>4, <1>6, <1>13

\* A relaxed pick is the first of those left by score alone.
LEMMA RelaxListInv ==
  ASSUME ListInv, DOMAIN baseScore \subseteq Videos, Relax
  PROVE  RemainingMatches' /\ PrefixInv' /\ \A i \in DOMAIN selected' : GreedyAt(i)'
<1>1. PICK v \in remaining :
        /\ IsFirst(v, remaining, LeftoverScore)
        /\ admit(v, TRUE)
        /\ remaining' = remaining \ {v}
  BY DEF Relax
<1>2. /\ Shape /\ RemainingMatches /\ PrefixInv
      /\ \A i \in DOMAIN selected : GreedyAt(i)
      /\ pass = "relaxed" /\ UNCHANGED <<input, pass>>
      /\ v \in Videos
  BY <1>1 DEF ListInv, IInv, Relax, Shape
<1>3. PICK n \in Nat :
        /\ n = Len(selected)
        /\ DOMAIN selected = 1 .. n
        /\ DOMAIN selected' = 1 .. n + 1
        /\ \A i \in 1 .. n : selected'[i] = selected[i]
        /\ selected'[n + 1].video = v
        /\ selected'[n + 1].admittedByRelaxation
  BY <1>1, <1>2, AdmitAppends, PositionsFinite
<1>4. Len(selected') = n + 1 /\ RemainingMatches'
  BY <1>1, <1>2, <1>3, PickLeaves
<1>5. StrictPositions' = StrictPositions
  BY <1>3 DEF StrictPositions
<1>6. PrefixInv'
  <2>1. PICK k \in 0 .. Len(selected) : StrictPrefix(k)
    BY <1>2 DEF PrefixInv
  <2>2. Unselected(k)' = Unselected(k) /\ \A w \in Videos : BlockedAfter(k, w)' = BlockedAfter(k, w)
    BY <1>1, <1>2, PrefixesStay
  <2>3. \A w \in Unselected(k) : w \in Videos /\ BlockedAfter(k, w)
    BY <1>2, <2>1 DEF StrictPrefix, Unselected
  <2>4. StrictPrefix(k)'
    BY <1>2, <1>5, <2>1, <2>2, <2>3 DEF StrictPrefix
  <2>5. k \in 0 .. Len(selected')
    BY <1>3, <1>4
  <2> QED BY <2>4, <2>5 DEF PrefixInv
<1>7. GreedyAt(n + 1)'
  <2>1. n + 1 \notin StrictPositions'
    BY <1>3, <1>5 DEF StrictPositions
  <2>2. Unselected(n + 1)' = remaining'
    BY <1>4 DEF RemainingMatches, Unselected, Chosen
  <2>3. ASSUME NEW w \in remaining' PROVE Precedes(v, w, LAMBDA x : baseScore[x])
    BY <1>1, <2>3 DEF IsFirst, Precedes, LeftoverScore
  <2> QED BY <1>2, <1>3, <2>1, <2>2, <2>3 DEF GreedyAt, Precedes, input
<1>8. ASSUME NEW i \in DOMAIN selected' PROVE GreedyAt(i)'
  <2>1. CASE i = n + 1
    BY <1>7, <2>1
  <2>2. CASE i # n + 1
    <3>1. i \in 1 .. Len(selected) /\ GreedyAt(i)
      BY <1>2, <1>3, <2>2
    <3> QED BY <1>1, <1>2, <3>1, GreedyStays
  <2> QED BY <2>1, <2>2
<1> QED BY <1>4, <1>6, <1>8

\* Prefixes of a list that does not change.
LEMMA SamePrefix ==
  ASSUME UNCHANGED <<input, selected>>, NEW n
  PROVE  /\ StrictPositions' = StrictPositions
         /\ Unselected(n)' = Unselected(n)
         /\ \A w : BlockedAfter(n, w)' = BlockedAfter(n, w)
<1>1. StrictPositions' = StrictPositions
  BY DEF StrictPositions
<1>2. Unselected(n)' = Unselected(n)
  BY DEF Unselected, Chosen, input
<1>3. ASSUME NEW w PROVE BlockedAfter(n, w)' = BlockedAfter(n, w)
  BY DEF BlockedAfter, input
<1> QED BY <1>1, <1>2, <1>3

\* A step that leaves the list alone leaves its positions greedy.
LEMMA SameListInv ==
  ASSUME ListInv, UNCHANGED <<input, selected, remaining>>
  PROVE  RemainingMatches' /\ \A i \in DOMAIN selected' : GreedyAt(i)'
<1>1. RemainingMatches'
  BY DEF ListInv, RemainingMatches, Unselected, Chosen, input
<1>2. ASSUME NEW i \in DOMAIN selected PROVE GreedyAt(i)'
  <2>1. GreedyAt(i)
    BY DEF ListInv
  <2> QED BY <2>1 DEF GreedyAt, StrictPositions, Unselected, Chosen, BlockedAfter, Precedes,
                      similarityPenalty, input
<1> QED BY <1>1, <1>2

\* The caps are lifted when they admit nobody who is left.
LEMMA EndStrictListInv ==
  ASSUME ListInv, DOMAIN baseScore \subseteq Videos, EndStrictPass PROVE PrefixInv'
<1>1. /\ Shape /\ CountsMatch /\ RemainingMatches /\ PrefixInv
      /\ pass = "strict" /\ UNCHANGED <<input, selected>>
      /\ pass' \in {"relaxed", "done"}
      /\ pass' = "relaxed" => Admissible = {}
  <2>1. Shape /\ CountsMatch /\ RemainingMatches /\ PrefixInv
    BY DEF ListInv, IInv
  <2>2. Len(selected) \in Nat /\ limit \in Nat
    BY <2>1, PositionsFinite DEF Shape
  <2> QED BY <2>1, <2>2 DEF EndStrictPass
<1>2. PICK n \in 0 .. Len(selected) : StrictPrefix(n) /\ n = Len(selected)
  BY <1>1 DEF PrefixInv, StrictPrefix
<1>3. pass' = "relaxed" => \A v \in Unselected(n) : BlockedAfter(n, v)
  <2>1. \A v \in Videos : violatesCaps(v) = BlockedAfter(n, v)
    BY <1>1, <1>2, CapsReadFromList
  <2>2. remaining = Unselected(n) /\ Unselected(n) \subseteq Videos
    BY <1>1, <1>2 DEF RemainingMatches, Unselected
  <2> QED BY <1>1, <2>1, <2>2 DEF Admissible
<1>4. StrictPrefix(n)'
  <2>1. /\ StrictPositions' = StrictPositions
        /\ Unselected(n)' = Unselected(n)
        /\ \A w : BlockedAfter(n, w)' = BlockedAfter(n, w)
    BY <1>1, SamePrefix
  <2>2. pass' # "strict" /\ Len(selected') = Len(selected) /\ ~(n < Len(selected))
    BY <1>1, <1>2, PositionsFinite
  <2>3. StrictPositions' = 1 .. n
    BY <1>2, <2>1 DEF StrictPrefix
  <2>4. pass' = "relaxed" => \A v \in Unselected(n)' : BlockedAfter(n, v)'
    BY <1>3, <2>1
  <2> QED BY <2>2, <2>3, <2>4 DEF StrictPrefix
<1> QED BY <1>1, <1>2, <1>4 DEF PrefixInv

\* Afterwards nothing is said of a pass that is over.
LEMMA SamePrefixInv ==
  ASSUME PrefixInv, UNCHANGED <<input, selected>>, pass' = pass \/ pass' = "done"
  PROVE  PrefixInv'
<1>1. PICK n \in 0 .. Len(selected) : StrictPrefix(n)
  BY DEF PrefixInv
<1>2. StrictPrefix(n)'
  <2>1. /\ StrictPositions' = StrictPositions
        /\ Unselected(n)' = Unselected(n)
        /\ \A w : BlockedAfter(n, w)' = BlockedAfter(n, w)
    BY SamePrefix
  <2> QED BY <1>1, <2>1 DEF StrictPrefix
<1> QED BY <1>1, <1>2 DEF PrefixInv

\* The strict prefix, told by its length.
LEMMA PrefixMeansBlocked == ASSUME Shape, PrefixInv PROVE RelaxedOnlyWhenBlocked
<1>1. PICK n \in 0 .. Len(selected) : StrictPrefix(n)
  BY DEF PrefixInv
<1>2. Len(selected) \in Nat
  BY PositionsFinite
<1>3. Cardinality(1 .. n) = n
  BY <1>1, <1>2, FS_Interval
<1> QED BY <1>1, <1>2, <1>3 DEF RelaxedOnlyWhenBlocked, StrictPrefix

-----------------------------------------------------------------------------
\* The whole of it, for the candidates of a corpus.
WholeInv == ListInv /\ DOMAIN baseScore \subseteq Videos

LEMMA InitWhole == ASSUME Init PROVE WholeInv
<1>1. IInv
  BY InitInv
<1>2. DOMAIN baseScore \subseteq Videos
  BY DEF Init
<1>3. selected = <<>> /\ pass = "strict" /\ remaining = DOMAIN baseScore
  BY DEF Init
<1>4. RemainingMatches
  <2>1. Chosen(0) = {} /\ Len(selected) = 0
    BY <1>3 DEF Chosen
  <2> QED BY <1>3, <2>1 DEF RemainingMatches, Unselected
<1>5. PrefixInv
  <2>1. StrictPrefix(0)
    BY <1>3 DEF StrictPrefix, StrictPositions
  <2> QED BY <1>3, <2>1 DEF PrefixInv
<1> QED BY <1>1, <1>2, <1>3, <1>4, <1>5 DEF WholeInv, ListInv

LEMMA NextWhole == ASSUME WholeInv, [Next]_vars PROVE WholeInv'
<1>1. IInv' /\ ListInv /\ DOMAIN baseScore \subseteq Videos
  BY NextInv DEF WholeInv, ListInv
<1>2. baseScore' = baseScore
  BY DEF Next, SelectBest, EndStrictPass, Relax, EndRelaxedPass, input, vars
<1>3. RemainingMatches' /\ PrefixInv' /\ \A i \in DOMAIN selected' : GreedyAt(i)'
  <2>1. CASE SelectBest
    BY <1>1, <2>1, SelectBestListInv
  <2>2. CASE EndStrictPass
    <3>1. UNCHANGED <<input, selected, remaining>>
      BY <2>2 DEF EndStrictPass
    <3> QED BY <1>1, <2>2, <3>1, SameListInv, EndStrictListInv
  <2>3. CASE Relax
    BY <1>1, <2>3, RelaxListInv
  <2>4. CASE EndRelaxedPass
    <3>1. PrefixInv /\ UNCHANGED <<input, selected, remaining>> /\ pass' = "done"
      BY <1>1, <2>4 DEF EndRelaxedPass, ListInv
    <3> QED BY <1>1, <3>1, SameListInv, SamePrefixInv
  <2>5. CASE UNCHANGED vars
    <3>1. PrefixInv /\ UNCHANGED <<input, selected, remaining, pass>>
      BY <1>1, <2>5 DEF vars, ListInv
    <3> QED BY <1>1, <3>1, SameListInv, SamePrefixInv
  <2> QED BY <2>1, <2>2, <2>3, <2>4, <2>5 DEF Next
<1> QED BY <1>1, <1>2, <1>3 DEF WholeInv, ListInv

LEMMA WholeInvariant == Spec => []WholeInv
<1> QED BY InitWhole, NextWhole, PTL DEF Spec

(***************************************************************************)
(* diversifyCandidates never lets a creator, or a tag in the top window,   *)
(* beyond its cap except by a pick it marks as relaxed.                    *)
(***************************************************************************)
THEOREM CapsAreHonoured == Spec => []CapsHold
<1>1. WholeInv => CapsHold
  BY DEF WholeInv, ListInv, IInv
<1> QED BY <1>1, WholeInvariant, PTL

(***************************************************************************)
(* What diversifyCandidates returns is the greedy list: every strict pick  *)
(* is the best by score less penalty of those the caps allowed, told from  *)
(* the list and not from the counts; every relaxed pick the best by score. *)
(***************************************************************************)
THEOREM ListIsGreedy == Spec => []IsGreedy
<1>1. WholeInv => IsGreedy
  BY GreedyEverywhere DEF WholeInv, ListInv
<1> QED BY <1>1, WholeInvariant, PTL

(***************************************************************************)
(* diversifyCandidates lifts the caps only when they block every candidate *)
(* left, and never applies them again.                                     *)
(***************************************************************************)
THEOREM CapsAreLiftedLast == Spec => []RelaxedOnlyWhenBlocked
<1>1. WholeInv => RelaxedOnlyWhenBlocked
  BY PrefixMeansBlocked DEF WholeInv, ListInv, IInv
<1> QED BY <1>1, WholeInvariant, PTL

=============================================================================
