-------------------------- MODULE RecommenderProofs --------------------------
(***************************************************************************)
(* What a recommendation promises whatever happens between its queries,    *)
(* for every corpus, history, profile and set of limits.  The snapshots    *)
(* are taken one by one, but nothing that is read later undoes what an     *)
(* earlier one excluded.                                                   *)
(***************************************************************************)
EXTENDS Recommender, DiversityProofs, FiniteInduction

\* What the queries have read is of the right kind.
Loaded ==
  /\ events \in Seq(Event)
  /\ eligible \subseteq Videos
  /\ seen \subseteq Videos
  /\ returned \in [CANDIDATE_SOURCES -> SUBSET Videos]
  /\ DOMAIN engagement \subseteq Videos
  /\ \A v \in DOMAIN engagement : engagement[v] \in Int

\* The videos seen before the call are still seen, and none of them returned.
NothingSeen ==
  /\ seenBefore \subseteq OwnVideos
  /\ pc = "load" =>
       /\ waiting \subseteq {"eligible", "seen", "engagement"}
       /\ "seen" \in waiting \/ seenBefore \subseteq seen
       /\ \A s \in CANDIDATE_SOURCES : returned[s] = {}
  /\ pc = "sources" =>
       /\ waiting \subseteq {"similar", "tag", "fresh"}
       /\ seenBefore \subseteq seen
       /\ \A s \in CANDIDATE_SOURCES : returned[s] \cap seen = {}
  /\ pc \in {"load", "sources"} => DOMAIN candidates = {}
  /\ pc \notin {"load", "sources", "recent", "rank", "diversify", "failed"} => FALSE

NothingPersonal == profile.isColdStart => returned["similar"] = {} /\ returned["tag"] = {}

Ranked ==
  pc = "diversify" =>
    baseScore = rankCandidates(DOMAIN candidates, eligible, profile, recentVideos, engagement)

CallInv == Loaded /\ NothingSeen /\ NothingPersonal /\ Ranked /\ Recommendable

-----------------------------------------------------------------------------
LEMMA FirstAreOf ==
  ASSUME NEW S, NEW k, NEW f PROVE TopById(S, k, LAMBDA v : f[v]) \subseteq S
<1> QED BY DEF TopById

LEMMA TopIsOf ==
  ASSUME NEW T, NEW S, NEW k, NEW f, IsTop(T, S, k, LAMBDA v : f[v]) PROVE T \subseteq S
<1> QED BY DEF IsTop

\* An event more makes no video unseen.
LEMMA InteractKeeps ==
  ASSUME Loaded, Interact
  PROVE  events' \in Seq(Event) /\ OwnVideos \subseteq OwnVideos'
<1>1. PICK v \in Videos, own \in BOOLEAN, weight \in Weights :
        LET e == [own |-> own, video |-> v, weight |-> weight, inWindow |-> TRUE]
        IN  events' \in {<<e>> \o events, Append(events, [e EXCEPT !.inWindow = FALSE])}
  BY DEF Interact
<1> DEFINE e == [own |-> own, video |-> v, weight |-> weight, inWindow |-> TRUE]
           d == [e EXCEPT !.inWindow = FALSE]
<1>2. e \in Event /\ d \in Event
  <2>1. weight \in Int
    BY CandidatesAssumption
  <2>2. e \in Event
    BY <2>1 DEF Event
  <2> HIDE DEF e
  <2>3. d \in Event
    BY <2>2 DEF Event
  <2> QED BY <2>2, <2>3
<1>3. events' = <<e>> \o events \/ events' = Append(events, d)
  BY <1>1
<1>4. events \in Seq(Event)
  BY DEF Loaded
<1> HIDE DEF e, d
<1>5. CASE events' = <<e>> \o events
  <2>1. events' \in Seq(Event) /\ Len(events') = Len(events) + 1
    BY <1>2, <1>4, <1>5
  <2>2. \A i \in DOMAIN events : i + 1 \in DOMAIN events' /\ events'[i + 1] = events[i]
    BY <1>2, <1>4, <1>5
  <2> QED BY <2>1, <2>2 DEF OwnVideos
<1>6. CASE events' = Append(events, d)
  <2>1. events' \in Seq(Event)
    BY <1>2, <1>4, <1>6
  <2>2. \A i \in DOMAIN events : i \in DOMAIN events' /\ events'[i] = events[i]
    BY <1>2, <1>4, <1>6
  <2> QED BY <2>1, <2>2 DEF OwnVideos
<1> QED BY <1>3, <1>5, <1>6

\* What the database holds is of videos.
LEMMA OwnVideosAreVideos == ASSUME Loaded PROVE OwnVideos \subseteq Videos
<1>1. \A i \in DOMAIN events : events[i] \in Event
  BY DEF Loaded
<1> QED BY <1>1 DEF OwnVideos, Event

-----------------------------------------------------------------------------
LEMMA OthersInv == ASSUME CallInv, Others PROVE CallInv'
<1>1. UNCHANGED <<loaded, call, vars>> /\ pc \in {"load", "sources", "recent"}
  BY DEF Others
<1>2. events' \in Seq(Event) /\ OwnVideos \subseteq OwnVideos'
  <2>1. CASE Interact
    BY <2>1, InteractKeeps DEF CallInv
  <2>2. CASE Analyse
    BY <2>2 DEF Analyse, CallInv, Loaded, OwnVideos
  <2> QED BY <2>1, <2>2 DEF Others
<1>3. Loaded'
  BY <1>1, <1>2 DEF CallInv, Loaded, loaded
<1>4. NothingSeen'
  BY <1>1, <1>2 DEF CallInv, NothingSeen, loaded, call
<1>5. NothingPersonal' /\ Ranked'
  BY <1>1 DEF CallInv, NothingPersonal, Ranked, loaded, call
<1>6. Recommendable'
  BY <1>1 DEF CallInv, Recommendable, loaded, call
<1> QED BY <1>3, <1>4, <1>5, <1>6 DEF CallInv

\* While nothing is a candidate there is nothing to be said of one.
LEMMA NoCandidates == ASSUME DOMAIN candidates = {} PROVE Recommendable
<1> QED BY DEF Recommendable

\* A sum per video of the window.
LEMMA EngagementIsSummed ==
  ASSUME Loaded, loadEngagement
  PROVE  DOMAIN engagement' \subseteq Videos /\ \A v \in DOMAIN engagement' : engagement'[v] \in Int
<1> DEFINE counted == {i \in DOMAIN events : events[i].inWindow /\ events[i].weight # 0}
           weight == [i \in DOMAIN events |-> events[i].weight]
           on(v) == {i \in counted : events[i].video = v}
<1>1. engagement' = [v \in {events[i].video : i \in counted} |-> SumFunctionOnSet(weight, on(v))]
  BY DEF loadEngagement
<1>2. \A i \in DOMAIN events : events[i].video \in Videos /\ events[i].weight \in Int
  <2>1. \A i \in DOMAIN events : events[i] \in Event
    BY DEF Loaded
  <2> QED BY <2>1 DEF Event
<1>3. IsFiniteSet(DOMAIN events)
  <2>1. Len(events) \in Nat /\ DOMAIN events = 1 .. Len(events)
    BY DEF Loaded
  <2> QED BY <2>1, FS_Interval
<1>4. ASSUME NEW v PROVE SumFunctionOnSet(weight, on(v)) \in Int
  <2>1. on(v) \in SUBSET DOMAIN events
    OBVIOUS
  <2>2. IsFiniteSet(on(v))
    BY <1>3, <2>1, FS_Subset
  <2>3. \A i \in on(v) : weight[i] \in Int
    BY <1>2
  <2> HIDE DEF weight, on
  <2> QED BY <2>2, <2>3, SumIsInteger
<1>5. {events[i].video : i \in counted} \subseteq Videos
  BY <1>2
<1> HIDE DEF counted, weight, on
<1> QED BY <1>1, <1>4, <1>5

LEMMA LoadInv == ASSUME CallInv, Load PROVE CallInv'
<1>1. /\ pc = "load" /\ pc' = "load" /\ UNCHANGED <<call, vars, database, profile, returned>>
      /\ Loaded /\ NothingSeen /\ DOMAIN candidates = {}
  BY DEF Load, loadEligibleVideos, loadSeen, loadEngagement, call, CallInv, NothingSeen
<1>2. Loaded' /\ waiting' \subseteq waiting /\ ("seen" \in waiting' \/ seenBefore \subseteq seen')
  <2>1. CASE loadEligibleVideos
    <3>1. /\ eligible' \subseteq Videos
          /\ UNCHANGED <<database, seen, engagement, returned>>
          /\ waiting' = waiting \ {"eligible"}
      BY <2>1 DEF loadEligibleVideos, Answered
    <3> QED BY <1>1, <3>1 DEF Loaded, NothingSeen, database
  <2>2. CASE loadSeen
    <3>1. /\ seen' = OwnVideos
          /\ UNCHANGED <<database, eligible, engagement, returned>>
          /\ waiting' = waiting \ {"seen"}
      BY <2>2 DEF loadSeen, Answered
    <3> QED BY <1>1, <3>1, OwnVideosAreVideos DEF Loaded, NothingSeen, database
  <2>3. CASE loadEngagement
    <3>1. UNCHANGED <<database, eligible, seen, returned>> /\ waiting' = waiting \ {"engagement"}
      BY <2>3 DEF loadEngagement, Answered
    <3> QED BY <1>1, <2>3, <3>1, EngagementIsSummed DEF Loaded, NothingSeen, database
  <2> QED BY <2>1, <2>2, <2>3 DEF Load
<1>3. NothingSeen'
  BY <1>1, <1>2 DEF NothingSeen, OwnVideos, database, call
<1>4. NothingPersonal' /\ Ranked'
  BY <1>1 DEF CallInv, NothingPersonal, Ranked
<1>5. Recommendable'
  BY <1>1, NoCandidates DEF Recommendable, call
<1> QED BY <1>2, <1>3, <1>4, <1>5 DEF CallInv

LEMMA AskSourcesInv == ASSUME CallInv, AskSources PROVE CallInv'
<1>1. /\ pc = "load" /\ waiting = {} /\ pc' = "sources"
      /\ waiting' = {"similar", "tag", "fresh"}
      /\ UNCHANGED <<events, profile, eligible, seen, engagement, returned,
                     seenBefore, candidates>>
      /\ Loaded /\ NothingSeen
  BY DEF AskSources, CallInv, database
<1>2. Loaded'
  BY <1>1 DEF Loaded
<1>3. NothingSeen'
  <2>1. \A s \in CANDIDATE_SOURCES : returned[s] \cap seen = {}
    BY <1>1 DEF NothingSeen
  <2>2. seenBefore \subseteq seen /\ DOMAIN candidates = {} /\ seenBefore \subseteq OwnVideos
    BY <1>1 DEF NothingSeen
  <2> QED BY <1>1, <2>1, <2>2 DEF NothingSeen, OwnVideos
<1>4. NothingPersonal' /\ Ranked'
  BY <1>1 DEF CallInv, NothingPersonal, Ranked
<1>5. Recommendable'
  BY <1>1, <1>3, NoCandidates DEF NothingSeen, Recommendable, CallInv
<1> QED BY <1>2, <1>3, <1>4, <1>5 DEF CallInv

\* A source returns no video that was seen, and nothing personal for a cold start.
LEMMA SourceReturns ==
  ASSUME Loaded, sourceSimilar \/ sourceTag \/ sourceFresh
  PROVE  \E s \in {"similar", "tag", "fresh"}, found \in SUBSET Videos :
           /\ returned' = [returned EXCEPT ![s] = found]
           /\ waiting' = waiting \ {s}
           /\ found \cap seen = {}
           /\ profile.isColdStart /\ s # "fresh" => found = {}
           /\ UNCHANGED <<database, profile, eligible, seen, engagement>>
<1>1. CASE sourceSimilar
  <2>1. PICK found \in SUBSET Videos :
          /\ IF profile.isColdStart \/ \A s \in Slots : profile.vector[s] = 0
             THEN found = {}
             ELSE IsTop(found, {v \in Videos : corpus[v] = "current"} \ seen, LimitOf.similar,
                        LAMBDA v : cosine(profile.vector, v))
          /\ returned' = [returned EXCEPT !["similar"] = found]
    BY <1>1 DEF sourceSimilar
  <2>2. found \cap seen = {} /\ (profile.isColdStart => found = {})
    BY <2>1 DEF IsTop
  <2>3. waiting' = waiting \ {"similar"} /\ UNCHANGED <<database, profile, eligible, seen, engagement>>
    BY <1>1 DEF sourceSimilar, Answered
  <2> QED BY <2>1, <2>2, <2>3
<1>2. CASE sourceTag
  <2>1. PICK tags \in SUBSET Slots, found \in SUBSET Videos :
          /\ IF profile.isColdStart
             THEN found = {}
             ELSE IsTop(found,
                     {v \in Videos : corpus[v] # "pending" /\ Carries[v] \cap tags # {}} \ seen,
                     LimitOf.tag, LAMBDA v : 0)
          /\ returned' = [returned EXCEPT !["tag"] = found]
    BY <1>2 DEF sourceTag
  <2>2. found \cap seen = {} /\ (profile.isColdStart => found = {})
    BY <2>1 DEF IsTop
  <2>3. waiting' = waiting \ {"tag"} /\ UNCHANGED <<database, profile, eligible, seen, engagement>>
    BY <1>2 DEF sourceTag, Answered
  <2> QED BY <2>1, <2>2, <2>3
<1>3. CASE sourceFresh
  <2>1. PICK found \in SUBSET Videos :
          /\ IsTop(found, {v \in Videos : corpus[v] # "pending"} \ seen, LimitOf.fresh, LAMBDA v : v)
          /\ returned' = [returned EXCEPT !["fresh"] = found]
    BY <1>3 DEF sourceFresh
  <2>2. found \cap seen = {}
    BY <2>1 DEF IsTop
  <2>3. waiting' = waiting \ {"fresh"} /\ UNCHANGED <<database, profile, eligible, seen, engagement>>
    BY <1>3 DEF sourceFresh, Answered
  <2> QED BY <2>1, <2>2, <2>3
<1> QED BY <1>1, <1>2, <1>3

LEMMA SourceInv == ASSUME CallInv, Source PROVE CallInv'
<1>1. /\ pc = "sources" /\ UNCHANGED <<call, vars>> /\ Loaded /\ NothingSeen
      /\ NothingPersonal /\ DOMAIN candidates = {}
  BY DEF Source, CallInv, NothingSeen
<1>2. PICK s \in {"similar", "tag", "fresh"}, found \in SUBSET Videos :
        /\ returned' = [returned EXCEPT ![s] = found]
        /\ waiting' = waiting \ {s}
        /\ found \cap seen = {}
        /\ profile.isColdStart /\ s # "fresh" => found = {}
        /\ UNCHANGED <<database, profile, eligible, seen, engagement>>
  BY <1>1, SourceReturns DEF Source
<1>3. s \in CANDIDATE_SOURCES
  BY DEF CANDIDATE_SOURCES
<1>4. Loaded'
  BY <1>1, <1>2 DEF Loaded, database
<1>5. returned \in [CANDIDATE_SOURCES -> SUBSET Videos]
  BY <1>1 DEF Loaded
<1>6. \A x \in CANDIDATE_SOURCES : returned'[x] = IF x = s THEN found ELSE returned[x]
  BY <1>2, <1>5
<1>7. NothingSeen'
  <2>1. \A x \in CANDIDATE_SOURCES : returned'[x] \cap seen' = {}
    BY <1>1, <1>2, <1>6 DEF NothingSeen
  <2>2. seenBefore \subseteq OwnVideos /\ seenBefore \subseteq seen
        /\ waiting \subseteq {"similar", "tag", "fresh"}
    BY <1>1 DEF NothingSeen
  <2> QED BY <1>1, <1>2, <2>1, <2>2 DEF NothingSeen, OwnVideos, call, database
<1>8. NothingPersonal'
  <2>1. "similar" \in CANDIDATE_SOURCES /\ "tag" \in CANDIDATE_SOURCES
    BY DEF CANDIDATE_SOURCES
  <2>2. CASE s = "fresh"
    BY <1>1, <1>2, <1>6, <2>1, <2>2 DEF NothingPersonal
  <2>3. CASE s # "fresh"
    BY <1>1, <1>2, <1>6, <2>1, <2>3 DEF NothingPersonal
  <2> QED BY <2>2, <2>3
<1>9. Ranked' /\ Recommendable'
  BY <1>1, NoCandidates DEF Ranked, Recommendable, call
<1> QED BY <1>4, <1>7, <1>8, <1>9 DEF CallInv

\* The sources in memory draw from what was not seen.
LEMMA InMemoryUnseen == sourceTrending \subseteq Unseen /\ sourceExplore \subseteq Unseen
<1> QED BY DEF sourceTrending, sourceExplore, TopById

LEMMA GenerateInv == ASSUME CallInv, generateCandidates PROVE CallInv'
<1>1. /\ pc = "sources" /\ pc' = "recent"
      /\ returned' = allReturned /\ candidates' = unionCandidates(allReturned)
      /\ UNCHANGED <<events, profile, eligible, seen, engagement, seenBefore>>
      /\ Loaded /\ NothingSeen /\ NothingPersonal
  BY DEF generateCandidates, CallInv, database
<1>2. returned \in [CANDIDATE_SOURCES -> SUBSET Videos] /\ eligible \subseteq Videos
  BY <1>1 DEF Loaded
<1>3. /\ allReturned \in [CANDIDATE_SOURCES -> SUBSET Videos]
      /\ allReturned["similar"] = returned["similar"]
      /\ allReturned["tag"] = returned["tag"]
      /\ \A s \in CANDIDATE_SOURCES : allReturned[s] \cap seen = {}
  <2>1. /\ sourceTrending \subseteq Videos /\ sourceTrending \cap seen = {}
        /\ sourceExplore \subseteq Videos /\ sourceExplore \cap seen = {}
    BY <1>2, InMemoryUnseen DEF Unseen
  <2>2. \A s \in CANDIDATE_SOURCES : returned[s] \cap seen = {}
    BY <1>1 DEF NothingSeen
  <2>3. {"similar", "tag", "trending", "explore"} \subseteq CANDIDATE_SOURCES
    BY DEF CANDIDATE_SOURCES
  <2>4. allReturned \in [CANDIDATE_SOURCES -> SUBSET Videos]
    BY <1>2, <2>1 DEF allReturned
  <2>5. \A s \in CANDIDATE_SOURCES :
          allReturned[s] = IF s = "explore" THEN sourceExplore
                           ELSE IF s = "trending" THEN sourceTrending ELSE returned[s]
    BY <1>2 DEF allReturned
  <2> QED BY <2>1, <2>2, <2>3, <2>4, <2>5
<1>4. Loaded'
  BY <1>1, <1>3 DEF Loaded
<1>5. NothingSeen'
  BY <1>1 DEF NothingSeen, OwnVideos
<1>6. NothingPersonal' /\ Ranked'
  BY <1>1, <1>3 DEF NothingPersonal, Ranked
<1>7. Recommendable'
  <2>1. seenBefore \subseteq seen
    BY <1>1 DEF NothingSeen
  <2>2. ASSUME NEW v \in DOMAIN candidates'
        PROVE  /\ v \in eligible
               /\ candidates'[v] = {s \in CANDIDATE_SOURCES : v \in allReturned[s]}
               /\ candidates'[v] # {}
    BY <1>1 DEF unionCandidates, SourcesOf
  <2>3. ASSUME NEW v \in DOMAIN candidates' PROVE v \notin seen
    BY <1>3, <2>2
  <2> QED BY <1>1, <2>1, <2>2, <2>3 DEF Recommendable
<1> QED BY <1>4, <1>5, <1>6, <1>7 DEF CallInv

LEMMA LaterInv ==
  ASSUME CallInv,
         UNCHANGED <<events, profile, eligible, seen, engagement, returned, seenBefore, candidates>>,
         pc' \in {"rank", "diversify", "failed"}, Ranked'
  PROVE  CallInv'
<1>1. Loaded'
  BY DEF CallInv, Loaded
<1>2. NothingSeen'
  BY DEF CallInv, NothingSeen, OwnVideos
<1>3. NothingPersonal' /\ Recommendable'
  BY DEF CallInv, NothingPersonal, Recommendable
<1> QED BY <1>1, <1>2, <1>3 DEF CallInv

\* The greedy choice changes neither the scores nor what was loaded.
LEMMA DiversifyKeeps ==
  ASSUME Diversify
  PROVE  UNCHANGED <<database, loaded, call, input>>
<1> QED BY DEF Diversify, SelectBest, EndStrictPass, Relax, EndRelaxedPass

LEMMA CallNext == ASSUME CallInv, [RecommenderNext]_allVars PROVE CallInv'
<1>1. CASE Others
  BY <1>1, OthersInv
<1>2. CASE Load
  BY <1>2, LoadInv
<1>3. CASE AskSources
  BY <1>3, AskSourcesInv
<1>4. CASE Source
  BY <1>4, SourceInv
<1>5. CASE generateCandidates
  BY <1>5, GenerateInv
<1>6. CASE loadRecentVideos
  BY <1>6, LaterInv DEF loadRecentVideos, database, Ranked
<1>7. CASE Rank
  BY <1>7, LaterInv DEF Rank, database, loaded, Ranked
<1>8. CASE Diversify
  <2>1. UNCHANGED <<database, loaded, call, input>> /\ pc = "diversify"
    BY <1>8, DiversifyKeeps DEF Diversify
  <2>2. UNCHANGED <<events, profile, eligible, seen, engagement, returned, seenBefore,
                    candidates, recentVideos, baseScore, pc>>
    BY <2>1 DEF database, loaded, call, input
  <2>3. Ranked'
    BY <2>2 DEF CallInv, Ranked
  <2> QED BY <2>1, <2>2, <2>3, LaterInv
<1>9. CASE QueryFails
  BY <1>9, LaterInv DEF QueryFails, database, loaded, Ranked
<1>10. CASE UNCHANGED allVars
  <2>1. UNCHANGED <<events, profile, eligible, seen, engagement, returned, waiting, seenBefore,
                    candidates, recentVideos, baseScore, pc>>
    BY <1>10 DEF allVars, database, loaded, call, vars, input
  <2>2. Loaded' /\ NothingSeen'
    BY <2>1 DEF CallInv, Loaded, NothingSeen, OwnVideos
  <2>3. NothingPersonal' /\ Ranked' /\ Recommendable'
    BY <2>1 DEF CallInv, NothingPersonal, Ranked, Recommendable
  <2> QED BY <2>2, <2>3 DEF CallInv
<1> QED BY <1>1, <1>2, <1>3, <1>4, <1>5, <1>6, <1>7, <1>8, <1>9, <1>10 DEF RecommenderNext

LEMMA CallInit == ASSUME RecommenderInit PROVE CallInv
<1>1. /\ events \in Seq(Event) /\ eligible = {} /\ seen = {} /\ engagement = <<>>
      /\ returned = [s \in CANDIDATE_SOURCES |-> {}]
      /\ waiting = {"eligible", "seen", "engagement"} /\ pc = "load"
      /\ seenBefore = OwnVideos /\ candidates = <<>>
  BY CandidatesAssumption DEF RecommenderInit
<1>2. DOMAIN engagement = {} /\ DOMAIN candidates = {}
  BY <1>1
<1>3. Loaded
  BY <1>1, <1>2 DEF Loaded
<1>4. NothingSeen
  BY <1>1, <1>2 DEF NothingSeen
<1>5. NothingPersonal /\ Ranked
  BY <1>1 DEF NothingPersonal, Ranked, CANDIDATE_SOURCES
<1>6. Recommendable
  BY <1>2, NoCandidates
<1> QED BY <1>3, <1>4, <1>5, <1>6 DEF CallInv

LEMMA CallInvariant == RecommenderSpec => []CallInv
<1> QED BY CallInit, CallNext, PTL DEF RecommenderSpec

-----------------------------------------------------------------------------
\* Whole numbers of the same denominator are divided in their order.
LEMMA DivisionKeepsOrder ==
  ASSUME NEW a \in Nat, NEW b \in Nat, NEW m \in Nat \ {0}, a >= b
  PROVE  /\ a \div m \in Nat
         /\ a \div m >= b \div m
<1> DEFINE q == a \div m
           r == b \div m
<1>1. q \in Int /\ r \in Int /\ a % m \in 0 .. m - 1 /\ b % m \in 0 .. m - 1
  OBVIOUS
<1>2. a = m * q + (a % m) /\ b = m * r + (b % m)
  OBVIOUS
<1> HIDE DEF q, r
<1>3. q >= r
  <2> SUFFICES ASSUME q + 1 <= r PROVE FALSE
    BY <1>1
  <2>1. m * (q + 1) <= m * r
    BY <1>1
  <2>2. m * (q + 1) = m * q + m
    BY <1>1
  <2> QED BY <1>1, <1>2, <2>1, <2>2
<1>4. q >= 0
  <2> SUFFICES ASSUME q + 1 <= 0 PROVE FALSE
    BY <1>1
  <2>1. m * (q + 1) <= 0
    BY <1>1
  <2>2. m * (q + 1) = m * q + m
    BY <1>1
  <2> QED BY <1>1, <1>2, <2>1, <2>2
<1> QED BY <1>1, <1>3, <1>4 DEF q, r

\* normalisePopularity keeps the order of the engagement and its sign.
LEMMA PopularityKeepsOrder ==
  ASSUME NEW map, IsFiniteSet(DOMAIN map), \A v \in DOMAIN map : map[v] \in Int,
         NEW v \in DOMAIN map
  PROVE  /\ popularityOf(map, v) > 0 => map[v] > 0
         /\ \A w \in DOMAIN map :
              map[v] >= map[w] => popularityOf(map, v) >= popularityOf(map, w)
<1> DEFINE values == {map[x] : x \in DOMAIN map}
           top == Max({0} \cup values)
           positive(x) == Max({0, map[x]})
<1>1. top \in Nat
  <2>1. values \in SUBSET Int /\ IsFiniteSet(values)
    BY RangeFinite
  <2>2. {0} \cup values \in SUBSET Int /\ IsFiniteSet({0} \cup values)
    BY <2>1, FS_AddElement
  <2>3. top \in {0} \cup values /\ top >= 0
    BY <2>2, MaxOfFinite
  <2> QED BY <2>2, <2>3
<1>2. ASSUME NEW x \in DOMAIN map
      PROVE  positive(x) = IF map[x] > 0 THEN map[x] ELSE 0
  <2>1. {0, map[x]} \in SUBSET Int /\ IsFiniteSet({0, map[x]})
    <3>1. {0, map[x]} = {0} \cup {map[x]} /\ IsFiniteSet({0})
      BY FS_Singleton
    <3>2. IsFiniteSet({0} \cup {map[x]})
      BY <3>1, FS_AddElement
    <3> QED BY <3>1, <3>2
  <2>2. positive(x) \in {0, map[x]} /\ positive(x) >= 0 /\ positive(x) >= map[x]
    BY <2>1, MaxOfFinite
  <2> QED BY <2>1, <2>2
<1>3. \A x \in DOMAIN map :
        popularityOf(map, x) = IF top = 0 THEN 0 ELSE (One * positive(x)) \div top
  BY DEF popularityOf, normalisePopularity
<1> HIDE DEF top, positive
<1>4. One \in Nat
  BY RankingAssumption
<1>5. CASE top = 0
  BY <1>3, <1>5
<1>6. CASE top # 0
  <2>1. \A x \in DOMAIN map : positive(x) \in Nat /\ One * positive(x) \in Nat
    BY <1>2, <1>4
  <2>2. ~(map[v] > 0) => popularityOf(map, v) = 0
    <3>1. ~(map[v] > 0) => One * positive(v) = 0
      BY <1>2, <1>4
    <3>2. 0 \div top = 0
      BY <1>1, <1>6
    <3> QED BY <1>3, <1>6, <3>1, <3>2
  <2>3. ASSUME NEW w \in DOMAIN map, map[v] >= map[w]
        PROVE  popularityOf(map, v) >= popularityOf(map, w)
    <3>1. positive(v) >= positive(w)
      BY <1>2, <2>3
    <3>2. \A a, b \in Nat : a >= b => One * a >= One * b
      BY <1>4
    <3>3. One * positive(v) >= One * positive(w)
      BY <2>1, <3>1, <3>2
    <3>4. (One * positive(v)) \div top >= (One * positive(w)) \div top
      BY <1>1, <1>6, <2>1, <3>3, DivisionKeepsOrder
    <3> QED BY <1>3, <1>6, <3>4
  <2> QED BY <2>2, <2>3
<1> QED BY <1>5, <1>6

LEMMA DislikesSettled == ASSUME Loaded PROVE DislikesNeverPromote
<1>1. IsFiniteSet(DOMAIN engagement) /\ \A v \in DOMAIN engagement : engagement[v] \in Int
  BY DiversityAssumption, FS_Subset DEF Loaded
<1> QED BY <1>1, PopularityKeepsOrder DEF DislikesNeverPromote

\* With a cold start no personalised term is left.
LEMMA ColdScores ==
  ASSUME NEW p, p.isColdStart, NEW q, q.isColdStart, NEW ids, NEW among, NEW recent, NEW map
  PROVE  rankCandidates(ids, among, p, recent, map) = rankCandidates(ids, among, q, recent, map)
<1>1. ASSUME NEW v PROVE scoreCandidate(v, p, recent, map) = scoreCandidate(v, q, recent, map)
  <2>1. affinity(p, v) = 0 /\ affinity(q, v) = 0
    BY DEF affinity
  <2>2. creatorAffinity(p, v) = 0 /\ creatorAffinity(q, v) = 0
    BY DEF creatorAffinity
  <2> QED BY <2>1, <2>2 DEF scoreCandidate
<1> QED BY <1>1 DEF rankCandidates

LEMMA ColdSettled == ASSUME CallInv PROVE ColdStartIsGlobal
<1> SUFFICES ASSUME profile.isColdStart
             PROVE  /\ \A v \in DOMAIN candidates :
                         candidates[v] \subseteq {"trending", "fresh", "explore"}
                    /\ \A p \in Profiles : p.isColdStart /\ pc = "diversify" =>
                         baseScore = rankCandidates(DOMAIN candidates, eligible, p,
                                                    recentVideos, engagement)
  BY DEF ColdStartIsGlobal
<1>1. returned["similar"] = {} /\ returned["tag"] = {}
  BY DEF CallInv, NothingPersonal
<1>2. ASSUME NEW v \in DOMAIN candidates
      PROVE  candidates[v] \subseteq {"trending", "fresh", "explore"}
  BY <1>1 DEF CallInv, Recommendable, CANDIDATE_SOURCES
<1>3. ASSUME NEW p \in Profiles, p.isColdStart, pc = "diversify"
      PROVE  baseScore = rankCandidates(DOMAIN candidates, eligible, p, recentVideos, engagement)
  BY <1>3, ColdScores DEF CallInv, Ranked
<1> QED BY <1>2, <1>3

-----------------------------------------------------------------------------
\* The order of TopById for a table of scores, and the first k in it.
Before(f, v, w) == f[v] > f[w] \/ (f[v] = f[w] /\ v < w)
First(S, k, f) == {v \in S : Cardinality({w \in S \ {v} : Before(f, w, v)}) < k}

\* A finite set of videos has a last one.
LEMMA LastExists ==
  ASSUME NEW S \in SUBSET Int, IsFiniteSet(S), S # {}, NEW f, \A v \in S : f[v] \in Int
  PROVE  \E m \in S : \A w \in S \ {m} : Before(f, w, m)
<1> DEFINE P == {s \in SUBSET S : s # {} => \E m \in s : \A w \in s \ {m} : Before(f, w, m)}
<1>1. {} \in P
  OBVIOUS
<1>2. ASSUME NEW s \in P, NEW z \in S PROVE s \cup {z} \in P
  <2>1. CASE s = {}
    <3>1. z \in s \cup {z} /\ (s \cup {z}) \ {z} = {}
      BY <2>1
    <3> QED BY <3>1
  <2>2. CASE s # {}
    <3>1. PICK m \in s : \A w \in s \ {m} : Before(f, w, m)
      BY <2>2
    <3>2. CASE z = m \/ Before(f, z, m)
      <4>1. \A w \in (s \cup {z}) \ {m} : Before(f, w, m)
        BY <3>1, <3>2
      <4> QED BY <4>1
    <3>3. CASE z # m /\ ~Before(f, z, m)
      <4>1. Before(f, m, z)
        BY <3>3 DEF Before
      <4>2. \A w \in s \ {m} : Before(f, w, z)
        BY <3>1, <4>1 DEF Before
      <4>3. \A w \in (s \cup {z}) \ {z} : Before(f, w, z)
        BY <4>1, <4>2
      <4> QED BY <4>3
    <3> QED BY <3>2, <3>3
  <2> QED BY <2>1, <2>2
<1>3. P \in SUBSET SUBSET S
  OBVIOUS
<1> HIDE DEF P
<1>4. P = SUBSET S
  BY <1>1, <1>2, <1>3, InductionOverSubsets
<1> QED BY <1>4 DEF P

\* Without the last one the others keep their rank.
LEMMA FirstWithoutLast ==
  ASSUME NEW S \in SUBSET Int, IsFiniteSet(S), NEW f, \A v \in S : f[v] \in Int,
         NEW k \in Nat, NEW m \in S, \A w \in S \ {m} : Before(f, w, m)
  PROVE  First(S, k, f) =
           First(S \ {m}, k, f) \cup (IF Cardinality(S \ {m}) < k THEN {m} ELSE {})
<1>1. ASSUME NEW v \in S \ {m}
      PROVE  {w \in S \ {v} : Before(f, w, v)} = {w \in (S \ {m}) \ {v} : Before(f, w, v)}
  <2>1. ~Before(f, m, v)
    BY DEF Before
  <2> QED BY <2>1
<1>2. {w \in S \ {m} : Before(f, w, m)} = S \ {m}
  OBVIOUS
<1>3. ASSUME NEW v \in S \ {m}
      PROVE  v \in First(S, k, f) <=> v \in First(S \ {m}, k, f)
  BY <1>1, <1>3 DEF First
<1>4. m \in First(S, k, f) <=> Cardinality(S \ {m}) < k
  BY <1>2 DEF First
<1>5. First(S, k, f) \subseteq S /\ First(S \ {m}, k, f) \subseteq S \ {m}
  BY DEF First
<1> QED BY <1>3, <1>4, <1>5

\* The first k of a set are k, or all of it.
LEMMA FirstCount ==
  ASSUME NEW S \in SUBSET Int, IsFiniteSet(S), NEW f, \A v \in S : f[v] \in Int, NEW k \in Nat
  PROVE  Cardinality(First(S, k, f)) = IF Cardinality(S) <= k THEN Cardinality(S) ELSE k
<1> DEFINE Count(s) == Cardinality(First(s, k, f)) =
                         IF Cardinality(s) <= k THEN Cardinality(s) ELSE k
           Good == {n \in Nat : \A s \in SUBSET S : Cardinality(s) = n => Count(s)}
<1>1. \A s \in SUBSET S : IsFiniteSet(s) /\ Cardinality(s) \in Nat
  BY FS_Subset, FS_CardinalityType
<1>2. \A s \in SUBSET S : Cardinality(s) = 0 => s = {}
  BY <1>1, FS_EmptySet
<1>3. 0 \in Good
  <2>1. First({}, k, f) = {}
    BY DEF First
  <2>2. Count({})
    BY <2>1, FS_EmptySet
  <2> HIDE DEF Count
  <2> QED BY <1>2, <2>2
<1>4. ASSUME NEW n \in Good PROVE n + 1 \in Good
  <2>1. n \in Nat /\ n + 1 # 0 /\ n + 1 \in Nat
    OBVIOUS
  <2>2. ASSUME NEW s \in SUBSET S, Cardinality(s) = n + 1 PROVE Count(s)
    <3>1. s # {}
      BY <2>1, <2>2, FS_EmptySet
    <3>2. PICK m \in s : \A w \in s \ {m} : Before(f, w, m)
      BY <1>1, <3>1, LastExists
    <3>3. IsFiniteSet(s \ {m}) /\ Cardinality(s \ {m}) = n
      BY <1>1, <2>1, <2>2, FS_RemoveElement
    <3>4. Count(s \ {m})
      BY <3>3
    <3>5. First(s, k, f) = First(s \ {m}, k, f) \cup (IF n < k THEN {m} ELSE {})
      BY <1>1, <3>2, <3>3, FirstWithoutLast
    <3>6. First(s \ {m}, k, f) \in SUBSET (s \ {m})
      BY DEF First
    <3>7. IsFiniteSet(First(s \ {m}, k, f)) /\ m \notin First(s \ {m}, k, f)
      BY <3>3, <3>6, FS_Subset
    <3>8. CASE n < k
      <4>1. Cardinality(First(s, k, f)) = Cardinality(First(s \ {m}, k, f)) + 1
        BY <3>5, <3>7, <3>8, FS_AddElement
      <4> QED BY <2>1, <2>2, <3>3, <3>4, <3>8, <4>1
    <3>9. CASE ~(n < k)
      <4>1. First(s, k, f) = First(s \ {m}, k, f)
        BY <3>5, <3>9
      <4> QED BY <2>1, <2>2, <3>3, <3>4, <3>9, <4>1
    <3> QED BY <3>8, <3>9
  <2> QED BY <2>1, <2>2
<1> HIDE DEF Good
<1>5. Good = Nat
  BY <1>3, <1>4, InductionOverNat DEF Good
<1>6. \A s \in SUBSET S : Count(s)
  BY <1>1, <1>5 DEF Good
<1> QED BY <1>6

-----------------------------------------------------------------------------
\* What exploration returned is among the candidates, and none was seen.
Explored ==
  pc \in {"recent", "rank", "diversify"} =>
    /\ exhausted = (Cardinality(Unseen) < limit)
    /\ DOMAIN candidates \subseteq Unseen
    /\ sourceExplore \subseteq DOMAIN candidates

\* Every pick takes one candidate away, and the loops end where they say.
Counted ==
  /\ pc # "diversify" => selected = <<>>
  /\ pc = "diversify" =>
       /\ remaining \subseteq DOMAIN baseScore
       /\ Cardinality(remaining) + Len(selected) = Cardinality(DOMAIN baseScore)
       /\ Len(selected) <= limit
       /\ pass = "done" => Len(selected) = limit \/ remaining = {}

ListsInv == CallInv /\ Shape /\ Explored /\ Counted

LEMMA InitLists == ASSUME RecommenderInit PROVE ListsInv
<1>1. CallInv
  BY CallInit
<1>2. /\ pc = "load" /\ selected = <<>> /\ remaining = {}
      /\ limit \in Nat /\ maxSameCreator \in Nat /\ maxSameTagInTop10 \in Nat
      /\ creatorCounts = [c \in Creators |-> 0]
      /\ tagCounts = [t \in DiversityTags |-> 0]
  BY DiversityAssumption DEF RecommenderInit
<1>3. Shape
  BY <1>2 DEF Shape
<1> QED BY <1>1, <1>2, <1>3 DEF ListsInv, Explored, Counted

\* Until the scores are known the list is empty.
LEMMA EarlyLists ==
  ASSUME Shape, Counted, UNCHANGED vars, pc # "diversify", pc' # "diversify"
  PROVE  Shape' /\ Counted'
<1> QED BY DEF Shape, Counted, vars, input

LEMMA GenerateExplored == ASSUME ListsInv, generateCandidates PROVE Explored'
<1>1. /\ candidates' = unionCandidates(allReturned) /\ returned' = allReturned
      /\ exhausted' = (Cardinality(Unseen) < limit)
      /\ UNCHANGED <<eligible, seen, limit>>
      /\ Recommendable' /\ DOMAIN returned = CANDIDATE_SOURCES
  BY GenerateInv DEF ListsInv, generateCandidates, CallInv, Loaded, vars, input
<1>2. DOMAIN candidates' \subseteq Unseen
  BY <1>1 DEF Recommendable, Unseen
<1>3. sourceExplore \subseteq DOMAIN candidates'
  <2>1. "explore" \in CANDIDATE_SOURCES
    BY DEF CANDIDATE_SOURCES
  <2>2. allReturned["explore"] = sourceExplore
    BY <1>1, <2>1 DEF allReturned
  <2>3. sourceExplore \subseteq eligible
    BY InMemoryUnseen DEF Unseen
  <2>4. \A v \in sourceExplore : SourcesOf(allReturned, v) # {}
    BY <2>1, <2>2 DEF SourcesOf
  <2> QED BY <1>1, <2>3, <2>4 DEF unionCandidates
<1>4. Unseen' = Unseen /\ sourceExplore' = sourceExplore
  BY <1>1 DEF sourceExplore, TopById, Unseen, Precedes
<1> QED BY <1>1, <1>2, <1>3, <1>4 DEF Explored

\* Later stages leave the candidates alone.
LEMMA ExploredStays ==
  ASSUME Explored, UNCHANGED <<eligible, seen, candidates, exhausted, limit>>,
         pc' \in {"recent", "rank", "diversify"} => pc \in {"recent", "rank", "diversify"}
  PROVE  Explored'
<1>1. Unseen' = Unseen
  BY DEF Unseen
<1>2. sourceExplore' = sourceExplore
  BY <1>1 DEF sourceExplore, TopById, Precedes
<1> QED BY <1>1, <1>2 DEF Explored

\* The candidates are the ones that get a score.
LEMMA RankedAll == ASSUME CallInv, pc = "diversify" PROVE DOMAIN baseScore = DOMAIN candidates
<1>1. DOMAIN candidates \subseteq eligible
  BY DEF CallInv, Recommendable
<1> QED BY <1>1 DEF CallInv, Ranked, rankCandidates

LEMMA RankLists == ASSUME ListsInv, Rank PROVE Shape' /\ Counted'
<1>1. CallInv' /\ pc' = "diversify" /\ selected = <<>>
  BY CallNext DEF ListsInv, RecommenderNext, Rank, Counted
<1>2. /\ remaining' = DOMAIN baseScore' /\ pass' = "strict"
      /\ UNCHANGED <<limit, maxSameCreator, maxSameTagInTop10, selected, creatorCounts,
                     tagCounts>>
  BY DEF Rank
<1>3. DOMAIN baseScore' \subseteq Videos
  <2>1. DOMAIN baseScore' \subseteq eligible
    BY DEF Rank, rankCandidates
  <2> QED BY <2>1 DEF ListsInv, CallInv, Loaded
<1>4. Shape'
  BY <1>2, <1>3 DEF ListsInv, Shape
<1>5. Cardinality(DOMAIN baseScore') \in Nat
  BY <1>3, DiversityAssumption, FS_Subset, FS_CardinalityType
<1> QED BY <1>1, <1>2, <1>4, <1>5 DEF Counted, ListsInv, Shape

\* A pick, of either pass.
LEMMA PickCounts ==
  ASSUME Shape, Counted, pc = "diversify", pc' = "diversify", Len(selected) < limit,
         NEW v \in remaining, NEW relaxed \in BOOLEAN, admit(v, relaxed),
         remaining' = remaining \ {v}, UNCHANGED <<input, pass>>, pass # "done"
  PROVE  Shape' /\ Counted'
<1>1. v \in Videos
  BY DEF Shape
<1>2. Shape'
  BY <1>1, AdmitKeepsShape
<1>3. Len(selected') = Len(selected) + 1 /\ Len(selected) \in Nat /\ limit \in Nat
  <2>1. selected' \in Seq(Picked) /\ DOMAIN selected' = 1 .. Len(selected) + 1
    BY <1>1, AdmitAppends
  <2>2. Len(selected) \in Nat /\ limit \in Nat
    BY DEF Shape
  <2>3. Len(selected') \in Nat /\ 1 .. Len(selected') = 1 .. Len(selected) + 1
    BY <2>1
  <2>4. \A m, n \in Nat : 1 .. m = 1 .. n + 1 => m = n + 1
    OBVIOUS
  <2> QED BY <2>2, <2>3, <2>4
<1>4. IsFiniteSet(remaining) /\ Cardinality(remaining) \in Nat
  BY DiversityAssumption, FS_Subset, FS_CardinalityType DEF Shape
<1>5. Cardinality(remaining') = Cardinality(remaining) - 1
  BY <1>4, FS_RemoveElement
<1>6. Counted'
  BY <1>3, <1>4, <1>5 DEF Counted, input
<1> QED BY <1>2, <1>6

LEMMA DiversifyLists == ASSUME ListsInv, Diversify PROVE Shape' /\ Counted'
<1>1. Shape /\ Counted /\ pc = "diversify" /\ pc' = "diversify"
  BY DEF ListsInv, Diversify, call
<1>2. CASE SelectBest
  <2>1. PICK v \in Admissible : admit(v, FALSE) /\ remaining' = remaining \ {v}
    BY <1>2 DEF SelectBest
  <2> QED BY <1>1, <1>2, <2>1, PickCounts DEF SelectBest, Admissible
<1>3. CASE Relax
  <2>1. PICK v \in remaining : admit(v, TRUE) /\ remaining' = remaining \ {v}
    BY <1>3 DEF Relax
  <2> QED BY <1>1, <1>3, <2>1, PickCounts DEF Relax
<1>4. CASE EndStrictPass \/ EndRelaxedPass
  <2>1. UNCHANGED <<input, selected, remaining, creatorCounts, tagCounts>>
    BY <1>4 DEF EndStrictPass, EndRelaxedPass
  <2>2. Len(selected) \in Nat /\ limit \in Nat
    BY <1>1 DEF Shape
  <2>3. pass' = "done" => Len(selected) >= limit \/ remaining = {}
    BY <1>4, <2>2 DEF EndStrictPass, EndRelaxedPass
  <2>4. Shape'
    BY <1>1, <2>1 DEF Shape, input
  <2> QED BY <1>1, <2>1, <2>2, <2>3, <2>4 DEF Counted, input
<1> QED BY <1>2, <1>3, <1>4 DEF Diversify

LEMMA ListsNext == ASSUME ListsInv, [RecommenderNext]_allVars PROVE ListsInv'
<1>1. CallInv' /\ CallInv /\ Shape /\ Explored /\ Counted
  BY CallNext DEF ListsInv
<1>2. CASE Others \/ Load \/ AskSources \/ Source \/ QueryFails
  <2>1. /\ UNCHANGED vars /\ pc \in {"load", "sources", "recent"} /\ pc' # "diversify"
        /\ UNCHANGED <<candidates, exhausted>>
        /\ pc' \in {"recent", "rank", "diversify"} => pc = "recent"
        /\ pc = "recent" => UNCHANGED <<eligible, seen>>
    BY <1>2 DEF Others, Load, AskSources, Source, QueryFails, loaded, call
  <2>2. Explored'
    <3>1. CASE pc = "recent"
      BY <1>1, <2>1, <3>1, ExploredStays DEF vars, input
    <3>2. CASE pc # "recent"
      BY <2>1, <3>2 DEF Explored
    <3> QED BY <3>1, <3>2
  <2> QED BY <1>1, <2>1, <2>2, EarlyLists DEF ListsInv
<1>3. CASE generateCandidates
  <2>1. UNCHANGED vars /\ pc # "diversify" /\ pc' # "diversify"
    BY <1>3 DEF generateCandidates
  <2> QED BY <1>1, <1>3, <2>1, GenerateExplored, EarlyLists DEF ListsInv
<1>4. CASE loadRecentVideos
  <2>1. /\ UNCHANGED vars /\ pc = "recent" /\ pc' = "rank"
        /\ UNCHANGED <<eligible, seen, candidates, exhausted>>
    BY <1>4 DEF loadRecentVideos
  <2>2. Explored'
    BY <1>1, <2>1, ExploredStays DEF vars, input
  <2> QED BY <1>1, <2>1, <2>2, EarlyLists DEF ListsInv
<1>5. CASE Rank
  <2>1. UNCHANGED <<eligible, seen, candidates, exhausted, limit>> /\ pc = "rank"
    BY <1>5 DEF Rank, loaded
  <2> QED BY <1>1, <1>5, <2>1, RankLists, ExploredStays DEF ListsInv
<1>6. CASE Diversify
  <2>1. UNCHANGED <<eligible, seen, candidates, exhausted, limit, pc>>
    BY <1>6, DiversifyKeeps DEF loaded, call, input
  <2> QED BY <1>1, <1>6, <2>1, DiversifyLists, ExploredStays DEF ListsInv
<1>7. CASE UNCHANGED allVars
  <2>1. UNCHANGED <<vars, eligible, seen, candidates, exhausted, limit, pc>>
    BY <1>7 DEF allVars, loaded, call, vars, input
  <2>2. Explored'
    BY <1>1, <2>1, ExploredStays
  <2>3. Shape' /\ Counted'
    BY <1>1, <2>1 DEF Shape, Counted, vars, input
  <2> QED BY <1>1, <2>2, <2>3 DEF ListsInv
<1> QED BY <1>2, <1>3, <1>4, <1>5, <1>6, <1>7 DEF RecommenderNext

\* With as much exploration as the limit, only too few unseen videos make it short.
LEMMA ShortageSettled == ASSUME ListsInv PROVE ShortageReported
<1> SUFFICES ASSUME Finished, LimitOf.explore >= limit
             PROVE  Len(selected) < limit <=> exhausted
  BY DEF ShortageReported
<1>1. /\ pc = "diversify" /\ pass = "done"
      /\ CallInv /\ Shape /\ Explored /\ Counted
  BY DEF Finished, ListsInv
<1>2. DOMAIN baseScore = DOMAIN candidates
  BY <1>1, RankedAll
<1>3. /\ exhausted = (Cardinality(Unseen) < limit)
      /\ sourceExplore \subseteq DOMAIN baseScore
      /\ DOMAIN baseScore \subseteq Unseen
      /\ Unseen \subseteq Videos
  BY <1>1, <1>2 DEF Explored, CallInv, Loaded, Unseen
<1>4. /\ IsFiniteSet(Unseen) /\ Cardinality(Unseen) \in Nat
      /\ IsFiniteSet(DOMAIN baseScore) /\ Cardinality(DOMAIN baseScore) \in Nat
      /\ Cardinality(DOMAIN baseScore) <= Cardinality(Unseen)
      /\ Cardinality(sourceExplore) <= Cardinality(DOMAIN baseScore)
      /\ IsFiniteSet(remaining) /\ Cardinality(remaining) \in Nat
  <2>1. IsFiniteSet(Unseen)
    BY <1>3, DiversityAssumption, FS_Subset
  <2>2. IsFiniteSet(DOMAIN baseScore)
    BY <1>3, <2>1, FS_Subset
  <2>3. IsFiniteSet(remaining)
    BY <1>1, <2>2, FS_Subset DEF Counted
  <2> QED BY <1>3, <2>1, <2>2, <2>3, FS_Subset, FS_CardinalityType
<1>5. Cardinality(sourceExplore) =
        IF Cardinality(Unseen) <= LimitOf.explore THEN Cardinality(Unseen) ELSE LimitOf.explore
  <2>1. sourceExplore = First(Unseen, LimitOf.explore, Exploration)
    BY DEF sourceExplore, TopById, First, Precedes, Before
  <2>2. LimitOf.explore \in Nat
    BY CandidatesAssumption
  <2>3. \A v \in Unseen : Exploration[v] \in Int
    BY <1>3, RankingAssumption
  <2>4. Unseen \in SUBSET Int
    BY <1>3, DiversityAssumption
  <2> QED BY <1>4, <2>1, <2>2, <2>3, <2>4, FirstCount
<1>6. /\ Cardinality(remaining) + Len(selected) = Cardinality(DOMAIN baseScore)
      /\ Len(selected) <= limit
      /\ Len(selected) = limit \/ Cardinality(remaining) = 0
      /\ Len(selected) \in Nat /\ limit \in Nat
  <2>1. Len(selected) \in Nat /\ limit \in Nat
    BY <1>1 DEF Shape
  <2>2. Cardinality({}) = 0
    BY FS_EmptySet
  <2> QED BY <1>1, <2>1, <2>2 DEF Counted
<1>7. LimitOf.explore \in Nat
  BY CandidatesAssumption
<1>8. Len(selected) < limit <=> Cardinality(Unseen) < limit
  BY <1>4, <1>5, <1>6, <1>7
<1> QED BY <1>3, <1>8

-----------------------------------------------------------------------------
LEMMA ListsInvariant == RecommenderSpec => []ListsInv
<1> QED BY InitLists, ListsNext, PTL DEF RecommenderSpec

(***************************************************************************)
(* recommendCandidates recommends no video the user had touched when it    *)
(* was called, and none outside its snapshot of analysed videos, whatever  *)
(* is written between its queries and in whatever order they are answered. *)
(***************************************************************************)
THEOREM NothingSeenIsRecommended == RecommenderSpec => []Recommendable
<1>1. ListsInv => Recommendable
  BY DEF ListsInv, CallInv
<1> QED BY <1>1, ListsInvariant, PTL

(***************************************************************************)
(* candidateShortage is exact: provided exploration may return as many     *)
(* videos as are asked for, the list is short if and only if it is set.    *)
(***************************************************************************)
THEOREM ShortageIsExact == RecommenderSpec => []ShortageReported
<1>1. ListsInv => ShortageReported
  BY ShortageSettled
<1> QED BY <1>1, ListsInvariant, PTL

(***************************************************************************)
(* A cold start is ranked as if there were no profile: no personalised     *)
(* source and no personalised term, whatever the profile row holds.        *)
(***************************************************************************)
THEOREM ColdStartsIgnoreTheProfile == RecommenderSpec => []ColdStartIsGlobal
<1>1. ListsInv => ColdStartIsGlobal
  BY ColdSettled DEF ListsInv
<1> QED BY <1>1, ListsInvariant, PTL

(***************************************************************************)
(* normalisePopularity never turns dislikes into popularity and keeps the  *)
(* order of the engagement that loadEngagement sums.                       *)
(***************************************************************************)
THEOREM DislikesAreNoPromotion == RecommenderSpec => []DislikesNeverPromote
<1>1. ListsInv => DislikesNeverPromote
  BY DislikesSettled DEF ListsInv, CallInv
<1> QED BY <1>1, ListsInvariant, PTL

=============================================================================
