---------------------------- MODULE ProfileProofs ----------------------------
(***************************************************************************)
(* An event counts as recorded by one request and invalidates at most one  *)
(* feed, for any number of handlers, sends, failures and outages.  The     *)
(* request that inserted the row carries the token "recorded": whoever     *)
(* holds it found no row, so nobody held it before, and it refreshes once. *)
(* A profile's affinities stay within its denominator, whatever the        *)
(* signals, their ages and the order in which they are summed.  Unless two *)
(* rebuilds overlap, each loads what the stored profile counts and more.   *)
(***************************************************************************)
EXTENDS SerialProfile, FiniteInduction, TLAPS

Shape ==
  /\ rows \in SUBSET Events
  /\ at \in [Requests -> Awaits]
  /\ event \in [Requests -> Events \cup {None}]
  /\ recorded \in [Requests -> BOOLEAN]
  /\ invalidated \in [Events -> Nat]
  /\ answers \in [Events -> SUBSET BOOLEAN]

Carries ==
  \A q \in Requests :
    /\ at[q] # "idle" => event[q] \in Events
    /\ at[q] = "refresh" => recorded[q]
    /\ at[q] \in {"idle", "insert"} => ~recorded[q]

TokenHasRow ==
  /\ \A q \in Requests : recorded[q] => event[q] \in rows
  /\ \A e \in Events : TRUE \in answers[e] \/ invalidated[e] # 0 => e \in rows

RefreshAhead ==
  \A q \in Requests :
    recorded[q] /\ at[q] \in {"load", "persist", "refresh"} => invalidated[event[q]] = 0

IInv == Shape /\ Carries /\ TokenHasRow /\ RefreshAhead /\ RecordedOnce /\ InvalidatedOnce

-----------------------------------------------------------------------------
LEMMA InitInv == Init => IInv
BY ProfileAssumption
   DEF Init, IInv, Shape, Awaits, Carries, TokenHasRow, RefreshAhead, RecordedOnce,
       InvalidatedOnce

\* Whoever inserts the row finds that nobody holds the token of its event.
LEMMA RecordInv ==
  ASSUME IInv, NEW q \in Requests, recordInteraction(q)
  PROVE  IInv'
<1>1. /\ Shape /\ Carries /\ TokenHasRow /\ RefreshAhead /\ RecordedOnce /\ InvalidatedOnce
      /\ event[q] \in Events
      /\ at' = [at EXCEPT ![q] = "load"]
      /\ recorded' = [recorded EXCEPT ![q] = event[q] \notin rows]
      /\ rows' = rows \cup {event[q]}
      /\ UNCHANGED <<event, invalidated, answers>>
  BY DEF IInv, Carries, recordInteraction, Goto
<1>2. Shape'
  BY <1>1 DEF Shape, Awaits
<1>3. Carries'
  BY <1>1 DEF Shape, Carries
<1>4. TokenHasRow'
  BY <1>1 DEF Shape, TokenHasRow
<1>5. RefreshAhead'
  BY <1>1 DEF Shape, TokenHasRow, RefreshAhead
<1>6. RecordedOnce'
  BY <1>1 DEF Shape, TokenHasRow, RecordedOnce
<1>7. InvalidatedOnce'
  BY <1>1 DEF InvalidatedOnce
<1> QED BY <1>2, <1>3, <1>4, <1>5, <1>6, <1>7 DEF IInv

\* The holder of the token refreshes, and has nothing to refresh after that.
LEMMA RefreshInv ==
  ASSUME IInv, NEW q \in Requests, RefreshFeed(q)
  PROVE  IInv'
<1>1. /\ Shape /\ Carries /\ TokenHasRow /\ RefreshAhead /\ RecordedOnce /\ InvalidatedOnce
      /\ event[q] \in Events /\ recorded[q] /\ at[q] = "refresh"
      /\ at' = [at EXCEPT ![q] = "answer"]
      /\ invalidated' = [invalidated EXCEPT ![event[q]] = @ + 1]
      /\ UNCHANGED <<rows, event, recorded, answers>>
  BY DEF IInv, Carries, RefreshFeed, Goto
<1>2. invalidated[event[q]] = 0 /\ event[q] \in rows
  BY <1>1 DEF RefreshAhead, TokenHasRow
<1>3. Shape'
  BY <1>1 DEF Shape, Awaits
<1>4. Carries'
  BY <1>1 DEF Shape, Carries
<1>5. TokenHasRow'
  BY <1>1, <1>2 DEF Shape, TokenHasRow
<1>6. RefreshAhead'
  <2> SUFFICES ASSUME NEW p \in Requests, recorded'[p],
                      at'[p] \in {"load", "persist", "refresh"}
               PROVE  invalidated'[event'[p]] = 0
    BY DEF RefreshAhead
  <2>1. p # q /\ recorded[p] /\ at[p] \in {"load", "persist", "refresh"}
    BY <1>1 DEF Shape
  <2>2. event[p] \in Events /\ event[p] # event[q]
    BY <1>1, <2>1 DEF Carries, RecordedOnce
  <2>3. invalidated[event[p]] = 0
    BY <1>1, <2>1 DEF RefreshAhead
  <2> QED BY <1>1, <2>2, <2>3 DEF Shape
<1>7. RecordedOnce'
  BY <1>1 DEF RecordedOnce
<1>8. InvalidatedOnce'
  BY <1>1, <1>2 DEF Shape, InvalidatedOnce
<1> QED BY <1>3, <1>4, <1>5, <1>6, <1>7, <1>8 DEF IInv

\* The token is dropped with the answer that tells of it, or lost in a failure.
LEMMA ForgetInv ==
  ASSUME IInv, NEW q \in Requests, at[q] # "idle", Forget(q), UNCHANGED <<rows, invalidated>>,
         \/ UNCHANGED answers
         \/ answers' = [answers EXCEPT ![event[q]] = @ \cup {recorded[q]}]
  PROVE  IInv'
<1>1. /\ Shape /\ Carries /\ TokenHasRow /\ RefreshAhead /\ RecordedOnce /\ InvalidatedOnce
      /\ event[q] \in Events
      /\ at' = [at EXCEPT ![q] = "idle"]
      /\ event' = [event EXCEPT ![q] = None]
      /\ recorded' = [recorded EXCEPT ![q] = FALSE]
  BY DEF IInv, Carries, Forget
<1>2. Shape'
  BY <1>1 DEF Shape, Awaits
<1>3. Carries'
  BY <1>1 DEF Shape, Carries
<1>a. \A e \in Events :
        TRUE \in answers'[e] => TRUE \in answers[e] \/ (e = event[q] /\ recorded[q])
  <2>1. CASE UNCHANGED answers
    BY <2>1
  <2>2. CASE answers' = [answers EXCEPT ![event[q]] = @ \cup {recorded[q]}]
    BY <1>1, <2>2 DEF Shape
  <2> QED BY <2>1, <2>2
<1>4. TokenHasRow'
  <2>1. \A p \in Requests : recorded'[p] => event'[p] \in rows
    BY <1>1 DEF Shape, TokenHasRow
  <2>2. \A e \in Events : TRUE \in answers'[e] \/ invalidated[e] # 0 => e \in rows
    BY <1>1, <1>a DEF TokenHasRow
  <2> QED BY <2>1, <2>2 DEF TokenHasRow
<1>5. RefreshAhead'
  BY <1>1 DEF Shape, RefreshAhead
<1>6. RecordedOnce'
  <2> SUFFICES ASSUME NEW p \in Requests, recorded'[p]
               PROVE  /\ TRUE \notin answers'[event'[p]]
                      /\ \A o \in Requests \ {p} : event'[o] = event'[p] => ~recorded'[o]
    BY DEF RecordedOnce
  <2>1. p # q /\ recorded[p] /\ event'[p] = event[p]
    BY <1>1 DEF Shape
  <2>2. event[p] \in Events
    BY <1>1, <2>1 DEF Shape, TokenHasRow
  <2>3. TRUE \notin answers[event[p]] /\ (event[p] = event[q] => ~recorded[q])
    BY <1>1, <2>1 DEF RecordedOnce
  <2>4. \A o \in Requests \ {p} : event'[o] = event[p] => ~recorded'[o]
    BY <1>1, <2>1 DEF Shape, RecordedOnce
  <2> QED BY <1>a, <2>1, <2>2, <2>3, <2>4
<1>7. InvalidatedOnce'
  BY <1>1 DEF InvalidatedOnce
<1> QED BY <1>2, <1>3, <1>4, <1>5, <1>6, <1>7 DEF IInv

\* Every other step moves one request on, with the token it has.
LEMMA MoveInv ==
  ASSUME IInv, NEW q \in Requests, NEW to \in Awaits \ {"idle", "insert"},
         to = "refresh" => recorded[q] /\ at[q] \in {"load", "persist"},
         to \in {"load", "persist"} => at[q] \in {"load", "persist"},
         at[q] # "idle", at' = [at EXCEPT ![q] = to],
         UNCHANGED <<rows, event, recorded, invalidated, answers>>
  PROVE  IInv'
BY DEF IInv, Shape, Carries, TokenHasRow, RefreshAhead, RecordedOnce, InvalidatedOnce

-----------------------------------------------------------------------------
LEMMA NextInv == ASSUME IInv, [Next]_vars PROVE IInv'
<1> USE DEF Awaits
<1>1. ASSUME NEW q \in Requests, NEW e \in Events, Send(q, e) PROVE IInv'
  <2>1. /\ ~recorded[q]
        /\ at' = [at EXCEPT ![q] = "insert"]
        /\ event' = [event EXCEPT ![q] = e]
        /\ UNCHANGED <<rows, recorded, invalidated, answers>>
    BY <1>1 DEF Send, Goto, IInv, Carries
  <2> QED BY <2>1 DEF IInv, Shape, Carries, TokenHasRow, RefreshAhead, RecordedOnce,
                      InvalidatedOnce
<1>2. ASSUME NEW q \in Requests, loadHistory(q) PROVE IInv'
  BY <1>2, MoveInv DEF loadHistory, Goto
<1>3. ASSUME NEW q \in Requests, persistProfile(q) PROVE IInv'
  <2>1. CASE recorded[q] /\ invalidatesFeed(event[q])
    BY <1>3, <2>1, MoveInv DEF persistProfile, Goto
  <2>2. CASE ~(recorded[q] /\ invalidatesFeed(event[q]))
    BY <1>3, <2>2, MoveInv DEF persistProfile, Goto
  <2> QED BY <2>1, <2>2
<1>4. ASSUME NEW q \in Requests, RefreshRefused(q) PROVE IInv'
  BY <1>4, MoveInv DEF RefreshRefused, Goto
<1>5. ASSUME NEW q \in Requests, Answer(q) \/ Fail(q) PROVE IInv'
  BY <1>5, ForgetInv DEF Answer, Fail
<1>6. ASSUME NEW v \in Videos, Analyse(v) PROVE IInv'
  BY <1>6 DEF Analyse, requestVars, IInv, Shape, Carries, TokenHasRow, RefreshAhead,
              RecordedOnce, InvalidatedOnce
<1>7. ASSUME NEW b \in Builders, Build(b) PROVE IInv'
  BY <1>7 DEF Build, requestVars, IInv, Shape, Carries, TokenHasRow, RefreshAhead,
              RecordedOnce, InvalidatedOnce
<1>8. CASE UNCHANGED vars
  BY <1>8 DEF vars, requestVars, IInv, Shape, Carries, TokenHasRow, RefreshAhead,
              RecordedOnce, InvalidatedOnce
<1> QED BY <1>1, <1>2, <1>3, <1>4, <1>5, <1>6, <1>7, <1>8, RecordInv, RefreshInv
        DEF Next, Handle

\* Two sends of one event, in any order, never both count as its recording.
THEOREM RecordingIsUnique == Spec => []RecordedOnce
<1>1. IInv /\ [Next]_vars => IInv'
  BY NextInv
<1>2. IInv => RecordedOnce
  BY DEF IInv
<1> QED BY InitInv, <1>1, <1>2, PTL DEF Spec

\* However often an event is sent, it throws away at most one feed.
THEOREM InvalidationIsUnique == Spec => []InvalidatedOnce
<1>1. IInv /\ [Next]_vars => IInv'
  BY NextInv
<1>2. IInv => InvalidatedOnce
  BY DEF IInv
<1> QED BY InitInv, <1>1, <1>2, PTL DEF Spec

-----------------------------------------------------------------------------
strength == [e \in Events |-> signalStrength(e)]
Total(E) == MapThenSumSet(signalStrength, E)

LEMMA StrengthsAreIntegers ==
  \A e \in Events : signalStrength(e) \in Int
<1> SUFFICES ASSUME NEW e \in Events PROVE signalStrength(e) \in Int
  OBVIOUS
<1>1. EVENT_WEIGHTS[Type[e]] \in Int
  BY ProfileAssumption DEF SignalEvent, EVENT_WEIGHTS
<1>2. MaxAge - Age[e] \in Nat
  BY ProfileAssumption DEF MaxAge
<1>3. 2^(MaxAge - Age[e]) \in Int
  BY <1>2
<1> QED BY <1>1, <1>3 DEF signalStrength

\* The sums computeProfile takes over parts of one set of events.
LEMMA TotalsUnfold ==
  ASSUME NEW F \in SUBSET Events, IsFiniteSet(F)
  PROVE  \E sum : /\ \A s \in SUBSET F : sum[s] = SumStep(strength, s, sum)
                  /\ \A s \in SUBSET F : Total(s) = sum[s]
<1>1. \A x \in F : strength[x] \in Int
  BY StrengthsAreIntegers DEF strength
<1>2. PICK sum : \A s \in SUBSET F : sum[s] = SumStep(strength, s, sum)
  BY <1>1, SumsOverSubsets
<1>3. ASSUME NEW E \in SUBSET F PROVE Total(E) = sum[E]
  <2> DEFINE IsTotal(g) ==
               g = [s \in SUBSET E |-> IF s = {} THEN 0
                                       ELSE signalStrength(Removed(s)) + g[s \ {Removed(s)}]]
             iter == CHOOSE g : IsTotal(g)
  <2>1. Total(E) = iter[E]
    BY DEF Total, MapThenSumSet, MapThenFoldSet, Removed
  <2>2. IsFiniteSet(E) /\ \A x \in E : strength[x] \in Int
    BY <1>1, FS_Subset
  <2> DEFINE g == [s \in SUBSET E |-> sum[s]]
  <2>3. \A s \in SUBSET E : g[s] = SumStep(strength, s, g)
    <3>1. \A s \in SUBSET E : s \in SUBSET F /\ s \ {Removed(s)} \in SUBSET E
      OBVIOUS
    <3> QED BY <1>2, <3>1 DEF SumStep
  <2>4. \A s \in SUBSET E : s # {} => strength[Removed(s)] = signalStrength(Removed(s))
    BY DEF Removed, strength
  <2>5. IsTotal(g)
    BY <2>3, <2>4 DEF SumStep
  <2>6. IsTotal(iter)
    BY <2>5
  <2>7. \A s \in SUBSET E : iter[s] = SumStep(strength, s, iter)
    BY <2>4, <2>6 DEF SumStep
  <2>8. \A s \in SUBSET E : sum[s] = SumStep(strength, s, sum)
    BY <1>2
  <2> HIDE DEF iter
  <2>9. iter[E] = sum[E]
    BY <2>2, <2>7, <2>8, SumsAgree
  <2> QED BY <2>1, <2>9
<1> QED BY <1>2, <1>3

\* The sum over a part is within the mass of the whole.
LEMMA PartWithinMass ==
  ASSUME NEW S, IsFiniteSet(S), NEW f, \A x \in S : f[x] \in Int, NEW sum,
         \A s \in SUBSET S : sum[s] = SumStep(f, s, sum),
         NEW A \in SUBSET S, NEW L \in SUBSET S,
         \A x \in S : x \in L <=> f[x] > 0
  PROVE  /\ sum[A] \in Int /\ sum[L] - sum[S \ L] \in Nat
         /\ sum[A] \in -(sum[L] - sum[S \ L]) .. (sum[L] - sum[S \ L])
<1> DEFINE Within(s) == /\ sum[s \cap A] <= sum[s \cap L] - sum[s \ L]
                        /\ -(sum[s \cap L] - sum[s \ L]) <= sum[s \cap A]
           P == {s \in SUBSET S : Within(s)}
<1>1. \A s \in SUBSET S : sum[s] \in Int
  BY SumsAreIntegers
<1>2. \A s \in SUBSET S, x \in S : x \notin s => sum[s \cup {x}] = f[x] + sum[s]
  BY SumInserts
<1>3. {} \in P
  <2>1. sum[{}] = 0
    BY DEF SumStep
  <2>2. {} \cap A = {} /\ {} \cap L = {} /\ {} \ L = {}
    OBVIOUS
  <2> QED BY <2>1, <2>2
<1>4. ASSUME NEW s \in P, NEW x \in S PROVE s \cup {x} \in P
  <2> DEFINE t == s \cup {x}
             a == sum[s \cap A]
             l == sum[s \cap L]
             d == sum[s \ L]
  <2>1. a \in Int /\ l \in Int /\ d \in Int /\ f[x] \in Int
    BY <1>1
  <2>2. a <= l - d /\ -(l - d) <= a
    OBVIOUS
  <2>3. CASE x \in s
    <3>1. t = s
      BY <2>3
    <3> QED BY <3>1
  <2>4. CASE x \notin s
    <3>1. sum[t \cap A] = IF x \in A THEN f[x] + a ELSE a
      <4>1. CASE x \in A
        <5>1. t \cap A = (s \cap A) \cup {x} /\ x \notin s \cap A
          BY <2>4, <4>1
        <5> QED BY <1>2, <4>1, <5>1
      <4>2. CASE x \notin A
        <5>1. t \cap A = s \cap A
          BY <4>2
        <5> QED BY <4>2, <5>1
      <4> QED BY <4>1, <4>2
    <3>2. CASE x \in L
      <4>1. /\ t \cap L = (s \cap L) \cup {x} /\ x \notin s \cap L
            /\ t \ L = s \ L
        BY <2>4, <3>2
      <4>2. sum[t \cap L] = f[x] + l /\ sum[t \ L] = d /\ f[x] > 0
        BY <1>2, <3>2, <4>1
      <4> HIDE DEF a, l, d, t
      <4>3. Within(t)
        BY <2>1, <2>2, <3>1, <4>2
      <4> QED BY <4>3 DEF t
    <3>3. CASE x \notin L
      <4>1. /\ t \ L = (s \ L) \cup {x} /\ x \notin s \ L
            /\ t \cap L = s \cap L
        BY <2>4, <3>3
      <4>2. sum[t \ L] = f[x] + d /\ sum[t \cap L] = l
        BY <1>2, <4>1
      <4>a. f[x] <= 0
        <5>1. ~(f[x] > 0)
          BY <3>3
        <5> HIDE DEF a, l, d, t
        <5> QED BY <2>1, <5>1
      <4> HIDE DEF a, l, d, t
      <4>3. Within(t)
        BY <2>1, <2>2, <3>1, <4>2, <4>a
      <4> QED BY <4>3 DEF t
    <3> QED BY <3>2, <3>3
  <2> QED BY <2>3, <2>4
<1>b. P \in SUBSET SUBSET S
  OBVIOUS
<1> HIDE DEF P
<1>5. P = SUBSET S
  BY <1>3, <1>4, <1>b, InductionOverSubsets
<1>6. Within(S)
  <2>1. S \in P
    BY <1>5
  <2> QED BY <2>1 DEF P
<1>7. S \cap A = A /\ S \cap L = L
  OBVIOUS
<1>8. sum[A] \in Int /\ sum[L] \in Int /\ sum[S \ L] \in Int
  BY <1>1
<1> DEFINE a == sum[A]
           l == sum[L]
           d == sum[S \ L]
<1>9. a \in Int /\ l \in Int /\ d \in Int /\ a <= l - d /\ -(l - d) <= a
  BY <1>6, <1>7, <1>8
<1> HIDE DEF a, l, d
<1>10. a \in Int /\ l - d \in Nat /\ a \in -(l - d) .. (l - d)
  BY <1>9
<1> QED BY <1>10 DEF a, l, d

\* What computeProfile stores, of a finite history.
LEMMA ProfileOfHistory ==
  ASSUME NEW loaded \in History, IsFiniteSet(loaded.rows)
  PROVE  LET p == computeProfile(loaded)
         IN  /\ p \in StoredProfile
             /\ \A c \in Creators : p.affinity[c] \in -p.denominator .. p.denominator
<1> DEFINE meaningful == {e \in loaded.rows : isMeaningful(e)}
           effective == {e \in meaningful : Video[e] \in loaded.analysed}
           liked == {e \in effective : signalStrength(e) > 0}
           by(c) == {e \in effective : Creator[Video[e]] = c}
           mass == Total(liked) - Total(effective \ liked)
           p == computeProfile(loaded)
<1>1. /\ effective \in SUBSET Events
      /\ IsFiniteSet(effective) /\ IsFiniteSet(meaningful \ effective)
  <2>1. loaded.rows \in SUBSET Events
    BY DEF History
  <2> QED BY <2>1, FS_Subset
<1>2. PICK sum : /\ \A s \in SUBSET effective : sum[s] = SumStep(strength, s, sum)
                 /\ \A s \in SUBSET effective : Total(s) = sum[s]
  BY <1>1, TotalsUnfold
<1>3. /\ liked \in SUBSET effective /\ effective \ liked \in SUBSET effective
      /\ \A c : by(c) \in SUBSET effective
  OBVIOUS
<1>4. \A x \in effective : strength[x] \in Int /\ (x \in liked <=> strength[x] > 0)
  BY <1>1, StrengthsAreIntegers DEF strength
<1>5. p = [interactionCount     |-> Cardinality(loaded.rows),
           effectiveSignalCount |-> Cardinality(effective),
           skippedNoFeatures    |-> Cardinality(meaningful \ effective),
           denominator          |-> mass,
           isColdStart          |-> Cardinality(effective) < ColdStartMin,
           affinity             |-> [c \in Creators |-> Total(by(c))]]
  BY DEF computeProfile, Total
<1> HIDE DEF effective, meaningful, liked, by
<1>6. ASSUME NEW c
      PROVE  /\ sum[by(c)] \in Int /\ sum[liked] - sum[effective \ liked] \in Nat
             /\ sum[by(c)] \in -(sum[liked] - sum[effective \ liked])
                                .. (sum[liked] - sum[effective \ liked])
  <2> DEFINE A == by(c)
  <2>1. A \in SUBSET effective
    BY <1>3
  <2> HIDE DEF A
  <2>2. /\ sum[A] \in Int /\ sum[liked] - sum[effective \ liked] \in Nat
        /\ sum[A] \in -(sum[liked] - sum[effective \ liked])
                          .. (sum[liked] - sum[effective \ liked])
    BY <1>1, <1>2, <1>3, <1>4, <2>1, PartWithinMass
  <2> QED BY <2>2 DEF A
<1>7. mass \in Nat /\ \A c : Total(by(c)) \in Int /\ Total(by(c)) \in -mass .. mass
  BY <1>2, <1>3, <1>6
<1>8. {Cardinality(loaded.rows), Cardinality(effective), Cardinality(meaningful \ effective)}
        \subseteq Nat
  BY <1>1, FS_CardinalityType
<1> HIDE DEF mass, p
<1>9. p \in StoredProfile
  BY <1>5, <1>7, <1>8 DEF StoredProfile
<1>10. \A c \in Creators : p.affinity[c] \in -p.denominator .. p.denominator
  BY <1>5, <1>7
<1> QED BY <1>9, <1>10 DEF p

-----------------------------------------------------------------------------
Loaded ==
  /\ IsFiniteSet(rows)
  /\ \A q \in Requests : IsFiniteSet(history[q].rows)
  /\ \A b \in Builders : IsFiniteSet(missing[b].rows)

ProfileInv == IInv /\ TypeOK /\ Loaded /\ AffinityNormalised

LEMMA ProfileInvInit == Init => ProfileInv
<1> SUFFICES ASSUME Init PROVE ProfileInv
  OBVIOUS
<1>1. {MaxSends, MaxFaults, MaxOutages} \subseteq Nat
  BY ProfileAssumption
<1>2. NoHistory \in History /\ IsFiniteSet(NoHistory.rows)
  BY FS_EmptySet DEF NoHistory, History
<1>3. TypeOK
  BY <1>1, <1>2 DEF Init, TypeOK, Awaits
<1>4. Loaded
  BY <1>2, FS_EmptySet DEF Init, Loaded
<1>5. AffinityNormalised
  BY DEF Init, AffinityNormalised
<1> QED BY InitInv, <1>3, <1>4, <1>5 DEF ProfileInv

LEMMA ProfileInvNext == ProfileInv /\ [Next]_vars => ProfileInv'
<1> SUFFICES ASSUME ProfileInv, [Next]_vars PROVE ProfileInv'
  OBVIOUS
<1>1. IInv /\ TypeOK /\ Loaded /\ AffinityNormalised
  BY DEF ProfileInv
<1>2. IInv'
  BY <1>1, NextInv
<1> SUFFICES TypeOK' /\ Loaded' /\ AffinityNormalised'
  BY <1>2 DEF ProfileInv
<1> USE DEF Awaits, builderVars
<1>3. {MaxSends, MaxFaults, MaxOutages} \subseteq Nat
  BY ProfileAssumption
<1>4. ASSUME NEW q \in Requests, NEW e \in Events, Send(q, e), UNCHANGED builderVars
      PROVE  TypeOK' /\ Loaded' /\ AffinityNormalised'
  BY <1>1, <1>3, <1>4 DEF Send, Goto, TypeOK, Loaded, AffinityNormalised
<1>5. ASSUME NEW q \in Requests, recordInteraction(q), UNCHANGED builderVars
      PROVE  TypeOK' /\ Loaded' /\ AffinityNormalised'
  <2>1. event[q] \in Events
    BY <1>1, <1>5 DEF IInv, Carries, recordInteraction, Goto
  <2>2. IsFiniteSet(rows')
    BY <1>1, <1>5, FS_AddElement DEF Loaded, recordInteraction
  <2> QED BY <1>1, <1>5, <2>1, <2>2
          DEF recordInteraction, Goto, boundVars, TypeOK, Loaded, AffinityNormalised
<1>6. ASSUME NEW q \in Requests, loadHistory(q), UNCHANGED builderVars
      PROVE  TypeOK' /\ Loaded' /\ AffinityNormalised'
  BY <1>1, <1>6 DEF loadHistory, Goto, boundVars, TypeOK, History, Loaded, AffinityNormalised
<1>7. ASSUME NEW q \in Requests, persistProfile(q), UNCHANGED builderVars
      PROVE  TypeOK' /\ Loaded' /\ AffinityNormalised'
  <2>1. history[q] \in History /\ IsFiniteSet(history[q].rows)
    BY <1>1 DEF TypeOK, Loaded
  <2>2. /\ profile' \in StoredProfile
        /\ \A c \in Creators :
             profile'.affinity[c] \in -profile'.denominator .. profile'.denominator
    BY <1>7, <2>1, ProfileOfHistory DEF persistProfile
  <2> QED BY <1>1, <1>7, <2>2
          DEF persistProfile, Goto, boundVars, TypeOK, Loaded, AffinityNormalised
<1>8. ASSUME NEW q \in Requests, RefreshFeed(q), UNCHANGED builderVars
      PROVE  TypeOK' /\ Loaded' /\ AffinityNormalised'
  <2>1. event[q] \in Events
    BY <1>1, <1>8 DEF IInv, Carries, RefreshFeed, Goto
  <2>2. invalidated' \in [Events -> Nat]
    BY <1>1, <1>8, <2>1 DEF RefreshFeed, TypeOK
  <2> QED BY <1>1, <1>8, <2>2
          DEF RefreshFeed, Goto, boundVars, TypeOK, Loaded, AffinityNormalised
<1>9. ASSUME NEW q \in Requests, RefreshRefused(q), UNCHANGED builderVars
      PROVE  TypeOK' /\ Loaded' /\ AffinityNormalised'
  BY <1>1, <1>3, <1>9 DEF RefreshRefused, Goto, TypeOK, Loaded, AffinityNormalised
<1>10. ASSUME NEW q \in Requests, Answer(q) \/ Fail(q), UNCHANGED builderVars
       PROVE  TypeOK' /\ Loaded' /\ AffinityNormalised'
  <2>1. /\ at' = [at EXCEPT ![q] = "idle"]
        /\ event' = [event EXCEPT ![q] = None]
        /\ recorded' = [recorded EXCEPT ![q] = FALSE]
        /\ history' = [history EXCEPT ![q] = NoHistory]
        /\ UNCHANGED <<rows, analysed, profile, invalidated, sends, outages>>
        /\ faults' = faults \/ (faults < MaxFaults /\ faults' = faults + 1)
        /\ answers' = answers \/ answers' = [answers EXCEPT ![event[q]] = @ \cup {recorded[q]}]
    BY <1>10 DEF Answer, Fail, Forget, boundVars
  <2>2. NoHistory \in History /\ IsFiniteSet(NoHistory.rows)
    BY FS_EmptySet DEF NoHistory, History
  <2>3. answers' \in [Events -> SUBSET BOOLEAN]
    <3>1. recorded[q] \in BOOLEAN
      BY <1>1 DEF TypeOK
    <3> QED BY <1>1, <2>1, <3>1 DEF TypeOK
  <2>4. faults' \in 0 .. MaxFaults
    BY <1>1, <1>3, <2>1 DEF TypeOK
  <2>5. Loaded' /\ history' \in [Requests -> History]
    BY <1>1, <1>10, <2>1, <2>2 DEF TypeOK, Loaded
  <2> QED BY <1>1, <1>10, <2>1, <2>3, <2>4, <2>5 DEF TypeOK, AffinityNormalised
<1>11. ASSUME NEW v \in Videos, Analyse(v), UNCHANGED builderVars
       PROVE  TypeOK' /\ Loaded' /\ AffinityNormalised'
  BY <1>1, <1>11 DEF Analyse, requestVars, boundVars, TypeOK, Loaded, AffinityNormalised
<1>12. ASSUME NEW b \in Builders, Build(b)
       PROVE  TypeOK' /\ Loaded' /\ AffinityNormalised'
  <2>1. CASE PersistMissing(b)
    <3>1. missing[b] \in History /\ IsFiniteSet(missing[b].rows)
      BY <1>1 DEF TypeOK, Loaded
    <3>2. /\ profile' \in StoredProfile
          /\ \A c \in Creators :
               profile'.affinity[c] \in -profile'.denominator .. profile'.denominator
      BY <2>1, <3>1, ProfileOfHistory DEF PersistMissing
    <3>3. NoHistory \in History /\ IsFiniteSet(NoHistory.rows)
      BY FS_EmptySet DEF NoHistory, History
    <3>4. /\ build' \in [Builders -> {"idle", "load", "persist"}]
          /\ missing' \in [Builders -> History]
          /\ \A c \in Builders : IsFiniteSet(missing'[c].rows)
      BY <1>1, <2>1, <3>3 DEF PersistMissing, TypeOK, Loaded
    <3>5. UNCHANGED <<rows, analysed, requestVars, invalidated, answers, boundVars>>
      BY <1>12, <2>1 DEF Build, PersistMissing, boundVars
    <3>6. TypeOK'
      BY <1>1, <3>2, <3>4, <3>5 DEF TypeOK, requestVars, boundVars
    <3>7. Loaded'
      BY <1>1, <3>4, <3>5 DEF Loaded, requestVars
    <3>8. AffinityNormalised'
      BY <3>2 DEF AffinityNormalised
    <3> QED BY <3>6, <3>7, <3>8
  <2>2. CASE GetUserProfile(b) \/ LoadMissing(b) \/ BuildFails(b)
    <3>1. NoHistory \in History /\ IsFiniteSet(NoHistory.rows)
      BY FS_EmptySet DEF NoHistory, History
    <3>2. [rows |-> rows, analysed |-> analysed] \in History /\ IsFiniteSet(rows)
      BY <1>1 DEF TypeOK, Loaded, History
    <3>3. /\ build' \in [Builders -> {"idle", "load", "persist"}]
          /\ missing' \in [Builders -> History]
          /\ \A c \in Builders : IsFiniteSet(missing'[c].rows)
      <4>1. build' \in [Builders -> {"idle", "load", "persist"}]
        BY <1>1, <2>2 DEF GetUserProfile, LoadMissing, BuildFails, TypeOK
      <4>2. PICK h : /\ h \in History /\ IsFiniteSet(h.rows)
                     /\ missing' = missing \/ missing' = [missing EXCEPT ![b] = h]
        BY <2>2, <3>1, <3>2 DEF GetUserProfile, LoadMissing, BuildFails
      <4> QED BY <1>1, <4>1, <4>2 DEF TypeOK, Loaded
    <3>4. /\ UNCHANGED <<rows, analysed, profile, requestVars, invalidated, answers, sends, outages>>
          /\ faults' \in 0 .. MaxFaults
      BY <1>1, <1>3, <1>12, <2>2 DEF Build, GetUserProfile, LoadMissing, BuildFails, TypeOK
    <3>5. TypeOK'
      BY <1>1, <3>3, <3>4 DEF TypeOK, requestVars
    <3>6. Loaded' /\ AffinityNormalised'
      BY <1>1, <3>3, <3>4 DEF Loaded, AffinityNormalised, requestVars
    <3> QED BY <3>5, <3>6
  <2> QED BY <1>12, <2>1, <2>2 DEF Build
<1>13. CASE UNCHANGED vars
  BY <1>1, <1>13 DEF vars, requestVars, boundVars, TypeOK, Loaded, AffinityNormalised
<1> QED BY <1>4, <1>5, <1>6, <1>7, <1>8, <1>9, <1>10, <1>11, <1>12, <1>13 DEF Next, Handle

\* The stored profile is one: counts and total mass are never negative.
THEOREM ProfilesAreTyped == Spec => []TypeOK
<1>1. ProfileInv => TypeOK
  BY DEF ProfileInv
<1> QED BY ProfileInvInit, ProfileInvNext, <1>1, PTL DEF Spec

(***************************************************************************)
(* Whatever a user liked and skipped, and when, no creator's affinity is   *)
(* larger than the mass it is divided by (computeProfile).                 *)
(***************************************************************************)
THEOREM AffinitiesStayWithinOne == Spec => []AffinityNormalised
<1>1. ProfileInv => AffinityNormalised
  BY DEF ProfileInv
<1> QED BY ProfileInvInit, ProfileInvNext, <1>1, PTL DEF Spec

-----------------------------------------------------------------------------
\* What a handler has recorded, and what it or a build has loaded, is on record.
Snapshots ==
  /\ \A q \in Requests :
       /\ at[q] \in {"load", "persist", "refresh", "answer"} => event[q] \in rows
       /\ at[q] = "persist" => event[q] \in history[q].rows
       /\ history[q].rows \subseteq rows /\ history[q].analysed \subseteq analysed
  /\ \A b \in Builders : missing[b].rows \subseteq rows /\ missing[b].analysed \subseteq analysed

OneRebuild == \A p, q \in Rebuilding : p = q

StoredFrom(h) == IF profile = None THEN h = NoHistory ELSE profile = computeProfile(h)

\* h counts what was answered, and whoever replaces it counts more.
Keeps(h) ==
  /\ h.rows \subseteq rows /\ h.analysed \subseteq analysed
  /\ \A e \in Events : answers[e] # {} => e \in h.rows
  /\ \A q \in Requests :
       /\ at[q] = "persist" => /\ h.rows \subseteq history[q].rows
                               /\ h.analysed \subseteq history[q].analysed
       /\ at[q] \in {"refresh", "answer"} => event[q] \in h.rows
  /\ \A b \in Builders :
       build[b] = "persist" => /\ h.rows \subseteq missing[b].rows
                               /\ h.analysed \subseteq missing[b].analysed

StoredKeeps == \E h \in History : StoredFrom(h) /\ Keeps(h)

SerialInv ==
  /\ Snapshots
  /\ ~overlapped => OneRebuild /\ StoredKeeps

\* Only loading the history starts a rebuild.
LEMMA OneRebuildKept ==
  ASSUME TypeOK, Next, OneRebuild, ~(Cardinality(Rebuilding') > 1)
  PROVE  OneRebuild'
<1>1. PICK q : Rebuilding' \subseteq Rebuilding \cup {q}
  <2>1. ASSUME NEW r \in Requests, Handle(r), UNCHANGED builderVars
        PROVE  Rebuilding' \subseteq Rebuilding \cup {r}
    <3>1. \A p \in Requests \ {r} : at'[p] = at[p]
      BY <2>1 DEF Handle, Send, recordInteraction, loadHistory, persistProfile, RefreshFeed,
                  RefreshRefused, Answer, Fail, Forget, Goto, TypeOK
    <3> QED BY <2>1, <3>1 DEF builderVars, Rebuilding
  <2>2. ASSUME NEW b \in Builders, Build(b)
        PROVE  Rebuilding' \subseteq Rebuilding \cup {b}
    <3>1. \A p \in Builders \ {b} : build'[p] = build[p]
      BY <2>2 DEF Build, GetUserProfile, LoadMissing, PersistMissing, BuildFails, TypeOK
    <3> QED BY <2>2, <3>1 DEF Build, requestVars, Rebuilding
  <2>3. ASSUME NEW v \in Videos, Analyse(v), UNCHANGED builderVars
        PROVE  Rebuilding' \subseteq Rebuilding \cup {v}
    BY <2>3 DEF Analyse, requestVars, builderVars, Rebuilding
  <2> QED BY <2>1, <2>2, <2>3 DEF Next
<1> SUFFICES ASSUME NEW p \in Rebuilding', NEW o \in Rebuilding', p # o
             PROVE  FALSE
  BY DEF OneRebuild
<1>2. \A x \in Rebuilding' : x = p \/ x = o
  BY <1>1 DEF OneRebuild
<1>3. Rebuilding' = {p} \cup {o}
  BY <1>2
<1>4. Cardinality(Rebuilding') = 2
  <2>1. IsFiniteSet({p}) /\ Cardinality({p}) = 1 /\ o \notin {p}
    BY FS_Singleton
  <2>2. Cardinality({p} \cup {o}) = 1 + 1
    BY <2>1, FS_AddElement
  <2> QED BY <1>3, <2>2
<1> QED BY <1>4

LEMMA SerialInvInit == SerialInit => SerialInv
<1> SUFFICES ASSUME SerialInit PROVE SerialInv
  OBVIOUS
<1>1. NoHistory \in History
  BY DEF NoHistory, History
<1>2. Snapshots /\ OneRebuild
  BY DEF SerialInit, Init, Snapshots, OneRebuild, Rebuilding, NoHistory
<1>3. StoredFrom(NoHistory) /\ Keeps(NoHistory)
  BY DEF SerialInit, Init, StoredFrom, Keeps, NoHistory
<1> QED BY <1>1, <1>2, <1>3 DEF SerialInv, StoredKeeps

LEMMA SnapshotsKept ==
  ASSUME TypeOK, IInv, Snapshots, [Next]_vars
  PROVE  Snapshots'
<1> USE DEF Snapshots, TypeOK, builderVars
<1>1. ASSUME NEW q \in Requests, NEW e \in Events, Send(q, e), UNCHANGED builderVars
      PROVE  Snapshots'
  BY <1>1 DEF Send, Goto
<1>2. ASSUME NEW q \in Requests, recordInteraction(q), UNCHANGED builderVars PROVE Snapshots'
  BY <1>2 DEF recordInteraction, Goto
<1>3. ASSUME NEW q \in Requests, loadHistory(q), UNCHANGED builderVars PROVE Snapshots'
  BY <1>3 DEF loadHistory, Goto
<1>4. ASSUME NEW q \in Requests, persistProfile(q), UNCHANGED builderVars PROVE Snapshots'
  BY <1>4 DEF persistProfile, Goto
<1>5. ASSUME NEW q \in Requests, RefreshFeed(q) \/ RefreshRefused(q), UNCHANGED builderVars
      PROVE  Snapshots'
  BY <1>5 DEF RefreshFeed, RefreshRefused, Goto
<1>6. ASSUME NEW q \in Requests, Answer(q) \/ Fail(q), UNCHANGED builderVars PROVE Snapshots'
  BY <1>6 DEF Answer, Fail, Forget, NoHistory
<1>7. ASSUME NEW v \in Videos, Analyse(v), UNCHANGED builderVars PROVE Snapshots'
  BY <1>7 DEF Analyse, requestVars
<1>8. ASSUME NEW b \in Builders, Build(b) PROVE Snapshots'
  BY <1>8 DEF Build, GetUserProfile, LoadMissing, PersistMissing, BuildFails, requestVars,
              NoHistory
<1>9. CASE UNCHANGED vars
  BY <1>9 DEF vars, requestVars
<1> QED BY <1>1, <1>2, <1>3, <1>4, <1>5, <1>6, <1>7, <1>8, <1>9 DEF Next, Handle

\* What the stored profile counts only grows.
LEMMA StoredKept ==
  ASSUME TypeOK, Loaded, IInv, Snapshots, OneRebuild, [Next]_vars,
         NEW h \in History, StoredFrom(h), Keeps(h)
  PROVE  \E g \in History :
           /\ StoredFrom(g)' /\ Keeps(g)'
           /\ h.rows \subseteq g.rows /\ h.analysed \subseteq g.analysed
<1> USE DEF Keeps, TypeOK, builderVars
<1>1. ASSUME NEW q \in Requests, NEW e \in Events, Send(q, e), UNCHANGED builderVars
      PROVE  Keeps(h)' /\ StoredFrom(h)'
  BY <1>1 DEF Send, Goto, StoredFrom
<1>2. ASSUME NEW q \in Requests, recordInteraction(q), UNCHANGED builderVars
      PROVE  Keeps(h)' /\ StoredFrom(h)'
  BY <1>2 DEF recordInteraction, Goto, StoredFrom
<1>3. ASSUME NEW q \in Requests, loadHistory(q), UNCHANGED builderVars
      PROVE  Keeps(h)' /\ StoredFrom(h)'
  BY <1>3 DEF loadHistory, Goto, StoredFrom
<1>4. ASSUME NEW q \in Requests, persistProfile(q), UNCHANGED builderVars
      PROVE  \E g \in History :
               /\ StoredFrom(g)' /\ Keeps(g)'
               /\ h.rows \subseteq g.rows /\ h.analysed \subseteq g.analysed
  <2>a. PICK g : g = history[q]
    OBVIOUS
  <2>1. g \in History /\ IsFiniteSet(g.rows) /\ at[q] = "persist"
    BY <1>4, <2>a DEF Loaded, persistProfile, Goto
  <2>2. profile' = computeProfile(g) /\ profile' # None
    BY <1>4, <2>a, <2>1, ProfileOfHistory, ProfileAssumption DEF persistProfile
  <2>3. /\ h.rows \subseteq g.rows /\ h.analysed \subseteq g.analysed
        /\ g.rows \subseteq rows /\ g.analysed \subseteq analysed /\ event[q] \in g.rows
    BY <2>a, <2>1 DEF Snapshots
  <2>4. /\ \A p \in Requests :
              /\ at'[p] # "persist"
              /\ at'[p] \in {"refresh", "answer"} => p = q \/ at[p] \in {"refresh", "answer"}
        /\ \A c \in Builders : build'[c] # "persist"
    <3>1. \A x \in Rebuilding : x = q
      BY <2>1 DEF OneRebuild, Rebuilding
    <3> QED BY <1>4, <2>1, <3>1, ProfileAssumption DEF Rebuilding, persistProfile, Goto
  <2>5. UNCHANGED <<rows, analysed, event, answers>>
    BY <1>4 DEF persistProfile
  <2>6. Keeps(g)'
    BY <2>3, <2>4, <2>5
  <2> QED BY <2>1, <2>2, <2>3, <2>6 DEF StoredFrom
<1>5. ASSUME NEW q \in Requests, RefreshFeed(q) \/ RefreshRefused(q), UNCHANGED builderVars
      PROVE  Keeps(h)' /\ StoredFrom(h)'
  BY <1>5 DEF RefreshFeed, RefreshRefused, Goto, StoredFrom
<1>6. ASSUME NEW q \in Requests, Answer(q) \/ Fail(q), UNCHANGED builderVars
      PROVE  Keeps(h)' /\ StoredFrom(h)'
  <2>1. \A e \in Events : answers'[e] # {} => answers[e] # {} \/ (e = event[q] /\ at[q] = "answer")
    BY <1>6 DEF Answer, Fail
  <2>2. \A e \in Events : answers'[e] # {} => e \in h.rows
    BY <2>1
  <2> QED BY <1>6, <2>2 DEF Answer, Fail, Forget, StoredFrom
<1>7. ASSUME NEW v \in Videos, Analyse(v), UNCHANGED builderVars
      PROVE  Keeps(h)' /\ StoredFrom(h)'
  BY <1>7 DEF Analyse, requestVars, StoredFrom
<1>8. ASSUME NEW b \in Builders, PersistMissing(b), Build(b)
      PROVE  \E g \in History :
               /\ StoredFrom(g)' /\ Keeps(g)'
               /\ h.rows \subseteq g.rows /\ h.analysed \subseteq g.analysed
  <2>a. PICK g : g = missing[b]
    OBVIOUS
  <2>1. g \in History /\ IsFiniteSet(g.rows) /\ build[b] = "persist"
    BY <1>8, <2>a DEF Loaded, PersistMissing
  <2>2. profile' = computeProfile(g) /\ profile' # None
    BY <1>8, <2>a, <2>1, ProfileOfHistory, ProfileAssumption DEF PersistMissing
  <2>3. /\ h.rows \subseteq g.rows /\ h.analysed \subseteq g.analysed
        /\ g.rows \subseteq rows /\ g.analysed \subseteq analysed
    BY <2>a, <2>1 DEF Snapshots
  <2>4. /\ \A p \in Requests : at'[p] # "persist"
        /\ \A c \in Builders : build'[c] # "persist"
    <3>1. \A x \in Rebuilding : x = b
      BY <2>1 DEF OneRebuild, Rebuilding
    <3> QED BY <1>8, <3>1, ProfileAssumption DEF Rebuilding, Build, PersistMissing, requestVars
  <2>5. UNCHANGED <<rows, analysed, requestVars, answers>>
    BY <1>8 DEF Build
  <2>6. Keeps(g)'
    BY <2>3, <2>4, <2>5 DEF requestVars
  <2> QED BY <2>1, <2>2, <2>3, <2>6 DEF StoredFrom
<1>9. ASSUME NEW b \in Builders, ~PersistMissing(b), Build(b)
      PROVE  Keeps(h)' /\ StoredFrom(h)'
  BY <1>9 DEF Build, GetUserProfile, LoadMissing, BuildFails, requestVars, StoredFrom
<1>10. CASE UNCHANGED vars
  BY <1>10 DEF vars, requestVars, StoredFrom
<1> HIDE DEF Keeps, TypeOK
<1> QED BY <1>1, <1>2, <1>3, <1>4, <1>5, <1>6, <1>7, <1>8, <1>9, <1>10 DEF Next, Handle

LEMMA SerialInvNext ==
  ASSUME ProfileInv, SerialInv, [SerialNext]_serialVars
  PROVE  SerialInv'
<1>1. TypeOK /\ Loaded /\ IInv /\ Snapshots /\ [Next]_vars
  BY DEF ProfileInv, SerialInv, SerialNext, serialVars
<1>2. Snapshots'
  BY <1>1, SnapshotsKept
<1>3. ASSUME ~overlapped' PROVE OneRebuild' /\ StoredKeeps'
  <2>1. ~overlapped /\ OneRebuild /\ StoredKeeps
    <3>1. overlapped => overlapped'
      BY DEF SerialNext, serialVars
    <3> QED BY <1>3, <3>1 DEF SerialInv
  <2>2. OneRebuild'
    <3>1. CASE SerialNext
      BY <1>1, <1>3, <2>1, <3>1, OneRebuildKept DEF SerialNext
    <3>2. CASE UNCHANGED serialVars
      BY <2>1, <3>2 DEF serialVars, vars, requestVars, builderVars, OneRebuild, Rebuilding
    <3> QED BY <3>1, <3>2
  <2>3. PICK h \in History : StoredFrom(h) /\ Keeps(h)
    BY <2>1 DEF StoredKeeps
  <2>4. PICK g \in History : StoredFrom(g)' /\ Keeps(g)'
    BY <1>1, <2>1, <2>3, StoredKept
  <2> QED BY <2>2, <2>4 DEF StoredKeeps
<1> QED BY <1>2, <1>3 DEF SerialInv

\* More history has more effective signals.
LEMMA EffectiveSignalsGrow ==
  ASSUME NEW h \in History, NEW g \in History, IsFiniteSet(g.rows),
         h.rows \subseteq g.rows, h.analysed \subseteq g.analysed,
         ~computeProfile(h).isColdStart
  PROVE  ~computeProfile(g).isColdStart
<1> DEFINE effective(x) == {e \in {e \in x.rows : isMeaningful(e)} : Video[e] \in x.analysed}
<1>1. \A x : computeProfile(x).isColdStart = (Cardinality(effective(x)) < ColdStartMin)
  BY DEF computeProfile
<1>2. effective(h) \subseteq effective(g) /\ effective(g) \subseteq g.rows
  OBVIOUS
<1>3. IsFiniteSet(effective(g)) /\ IsFiniteSet(effective(h))
  BY <1>2, FS_Subset
<1>4. /\ Cardinality(effective(h)) \in Nat /\ Cardinality(effective(g)) \in Nat
      /\ Cardinality(effective(h)) <= Cardinality(effective(g))
  BY <1>2, <1>3, FS_Subset, FS_CardinalityType
<1>5. ColdStartMin \in Nat
  BY ProfileAssumption
<1> DEFINE m == Cardinality(effective(h))
           n == Cardinality(effective(g))
<1>6. ~(m < ColdStartMin) /\ m \in Nat /\ n \in Nat /\ m <= n
  BY <1>1, <1>4
<1> HIDE DEF m, n
<1>7. ~(n < ColdStartMin)
  BY <1>5, <1>6
<1> QED BY <1>1, <1>7 DEF n

\* A profile that is there is replaced, never removed.
LEMMA ProfileReplaced ==
  ASSUME TypeOK, Loaded, [Next]_vars, profile # None
  PROVE  profile' # None
<1>1. ASSUME NEW h \in History, IsFiniteSet(h.rows), profile' = computeProfile(h)
      PROVE  profile' # None
  BY <1>1, ProfileOfHistory, ProfileAssumption
<1>2. ASSUME NEW q \in Requests, persistProfile(q) PROVE profile' # None
  BY <1>1, <1>2 DEF TypeOK, Loaded, persistProfile
<1>3. ASSUME NEW b \in Builders, PersistMissing(b) PROVE profile' # None
  BY <1>1, <1>3 DEF TypeOK, Loaded, PersistMissing
<1>4. \/ \E q \in Requests : persistProfile(q)
      \/ \E b \in Builders : PersistMissing(b)
      \/ profile' = profile
  BY DEF Next, Handle, vars, Send, recordInteraction, loadHistory, RefreshFeed, RefreshRefused,
         Answer, Fail, Build, GetUserProfile, LoadMissing, BuildFails, Analyse
<1> QED BY <1>2, <1>3, <1>4

LEMMA WarmKept ==
  ASSUME ProfileInv, SerialInv, [SerialNext]_serialVars, ~overlapped', Warm
  PROVE  Warm'
<1>1. TypeOK /\ Loaded /\ IInv /\ Snapshots /\ [Next]_vars
  BY DEF ProfileInv, SerialInv, SerialNext, serialVars
<1>2. OneRebuild /\ StoredKeeps
  <2>1. overlapped => overlapped'
    BY DEF SerialNext, serialVars
  <2> QED BY <2>1 DEF SerialInv
<1>3. PICK h \in History : StoredFrom(h) /\ Keeps(h)
  BY <1>2 DEF StoredKeeps
<1>4. PICK g \in History : /\ StoredFrom(g)' /\ Keeps(g)'
                           /\ h.rows \subseteq g.rows /\ h.analysed \subseteq g.analysed
  BY <1>1, <1>2, <1>3, StoredKept
<1>5. profile = computeProfile(h) /\ ~profile.isColdStart /\ profile # None
  BY <1>3 DEF Warm, StoredFrom
<1>6. IsFiniteSet(g.rows)
  <2>1. ProfileInv'
    BY ProfileInvNext, <1>1
  <2>2. IsFiniteSet(rows') /\ g.rows \subseteq rows'
    BY <1>4, <2>1 DEF ProfileInv, Loaded, Keeps
  <2> QED BY <2>2, FS_Subset
<1>7. ~computeProfile(g).isColdStart
  BY <1>4, <1>5, <1>6, EffectiveSignalsGrow
<1>8. profile' # None
  BY <1>1, <1>5, ProfileReplaced
<1>9. profile' = computeProfile(g)
  BY <1>4, <1>8 DEF StoredFrom
<1> QED BY <1>7, <1>8, <1>9 DEF Warm

LEMMA CoversWhenSettled ==
  ASSUME ProfileInv, SerialInv
  PROVE  SerialProfileCoversRows
<1> SUFFICES ASSUME ~overlapped, rows # {}, \A e \in rows : answers[e] # {}
             PROVE  profile # None /\ profile.interactionCount = Cardinality(rows)
  BY DEF SerialProfileCoversRows, ProfileCoversRows
<1>1. PICK h \in History : StoredFrom(h) /\ Keeps(h)
  BY DEF SerialInv, StoredKeeps
<1>2. rows \in SUBSET Events
  BY DEF ProfileInv, TypeOK
<1>3. h.rows = rows
  BY <1>1, <1>2 DEF Keeps
<1>4. profile # None
  BY <1>1, <1>3 DEF StoredFrom, NoHistory
<1>5. profile.interactionCount = Cardinality(h.rows)
  BY <1>1, <1>4 DEF StoredFrom, computeProfile
<1> QED BY <1>3, <1>4, <1>5

(***************************************************************************)
(* Unless two rebuilds overlapped, the stored profile counts every event   *)
(* on record once each was answered, whatever failed and was sent again    *)
(* (server.ts rebuilds for a duplicate too).                               *)
(***************************************************************************)
THEOREM SerialProfilesAreComplete == SerialSpec => []SerialProfileCoversRows
<1>1. SerialInit => ProfileInv /\ SerialInv
  BY ProfileInvInit, SerialInvInit DEF SerialInit
<1>2. [SerialNext]_serialVars => [Next]_vars
  BY DEF SerialNext, serialVars
<1>3. (ProfileInv /\ SerialInv) /\ [SerialNext]_serialVars => (ProfileInv /\ SerialInv)'
  BY <1>2, ProfileInvNext, SerialInvNext
<1>4. ProfileInv /\ SerialInv => SerialProfileCoversRows
  BY CoversWhenSettled
<1> QED BY <1>1, <1>3, <1>4, PTL DEF SerialSpec

\* Unless two rebuilds overlapped, a user who left cold start stays out of it.
THEOREM WarmUsersStayWarm == SerialSpec => SerialStaysWarm
<1>1. SerialInit => ProfileInv /\ SerialInv
  BY ProfileInvInit, SerialInvInit DEF SerialInit
<1>2. [SerialNext]_serialVars => [Next]_vars
  BY DEF SerialNext, serialVars
<1>3. (ProfileInv /\ SerialInv) /\ [SerialNext]_serialVars => (ProfileInv /\ SerialInv)'
  BY <1>2, ProfileInvNext, SerialInvNext
<1>4. (ProfileInv /\ SerialInv) /\ [SerialNext]_serialVars
        => [~overlapped' /\ Warm => Warm']_serialVars
  BY WarmKept
<1> QED BY <1>1, <1>3, <1>4, PTL DEF SerialSpec, SerialStaysWarm

=============================================================================
