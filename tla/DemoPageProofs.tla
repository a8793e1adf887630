---------------------------- MODULE DemoPageProofs ----------------------------
(***************************************************************************)
(* What holds of the demo page for any number of users, flows and clicks,  *)
(* any page size and any order of answers.  Of the server it is only used  *)
(* that a page is cut out of one generation, from where its cursor says.   *)
(* A flow that leaves the page blank is followed by one that will fill it; *)
(* when flows do not overlap, what it asked for is what the page shows.    *)
(***************************************************************************)
EXTENDS DemoPage, FiniteSetTheorems, TLAPS

Feed == Users \X Nat
PageItem == [feed : Feed, rank : Nat]
PageCursor == [user : Users, feed : Feed, offset : 1 .. Length]

Response ==
  [status : Nat, feed : Feed \cup {None}, items : Seq(PageItem),
   nextCursor : PageCursor \cup {None}]

Flow ==
  [at : {"idle", "profile", "feed", "sleep", "poll", "post"},
   from : {"none", "select", "more", "restart", "interact"},
   user : Users, cursor : PageCursor \cup {None}, answer : Response \cup {None},
   attempt : Nat, invalidated : BOOLEAN]

ServerTyped ==
  /\ built \in [Users -> Nat]
  /\ active \in [Users -> Nat]
  /\ retained \in [Users -> SUBSET Nat]

PageTyped ==
  /\ flows \in [Flows -> Flow]
  /\ user \in Users
  /\ cursor \in PageCursor \cup {None}
  /\ items \in Seq(PageItem)
  /\ polling \in BOOLEAN

\* A page holds items of one generation and continues with that generation.
OfOneFeed(a) ==
  /\ \A i \in DOMAIN a.items : a.items[i].feed = a.feed
  /\ a.nextCursor # None => a.nextCursor.feed = a.feed

AnswersAreOfOneFeed == \A f \in Flows : Answer(f) # None => OfOneFeed(Answer(f))

Polls(flow) == flow.at \in {"sleep", "poll"}

\* The flag is up exactly while one flow polls.
FlagTellsPoll ==
  /\ polling <=> \E f \in Flows : Polls(flows[f])
  /\ \A f, g \in Flows : Polls(flows[f]) /\ Polls(flows[g]) => f = g
  /\ \A f \in Flows : Polls(flows[f]) => flows[f].attempt \in 1 .. POLL_MAX_ATTEMPTS

BuildingMeansFlag == status = "building" => polling \/ lost

DemoInv ==
  /\ ServerTyped
  /\ PageTyped
  /\ AnswersAreOfOneFeed
  /\ NeverMixesGenerations
  /\ FlagTellsPoll
  /\ BuildingMeansFlag

-----------------------------------------------------------------------------
\* FirstUser is one of the users, and a poll may try at least once.
LEMMA DemoConstants ==
  /\ FirstUser \in Users
  /\ POLL_MAX_ATTEMPTS \in Nat \ {0}
  /\ Length \in Nat
  /\ PAGE_SIZE \in Nat \ {0}
BY DemoAssumption, PagingAssumption

\* Idle is a flow, and so is one that starts.
LEMMA IdleIsAFlow ==
  /\ Idle \in Flow
  /\ ~Polls(Idle)
  /\ Idle.answer = None
BY DemoConstants DEF Idle, Flow, Polls

\* What slice returns: a sequence, of items of its feed, no longer than what is left.
LEMMA SliceIsOfOneFeed ==
  ASSUME NEW feed \in Feed, NEW offset \in 0 .. Length
  PROVE  /\ slice(feed, offset) \in Seq(PageItem)
         /\ \A i \in DOMAIN slice(feed, offset) : slice(feed, offset)[i].feed = feed
         /\ Len(slice(feed, offset)) = Smaller(PAGE_SIZE, Length - offset)
<1> DEFINE n == Smaller(PAGE_SIZE, Length - offset)
<1>1. n \in Nat
  BY DemoConstants DEF Smaller
<1>2. slice(feed, offset) = [i \in 1 .. n |-> [feed |-> feed, rank |-> offset + i]]
  BY DEF slice
<1>3. \A i \in 1 .. n : [feed |-> feed, rank |-> offset + i] \in PageItem
  BY <1>1 DEF PageItem
<1> QED BY <1>1, <1>2, <1>3

LEMMA PageIsOfOneFeed ==
  ASSUME NEW feed \in Feed, NEW offset \in 0 .. Length
  PROVE  page(feed, offset) \in Response /\ OfOneFeed(page(feed, offset))
<1> DEFINE n == Smaller(PAGE_SIZE, Length - offset)
           next == IF offset + n < Length
                   THEN [user |-> feed[1], feed |-> feed, offset |-> offset + n]
                   ELSE None
<1>1. page(feed, offset) =
        [status |-> 200, feed |-> feed, items |-> slice(feed, offset), nextCursor |-> next]
  BY SliceIsOfOneFeed DEF page
<1>2. next \in PageCursor \cup {None}
  BY DemoConstants DEF Smaller, PageCursor, Feed
<1>3. next # None => next.feed = feed
  OBVIOUS
<1> HIDE DEF next
<1> QED BY <1>1, <1>2, <1>3, SliceIsOfOneFeed DEF Response, OfOneFeed

LEMMA StatusIsOfOneFeed ==
  ASSUME NEW code \in Nat
  PROVE  Status(code) \in Response /\ OfOneFeed(Status(code))
BY DEF Status, Response, OfOneFeed

\* What the server answers, whoever asks and whatever it has.
LEMMA FeedAnswerIsOfOneFeed ==
  ASSUME ServerTyped, NEW u \in Users, NEW c \in PageCursor \cup {None}
  PROVE  FeedAnswer(u, c) \in Response /\ OfOneFeed(FeedAnswer(u, c))
<1>1. CASE c # None
  <2>1. c.feed \in Feed /\ c.offset \in 0 .. Length
    BY <1>1, DemoConstants DEF PageCursor
  <2> QED BY <1>1, <2>1, PageIsOfOneFeed, StatusIsOfOneFeed DEF FeedAnswer
<1>2. CASE c = None
  <2>1. <<u, active[u]>> \in Feed /\ 0 \in 0 .. Length
    BY DemoConstants DEF ServerTyped, Feed
  <2> QED BY <1>2, <2>1, PageIsOfOneFeed, StatusIsOfOneFeed DEF FeedAnswer
<1> QED BY <1>1, <1>2

-----------------------------------------------------------------------------
\* One flow moves to r.  It may poll only if it did or nobody does, and the flag
\* is up afterwards exactly if it polls or another one did.
LEMMA OneFlowMoves ==
  ASSUME DemoInv, NEW f \in Flows, NEW r \in Flow,
         flows' = [flows EXCEPT ![f] = r],
         r.answer # None => OfOneFeed(r.answer),
         polling' \in BOOLEAN,
         polling' <=> Polls(r) \/ (polling /\ ~Polls(flows[f])),
         Polls(r) => Polls(flows[f]) \/ ~polling,
         Polls(r) => r.attempt \in 1 .. POLL_MAX_ATTEMPTS,
         status' = "building" => polling' \/ lost',
         user' \in Users, cursor' \in PageCursor \cup {None}, items' \in Seq(PageItem),
         NeverMixesGenerations', ServerTyped'
  PROVE  DemoInv'
<1> USE DEF DemoInv
<1>1. PageTyped'
  BY DEF PageTyped
<1>2. /\ flows'[f] = r
      /\ \A g \in Flows \ {f} : flows'[g] = flows[g]
  BY DEF PageTyped
<1>3. AnswersAreOfOneFeed'
  BY <1>2 DEF AnswersAreOfOneFeed, Answer
<1>4. FlagTellsPoll'
  BY <1>2 DEF FlagTellsPoll
<1>5. BuildingMeansFlag'
  BY DEF BuildingMeansFlag
<1> QED BY <1>1, <1>3, <1>4, <1>5

\* A flow that neither polls nor will, while the page and the flag stay.
LEMMA QuietMove ==
  ASSUME DemoInv, NEW f \in Flows, NEW r \in Flow,
         flows' = [flows EXCEPT ![f] = r],
         r.answer # None => OfOneFeed(r.answer),
         Polls(r) <=> Polls(flows[f]), r.attempt = flows[f].attempt \/ ~Polls(r),
         UNCHANGED <<user, feedId, cursor, items, polling, status, lost>>, ServerTyped'
  PROVE  DemoInv'
<1>1. /\ polling' <=> Polls(r) \/ (polling /\ ~Polls(flows[f]))
      /\ Polls(r) => r.attempt \in 1 .. POLL_MAX_ATTEMPTS
  BY DEF DemoInv, FlagTellsPoll
<1>2. /\ polling' \in BOOLEAN
      /\ user' \in Users /\ cursor' \in PageCursor \cup {None} /\ items' \in Seq(PageItem)
  BY DEF DemoInv, PageTyped
<1>3. NeverMixesGenerations'
  BY DEF DemoInv, NeverMixesGenerations
<1>4. status' = "building" => polling' \/ lost'
  BY DEF DemoInv, BuildingMeansFlag
<1> QED BY <1>1, <1>2, <1>3, <1>4, OneFlowMoves

\* A flow that does not poll empties the page and asks for the first page.
LEMMA RestartKeepsInv ==
  ASSUME DemoInv, NEW f \in Flows, NEW from \in {"none", "select", "more", "restart", "interact"},
         ~Polls(flows[f]), restartSession(f, from, user), user' = user,
         polling' = polling, status' \in {status, "none"}, lost' = lost, ServerTyped'
  PROVE  DemoInv'
<1> DEFINE r == [Idle EXCEPT !.at = "feed", !.from = from, !.user = user, !.cursor = None]
<1>1. /\ r \in Flow /\ ~Polls(r) /\ r.answer = None
      /\ flows' = [flows EXCEPT ![f] = r]
  BY IdleIsAFlow DEF DemoInv, PageTyped, Idle, Flow, Polls, restartSession, AskFeed, At
<1>2. /\ polling' \in BOOLEAN
      /\ user' \in Users /\ cursor' \in PageCursor \cup {None} /\ items' \in Seq(PageItem)
  BY DEF DemoInv, PageTyped, restartSession
<1>3. NeverMixesGenerations'
  BY DEF NeverMixesGenerations, restartSession
<1>4. status' = "building" => polling' \/ lost'
  BY DEF DemoInv, BuildingMeansFlag
<1> HIDE DEF r
<1> QED BY <1>1, <1>2, <1>3, <1>4, OneFlowMoves

\* What a page of one generation leaves on show.
LEMMA AppliedPageIsOfOneFeed ==
  ASSUME DemoInv, NEW f \in Flows, Answer(f) # None, NEW append \in BOOLEAN,
         applyPage(f, append)
  PROVE  /\ cursor' \in PageCursor \cup {None} /\ items' \in Seq(PageItem)
         /\ NeverMixesGenerations'
<1> DEFINE p == Answer(f)
<1>1. p \in Response /\ OfOneFeed(p)
  BY DEF DemoInv, PageTyped, Flow, Answer, AnswersAreOfOneFeed
<1>2. /\ feedId' = p.feed /\ cursor' = p.nextCursor
      /\ items' = IF append /\ feedId = p.feed THEN items \o p.items ELSE p.items
  BY DEF applyPage
<1>3. items \in Seq(PageItem) /\ p.items \in Seq(PageItem)
  BY <1>1 DEF DemoInv, PageTyped, Response
<1>4. cursor' \in PageCursor \cup {None} /\ items' \in Seq(PageItem)
  BY <1>1, <1>2, <1>3 DEF Response
<1>5. cursor' # None => cursor'.feed = feedId'
  BY <1>1, <1>2 DEF OfOneFeed
<1>6. \A i \in DOMAIN items' : items'[i].feed = feedId'
  <2>1. CASE append /\ feedId = p.feed
    <3>1. \A i \in DOMAIN items : items[i].feed = p.feed
      BY <2>1 DEF DemoInv, NeverMixesGenerations
    <3>2. \A i \in DOMAIN p.items : p.items[i].feed = p.feed
      BY <1>1 DEF OfOneFeed
    <3> HIDE DEF p
    <3> QED BY <1>2, <1>3, <2>1, <3>1, <3>2
  <2>2. CASE ~(append /\ feedId = p.feed)
    BY <1>1, <1>2, <2>2 DEF OfOneFeed
  <2> QED BY <2>1, <2>2
<1> QED BY <1>4, <1>5, <1>6 DEF NeverMixesGenerations

-----------------------------------------------------------------------------
LEMMA DemoInvHolds == DemoInit => DemoInv
<1> SUFFICES ASSUME DemoInit PROVE DemoInv
  OBVIOUS
<1> USE DEF DemoInit
<1> DEFINE first == [Idle EXCEPT !.at = "profile", !.from = "select"]
<1>1. first \in Flow /\ ~Polls(first) /\ first.answer = None
  BY IdleIsAFlow DEF Idle, Flow, Polls
<1> HIDE DEF first
<1>2. flows = [f \in Flows |-> IF f = FirstFlow THEN first ELSE Idle]
  BY DEF first
<1>3. PageTyped
  <2>1. \A f \in Flows : (IF f = FirstFlow THEN first ELSE Idle) \in Flow
    BY <1>1, IdleIsAFlow
  <2>2. flows \in [Flows -> Flow]
    BY ONLY <1>2, <2>1
  <2>3. items \in Seq(PageItem)
    OBVIOUS
  <2> QED BY <2>2, <2>3, DemoConstants DEF PageTyped
<1>4. ServerTyped
  BY DEF PagingInit, ServerTyped
<1>5. AnswersAreOfOneFeed
  BY <1>1, <1>2, IdleIsAFlow DEF AnswersAreOfOneFeed, Answer
<1>6. FlagTellsPoll
  BY <1>1, <1>2, IdleIsAFlow DEF FlagTellsPoll
<1>7. NeverMixesGenerations /\ BuildingMeansFlag
  BY DEF NeverMixesGenerations, BuildingMeansFlag
<1> QED BY <1>3, <1>4, <1>5, <1>6, <1>7 DEF DemoInv

LEMMA ServerKeepsTypes ==
  ASSUME ServerTyped, UNCHANGED <<built, active, retained>>
  PROVE  ServerTyped'
BY DEF ServerTyped

\* What a user does.
LEMMA ClicksKeepInv ==
  ASSUME DemoInv, NEW f \in Flows,
         selectUser(f) \/ loadMore(f) \/ restart(f) \/ interact(f)
  PROVE  DemoInv'
<1>1. ~Polls(flows[f]) /\ ServerTyped' /\ UNCHANGED <<polling, status, lost>>
  BY ServerKeepsTypes DEF selectUser, loadMore, restart, interact, Click, Polls, DemoInv, serverVars
<1>2. PageTyped /\ NeverMixesGenerations
  BY DEF DemoInv
<1>3. CASE selectUser(f)
  <2> DEFINE r == [Idle EXCEPT !.at = "profile", !.from = "select"]
  <2>1. /\ r \in Flow /\ ~Polls(r) /\ r.answer = None
        /\ flows' = [flows EXCEPT ![f] = r]
    BY <1>3, IdleIsAFlow DEF Idle, Flow, Polls, selectUser, At
  <2> HIDE DEF r
  <2>2. /\ polling' \in BOOLEAN /\ user' \in Users
        /\ cursor' \in PageCursor \cup {None} /\ items' \in Seq(PageItem)
    BY <1>1, <1>2, <1>3 DEF PageTyped, selectUser
  <2>3. NeverMixesGenerations' /\ (status' = "building" => polling' \/ lost')
    BY <1>1, <1>2, <1>3 DEF selectUser, NeverMixesGenerations, DemoInv, BuildingMeansFlag
  <2> QED BY <1>1, <2>1, <2>2, <2>3, OneFlowMoves
<1>4. CASE loadMore(f)
  <2> DEFINE r == [Idle EXCEPT !.at = "feed", !.from = "more", !.user = user, !.cursor = cursor]
  <2>1. /\ r \in Flow /\ ~Polls(r) /\ r.answer = None
        /\ flows' = [flows EXCEPT ![f] = r]
    BY <1>2, <1>4, IdleIsAFlow DEF Idle, Flow, Polls, loadMore, AskFeed, At, PageTyped
  <2> HIDE DEF r
  <2> QED BY <1>1, <1>4, <2>1, QuietMove DEF loadMore
<1>5. CASE restart(f)
  BY <1>1, <1>5, RestartKeepsInv DEF restart
<1>6. CASE interact(f)
  <2> DEFINE r == [Idle EXCEPT !.at = "post", !.from = "interact", !.user = user]
  <2>1. /\ r \in Flow /\ ~Polls(r) /\ r.answer = None
        /\ flows' = [flows EXCEPT ![f] = r]
    BY <1>2, <1>6, IdleIsAFlow DEF Idle, Flow, Polls, interact, At, PageTyped
  <2> HIDE DEF r
  <2> QED BY <1>1, <1>6, <2>1, QuietMove DEF interact
<1> QED BY <1>3, <1>4, <1>5, <1>6

\* What the server does, asked or not.
LEMMA ServerKeepsInv ==
  ASSUME DemoInv, NEW f \in Flows, ServeFeed(f) \/ ServeInteraction(f)
  PROVE  DemoInv'
<1>1. PageTyped /\ ServerTyped
  BY DEF DemoInv
<1>2. flows[f] \in Flow /\ flows[f].user \in Users /\ flows[f].cursor \in PageCursor \cup {None}
  BY <1>1 DEF PageTyped, Flow
<1>3. \A code \in {201, 404, 503} : Status(code) \in Response /\ OfOneFeed(Status(code))
  BY StatusIsOfOneFeed
<1>4. UNCHANGED <<user, feedId, cursor, items, polling, status, lost>>
  BY DEF ServeFeed, ServeInteraction, pageVars
<1>5. ServerTyped'
  BY <1>1, <1>2 DEF ServeFeed, ServeInteraction, Unavailable, Record, ServerTyped, serverVars
<1>6. ASSUME NEW a \in Response, OfOneFeed(a), NEW b \in BOOLEAN,
             flows' = [flows EXCEPT ![f] = [flows[f] EXCEPT !.answer = a, !.invalidated = b]]
      PROVE  DemoInv'
  <2> DEFINE r == [flows[f] EXCEPT !.answer = a, !.invalidated = b]
  <2>1. r \in Flow /\ r.answer = a /\ r.attempt = flows[f].attempt /\ (Polls(r) <=> Polls(flows[f]))
    BY <1>2, <1>6 DEF Flow, Polls
  <2>2. flows' = [flows EXCEPT ![f] = r]
    BY <1>6
  <2> HIDE DEF r
  <2> QED BY <1>4, <1>5, <1>6, <2>1, <2>2, QuietMove
<1>7. CASE ServeFeed(f)
  <2>1. \E a \in Response : OfOneFeed(a) /\ flows' = [flows EXCEPT ![f].answer = a]
    BY <1>1, <1>2, <1>3, <1>7, FeedAnswerIsOfOneFeed DEF ServeFeed
  <2>2. PICK a \in Response : OfOneFeed(a) /\ flows' = [flows EXCEPT ![f].answer = a]
    BY <2>1
  <2>3. flows' = [flows EXCEPT ![f] = [flows[f] EXCEPT !.answer = a,
                                         !.invalidated = flows[f].invalidated]]
    BY <1>1, <1>2, <2>2 DEF PageTyped, Flow
  <2>4. flows[f].invalidated \in BOOLEAN
    BY <1>2 DEF Flow
  <2> QED BY <1>6, <2>2, <2>3, <2>4
<1>8. CASE ServeInteraction(f)
  <2>1. CASE \E b \in BOOLEAN :
               flows' = [flows EXCEPT ![f].answer = Status(201), ![f].invalidated = b]
    <3> DEFINE a == Status(201)
    <3>1. PICK b \in BOOLEAN : flows' = [flows EXCEPT ![f].answer = a, ![f].invalidated = b]
      BY <2>1
    <3>2. a \in Response /\ OfOneFeed(a)
      BY <1>3
    <3> HIDE DEF a
    <3>3. flows' = [flows EXCEPT ![f] = [flows[f] EXCEPT !.answer = a, !.invalidated = b]]
      BY <1>1, <1>2, <3>1 DEF PageTyped, Flow
    <3> QED BY <1>6, <3>2, <3>3
  <2>2. CASE flows' = [flows EXCEPT ![f].answer = Status(404)]
    <3> DEFINE a == Status(404)
    <3>1. a \in Response /\ OfOneFeed(a) /\ flows' = [flows EXCEPT ![f].answer = a]
      BY <1>3, <2>2
    <3>2. flows[f].invalidated \in BOOLEAN
      BY <1>2 DEF Flow
    <3> HIDE DEF a
    <3>3. flows' = [flows EXCEPT ![f] = [flows[f] EXCEPT !.answer = a,
                                           !.invalidated = flows[f].invalidated]]
      BY <1>1, <1>2, <3>1 DEF PageTyped, Flow
    <3> QED BY <1>6, <3>1, <3>2, <3>3
  <2> QED BY <1>8, <2>1, <2>2 DEF ServeInteraction
<1> QED BY <1>7, <1>8

-----------------------------------------------------------------------------
\* A flow ends; the flag goes down if it was the one that polled.
LEMMA EndKeepsInv ==
  ASSUME DemoInv, NEW f \in Flows, flows' = [flows EXCEPT ![f] = Idle],
         polling' = IF Polls(flows[f]) THEN FALSE ELSE polling,
         status' = "building" => polling' \/ lost',
         user' = user, cursor' \in PageCursor \cup {None}, items' \in Seq(PageItem),
         NeverMixesGenerations', ServerTyped'
  PROVE  DemoInv'
<1>1. polling' <=> Polls(Idle) \/ (polling /\ ~Polls(flows[f]))
  BY IdleIsAFlow DEF DemoInv, PageTyped
<1>2. polling' \in BOOLEAN /\ user' \in Users
  BY DEF DemoInv, PageTyped
<1> QED BY <1>1, <1>2, IdleIsAFlow, OneFlowMoves

\* The page stays as it is.
LEMMA SamePage ==
  ASSUME DemoInv, UNCHANGED <<feedId, cursor, items>>
  PROVE  /\ cursor' \in PageCursor \cup {None} /\ items' \in Seq(PageItem)
         /\ NeverMixesGenerations'
BY DEF DemoInv, PageTyped, NeverMixesGenerations

LEMMA ProfileShownKeepsInv ==
  ASSUME DemoInv, NEW f \in Flows, ProfileShown(f)
  PROVE  DemoInv'
<1>1. /\ ServerTyped' /\ flows[f] \in Flow /\ ~Polls(flows[f])
      /\ UNCHANGED <<user, polling, status, lost>>
  BY ServerKeepsTypes DEF ProfileShown, DemoInv, PageTyped, serverVars, Polls
<1>2. CASE restartSession(f, flows[f].from, user)
  <2>1. flows[f].from \in {"none", "select", "more", "restart", "interact"}
    BY <1>1 DEF Flow
  <2> QED BY <1>1, <1>2, <2>1, RestartKeepsInv
<1>3. CASE Finish(f) /\ UNCHANGED <<feedId, cursor, items>>
  <2>1. status' = "building" => polling' \/ lost'
    BY <1>1 DEF DemoInv, BuildingMeansFlag
  <2> QED BY <1>1, <1>3, <2>1, SamePage, EndKeepsInv DEF Finish, At
<1> QED BY <1>2, <1>3 DEF ProfileShown

LEMMA InteractionAnsweredKeepsInv ==
  ASSUME DemoInv, NEW f \in Flows, InteractionAnswered(f)
  PROVE  DemoInv'
<1>1. /\ ServerTyped' /\ flows[f] \in Flow /\ ~Polls(flows[f])
      /\ UNCHANGED <<user, feedId, cursor, items, polling, status, lost>>
  BY ServerKeepsTypes DEF InteractionAnswered, DemoInv, PageTyped, serverVars, Polls
<1>2. CASE At(f, [flows[f] EXCEPT !.at = "profile", !.answer = None])
  <2> DEFINE r == [flows[f] EXCEPT !.at = "profile", !.answer = None]
  <2>1. /\ r \in Flow /\ ~Polls(r) /\ r.answer = None
        /\ flows' = [flows EXCEPT ![f] = r]
    BY <1>1, <1>2 DEF Flow, Polls, At
  <2> HIDE DEF r
  <2> QED BY <1>1, <2>1, QuietMove
<1>3. CASE Finish(f)
  <2>1. status' = "building" => polling' \/ lost'
    BY <1>1 DEF DemoInv, BuildingMeansFlag
  <2> QED BY <1>1, <1>3, <2>1, SamePage, EndKeepsInv DEF Finish, At
<1> QED BY <1>2, <1>3 DEF InteractionAnswered

LEMMA WakeKeepsInv ==
  ASSUME DemoInv, NEW f \in Flows, Wake(f)
  PROVE  DemoInv'
<1>1. /\ ServerTyped' /\ flows[f] \in Flow /\ user \in Users /\ Polls(flows[f])
      /\ UNCHANGED <<user, feedId, cursor, items, polling, status, lost>>
  BY ServerKeepsTypes DEF Wake, DemoInv, PageTyped, serverVars, pageVars, Polls
<1> DEFINE r == [flows[f] EXCEPT !.at = "poll", !.user = user, !.answer = None]
<1>2. /\ r \in Flow /\ Polls(r) /\ r.answer = None /\ r.attempt = flows[f].attempt
      /\ flows' = [flows EXCEPT ![f] = r]
  BY <1>1 DEF Flow, Polls, Wake, At
<1> HIDE DEF r
<1> QED BY <1>1, <1>2, QuietMove

\* The answer to loadPage.
LEMMA PageAnsweredKeepsInv ==
  ASSUME DemoInv, NEW f \in Flows, PageAnswered(f)
  PROVE  DemoInv'
<1>1. /\ ServerTyped' /\ flows[f] \in Flow /\ ~Polls(flows[f])
      /\ user' = user /\ lost' = lost /\ Answer(f) # None
  BY ServerKeepsTypes DEF PageAnswered, DemoInv, PageTyped, serverVars, Polls
<1>2. CASE applyPage(f, flows[f].cursor # None) /\ FinishDrawing(f) /\ polling' = polling
  <2>1. status' = "none"
    BY <1>2 DEF applyPage
  <2>2. (flows[f].cursor # None) \in BOOLEAN
    OBVIOUS
  <2>3. /\ cursor' \in PageCursor \cup {None} /\ items' \in Seq(PageItem)
        /\ NeverMixesGenerations'
    BY <1>1, <1>2, <2>2, AppliedPageIsOfOneFeed
  <2> QED BY <1>1, <1>2, <2>1, <2>3, EndKeepsInv DEF FinishDrawing, At
<1>3. CASE PollOrLeave(f) /\ UNCHANGED <<feedId, cursor, items>>
  <2>1. CASE polling
    BY <1>1, <1>3, <2>1, SamePage, EndKeepsInv DEF PollOrLeave, Finish, At
  <2>2. CASE ~polling
    <3> DEFINE r == [Idle EXCEPT !.at = "sleep", !.from = flows[f].from, !.attempt = 1]
    <3>1. /\ r \in Flow /\ Polls(r) /\ r.answer = None /\ r.attempt = 1
          /\ flows' = [flows EXCEPT ![f] = r]
      BY <1>1, <1>3, <2>2, IdleIsAFlow DEF Flow, Polls, Idle, PollOrLeave, At
    <3>2. polling' = TRUE
      BY <1>3, <2>2 DEF PollOrLeave
    <3>3. r.attempt \in 1 .. POLL_MAX_ATTEMPTS
      BY <3>1, DemoConstants
    <3>4. user' \in Users
      BY <1>1 DEF DemoInv, PageTyped
    <3> HIDE DEF r
    <3> QED BY <1>1, <1>3, <2>2, <3>1, <3>2, <3>3, <3>4, SamePage, OneFlowMoves
  <2> QED BY <2>1, <2>2
<1>4. CASE /\ restartSession(f, flows[f].from, user)
           /\ status' \in {status, "none"} /\ polling' = polling
  <2>1. flows[f].from \in {"none", "select", "more", "restart", "interact"}
    BY <1>1 DEF Flow
  <2> QED BY <1>1, <1>4, <2>1, RestartKeepsInv
<1>5. CASE /\ status' = "error" /\ Finish(f)
           /\ UNCHANGED <<feedId, cursor, items, polling>>
  BY <1>1, <1>5, SamePage, EndKeepsInv DEF Finish, At
<1> QED BY <1>2, <1>3, <1>4, <1>5 DEF PageAnswered

\* The answer to a poll, whose flow is the one the flag stands for.
LEMMA PollAnsweredKeepsInv ==
  ASSUME DemoInv, NEW f \in Flows, PollAnswered(f)
  PROVE  DemoInv'
<1>1. /\ ServerTyped' /\ flows[f] \in Flow /\ Polls(flows[f])
      /\ user' = user /\ lost' = lost /\ Answer(f) # None /\ polling
      /\ flows[f].attempt \in 1 .. POLL_MAX_ATTEMPTS
  BY ServerKeepsTypes DEF PollAnswered, DemoInv, PageTyped, FlagTellsPoll, serverVars, Polls
<1>2. EndPoll(f) => flows' = [flows EXCEPT ![f] = Idle] /\ polling' = FALSE
  BY DEF EndPoll, Finish, FinishDrawing, At
<1>3. CASE applyPage(f, FALSE) /\ EndPoll(f)
  <2>1. status' = "none"
    BY <1>3 DEF applyPage
  <2>2. /\ cursor' \in PageCursor \cup {None} /\ items' \in Seq(PageItem)
        /\ NeverMixesGenerations'
    BY <1>1, <1>3, AppliedPageIsOfOneFeed
  <2> QED BY <1>1, <1>2, <1>3, <2>1, <2>2, EndKeepsInv
<1>4. CASE /\ flows[f].attempt < POLL_MAX_ATTEMPTS
           /\ At(f, [flows[f] EXCEPT !.at = "sleep", !.attempt = @ + 1])
           /\ UNCHANGED <<feedId, cursor, items, polling>>
  <2> DEFINE r == [flows[f] EXCEPT !.at = "sleep", !.attempt = @ + 1]
  <2> DEFINE next == flows[f].attempt + 1
  <2>1. next \in Nat /\ r = [flows[f] EXCEPT !.at = "sleep", !.attempt = next]
    BY <1>1 DEF Flow
  <2>2. flows' = [flows EXCEPT ![f] = r]
    BY <1>4 DEF At
  <2> HIDE DEF r, next
  <2>3. r \in Flow /\ Polls(r) /\ r.answer = flows[f].answer /\ r.attempt = next
    BY <1>1, <2>1 DEF Flow, Polls
  <2>4. /\ r \in Flow /\ Polls(r) /\ r.answer = Answer(f)
        /\ r.attempt = flows[f].attempt + 1
        /\ flows' = [flows EXCEPT ![f] = r]
    BY <2>2, <2>3 DEF next, Answer
  <2>5. r.attempt \in 1 .. POLL_MAX_ATTEMPTS
    BY <1>1, <1>4, <2>4, DemoConstants
  <2>6. OfOneFeed(Answer(f))
    BY <1>1 DEF DemoInv, AnswersAreOfOneFeed
  <2>7. user' \in Users
    BY <1>1 DEF DemoInv, PageTyped
  <2> QED BY <1>1, <1>4, <2>4, <2>5, <2>6, <2>7, SamePage, OneFlowMoves
<1>5. CASE status' = "error" /\ EndPoll(f) /\ UNCHANGED <<feedId, cursor, items>>
  BY <1>1, <1>2, <1>5, SamePage, EndKeepsInv
<1> QED BY <1>3, <1>4, <1>5 DEF PollAnswered

\* The network loses a request, and the flow with it.
LEMMA NetworkFailsKeepsInv ==
  ASSUME DemoInv, NEW f \in Flows, NetworkFails(f)
  PROVE  DemoInv'
<1>1. /\ ServerTyped' /\ user' = user /\ lost'
      /\ UNCHANGED <<feedId, cursor, items>>
      /\ flows' = [flows EXCEPT ![f] = Idle]
  BY ServerKeepsTypes DEF NetworkFails, DemoInv, EndPoll, Finish, FinishDrawing, At
<1>2. polling' = IF Polls(flows[f]) THEN FALSE ELSE polling
  BY DEF NetworkFails, EndPoll, Polls
<1> QED BY <1>1, <1>2, SamePage, EndKeepsInv

\* The other steps leave flows, list and flag alone.
LEMMA OthersKeepInv ==
  ASSUME DemoInv, DebugAnswered \/ ExplanationLost \/ Builds \/ UNCHANGED allVars
  PROVE  DemoInv'
<1>1. /\ UNCHANGED <<flows, user, feedId, cursor, items, polling, status>>
      /\ lost' = lost \/ lost' = TRUE
  BY DEF DebugAnswered, ExplanationLost, Builds, allVars, pageVars
<1>2. ServerTyped'
  <2>1. ServerTyped
    BY DEF DemoInv
  <2>2. CASE \E u \in Users : Publish(u)
    BY <2>1, <2>2 DEF Publish, ServerTyped
  <2>3. CASE \E u \in Users : Lose(u)
    BY <2>1, <2>3 DEF Lose, ServerTyped
  <2>4. CASE UNCHANGED <<built, active, retained>>
    BY <2>1, <2>4, ServerKeepsTypes
  <2> QED BY <2>2, <2>3, <2>4 DEF DebugAnswered, ExplanationLost, Builds, allVars, serverVars
<1>3. PageTyped' /\ AnswersAreOfOneFeed' /\ NeverMixesGenerations' /\ FlagTellsPoll'
      /\ BuildingMeansFlag'
  BY <1>1 DEF DemoInv, PageTyped, AnswersAreOfOneFeed, Answer, NeverMixesGenerations,
              FlagTellsPoll, BuildingMeansFlag
<1> QED BY <1>2, <1>3 DEF DemoInv

LEMMA DemoInvIsInductive == DemoInv /\ [DemoNext]_allVars => DemoInv'
<1> SUFFICES ASSUME DemoInv, [DemoNext]_allVars PROVE DemoInv'
  OBVIOUS
<1>1. CASE \E f \in Flows : selectUser(f) \/ loadMore(f) \/ restart(f) \/ interact(f)
  BY <1>1, ClicksKeepInv
<1>2. CASE \E f \in Flows : Step(f)
  BY <1>2, ServerKeepsInv, ProfileShownKeepsInv, InteractionAnsweredKeepsInv,
     PageAnsweredKeepsInv, WakeKeepsInv, PollAnsweredKeepsInv DEF Step
<1>3. CASE \E f \in Flows : NetworkFails(f)
  BY <1>3, NetworkFailsKeepsInv
<1>4. CASE DebugAnswered \/ ExplanationLost \/ Builds \/ UNCHANGED allVars
  BY <1>4, OthersKeepInv
<1> QED BY <1>1, <1>2, <1>3, <1>4 DEF DemoNext

-----------------------------------------------------------------------------
\* The invariant speaks of flows; the properties of the set of those that poll.
LEMMA PollsAreCounted ==
  ASSUME DemoInv
  PROVE  OneBoundedPoll /\ BuildingMeansPolling
<1>1. \A f \in Flows : f \in InPoll <=> Polls(flows[f])
  BY DEF InPoll, Polls
<1>2. InPoll \subseteq Flows
  BY DEF InPoll
<1>3. polling <=> InPoll # {}
  BY <1>1, <1>2 DEF DemoInv, FlagTellsPoll
<1>4. Cardinality(InPoll) <= 1
  <2>1. CASE InPoll = {}
    BY <2>1, FS_EmptySet
  <2>2. CASE InPoll # {}
    <3>1. PICK f \in InPoll : TRUE
      BY <2>2
    <3>2. InPoll = {f}
      BY <1>1, <1>2, <3>1 DEF DemoInv, FlagTellsPoll
    <3> QED BY <3>2, FS_Singleton
  <2> QED BY <2>1, <2>2
<1>5. \A f \in InPoll : flows[f].attempt \in 1 .. POLL_MAX_ATTEMPTS
  BY <1>1, <1>2 DEF DemoInv, FlagTellsPoll
<1>6. BuildingMeansPolling
  BY <1>3 DEF DemoInv, BuildingMeansFlag, BuildingMeansPolling
<1> QED BY <1>3, <1>4, <1>5, <1>6 DEF OneBoundedPoll

(***************************************************************************)
(* The list and the next page asked for are of one generation, whatever    *)
(* answers come late and however many flows run (applyPage).               *)
(***************************************************************************)
THEOREM ListsNeverMix == DemoSpec => []NeverMixesGenerations
<1>1. DemoInv => NeverMixesGenerations
  BY DEF DemoInv
<1> QED BY <1>1, DemoInvHolds, DemoInvIsInductive, PTL DEF DemoSpec

(***************************************************************************)
(* One poll at most, announced by the flag, with a bounded number of       *)
(* attempts (pollUntilReady).                                              *)
(***************************************************************************)
THEOREM PollsAreBounded == DemoSpec => []OneBoundedPoll
<1>1. DemoInv => OneBoundedPoll
  BY PollsAreCounted
<1> QED BY <1>1, DemoInvHolds, DemoInvIsInductive, PTL DEF DemoSpec

(***************************************************************************)
(* While the page says that a feed is being built, a poll runs that will   *)
(* replace the message, unless the network lost a request (loadPage).      *)
(***************************************************************************)
THEOREM BuildingIsTrue == DemoSpec => []BuildingMeansPolling
<1>1. DemoInv => BuildingMeansPolling
  BY PollsAreCounted
<1> QED BY <1>1, DemoInvHolds, DemoInvIsInductive, PTL DEF DemoSpec

-----------------------------------------------------------------------------
\* A flow that will show a feed or say what went wrong.
Owes(flow) ==
  \/ flow.at = "profile" /\ (flow.from = "select" \/ flow.invalidated)
  \/ flow.at \in {"feed", "sleep", "poll"}

\* A page that came is the one the flow asked for; polls ask for first pages.
Served(flow) ==
  /\ flow.at \in {"sleep", "poll"} => flow.cursor = None
  /\ flow.at \in {"feed", "poll"} /\ flow.answer # None /\ flow.answer.status = 200 =>
       IF flow.cursor = None
       THEN \E n \in Nat : flow.answer = page(<<flow.user, n>>, 0)
       ELSE /\ flow.cursor.user = flow.user
            /\ flow.answer = page(flow.cursor.feed, flow.cursor.offset)

\* What a flow asks for is what the page would ask for now.
Asks(flow, u, c, fd) ==
  /\ flow.at \in {"feed", "poll"} => flow.user = u
  /\ flow.at = "feed" => IF flow.cursor = None THEN fd = None ELSE flow.cursor = c

InOrder(list, c, fd) ==
  /\ \A i \in DOMAIN list : list[i].rank = i
  /\ IF c = None THEN Len(list) = Length
     ELSE c.user = fd[1] /\ c.offset = Len(list)

Selecting(flow) == flow.at = "profile" /\ flow.from = "select"

Blank == ~lost /\ feedId = None /\ status # "error"
Calm == ~overlapped /\ ~lost

ShownInv ==
  /\ feedId \in Feed \cup {None}
  /\ \A f \in Flows : Served(flows[f])
  /\ ~lost /\ explaining = {} => cards = items
  /\ Blank => \E f \in Flows : Owes(flows[f])
  /\ Calm =>
       /\ \A f, g \in Flows : flows[f].at # "idle" /\ flows[g].at # "idle" => f = g
       /\ \A f \in Flows : Asks(flows[f], user, cursor, feedId)
       /\ feedId # None =>
            /\ InOrder(items, cursor, feedId)
            /\ feedId[1] = user \/ \E f \in Flows : Selecting(flows[f])

-----------------------------------------------------------------------------
\* A page of a generation, where it starts and where the next one would.
PageFrom(p, feed, offset) ==
  /\ p.status = 200 /\ p.feed = feed /\ p.items \in Seq(PageItem)
  /\ \A i \in DOMAIN p.items : p.items[i].rank = offset + i
  /\ IF p.nextCursor = None THEN offset + Len(p.items) = Length
     ELSE p.nextCursor.user = feed[1] /\ p.nextCursor.offset = offset + Len(p.items)

LEMMA PageContinues ==
  ASSUME NEW feed \in Feed, NEW offset \in 0 .. Length
  PROVE  PageFrom(page(feed, offset), feed, offset)
<1> DEFINE n == Smaller(PAGE_SIZE, Length - offset)
           next == [user |-> feed[1], feed |-> feed, offset |-> offset + n]
<1>1. n \in Nat /\ n <= Length - offset
  BY DemoConstants DEF Smaller
<1>2. /\ slice(feed, offset) = [i \in 1 .. n |-> [feed |-> feed, rank |-> offset + i]]
      /\ slice(feed, offset) \in Seq(PageItem) /\ Len(slice(feed, offset)) = n
  BY SliceIsOfOneFeed DEF slice
<1>3. page(feed, offset) =
        [status |-> 200, feed |-> feed, items |-> slice(feed, offset),
         nextCursor |-> IF offset + n < Length THEN next ELSE None]
  BY <1>2 DEF page
<1>4. next # None
  <2>1. next \in [user : Users, feed : Users \X Nat, offset : Nat]
    BY <1>1 DEF Feed
  <2> QED BY <2>1, PagingAssumption
<1>5. \A i \in DOMAIN slice(feed, offset) : slice(feed, offset)[i].rank = offset + i
  BY <1>2
<1>6. ~(offset + n < Length) => offset + n = Length
  BY <1>1, DemoConstants
<1>7. next.user = feed[1] /\ next.offset = offset + n
  OBVIOUS
<1> DEFINE p == page(feed, offset)
<1>8. /\ p.status = 200 /\ p.feed = feed /\ p.items = slice(feed, offset)
      /\ p.nextCursor = IF offset + n < Length THEN next ELSE None
  BY <1>3
<1> HIDE DEF n, next, p
<1>9. /\ p.items \in Seq(PageItem) /\ Len(p.items) = n
      /\ \A i \in DOMAIN p.items : p.items[i].rank = offset + i
  <2> DEFINE s == slice(feed, offset)
  <2>1. s \in Seq(PageItem) /\ Len(s) = n /\ \A i \in DOMAIN s : s[i].rank = offset + i
    BY <1>2, <1>5
  <2>2. p.items = s
    BY <1>8
  <2> HIDE DEF s
  <2> QED BY <2>1, <2>2
<1>10. IF p.nextCursor = None THEN offset + Len(p.items) = Length
       ELSE p.nextCursor.user = feed[1] /\ p.nextCursor.offset = offset + Len(p.items)
  <2>1. CASE offset + n < Length
    BY <1>4, <1>7, <1>8, <1>9, <2>1
  <2>2. CASE ~(offset + n < Length)
    BY <1>6, <1>8, <1>9, <2>2
  <2> QED BY <2>1, <2>2
<1>11. PageFrom(p, feed, offset)
  BY <1>8, <1>9, <1>10 DEF PageFrom
<1> QED BY <1>11 DEF p

\* A page appended to the list it continues, or a first page.
LEMMA PageKeepsOrder ==
  ASSUME NEW feed \in Feed, NEW list \in Seq(PageItem), Len(list) \in 0 .. Length,
         \A i \in DOMAIN list : list[i].rank = i,
         NEW p, p = page(feed, Len(list))
  PROVE  InOrder(list \o p.items, p.nextCursor, feed)
<1> DEFINE offset == Len(list)
<1>1. /\ p.items \in Seq(PageItem)
      /\ \A i \in DOMAIN p.items : p.items[i].rank = offset + i
      /\ IF p.nextCursor = None THEN offset + Len(p.items) = Length
         ELSE p.nextCursor.user = feed[1] /\ p.nextCursor.offset = offset + Len(p.items)
  <2>1. PageFrom(p, feed, offset)
    BY PageContinues
  <2> HIDE DEF offset
  <2> QED BY <2>1 DEF PageFrom
<1>2. Len(list \o p.items) = offset + Len(p.items)
  BY <1>1
<1>3. ASSUME NEW i \in DOMAIN (list \o p.items) PROVE (list \o p.items)[i].rank = i
  <2>1. CASE i \in DOMAIN list
    BY <1>1, <2>1
  <2>2. CASE i \notin DOMAIN list
    <3>1. i - offset \in DOMAIN p.items /\ (list \o p.items)[i] = p.items[i - offset]
      BY <1>1, <2>2
    <3>2. p.items[i - offset].rank = offset + (i - offset)
      BY <1>1, <3>1
    <3>3. i \in Nat /\ offset \in Nat
      BY <1>1
    <3> HIDE DEF offset
    <3> QED BY <3>1, <3>2, <3>3
  <2> QED BY <2>1, <2>2
<1> QED BY <1>1, <1>2, <1>3 DEF InOrder

LEMMA NoneIsNoFeed == None \notin Feed /\ None \notin PageCursor
BY PagingAssumption DEF Feed, PageCursor

-----------------------------------------------------------------------------
(***************************************************************************)
(* One flow moves from flows[f] to r.  A blank page is owed by it, or was  *)
(* blank without it, or the flag tells of a poll.  In a calm page the      *)
(* other flows are idle.                                                   *)
(***************************************************************************)
LEMMA ShownMove ==
  ASSUME DemoInv, ShownInv, NEW f \in Flows, NEW r \in Flow,
         flows' = [flows EXCEPT ![f] = r], Served(r),
         feedId' \in Feed \cup {None},
         ~lost' /\ explaining' = {} => cards' = items',
         Blank' => Owes(r) \/ (Blank /\ ~Owes(flows[f])) \/ (polling /\ ~Polls(flows[f])),
         Calm' => /\ \A g \in Flows \ {f} : flows[g].at = "idle"
                  /\ Asks(r, user', cursor', feedId')
                  /\ feedId' # None => /\ InOrder(items', cursor', feedId')
                                       /\ feedId'[1] = user' \/ Selecting(r)
  PROVE  ShownInv'
<1>1. /\ flows'[f] = r
      /\ \A g \in Flows \ {f} : flows'[g] = flows[g]
  BY DEF DemoInv, PageTyped
<1>2. ASSUME NEW g \in Flows PROVE Served(flows'[g])
  BY <1>1 DEF ShownInv
<1>3. ASSUME Blank' PROVE \E g \in Flows : Owes(flows'[g])
  <2>1. CASE Owes(r)
    BY <1>1, <2>1
  <2>2. CASE Blank /\ ~Owes(flows[f])
    <3>1. PICK g \in Flows : Owes(flows[g])
      BY <2>2 DEF ShownInv
    <3>2. flows'[g] = flows[g]
      BY <1>1, <2>2, <3>1
    <3> QED BY <3>1, <3>2
  <2>3. CASE polling /\ ~Polls(flows[f])
    <3>1. PICK g \in Flows : Polls(flows[g])
      BY <2>3 DEF DemoInv, FlagTellsPoll
    <3>2. flows'[g] = flows[g]
      BY <1>1, <2>3, <3>1
    <3> QED BY <3>1, <3>2 DEF Polls, Owes
  <2> QED BY <1>3, <2>1, <2>2, <2>3
<1>4. ASSUME Calm'
      PROVE  /\ \A g, h \in Flows : flows'[g].at # "idle" /\ flows'[h].at # "idle" => g = h
             /\ \A g \in Flows : Asks(flows'[g], user', cursor', feedId')
             /\ feedId' # None =>
                  /\ InOrder(items', cursor', feedId')
                  /\ feedId'[1] = user' \/ \E g \in Flows : Selecting(flows'[g])
  <2>1. \A g \in Flows \ {f} : flows'[g].at = "idle"
    BY <1>1, <1>4
  <2>2. \A g \in Flows : Asks(flows'[g], user', cursor', feedId')
    BY <1>1, <1>4, <2>1 DEF Asks
  <2>3. feedId' # None =>
          /\ InOrder(items', cursor', feedId')
          /\ feedId'[1] = user' \/ \E g \in Flows : Selecting(flows'[g])
    BY <1>1, <1>4
  <2> QED BY <2>1, <2>2, <2>3
<1> QED BY <1>2, <1>3, <1>4 DEF ShownInv

\* The flow is the only one that runs, if the page is calm.
LEMMA RunsAlone ==
  ASSUME ShownInv, Calm, NEW f \in Flows, flows[f].at # "idle"
  PROVE  /\ \A g \in Flows \ {f} : flows[g].at = "idle"
         /\ Asks(flows[f], user, cursor, feedId)
         /\ feedId # None => /\ InOrder(items, cursor, feedId)
                             /\ feedId[1] = user \/ Selecting(flows[f])
<1>1. \A g \in Flows \ {f} : flows[g].at = "idle"
  BY DEF ShownInv
<1>2. \A g \in Flows \ {f} : ~Selecting(flows[g])
  BY <1>1 DEF Selecting
<1> QED BY <1>1, <1>2 DEF ShownInv

\* Where the page that came starts.
LEMMA AnswerIsPage ==
  ASSUME DemoInv, ShownInv, NEW f \in Flows, flows[f].at \in {"feed", "poll"},
         Answer(f) # None, Answer(f).status = 200
  PROVE  \E feed \in Feed, offset \in 0 .. Length :
           /\ Answer(f) = page(feed, offset) /\ Answer(f).feed = feed
           /\ IF flows[f].cursor = None
              THEN feed[1] = flows[f].user /\ offset = 0
              ELSE /\ feed = flows[f].cursor.feed /\ offset = flows[f].cursor.offset
                   /\ flows[f].cursor.user = flows[f].user
<1>1. flows[f] \in Flow /\ Served(flows[f])
  BY DEF DemoInv, PageTyped, ShownInv
<1>2. CASE flows[f].cursor = None
  <2>1. PICK n \in Nat : Answer(f) = page(<<flows[f].user, n>>, 0)
    BY <1>1, <1>2 DEF Served, Answer
  <2>2. /\ <<flows[f].user, n>> \in Feed /\ 0 \in 0 .. Length
        /\ <<flows[f].user, n>>[1] = flows[f].user
    BY <1>1, DemoConstants DEF Feed, Flow
  <2>3. Answer(f).feed = <<flows[f].user, n>>
    BY <2>1, <2>2, PageContinues DEF PageFrom
  <2> QED BY <1>2, <2>1, <2>2, <2>3
<1>3. CASE flows[f].cursor # None
  <2>1. /\ flows[f].cursor.feed \in Feed /\ flows[f].cursor.offset \in 0 .. Length
    BY <1>1, <1>3, DemoConstants DEF Flow, PageCursor
  <2>2. /\ Answer(f) = page(flows[f].cursor.feed, flows[f].cursor.offset)
        /\ flows[f].cursor.user = flows[f].user
    BY <1>1, <1>3 DEF Served, Answer
  <2>3. Answer(f).feed = flows[f].cursor.feed
    BY <2>1, <2>2, PageContinues DEF PageFrom
  <2> QED BY <1>3, <2>1, <2>2, <2>3
<1> QED BY <1>2, <1>3

LEMMA AppliedPageIsInOrder ==
  ASSUME DemoInv, ShownInv, Calm, NEW f \in Flows, flows[f].at \in {"feed", "poll"},
         Answer(f) # None, Answer(f).status = 200,
         NEW append \in BOOLEAN, append <=> flows[f].cursor # None,
         applyPage(f, append)
  PROVE  InOrder(items', cursor', feedId') /\ feedId'[1] = user
<1>1. PICK feed \in Feed, offset \in 0 .. Length :
        /\ Answer(f) = page(feed, offset) /\ Answer(f).feed = feed
        /\ IF flows[f].cursor = None
           THEN feed[1] = flows[f].user /\ offset = 0
           ELSE /\ feed = flows[f].cursor.feed /\ offset = flows[f].cursor.offset
                /\ flows[f].cursor.user = flows[f].user
  BY AnswerIsPage
<1> DEFINE p == Answer(f)
<1>2. /\ feedId' = p.feed /\ cursor' = p.nextCursor
      /\ items' = IF append /\ feedId = p.feed THEN items \o p.items ELSE p.items
  BY DEF applyPage
<1>3. Asks(flows[f], user, cursor, feedId) /\ flows[f].user = user
  BY RunsAlone DEF Asks
<1>4. CASE flows[f].cursor = None
  <2>1. p = page(feed, Len(<<>>)) /\ p.feed = feed /\ <<>> \in Seq(PageItem) /\ Len(<<>>) \in 0 .. Length
    BY <1>1, <1>4, DemoConstants
  <2>2. p.items \in Seq(PageItem)
    BY <1>1, PageContinues DEF PageFrom
  <2>3. items' = <<>> \o p.items /\ cursor' = p.nextCursor /\ feedId' = feed
    BY <1>1, <1>2, <1>4, <2>2
  <2>4. feed[1] = user
    BY <1>1, <1>3, <1>4
  <2> HIDE DEF p
  <2>5. InOrder(<<>> \o p.items, p.nextCursor, feed)
    <3>1. PICK list \in Seq(PageItem) : list = <<>>
      BY <2>1
    <3>2. Len(list) \in 0 .. Length /\ \A i \in DOMAIN list : list[i].rank = i
      BY <2>1, <3>1
    <3>3. InOrder(list \o p.items, p.nextCursor, feed)
      BY <2>1, <3>1, <3>2, PageKeepsOrder
    <3> QED BY <3>1, <3>3
  <2> QED BY <2>3, <2>4, <2>5
<1>5. CASE flows[f].cursor # None
  <2>1. flows[f].at = "feed" /\ flows[f].cursor = cursor
    BY <1>3, <1>5 DEF Asks, ShownInv, Served
  <2>2. cursor.feed = feedId /\ feedId = feed /\ feedId # None
    BY <1>1, <1>5, <2>1, NoneIsNoFeed DEF DemoInv, NeverMixesGenerations
  <2>3. InOrder(items, cursor, feedId)
    BY <2>2, RunsAlone
  <2>4. cursor.user = feed[1] /\ offset = Len(items) /\ cursor.user = user
    BY <1>1, <1>3, <1>5, <2>1, <2>2, <2>3 DEF InOrder
  <2>5. items \in Seq(PageItem) /\ \A i \in DOMAIN items : items[i].rank = i
    BY <2>3 DEF DemoInv, PageTyped, InOrder
  <2>6. p = page(feed, Len(items)) /\ p.feed = feed /\ Len(items) \in 0 .. Length
    BY <1>1, <2>4
  <2>7. items' = items \o p.items /\ cursor' = p.nextCursor /\ feedId' = feed
    BY <1>1, <1>2, <1>5, <2>2
  <2> HIDE DEF p
  <2>8. InOrder(items \o p.items, p.nextCursor, feed)
    BY <2>5, <2>6, PageKeepsOrder
  <2> QED BY <2>4, <2>7, <2>8
<1> QED BY <1>4, <1>5

-----------------------------------------------------------------------------
LEMMA ShownInit == DemoInit => ShownInv
<1> SUFFICES ASSUME DemoInit PROVE ShownInv
  OBVIOUS
<1> USE DEF DemoInit
<1> DEFINE first == [Idle EXCEPT !.at = "profile", !.from = "select"]
<1>1. Served(first) /\ Owes(first) /\ Served(Idle) /\ Asks(first, user, cursor, feedId)
  BY DEF Idle, Served, Owes, Asks
<1>2. FirstFlow \in Flows
  BY DemoAssumption DEF FirstFlow
<1>3. Idle.at = "idle" /\ Asks(Idle, user, cursor, feedId)
  BY DEF Idle, Asks
<1> HIDE DEF first
<1>4. \A f \in Flows : flows[f] = IF f = FirstFlow THEN first ELSE Idle
  BY DEF first
<1> QED BY <1>1, <1>2, <1>3, <1>4 DEF ShownInv

\* What a click needs of a calm page.
LEMMA ClickAlone ==
  ASSUME NEW f \in Flows, Click(f)
  PROVE  /\ flows[f].at = "idle" /\ ~Owes(flows[f])
         /\ UNCHANGED <<status, lost, explaining>>
         /\ Calm' => Calm /\ \A g \in Flows : flows[g].at = "idle"
<1>1. flows[f].at = "idle"
  BY DEF Click
<1>2. overlapped' = (overlapped \/ Running # {} \/ explaining # {}) /\ lost' = lost
  BY DEF Click
<1>3. ~overlapped' => ~overlapped /\ Running = {}
  BY <1>2
<1>4. Running = {} => \A g \in Flows : flows[g].at = "idle"
  BY DEF Running
<1> QED BY <1>1, <1>2, <1>3, <1>4 DEF Click, Owes, Calm

LEMMA ShownClick ==
  ASSUME DemoInv, ShownInv, NEW f \in Flows,
         selectUser(f) \/ loadMore(f) \/ restart(f) \/ interact(f)
  PROVE  ShownInv'
<1>1. /\ Click(f) /\ flows[f].at = "idle" /\ ~Owes(flows[f])
      /\ UNCHANGED <<status, lost, explaining>>
      /\ Calm' => Calm /\ \A g \in Flows : flows[g].at = "idle"
  BY ClickAlone DEF selectUser, loadMore, restart, interact
<1>2. /\ feedId \in Feed \cup {None} /\ (~lost /\ explaining = {} => cards = items)
      /\ PageTyped /\ NeverMixesGenerations
  BY DEF DemoInv, ShownInv
<1>3. ASSUME Calm', feedId # None
      PROVE  InOrder(items, cursor, feedId) /\ feedId[1] = user
  <2>1. \A g \in Flows : ~Selecting(flows[g])
    BY <1>1, <1>3 DEF Selecting
  <2> QED BY <1>1, <1>3, <2>1 DEF ShownInv
<1>4. CASE selectUser(f)
  <2> DEFINE r == [Idle EXCEPT !.at = "profile", !.from = "select"]
  <2>1. /\ r \in Flow /\ Served(r) /\ Owes(r) /\ Selecting(r)
        /\ Asks(r, user', cursor', feedId')
        /\ flows' = [flows EXCEPT ![f] = r]
    BY <1>4, IdleIsAFlow DEF Idle, Flow, Served, Owes, Selecting, Asks, selectUser, At
  <2>2. UNCHANGED <<feedId, cursor, items, cards>>
    BY <1>4 DEF selectUser
  <2> HIDE DEF r
  <2> QED BY <1>1, <1>2, <1>3, <2>1, <2>2, ShownMove
<1>5. CASE loadMore(f)
  <2> DEFINE r == [Idle EXCEPT !.at = "feed", !.from = "more", !.user = user, !.cursor = cursor]
  <2>1. /\ r \in Flow /\ Served(r) /\ Owes(r)
        /\ Asks(r, user, cursor, feedId)
        /\ flows' = [flows EXCEPT ![f] = r]
    BY <1>2, <1>5, IdleIsAFlow
       DEF Idle, Flow, Served, Owes, Asks, loadMore, AskFeed, At, PageTyped
  <2>2. UNCHANGED <<user, feedId, cursor, items, cards>>
    BY <1>5 DEF loadMore
  <2> HIDE DEF r
  <2> QED BY <1>1, <1>2, <1>3, <2>1, <2>2, ShownMove
<1>6. CASE restart(f)
  <2> DEFINE r == [Idle EXCEPT !.at = "feed", !.from = "restart", !.user = user, !.cursor = None]
  <2>1. /\ r \in Flow /\ Served(r) /\ Owes(r)
        /\ Asks(r, user, None, None)
        /\ flows' = [flows EXCEPT ![f] = r]
    BY <1>2, <1>6, IdleIsAFlow
       DEF Idle, Flow, Served, Owes, Asks, restart, restartSession, AskFeed, At, PageTyped
  <2>2. /\ feedId' = None /\ cursor' = None /\ items' = <<>> /\ cards' = <<>> /\ user' = user
    BY <1>6 DEF restart, restartSession
  <2> HIDE DEF r
  <2> QED BY <1>1, <2>1, <2>2, ShownMove
<1>7. CASE interact(f)
  <2> DEFINE r == [Idle EXCEPT !.at = "post", !.from = "interact", !.user = user]
  <2>1. /\ r \in Flow /\ Served(r)
        /\ Asks(r, user, cursor, feedId)
        /\ flows' = [flows EXCEPT ![f] = r]
    BY <1>2, <1>7, IdleIsAFlow DEF Idle, Flow, Served, Asks, interact, At, PageTyped
  <2>2. UNCHANGED <<user, feedId, cursor, items, cards>>
    BY <1>7 DEF interact
  <2>3. Blank' => Blank
    BY <1>1, <2>2 DEF Blank
  <2> HIDE DEF r
  <2> QED BY <1>1, <1>2, <1>3, <2>1, <2>2, <2>3, ShownMove
<1> QED BY <1>4, <1>5, <1>6, <1>7

\* The server answers as it is asked.
LEMMA ShownServe ==
  ASSUME DemoInv, ShownInv, NEW f \in Flows, ServeFeed(f) \/ ServeInteraction(f)
  PROVE  ShownInv'
<1>1. /\ flows[f] \in Flow /\ Served(flows[f]) /\ flows[f].at \in {"feed", "poll", "post"}
      /\ flows \in [Flows -> Flow] /\ ServerTyped
      /\ UNCHANGED <<user, feedId, cursor, items, cards, status, explaining, lost, overlapped>>
  BY DEF DemoInv, PageTyped, ShownInv, ServeFeed, ServeInteraction, pageVars
<1>2. ASSUME NEW a \in Response, NEW b \in BOOLEAN,
             NEW r, r = [flows[f] EXCEPT !.answer = a, !.invalidated = b],
             flows' = [flows EXCEPT ![f] = r], Served(r)
      PROVE  ShownInv'
  <2>1. /\ r \in Flow /\ r.at = flows[f].at /\ r.user = flows[f].user
        /\ r.cursor = flows[f].cursor /\ (Owes(r) <=> Owes(flows[f]))
    BY <1>1, <1>2 DEF Flow, Owes
  <2>2. Calm' => /\ Calm /\ \A g \in Flows \ {f} : flows[g].at = "idle"
                 /\ Asks(r, user, cursor, feedId)
                 /\ feedId # None => InOrder(items, cursor, feedId) /\ feedId[1] = user
    BY <1>1, <2>1, RunsAlone DEF Calm, Asks, Selecting
  <2>3. Blank' => Blank
    BY <1>1 DEF Blank
  <2>4. feedId \in Feed \cup {None} /\ (~lost /\ explaining = {} => cards = items)
    BY DEF ShownInv
  <2> QED BY <1>1, <1>2, <2>1, <2>2, <2>3, <2>4, ShownMove
<1>3. CASE ServeFeed(f)
  <2>1. PICK a \in Response :
          /\ flows' = [flows EXCEPT ![f].answer = a]
          /\ a.status = 200 => a = FeedAnswer(flows[f].user, flows[f].cursor)
    <3>1. CASE flows' = [flows EXCEPT ![f].answer = FeedAnswer(flows[f].user, flows[f].cursor)]
      BY <1>1, <3>1, FeedAnswerIsOfOneFeed DEF Flow
    <3>2. CASE \E code \in {404, 503} : flows' = [flows EXCEPT ![f].answer = Status(code)]
      <4>1. PICK code \in {404, 503} : flows' = [flows EXCEPT ![f].answer = Status(code)]
        BY <3>2
      <4>2. PICK answer \in Response : answer = Status(code)
        BY StatusIsOfOneFeed
      <4>3. answer.status # 200
        BY <4>1, <4>2 DEF Status
      <4>4. flows' = [flows EXCEPT ![f].answer = answer]
        BY <4>1, <4>2
      <4> WITNESS answer \in Response
      <4> QED BY <4>3, <4>4
    <3> QED BY <1>3, <3>1, <3>2 DEF ServeFeed
  <2>2. PICK r : r = [flows[f] EXCEPT !.answer = a, !.invalidated = flows[f].invalidated]
    OBVIOUS
  <2>3. flows' = [flows EXCEPT ![f] = r] /\ flows[f].invalidated \in BOOLEAN
    BY <1>1, <2>1, <2>2 DEF Flow
  <2>4. /\ r.at = flows[f].at /\ r.user = flows[f].user /\ r.cursor = flows[f].cursor
        /\ r.answer = a
    BY <1>1, <2>2 DEF Flow
  <2>5. ASSUME a.status = 200
        PROVE  IF r.cursor = None
               THEN \E n \in Nat : a = page(<<r.user, n>>, 0)
               ELSE r.cursor.user = r.user /\ a = page(r.cursor.feed, r.cursor.offset)
    <3>1. a = FeedAnswer(r.user, r.cursor) /\ a.status = 200
      BY <2>1, <2>4, <2>5
    <3>2. \A code \in {202, 400, 410} : Status(code).status # 200
      BY DEF Status
    <3>3. r.user \in Users /\ active[r.user] \in Nat
      BY <1>1, <2>4 DEF Flow, ServerTyped
    <3> QED BY <3>1, <3>2, <3>3 DEF FeedAnswer, CursorRefused
  <2>6. Served(r)
    BY <1>1, <2>4, <2>5 DEF Served
  <2> QED BY <1>2, <2>2, <2>3, <2>6
<1>4. CASE ServeInteraction(f)
  <2>1. PICK a \in Response, b \in BOOLEAN :
          flows' = [flows EXCEPT ![f] = [flows[f] EXCEPT !.answer = a, !.invalidated = b]]
    <3>1. \A code \in {201, 404} : Status(code) \in Response
      BY StatusIsOfOneFeed
    <3>2. CASE \E b \in BOOLEAN :
                 flows' = [flows EXCEPT ![f].answer = Status(201), ![f].invalidated = b]
      <4>1. PICK b \in BOOLEAN :
              flows' = [flows EXCEPT ![f].answer = Status(201), ![f].invalidated = b]
        BY <3>2
      <4>2. PICK a \in Response : a = Status(201)
        BY <3>1
      <4>3. flows' = [flows EXCEPT ![f].answer = a, ![f].invalidated = b]
        BY <4>1, <4>2
      <4>4. flows' = [flows EXCEPT ![f] = [flows[f] EXCEPT !.answer = a, !.invalidated = b]]
        BY <1>1, <4>3 DEF Flow
      <4> QED BY <4>4
    <3>3. CASE flows' = [flows EXCEPT ![f].answer = Status(404)]
      <4>1. PICK a \in Response : a = Status(404)
        BY <3>1
      <4>2. flows' = [flows EXCEPT ![f].answer = a]
        BY <3>3, <4>1
      <4>3. PICK b \in BOOLEAN : b = flows[f].invalidated
        BY <1>1 DEF Flow
      <4>4. [flows[f] EXCEPT !.answer = a] = [flows[f] EXCEPT !.answer = a, !.invalidated = b]
        BY <1>1, <4>3 DEF Flow
      <4>5. flows' = [flows EXCEPT ![f] = [flows[f] EXCEPT !.answer = a, !.invalidated = b]]
        BY <4>2, <4>4
      <4> QED BY <4>5
    <3>4. \/ \E b \in BOOLEAN :
                flows' = [flows EXCEPT ![f].answer = Status(201), ![f].invalidated = b]
          \/ flows' = [flows EXCEPT ![f].answer = Status(404)]
      BY <1>4 DEF ServeInteraction
    <3> QED BY <3>2, <3>3, <3>4
  <2>2. PICK r : r = [flows[f] EXCEPT !.answer = a, !.invalidated = b]
    OBVIOUS
  <2>3. Served(r)
    <3>1. r.at = "post"
      BY <1>1, <1>4, <2>2 DEF ServeInteraction, Flow
    <3> QED BY <3>1 DEF Served
  <2> QED BY <1>2, <2>1, <2>2, <2>3
<1> QED BY <1>3, <1>4

\* A flow ends or goes on and leaves list, user and cursor alone.
LEMMA ShownGoesOn ==
  ASSUME DemoInv, ShownInv, NEW f \in Flows, NEW r \in Flow,
         flows[f].at # "idle", ~Selecting(flows[f]),
         flows' = [flows EXCEPT ![f] = r], Served(r), Asks(r, user, cursor, feedId),
         UNCHANGED <<user, feedId, cursor, items, cards, explaining, overlapped, lost>>,
         Blank' => Owes(r) \/ (Blank /\ ~Owes(flows[f])) \/ (polling /\ ~Polls(flows[f]))
  PROVE  ShownInv'
<1>1. Calm' => /\ Calm /\ \A g \in Flows \ {f} : flows[g].at = "idle"
               /\ feedId # None => InOrder(items, cursor, feedId) /\ feedId[1] = user
  BY RunsAlone DEF Calm
<1>2. feedId \in Feed \cup {None} /\ (~lost /\ explaining = {} => cards = items)
  BY DEF ShownInv
<1> QED BY <1>1, <1>2, ShownMove

\* A flow forgets the session and asks for the first page of the user.
LEMMA ShownRestart ==
  ASSUME DemoInv, ShownInv, NEW f \in Flows, NEW from \in {"none", "select", "more", "restart", "interact"},
         flows[f].at # "idle", restartSession(f, from, user),
         UNCHANGED <<user, explaining, overlapped, lost>>
  PROVE  ShownInv'
<1>1. PICK r : r = [Idle EXCEPT !.at = "feed", !.from = from, !.user = user, !.cursor = None]
  OBVIOUS
<1>2. /\ r \in Flow /\ Served(r) /\ Owes(r) /\ Asks(r, user, None, None)
      /\ flows' = [flows EXCEPT ![f] = r]
  BY <1>1, IdleIsAFlow
     DEF Idle, Flow, Served, Owes, Asks, restartSession, AskFeed, At, DemoInv, PageTyped
<1>3. /\ feedId' = None /\ cursor' = None /\ items' = <<>> /\ cards' = <<>>
  BY DEF restartSession
<1>4. Calm' => \A g \in Flows \ {f} : flows[g].at = "idle"
  BY RunsAlone DEF Calm
<1> QED BY <1>2, <1>3, <1>4, ShownMove

LEMMA IdleIsQuiet == Served(Idle) /\ \A u, c, fd : Asks(Idle, u, c, fd)
BY DEF Idle, Served, Asks

LEMMA ShownProfile ==
  ASSUME DemoInv, ShownInv, NEW f \in Flows, ProfileShown(f)
  PROVE  ShownInv'
<1>1. /\ flows[f] \in Flow /\ flows[f].at = "profile"
      /\ UNCHANGED <<user, status, explaining, overlapped, lost>>
  BY DEF DemoInv, PageTyped, ProfileShown
<1>2. CASE flows[f].from = "select" \/ flows[f].invalidated
  <2>1. restartSession(f, flows[f].from, user)
    BY <1>2 DEF ProfileShown
  <2>2. flows[f].from \in {"none", "select", "more", "restart", "interact"}
    BY <1>1 DEF Flow
  <2> QED BY <1>1, <2>1, <2>2, ShownRestart
<1>3. CASE ~(flows[f].from = "select" \/ flows[f].invalidated)
  <2>1. Finish(f) /\ UNCHANGED <<feedId, cursor, items, cards>>
    BY <1>3 DEF ProfileShown
  <2>2. Blank' => Blank
    BY <1>1, <2>1 DEF Blank
  <2>3. ~Owes(flows[f]) /\ ~Selecting(flows[f])
    BY <1>1, <1>3 DEF Owes, Selecting
  <2> QED BY <1>1, <2>1, <2>2, <2>3, IdleIsAFlow, IdleIsQuiet, ShownGoesOn DEF Finish, At
<1> QED BY <1>2, <1>3

LEMMA ShownInteraction ==
  ASSUME DemoInv, ShownInv, NEW f \in Flows, InteractionAnswered(f)
  PROVE  ShownInv'
<1>1. /\ flows[f] \in Flow /\ flows[f].at = "post"
      /\ UNCHANGED <<user, feedId, cursor, items, cards, status, explaining, overlapped, lost>>
  BY DEF DemoInv, PageTyped, InteractionAnswered
<1>2. (Blank' => Blank) /\ ~Owes(flows[f]) /\ ~Selecting(flows[f])
  BY <1>1 DEF Blank, Owes, Selecting
<1>3. CASE At(f, [flows[f] EXCEPT !.at = "profile", !.answer = None])
  <2>1. PICK r : r = [flows[f] EXCEPT !.at = "profile", !.answer = None]
    OBVIOUS
  <2>2. /\ r \in Flow /\ Served(r) /\ Asks(r, user, cursor, feedId)
        /\ flows' = [flows EXCEPT ![f] = r]
    BY <1>1, <1>3, <2>1 DEF Flow, Served, Asks, At
  <2> QED BY <1>1, <1>2, <2>2, ShownGoesOn
<1>4. CASE Finish(f)
  BY <1>1, <1>2, <1>4, IdleIsAFlow, IdleIsQuiet, ShownGoesOn DEF Finish, At
<1> QED BY <1>3, <1>4 DEF InteractionAnswered

\* A page that came is drawn, at once or when its explanation is there.
LEMMA ShownApply ==
  ASSUME DemoInv, ShownInv, NEW f \in Flows, flows[f].at \in {"feed", "poll"},
         Answer(f) # None, Answer(f).status = 200,
         NEW append \in BOOLEAN, append <=> flows[f].cursor # None,
         applyPage(f, append), flows' = [flows EXCEPT ![f] = Idle],
         UNCHANGED <<user, overlapped, lost>>
  PROVE  ShownInv'
<1>1. feedId' \in Feed /\ feedId' # None
  <2>1. Answer(f).feed \in Feed
    BY AnswerIsPage
  <2> QED BY <2>1, NoneIsNoFeed DEF applyPage
<1>2. ~lost' /\ explaining' = {} => cards' = items'
  BY DEF applyPage
<1>3. ~Blank'
  BY <1>1 DEF Blank
<1>4. Calm' => /\ Calm /\ \A g \in Flows \ {f} : flows[g].at = "idle"
               /\ InOrder(items', cursor', feedId') /\ feedId'[1] = user
  BY RunsAlone, AppliedPageIsInOrder DEF Calm
<1>5. Idle \in Flow /\ Served(Idle) /\ Asks(Idle, user', cursor', feedId')
  BY IdleIsAFlow, IdleIsQuiet
<1>6. Calm' => /\ \A g \in Flows \ {f} : flows[g].at = "idle"
               /\ Asks(Idle, user', cursor', feedId')
               /\ feedId' # None => /\ InOrder(items', cursor', feedId')
                                    /\ feedId'[1] = user' \/ Selecting(Idle)
  BY <1>4, <1>5
<1>7. feedId' \in Feed \cup {None}
  BY <1>1
<1> QED BY <1>2, <1>3, <1>5, <1>6, <1>7, ShownMove

LEMMA ShownPage ==
  ASSUME DemoInv, ShownInv, NEW f \in Flows, PageAnswered(f)
  PROVE  ShownInv'
<1>1. /\ flows[f] \in Flow /\ flows[f].at = "feed" /\ Answer(f) # None
      /\ ~Polls(flows[f]) /\ ~Selecting(flows[f])
      /\ UNCHANGED <<user, overlapped, lost>>
  BY DEF DemoInv, PageTyped, PageAnswered, Polls, Selecting
<1>2. CASE Answer(f).status = 200 /\ applyPage(f, flows[f].cursor # None) /\ FinishDrawing(f)
  <2>1. (flows[f].cursor # None) \in BOOLEAN
    OBVIOUS
  <2> QED BY <1>1, <1>2, <2>1, ShownApply DEF FinishDrawing, At
<1>3. CASE PollOrLeave(f) /\ UNCHANGED <<feedId, cursor, items, cards, explaining>>
  <2>1. CASE polling
    BY <1>1, <1>3, <2>1, IdleIsAFlow, IdleIsQuiet, ShownGoesOn DEF PollOrLeave, Finish, At
  <2>2. CASE ~polling
    <3>1. PICK r : r = [Idle EXCEPT !.at = "sleep", !.from = flows[f].from, !.attempt = 1]
      OBVIOUS
    <3>2. /\ r \in Flow /\ Served(r) /\ Owes(r) /\ Asks(r, user, cursor, feedId)
          /\ flows' = [flows EXCEPT ![f] = r]
      BY <1>1, <1>3, <2>2, <3>1, IdleIsAFlow
         DEF Flow, Idle, Served, Owes, Asks, PollOrLeave, At
    <3> QED BY <1>1, <1>3, <3>2, ShownGoesOn
  <2> QED BY <2>1, <2>2
<1>4. CASE restartSession(f, flows[f].from, user) /\ UNCHANGED explaining
  <2>1. flows[f].from \in {"none", "select", "more", "restart", "interact"}
    BY <1>1 DEF Flow
  <2> QED BY <1>1, <1>4, <2>1, ShownRestart
<1>5. CASE /\ status' = "error" /\ Finish(f)
           /\ UNCHANGED <<feedId, cursor, items, cards, explaining>>
  <2>1. ~Blank'
    BY <1>5 DEF Blank
  <2> QED BY <1>1, <1>5, <2>1, IdleIsAFlow, IdleIsQuiet, ShownGoesOn DEF Finish, At
<1> QED BY <1>2, <1>3, <1>4, <1>5 DEF PageAnswered

LEMMA ShownWake ==
  ASSUME DemoInv, ShownInv, NEW f \in Flows, Wake(f)
  PROVE  ShownInv'
<1>1. /\ flows[f] \in Flow /\ flows[f].at = "sleep" /\ Served(flows[f]) /\ user \in Users
      /\ ~Selecting(flows[f])
      /\ UNCHANGED <<user, feedId, cursor, items, cards, explaining, overlapped, lost>>
  BY DEF DemoInv, PageTyped, ShownInv, Wake, Selecting, pageVars
<1>2. PICK r : r = [flows[f] EXCEPT !.at = "poll", !.user = user, !.answer = None]
  OBVIOUS
<1>3. /\ r \in Flow /\ Served(r) /\ Owes(r) /\ Asks(r, user, cursor, feedId)
      /\ flows' = [flows EXCEPT ![f] = r]
  BY <1>1, <1>2 DEF Flow, Served, Owes, Asks, Wake, At
<1> QED BY <1>1, <1>3, ShownGoesOn

LEMMA ShownPoll ==
  ASSUME DemoInv, ShownInv, NEW f \in Flows, PollAnswered(f)
  PROVE  ShownInv'
<1>1. /\ flows[f] \in Flow /\ flows[f].at = "poll" /\ flows[f].cursor = None
      /\ Answer(f) # None /\ ~Selecting(flows[f])
      /\ UNCHANGED <<user, overlapped, lost>>
  BY DEF DemoInv, PageTyped, ShownInv, Served, PollAnswered, Selecting
<1>2. EndPoll(f) => flows' = [flows EXCEPT ![f] = Idle]
  BY DEF EndPoll, Finish, FinishDrawing, At
<1>3. CASE Answer(f).status = 200 /\ applyPage(f, FALSE) /\ EndPoll(f)
  BY <1>1, <1>2, <1>3, ShownApply
<1>4. CASE /\ At(f, [flows[f] EXCEPT !.at = "sleep", !.attempt = @ + 1])
           /\ UNCHANGED <<feedId, cursor, items, cards, explaining>>
  <2>1. PICK r : r = [flows[f] EXCEPT !.at = "sleep", !.attempt = @ + 1]
    OBVIOUS
  <2>2. /\ r \in Flow /\ Served(r) /\ Owes(r) /\ Asks(r, user, cursor, feedId)
        /\ flows' = [flows EXCEPT ![f] = r]
    <3>1. flows[f].attempt \in Nat
      BY <1>1 DEF Flow
    <3>2. PICK next \in Nat : next = flows[f].attempt + 1
      BY <3>1
    <3>3. r = [flows[f] EXCEPT !.at = "sleep", !.attempt = next]
      BY <2>1, <3>2
    <3>4. flows' = [flows EXCEPT ![f] = r]
      BY <1>4, <2>1 DEF At
    <3> QED BY <1>1, <3>3, <3>4 DEF Flow, Served, Owes, Asks
  <2> QED BY <1>1, <1>4, <2>2, ShownGoesOn
<1>5. CASE /\ status' = "error" /\ EndPoll(f)
           /\ UNCHANGED <<feedId, cursor, items, cards, explaining>>
  <2>1. ~Blank'
    BY <1>5 DEF Blank
  <2> QED BY <1>1, <1>2, <1>5, <2>1, IdleIsAFlow, IdleIsQuiet, ShownGoesOn
<1> QED BY <1>3, <1>4, <1>5 DEF PollAnswered

\* Once a request was lost nothing is promised of the page.
LEMMA ShownNetwork ==
  ASSUME DemoInv, ShownInv, NEW f \in Flows, NetworkFails(f)
  PROVE  ShownInv'
<1>1. /\ lost' /\ flows' = [flows EXCEPT ![f] = Idle] /\ feedId' = feedId
      /\ feedId \in Feed \cup {None}
  BY DEF NetworkFails, EndPoll, Finish, FinishDrawing, At, ShownInv
<1> QED BY <1>1, IdleIsAFlow, IdleIsQuiet, ShownMove DEF Blank, Calm

LEMMA ShownOthers ==
  ASSUME ShownInv, DebugAnswered \/ ExplanationLost \/ Builds \/ UNCHANGED allVars
  PROVE  ShownInv'
<1>1. /\ UNCHANGED <<flows, user, feedId, cursor, items, status, overlapped>>
      /\ lost' = lost \/ lost' = TRUE
      /\ ~lost' => cards' = items \/ UNCHANGED <<cards, explaining>>
  BY DEF DebugAnswered, ExplanationLost, Builds, allVars, pageVars
<1> QED BY <1>1 DEF ShownInv, Blank, Calm

LEMMA ShownInvIsInductive == DemoInv /\ ShownInv /\ [DemoNext]_allVars => ShownInv'
<1> SUFFICES ASSUME DemoInv, ShownInv, [DemoNext]_allVars PROVE ShownInv'
  OBVIOUS
<1>1. CASE \E f \in Flows : selectUser(f) \/ loadMore(f) \/ restart(f) \/ interact(f)
  BY <1>1, ShownClick
<1>2. CASE \E f \in Flows : Step(f)
  BY <1>2, ShownServe, ShownProfile, ShownInteraction, ShownPage, ShownWake, ShownPoll DEF Step
<1>3. CASE \E f \in Flows : NetworkFails(f)
  BY <1>3, ShownNetwork
<1>4. CASE DebugAnswered \/ ExplanationLost \/ Builds \/ UNCHANGED allVars
  BY <1>4, ShownOthers
<1> QED BY <1>1, <1>2, <1>3, <1>4 DEF DemoNext

LEMMA ShownInvSays == DemoInv /\ ShownInv => ShowsOwnFeedInOrder /\ SettledPageIsHonest
<1> SUFFICES ASSUME DemoInv, ShownInv PROVE ShowsOwnFeedInOrder /\ SettledPageIsHonest
  OBVIOUS
<1>1. ShowsOwnFeedInOrder
  <2>1. \A f \in Flows : Selecting(flows[f]) => f \in Running /\ flows[f].from = "select"
    BY DEF Selecting, Running
  <2> QED BY <2>1 DEF ShownInv, Calm, InOrder, ShowsOwnFeedInOrder
<1>2. SettledPageIsHonest
  <2>1. \A f \in Flows : Owes(flows[f]) => f \in Running
    BY DEF Owes, Running
  <2> QED BY <2>1 DEF ShownInv, Blank, SettledPageIsHonest
<1> QED BY <1>1, <1>2

(***************************************************************************)
(* Unless flows overlapped or the network lost a request, the list is the  *)
(* feed of the selected user from its first item, each once and in order,  *)
(* and the cursor continues it (loadMore, applyPage).                      *)
(***************************************************************************)
THEOREM PagesFollowEachOther == DemoSpec => []ShowsOwnFeedInOrder
<1>1. DemoInv /\ ShownInv => ShowsOwnFeedInOrder
  BY ShownInvSays
<1> QED BY <1>1, DemoInvHolds, ShownInit, DemoInvIsInductive, ShownInvIsInductive, PTL
        DEF DemoSpec

(***************************************************************************)
(* When nothing is under way the cards are the list, and the page shows a  *)
(* feed or an error, however many flows overlapped (loadPage, ensureDebug).*)
(***************************************************************************)
THEOREM PageIsNeverSilentlyBlank == DemoSpec => []SettledPageIsHonest
<1>1. DemoInv /\ ShownInv => SettledPageIsHonest
  BY ShownInvSays
<1> QED BY <1>1, DemoInvHolds, ShownInit, DemoInvIsInductive, ShownInvIsInductive, PTL
        DEF DemoSpec

=============================================================================
