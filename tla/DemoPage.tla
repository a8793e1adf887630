------------------------------- MODULE DemoPage -------------------------------
(***************************************************************************)
(* The demo page (src/public/app.js).  A click starts a flow, an           *)
(* asynchronous function that runs between its awaits without being        *)
(* interrupted; flows interleave at their awaits and share the page's      *)
(* state.  A request is answered by the server at one moment and the       *)
(* answer is handled at a later one.                                       *)
(***************************************************************************)
EXTENDS Paging

CONSTANTS
  Flows,               \* bound of the model: flows that run at once
  POLL_MAX_ATTEMPTS,
  MaxClicks,           \* bound of the model
  FirstUser            \* USERS[0], selected when the page opens

ASSUME DemoAssumption ==
  /\ Flows # {}
  /\ POLL_MAX_ATTEMPTS \in Nat \ {0}
  /\ MaxClicks \in Nat
  /\ FirstUser \in Users

VARIABLES
  user,        \* state.user
  feedId,      \* state.feedId
  cursor,      \* state.cursor
  items,       \* state.items
  debug,       \* state.debug: feed -> whether its explanation arrived
  polling,     \* state.polling
  status,      \* what the status line says: "none", "building" or "error"
  cards,       \* the items rendered
  enabled,     \* whether the buttons of the cards are
  flows,       \* flows[f]: the await f is at
  explaining,  \* calls of ensureDebug that wait for an answer
  clicks,
  overlapped,  \* history: a flow was started while another ran
  lost         \* history: a request failed in the network

pageVars == <<user, feedId, cursor, items, debug, polling, status, cards, enabled>>
allVars == <<serverVars, pageVars, flows, explaining, clicks, overlapped, lost>>

Idle == [at |-> "idle", from |-> "none", user |-> FirstUser, cursor |-> None,
         answer |-> None, attempt |-> 0, invalidated |-> FALSE]

FirstFlow == CHOOSE f \in Flows : TRUE

Running == {f \in Flows : flows[f].at # "idle"}
InPoll == {f \in Flows : flows[f].at \in {"sleep", "poll"}}

DemoInit ==
  /\ PagingInit
  /\ user = FirstUser
  /\ feedId = None
  /\ cursor = None
  /\ items = <<>>
  /\ debug = <<>>
  /\ polling = FALSE
  /\ status = "none"
  /\ cards = <<>>
  /\ enabled = TRUE
  /\ flows = [f \in Flows |-> IF f = FirstFlow
                              THEN [Idle EXCEPT !.at = "profile", !.from = "select"]
                              ELSE Idle]
  /\ explaining = {}
  /\ clicks = 0
  /\ overlapped = FALSE
  /\ lost = FALSE

-----------------------------------------------------------------------------
(***************************************************************************)
(* Steps of a flow.  What is not an await happens at once.                 *)
(***************************************************************************)
At(f, step) == flows' = [flows EXCEPT ![f] = step]

Answer(f) == flows[f].answer

\* interact's finally enables the buttons again.
Finish(f) ==
  /\ At(f, Idle)
  /\ enabled' = (enabled \/ flows[f].from = "interact")

\* A page whose explanation is known is drawn at once, with new buttons.
FinishDrawing(f) ==
  /\ At(f, Idle)
  /\ enabled' = (enabled \/ flows[f].from = "interact" \/ Answer(f).feed \in DOMAIN debug)

AskFeed(f, from, u, c) ==
  At(f, [Idle EXCEPT !.at = "feed", !.from = from, !.user = u, !.cursor = c])

\* Forgets the session and asks for the first page of the user of the moment.
restartSession(f, from, u) ==
  /\ feedId' = None
  /\ cursor' = None
  /\ items' = <<>>
  /\ cards' = <<>>
  /\ AskFeed(f, from, u, None)

\* Mutation of applyPage: appends whatever the generation.
AppendAlways(f, append) ==
  /\ feedId' = Answer(f).feed
  /\ cursor' = Answer(f).nextCursor
  /\ items' = IF append THEN items \o Answer(f).items ELSE Answer(f).items
  /\ status' = "none"
  /\ explaining' = IF Answer(f).feed \in DOMAIN debug THEN explaining
                   ELSE explaining \cup {[user |-> user, feed |-> Answer(f).feed]}
  /\ cards' = IF Answer(f).feed \in DOMAIN debug THEN items' ELSE cards
  /\ UNCHANGED debug

\* Mutation of applyPage: the page replaces the list.
ReplaceAlways(f, append) ==
  /\ feedId' = Answer(f).feed
  /\ cursor' = Answer(f).nextCursor
  /\ items' = Answer(f).items
  /\ status' = "none"
  /\ explaining' = IF Answer(f).feed \in DOMAIN debug THEN explaining
                   ELSE explaining \cup {[user |-> user, feed |-> Answer(f).feed]}
  /\ cards' = IF Answer(f).feed \in DOMAIN debug THEN items' ELSE cards
  /\ UNCHANGED debug

\* A page of the generation on show is appended, any other replaces the list.
\* Cards are drawn when the explanation is there, at once if it was before.
applyPage(f, append) ==
  LET p == Answer(f)
      known == p.feed \in DOMAIN debug
  IN  /\ feedId' = p.feed
      /\ cursor' = p.nextCursor
      /\ items' = IF append /\ feedId = p.feed THEN items \o p.items ELSE p.items
      /\ status' = "none"
      /\ explaining' =
           IF known THEN explaining ELSE explaining \cup {[user |-> user, feed |-> p.feed]}
      /\ cards' = IF known THEN items' ELSE cards
      /\ UNCHANGED debug

-----------------------------------------------------------------------------
\* Clicks.  Nothing stops one while another flow runs.
Click(f) ==
  /\ clicks < MaxClicks
  /\ flows[f].at = "idle"
  /\ clicks' = clicks + 1
  /\ overlapped' = (overlapped \/ Running # {} \/ explaining # {})
  /\ UNCHANGED <<serverVars, lost, debug, polling, status, explaining>>

selectUser(f) ==
  /\ Click(f)
  /\ user' \in Users
  /\ At(f, [Idle EXCEPT !.at = "profile", !.from = "select"])
  /\ UNCHANGED <<feedId, cursor, items, cards, enabled>>

loadMore(f) ==
  /\ Click(f)
  /\ cursor # None
  /\ AskFeed(f, "more", user, cursor)
  /\ UNCHANGED <<user, feedId, cursor, items, cards, enabled>>

restart(f) ==
  /\ Click(f)
  /\ restartSession(f, "restart", user)
  /\ UNCHANGED <<user, enabled>>

interact(f) ==
  /\ Click(f)
  /\ cards # <<>>
  /\ enabled
  /\ enabled' = FALSE
  /\ At(f, [Idle EXCEPT !.at = "post", !.from = "interact", !.user = user])
  /\ UNCHANGED <<user, feedId, cursor, items, cards>>

-----------------------------------------------------------------------------
\* The server answers GET /feed, or cannot.
ServeFeed(f) ==
  /\ flows[f].at \in {"feed", "poll"}
  /\ Answer(f) = None
  /\ \/ /\ flows' = [flows EXCEPT ![f].answer = FeedAnswer(flows[f].user, flows[f].cursor)]
        /\ UNCHANGED serverVars
     \/ \E code \in {404, 503} :
          /\ Unavailable(code)
          /\ flows' = [flows EXCEPT ![f].answer = Status(code)]
  /\ UNCHANGED <<pageVars, explaining, clicks, overlapped, lost>>

ServeInteraction(f) ==
  /\ flows[f].at = "post"
  /\ Answer(f) = None
  /\ \/ \E invalidates \in BOOLEAN :
          /\ Record(flows[f].user, invalidates)
          /\ flows' = [flows EXCEPT ![f].answer = Status(201), ![f].invalidated = invalidates]
     \/ /\ Unavailable(404)
        /\ flows' = [flows EXCEPT ![f].answer = Status(404)]
  /\ UNCHANGED <<pageVars, explaining, clicks, overlapped, lost>>

Builds ==
  /\ \E u \in Users : Publish(u) \/ Lose(u)
  /\ UNCHANGED <<pageVars, flows, explaining, clicks, overlapped, lost>>

-----------------------------------------------------------------------------
\* The profile panel shows what came; the flow goes on whatever it was.
ProfileShown(f) ==
  /\ flows[f].at = "profile"
  /\ IF flows[f].from = "select" \/ flows[f].invalidated
     THEN restartSession(f, flows[f].from, user) /\ UNCHANGED enabled
     ELSE Finish(f) /\ UNCHANGED <<feedId, cursor, items, cards>>
  /\ UNCHANGED <<serverVars, user, debug, polling, status, explaining, clicks, overlapped, lost>>

InteractionAnswered(f) ==
  /\ flows[f].at = "post"
  /\ Answer(f) # None
  /\ IF Answer(f).status = 201
     THEN /\ At(f, [flows[f] EXCEPT !.at = "profile", !.answer = None])
          /\ UNCHANGED enabled
     ELSE Finish(f)
  /\ UNCHANGED <<serverVars, user, feedId, cursor, items, debug, polling, status, cards,
                 explaining, clicks, overlapped, lost>>

\* Mutation of PollOrLeave: polls beside the poll that runs.
PollAnyway(f) ==
  /\ polling' = TRUE
  /\ At(f, [Idle EXCEPT !.at = "sleep", !.from = flows[f].from, !.attempt = 1])
  /\ UNCHANGED enabled

\* pollUntilReady: one poll at a time, the others leave it to that one.
PollOrLeave(f) ==
  IF polling
  THEN Finish(f) /\ UNCHANGED polling
  ELSE /\ polling' = TRUE
       /\ At(f, [Idle EXCEPT !.at = "sleep", !.from = flows[f].from, !.attempt = 1])
       /\ UNCHANGED enabled

\* loadPage, by the status of its answer.
PageAnswered(f) ==
  /\ flows[f].at = "feed"
  /\ Answer(f) # None
  /\ LET code == Answer(f).status
         continues == code = 410 \/ (code = 400 /\ flows[f].cursor # None)
     IN  \/ /\ code = 200
            /\ applyPage(f, flows[f].cursor # None)
            /\ FinishDrawing(f)
            /\ UNCHANGED polling
         \/ /\ code = 202
            /\ status' = "building"
            /\ PollOrLeave(f)
            /\ UNCHANGED <<feedId, cursor, items, debug, cards, explaining>>
         \/ /\ continues
            /\ restartSession(f, flows[f].from, user)
            /\ status' = IF code = 410 THEN "none" ELSE status
            /\ UNCHANGED <<debug, polling, enabled, explaining>>
         \/ /\ code \notin {200, 202} /\ ~continues
            /\ status' = "error"
            /\ Finish(f)
            /\ UNCHANGED <<feedId, cursor, items, debug, polling, cards, explaining>>
  /\ UNCHANGED <<serverVars, user, clicks, overlapped, lost>>

\* The timer of a poll: it asks for the user of the moment.
Wake(f) ==
  /\ flows[f].at = "sleep"
  /\ At(f, [flows[f] EXCEPT !.at = "poll", !.user = user, !.answer = None])
  /\ UNCHANGED <<serverVars, pageVars, explaining, clicks, overlapped, lost>>

\* Mutation of EndPoll: without the finally.
EndPollHoldingFlag(f) == Finish(f) /\ UNCHANGED polling

EndPoll(f) ==
  /\ IF Answer(f) # None /\ Answer(f).status = 200 THEN FinishDrawing(f) ELSE Finish(f)
  /\ polling' = FALSE

\* Mutation of PollAnswered: the attempts are not counted.
PollUnbounded(f) ==
  /\ flows[f].at = "poll"
  /\ Answer(f) # None
  /\ \/ /\ Answer(f).status = 200
        /\ applyPage(f, FALSE)
        /\ EndPoll(f)
     \/ /\ Answer(f).status # 200
        /\ status' = "building"
        /\ At(f, [flows[f] EXCEPT !.at = "sleep"])
        /\ UNCHANGED <<feedId, cursor, items, debug, polling, cards, enabled, explaining>>
  /\ UNCHANGED <<serverVars, user, clicks, overlapped, lost>>

PollAnswered(f) ==
  /\ flows[f].at = "poll"
  /\ Answer(f) # None
  /\ \/ /\ Answer(f).status = 200
        /\ applyPage(f, FALSE)
        /\ EndPoll(f)
     \/ /\ Answer(f).status = 202 /\ flows[f].attempt < POLL_MAX_ATTEMPTS
        /\ status' = "building"
        /\ At(f, [flows[f] EXCEPT !.at = "sleep", !.attempt = @ + 1])
        /\ UNCHANGED <<feedId, cursor, items, debug, polling, cards, enabled, explaining>>
     \/ /\ Answer(f).status \notin {200, 202} \/ flows[f].attempt = POLL_MAX_ATTEMPTS
        /\ Answer(f).status # 200
        /\ status' = "error"
        /\ EndPoll(f)
        /\ UNCHANGED <<feedId, cursor, items, debug, cards, explaining>>
  /\ UNCHANGED <<serverVars, user, clicks, overlapped, lost>>

\* Mutation of DebugAnswered: drawn only if there is an explanation.
DrawnIfExplained ==
  /\ \E c \in explaining :
       /\ explaining' = explaining \ {c}
       /\ debug' = [g \in DOMAIN debug \cup {c.feed} |->
                      IF g = c.feed THEN DebugAnswer(c.user, c.feed) ELSE debug[g]]
       /\ cards' = IF DebugAnswer(c.user, c.feed) THEN items ELSE cards
  /\ enabled' = TRUE
  /\ UNCHANGED <<serverVars, user, feedId, cursor, items, polling, status, flows, clicks,
                 overlapped, lost>>

\* ensureDebug: what came is kept for good, even that nothing was there; then
\* the page is drawn from the state of the moment.
DebugAnswered ==
  /\ \E c \in explaining :
       /\ explaining' = explaining \ {c}
       /\ debug' = [g \in DOMAIN debug \cup {c.feed} |->
                      IF g = c.feed THEN DebugAnswer(c.user, c.feed) ELSE debug[g]]
  /\ cards' = items
  /\ enabled' = TRUE
  /\ UNCHANGED <<serverVars, user, feedId, cursor, items, polling, status, flows, clicks,
                 overlapped, lost>>

\* The call of ensureDebug rejects, and with it the drawing that waits for it.
ExplanationLost ==
  /\ outages < MaxOutages
  /\ outages' = outages + 1
  /\ \E c \in explaining : explaining' = explaining \ {c}
  /\ lost' = TRUE
  /\ UNCHANGED <<built, active, retained, pageVars, flows, clicks, overlapped>>

\* fetch rejects: the flow ends there, and only its finally blocks run.
NetworkFails(f) ==
  /\ outages < MaxOutages
  /\ outages' = outages + 1
  /\ flows[f].at \in {"profile", "feed", "poll", "post"}
  /\ IF flows[f].at = "poll" THEN EndPoll(f) ELSE Finish(f) /\ UNCHANGED polling
  /\ lost' = TRUE
  /\ UNCHANGED <<built, active, retained, user, feedId, cursor, items, debug, status, cards,
                 explaining, clicks, overlapped>>

-----------------------------------------------------------------------------
Step(f) ==
  \/ ServeFeed(f)
  \/ ServeInteraction(f)
  \/ ProfileShown(f)
  \/ InteractionAnswered(f)
  \/ PageAnswered(f)
  \/ Wake(f)
  \/ PollAnswered(f)

DemoNext ==
  \/ \E f \in Flows :
       \/ selectUser(f) \/ loadMore(f) \/ restart(f) \/ interact(f)
       \/ Step(f)
       \/ NetworkFails(f)
  \/ DebugAnswered
  \/ ExplanationLost
  \/ Builds

DemoSpec == DemoInit /\ [][DemoNext]_allVars

\* The browser's requests and timers end; the worker and the user may not act.
FairDemoSpec == DemoSpec /\ \A f \in Flows : WF_allVars(Step(f))

-----------------------------------------------------------------------------
\* Types of the page's state, of the flows at work and of what the server holds.
Items == [feed : FeedIds, rank : 1 .. Length]

DemoTypeOK ==
  /\ built \in [Users -> 0 .. MaxFeeds]
  /\ active \in [Users -> 0 .. MaxFeeds]
  /\ retained \in [Users -> SUBSET (1 .. MaxFeeds)]
  /\ outages \in 0 .. MaxOutages
  /\ user \in Users
  /\ feedId \in FeedIds \cup {None}
  /\ cursor \in Cursors \cup {None}
  /\ \A i \in DOMAIN items : items[i] \in Items
  /\ \A i \in DOMAIN cards : cards[i] \in Items
  /\ DOMAIN debug \subseteq FeedIds
  /\ polling \in BOOLEAN
  /\ status \in {"none", "building", "error"}
  /\ enabled \in BOOLEAN
  /\ \A f \in Flows : flows[f].at \in {"idle", "profile", "feed", "sleep", "poll", "post"}
  /\ explaining \subseteq [user : Users, feed : FeedIds]
  /\ clicks \in 0 .. MaxClicks
  /\ overlapped \in BOOLEAN
  /\ lost \in BOOLEAN

(***************************************************************************)
(* Whatever the order of answers, however many flows run and whatever      *)
(* replaced the feed meanwhile, the list never mixes two generations, and  *)
(* the next page it would ask for is of the generation on show.            *)
(***************************************************************************)
NeverMixesGenerations ==
  /\ \A i \in DOMAIN items : items[i].feed = feedId
  /\ cursor # None => cursor.feed = feedId

(***************************************************************************)
(* At most one poll runs, the flag says so, and it asks a bounded number   *)
(* of times ("a page that polls forever would present an operator mistake  *)
(* as a slow system").                                                     *)
(***************************************************************************)
OneBoundedPoll ==
  /\ polling <=> InPoll # {}
  /\ Cardinality(InPoll) <= 1
  /\ \A f \in InPoll : flows[f].attempt \in 1 .. POLL_MAX_ATTEMPTS

(***************************************************************************)
(* The page never says it is building while nobody polls: the flow that    *)
(* leaves the waiting to another's poll relies on that poll to replace the *)
(* message, unless the network lost a request.                             *)
(***************************************************************************)
BuildingMeansPolling == status = "building" => InPoll # {} \/ lost

(***************************************************************************)
(* When no click overlapped another's flow and no request was lost, the    *)
(* list is the feed of the selected user from its first item, each once    *)
(* and in order, and the cursor continues it; without one it is complete.  *)
(***************************************************************************)
ShowsOwnFeedInOrder ==
  ~overlapped /\ ~lost /\ feedId # None =>
    /\ feedId[1] = user \/ \E f \in Running : flows[f].from = "select"
    /\ \A i \in DOMAIN items : items[i].rank = i
    /\ IF cursor = None THEN Len(items) = Length
       ELSE cursor.user = feedId[1] /\ cursor.offset = Len(items)

(***************************************************************************)
(* When nothing is under way the cards on show are the list, and the page  *)
(* shows a feed or says what went wrong: it is never silently blank.       *)
(***************************************************************************)
SettledPageIsHonest ==
  Running = {} /\ explaining = {} /\ ~lost =>
    /\ cards = items
    /\ feedId # None \/ status = "error"

(***************************************************************************)
(* A poll ends, whether or not the worker ever builds.                     *)
(***************************************************************************)
PollEnds == polling ~> ~polling

=============================================================================
