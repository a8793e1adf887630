# Video analysis and recommendations: verification notes

TLA+ models of this repository, checked with TLC and proved about with TLAPS.
Paths are those of the repository; `feed/cache.ts` means `src/feed/cache.ts`.

## 1. The system

Short videos are ingested (S3 and Postgres), analysed by a vision model into
features (a BullMQ worker, or a script), and recommended. A user's feed is built
by a background worker and served from Redis to a demo page. Everything
interesting happens where those parts run at the same time over shared keys, rows,
files or page state.

| part | state it keeps | operations | talks to |
| --- | --- | --- | --- |
| feed cache (`feed/cache.ts`) | five kinds of Redis key per user: epoch, active pointer, generation payloads, explanation sidecars, index of generations | invalidate, read the active or a pinned generation, publish, expire | called by the API and by the worker |
| build queue (`feed/queue.ts`) | BullMQ jobs with deduplication ids | enqueue, take, complete, retry | filled by the API, drained by the worker |
| feed worker (`feed/worker.ts`) | the locals of each running `buildFeed` | check epoch, check for an existing build, read or rebuild the profile, rank, re-check, publish | cache, Postgres |
| API (`api/server.ts`, `feed/service.ts`, `feed/cursor.ts`) | none of its own: one handler per request; the cursor the client holds | `POST /interactions`, `GET /feed`, refill | Postgres, cache, queue |
| interactions and profile (`reco/interactions.ts`, `reco/profile.ts`) | interaction rows, one profile row per user | record once per event id, rebuild the profile | Postgres |
| recommender (`reco/recommender.ts`, `candidates.ts`, `ranking.ts`, `diversity.ts`) | the locals of a call | six queries, union of five sources, scores, diversified list | Postgres |
| analysis (`analysis/analyzeVideo.ts`, `workers/analysisWorker.ts`) | video status, feature rows | claim, preprocess, call the model, write features, mark | Postgres, queue, vision provider |
| preprocessing (`analysis/preprocess.ts`, `sampling.ts`, `frames.ts`, `dhash.ts`) | a temporary directory | plan instants, snap to cuts, extract, hash, select, clean up | ffmpeg, S3 |
| vision provider (`analysis/vision/openaiCompatible.ts`) | two flags shared by its calls | request, repair, fall back to plain output | an HTTP API |
| ingestion (`ingest/*`) | video and creator rows, S3 objects | checksum, upload, insert, enqueue | S3, Postgres, queue |
| demo page (`public/app.js`) | the page's user, feed, cursor, items, explanations, poll flag | switch user, load, poll, load more, restart, interact | API |
| scripts (`scripts/*`) | none | analyse a list of videos with a pool; seed, reset, report | everything above |

### What is hard

* `publishGeneration` is seven Redis commands with no transaction around them,
  and `FEED_CONCURRENCY` is 2 by default, per process.
* `buildFeed` reads the epoch, then ranks, then reads it again, then publishes:
  each answer may be stale when it is used.
* `POST /interactions` commits a row, rebuilds the profile, invalidates, enqueues.
  Any of these may fail, and only the profile is repaired by a retry. A build ranks
  over the stored profile, not over the rows, and stores one when there is none.
* Deduplication ids are held only while a job lives, and there are two kinds of
  them, so two builds for one user may run side by side.
* A recommendation reads six snapshots of different moments.
* Keys expire, runs are retried, processes die between two commands.
* Profile rebuilds race; analysis can die between two transactions; concurrent
  ingests of one file race.
* Calls to the vision model share flags that are read after an await; its frames
  are files that a `finally` deletes.
* The demo page starts a new flow at every click, whatever is still in flight,
  and handles answers to questions it would no longer ask.

The full list, line by line, is under `hazards` in `PROJECT.json`.

What makes each component correct, in a sentence each:

| component | correct when |
| --- | --- |
| feed cache | the pointer names a stored feed and only moves to newer ones; at most two generations stay; a cursor survives one refresh |
| queue and worker | a feed for epoch n leaves out everything that opened n, and ranks over a profile that counts it; one generation per epoch; the last state is eventually served |
| feed API | a stale feed is served only while its rebuild is on the way |
| interactions, profile | an event is recorded once and invalidates once; the stored profile is the one the rows imply |
| recommender | only eligible, unseen videos; a short list says so; a cold start is not personal; dislikes never promote |
| diversity | caps hold outside the relaxed tail; the list is the greedy one; caps are lifted only when nothing else fits |
| ingestion | a row names a stored object; re-runs upload nothing |
| analysis | `analyzed` implies features; the job and the row agree; every queued video is decided |
| preprocessing | instants are ordered and within budget; the frames sent stand for all; they exist until read and are gone in the end |
| vision provider | requests are bounded; a server without the format costs one request, not a video |
| demo page | one generation on show, the selected user's; one poll, and it ends; a settled page shows a feed or an error |

## 2. Modules

```
FeedCache <- FeedQueue <- FeedWorker <-+- FeedServing <-+- FeedRefinement <- MCFeedServing
                       <- FeedApi    <-+                |       | FeedPromise (abstract)
                                                        +- FeedOverlaps <- MCFeedOverlaps
                                                        +- FeedLosses   <- MCFeedLosses
FeedRefinement, FeedOverlaps, FeedLosses <- FeedServingProofs     FeedRefinement <- MCFeedLosses

Videos <- Ingest   <-+- Pipeline <- Endings <- MCPipeline, PipelineProofs
       <- Analysis <-+

Profile <- SerialProfile <- MCProfile, ProfileProofs

Diversity <- Ranking <- Candidates <- Recommender <- MCRecommender, RecommenderProofs
Diversity <- DiversityProofs <- RecommenderProofs

Sampling <- Preprocess <-+- AnalysisCalls <- MCAnalysisCalls, AnalysisCallsProofs
            Vision     <-+

Paging <- DemoPage <- MCDemoPage, DemoPageProofs

FiniteInduction <- ProfileProofs, RecommenderProofs, AnalysisCallsProofs
```

**Feed serving**

* **FeedCache**: the Redis keys of one user, one operator per command (or
  `MULTI/EXEC`), each constraining all five keys. Every key carries the user id,
  so one user stands for all. A generation is reduced to its epoch, its shortage
  flag and two sets that are no fields in the code: `basis`, the interactions that
  the profile it was ranked over counts, and `seen`, the rows there were when
  `recommendCandidates` left out what the user has seen. The two tables of Postgres
  behind them, `stored` and `profile`, are declared here as well.
* **FeedQueue**: BullMQ as `feed/queue.ts` uses it. An id is held from add to
  completion; adding under an id that waits is a no-op; adding under an id that
  runs keeps the last such job. Waiting jobs are a set, not a list: with
  exponential backoff on retries, any waiting job may be next.
* **FeedWorker**: `buildFeed` with `publishGeneration` inlined. `pc[w]` names
  the await slot `w` is at; each action is one await. `recommendCandidates` reads the
  stored profile (`GetUserProfile`); when there is none it loads the history and
  stores one (`LoadMissing`, `PersistMissing`), and then it ranks (`Rank`).
* **FeedApi**: the two handlers, one await per action. A POST inserts the row, loads
  the history, stores the profile, invalidates and enqueues; a client that got no
  answer sends the event again (`Resend`), which then is a duplicate. `session[r]` is
  the cursor the client of session `r` holds. Page contents are left out; whether a
  page has more behind it, and whether it is under the refill watermark, is a
  choice, which covers every page size and watermark.
* **FeedServing**: the composition, its faults and expiries, its properties.
* **FeedPromise**, **FeedRefinement**: what the cache promises a reader - one
  generation on offer, offers only get newer, a held generation never comes
  back, the one on offer is never dropped - and the mapping that shows the
  commands implement it.
* **FeedOverlaps**: a history variable for the behaviours in which two rebuilds of the
  profile overlapped, of requests or of slots, and what feeds are ranked over.
* **FeedLosses**: history variables for the epochs whose build was lost (`lost`: the
  enqueue failed, the request died, or the attempts of the job were used up) and for
  those that began while a slot was between its second epoch check and the pointer
  (`overtaken`); and what new sessions are sent to then.

**Interactions and profile**

* **Profile**: `POST /interactions` up to its answer, for one user, one await per
  action: insert with `ON CONFLICT DO NOTHING`, load the history, replace the
  stored profile, refresh the feed. `recorded[q]` is what `recordInteraction`
  returned to handler `q`. `computeProfile` is an operator on the loaded rows;
  strengths are integers (percent, times `2^half-lives`), and of the profile's
  vectors the creator affinity is kept, which shares their denominator. The feed
  refresh is one action here because FeedApi has it step by step. The client
  may send an event again at any time. `Builders` are builds of the feed, the other
  writers of the row: `build[b]` is where one is in the rebuild that
  `recommendCandidates` runs when it finds no profile (`recommender.ts:95`).
* **SerialProfile**: Profile with one history variable, `overlapped`: whether two
  rebuilds, of handlers or builds, have each loaded the history and not yet replaced
  the profile. What the stored profile promises, it promises as long as that has not
  happened.

**Recommendation**

* **Diversity**: one call of `diversifyCandidates`; one action is one iteration
  of one of its loops. The counts of creators and tags are state, as in the code;
  the properties count on the list itself.
* **Ranking**: the seven terms of a score, over integers. `Weight` holds
  `RANK_W_*`; `Carries` and `Vector` are what the taxonomy encodes of a video.
* **Candidates**: every query of `generateCandidates` as an await with the
  snapshot it sees, and the five sources. `corpus[v]` tells whether `v` has
  features of the current taxonomy; `waiting` holds the queries of the running
  `Promise.all`. `Interact` and `Analyse` are what others write meanwhile.
* **Recommender**: `recommendCandidates` from the profile it was given to the
  list. What is synchronous in the code is one action, except the loops of
  Diversity. A query that fails rejects the call.

**From file to features**

* **Videos**: the row, object, job and features of one file. Its checksum is
  unique, so one file stands for all.
* **Ingest**: `ingestItem`, one await per action; each run draws its own video
  id, so two runs may upload twice while the unique index lets one row in.
* **Analysis**: `analyzeVideo` and the worker around it. `Slots` are the
  executions that serve the queue; the others are runs of the analyze script,
  with `--force` or without. Features and embedding are written in one
  transaction, the status in another: two actions.
* **Pipeline**: both over one file, and the properties that hold whatever fails.
* **Endings**: history variables for the executions that ended between storing the
  features and marking the row (`torn`) and for those that ended without a result
  (`died`: the process died, or an await outside the `try` threw, the updates to
  `analyzing` and `failed` among them), and how job, row and features agree.
* **Sampling**: the pure part of preprocessing: frame budget, planned instants,
  snapping to cuts, display size, scaling, de-duplication. Times are integer
  milliseconds, a hash is the set of its bits. The frames de-duplication restores
  are given by their rank in novelty rather than by a loop that picks the next one.
* **Preprocess**: `preprocessVideo` one await at a time, with the directory's
  contents in `files`.
* **Vision**: `OpenAICompatibleProvider.analyze` for concurrent calls. `calls[c]`
  is the await a call is at, its attempt, and how its request was sent;
  `requests` counts, for the properties only.
* **AnalysisCalls**: a run of `scripts/analyze.ts`: a pool, the shared provider,
  and the first video followed through its preprocessing.

**Demo page**

* **Paging**: what a client can observe of the server: pages cut out of immutable
  generations, cursors bound to a user and a generation, status codes. A build is
  one step, since FeedServing has its details; a generation may be lost at any
  time, which stands for expiry, eviction and a reset.
* **DemoPage**: `public/app.js`. A click starts a flow; a flow is at one await. The
  server answers a request in one step and the page handles the answer in a later
  one. `cards` is what is drawn, which lags behind `items` while an explanation is
  awaited. `overlapped` and `lost` record, for the properties, that a click came
  while another flow ran, and that the network lost a request.

**FiniteInduction** models nothing: it has the lemmas on finite sets, folds and sums
that the proofs share.

`Mutation of ...` operators next to a definition state plausible bugs; the
properties are known to catch them (`mutants` in `PROJECT.json`).

## 3. Runs

| run | instance | shows |
| --- | --- | --- |
| ServingFaults | 1 job slot, 1 invalidating event, 1 session, 3 generations, sidecars, 1 fault, no expiry, fair | types, one generation per epoch, stale only while rebuilding, every command keeps FeedPromise, and the pointer settles on the last state |
| ServingRefill | 1 slot, 1 event, 1 session, refills, no expiry | readable pointer, ordered index, retention, and a cursor survives one refresh, with two generations per epoch |
| ServingConcurrent | 2 slots, 2 events, no session, 4 generations, 2 faults, 1 expiry | feeds cover their epoch, as far as rebuilds did not overlap; eviction deletes only what left the index |
| ProfileRequests | 2 handlers, 1 build, 3 events, 3 sends, 1 fault, 1 outage | recorded once, invalidated once, normalised affinity; while rebuilds do not overlap, the profile counts every answered event and stays warm |
| PipelineFaults | 2 ingestion passes, 2 slots, 1 forced script, 3 faults, fair slots | rows name objects, features behind `analyzed`, job and row agree, attempts hide no features, every job is decided |
| Recommendations | 4 videos, 3 profiles, 3 corpora, 3 histories, 2 changes by others, any query failing; and every ranking of up to 4 videos, 3 scores, 4 limits, caps 1 and 2, window 2 | candidates are eligible and unseen, shortage is reported exactly, a cold start is not personal, dislikes never promote, caps, greedy list of the reference definition, relaxation only when blocked |
| DemoPage | 2 users, 2 flows, 2 clicks, 2 generations of 2 pages, 2 poll attempts, 1 outage, fair flows | one generation on show, one bounded poll that ends, no waiting without a poll, own feed in order, settled page is honest |
| AnalysisCalls | 2 videos in a pool of 2, 5 files, 1 repair, 1 other refusal | plans in budget and order, a representative selection, files that live as long as needed, bounded size, bounded requests, a lone refusal is absorbed |
| SlowBuildOverwrites | 2 slots | violation: the pointer moves back to an older epoch |
| LostEnqueueServesStale | 1 slot, 1 event, 1 fault | violation: the enqueue fails, and an older build past its recheck leaves a feed that predates the interaction on offer |
| FeaturesLeftBehind | 1 slot, no script, 1 fault | violation: the status update fails after the features were stored, and they stay behind a row that is not `analyzed` |
| VisionRejectedTwice | the instance of AnalysisCalls | violation: two requests in flight are refused for their format; the second fails its video |

ServingRefill and ServingConcurrent check `OverlapSpec`, the other feed runs `Spec`, `LossSpec` or
`FairLossSpec`; the history variables change no step of the program.

The two-slot violation needs nothing unusual: `FEED_CONCURRENCY` is 2 by default.
That is why the runs that promise a readable, monotonic pointer have one slot: the
promise is that of a deployment with one. With one slot the interleaving of two
publications cannot happen, and the second check for an existing build (`worker.ts:125`)
decides nothing, since nobody else publishes; those runs are about the other interleavings, of
a build with requests, sessions and retries. LostEnqueueServesStale
contradicts the comment `server.ts:141-143` ("never with a feed that predates their
interaction"), FeaturesLeftBehind that of `candidates.ts:81-83` ("has no features");
each takes one failed call at the wrong moment. VisionRejectedTwice needs
`--concurrency` above 1 and a server without `json_schema`.

The passing properties beside those two say how far the comments are right.
`StaleOnlyWhileRebuilding` and `EventuallyFresh` allow a stale pointer for an epoch only
if its build was lost and an older one was past its recheck when it began; a lost
build alone leaves a miss, which the next session repairs. `AttemptsHideNoFeatures` and
`JobMatchesRow` name the two endings, `torn` and `died`, that make job, row and
features disagree when no script runs.

### Bounds

* Every race here is between at most two executions, over two or three states of
  one user or file. One invalidation separates the feed that was current from the one
  that is coming, and is all that a lost build, an overtaking build or a refill needs;
  rebuilds of the profile need two interactions to differ. Three generations are one
  more than are retained, four leave one to each of two slots beyond that.
* A run that dies leaves the same state as an await that throws there, so one
  fault reaches every partial publication; two faults let the retry fail too. The
  pipeline has three, as many as a job has attempts.
* `MaxFeeds` bounds how many feeds are built and stops the worker from ranking
  further; a worker that waits there is no deadlock of the system, and the runs
  where the clients run out of requests say `CHECK_DEADLOCK FALSE`.
* In the profile three sends are a first attempt, its retry, and one other event
  beside them; one build is enough to meet a handler. Weights and ages are chosen so that signals of opposite sign meet
  on one creator.
* Four videos with a window of two, two of them of one creator and three sharing tags,
  put the end of the window, both caps, the limit and the end of the strict pass in
  every order.
* In Recommendations every source but exploration may return one video, fewer than
  there are, so a limit is spent on videos that the union drops; the videos have a
  missing creator, a missing score, unknown and absent tags; histories hold repeated
  events, events before the window, and engagement that is only negative. Two
  changes by others reach between any two queries.
* In DemoPage two flows are an old one and a new one; `MaxClicks` is two on top of
  the selection that opens the page, so a third flow's answer can meet a page that
  two have changed. A generation of three items in pages of two has a first page
  with a cursor and a last one without. One outage is one failed request, one
  refused one, or one lost generation.
* In AnalysisCalls the files lie on each side of the tier bounds, below a second,
  and have cuts that cross, coincide after snapping or fall past the end, sides odd
  and even, each rotation. A frame may hash to three pictures, two of which are
  near each other and the third near one of them only. One refusal that is not
  about the format is enough to reach the fallback by mistake.

### Fairness

Liveness is only claimed of what keeps running. A BullMQ worker polls its queue as
long as the process lives, so every step of a slot is weakly fair. A handler's
promise chain is driven by the runtime: once a request was sent its steps are
fair, but sending it is not. `EventuallyFresh` also needs the client that got a
202 to ask again, which the demo page does and `GET /feed` tells every client to;
without a reader a cold cache may stay cold. In DemoPage the steps of a flow are
weakly fair, because the browser fires timers and a request is answered or fails;
clicks, builds and failures are not, and `PollEnds` holds without any build. No
fairness is assumed for expiry, faults, ingestion, or the analyze script.

### Expiry

The pointer gets `FEED_TTL_SECONDS`; payload, sidecar and index get twice that
(`cache.ts:210-224`), and every publication renews the index. The model keeps the order
this gives, and does not let any key go at any time: the pointer may expire whenever it
is set; a payload only when the pointer does not name it and its publication is not
running; a sidecar after its payload; the index when nothing it lists is left. That
is the order of the code as long as a publication takes less than `FEED_TTL_SECONDS`.
Only ServingConcurrent has an expiry; ServingFaults and ServingRefill, whose instances
it would make several times larger, run without. That their properties survive expiry
is what the theorems add: they allow any number of expiries where they do not say
`NoExpiries`.

## 4. Proofs

Every safety invariant and action property of the passing runs is proved too, for
every value of the constants. The assumptions are the `ASSUME`s of the modules
(constants are natural numbers, or functions on the sets they index, and `None` is no
real value) and the hypotheses named in the last column, which are explained below.

| theorem | property | for every | hypotheses |
| --- | --- | --- | --- |
| **FeedServingProofs** | | number of slots, sessions, events, faults, expiries | |
| `TypeCorrect` | `TypeOK` | | |
| `FeedsCoverTheirEpoch` | `BasisCoversEpoch` | | (in the property: `overlapped`) |
| `EvictionIsSafe` | `EvictedLeftIndex` | | |
| `OfferIsReadable` | `ActiveReadable` | | `OneSlot` |
| `IndexIsNewestFirst` | `IndexNewestFirst` | | `OneSlot` |
| `PointerNeverGoesBack` | `NeverOverwritesFresher` | | `OneSlot` |
| `ServingKeepsPromise` | `KeepsPromise` | | `OneSlot` |
| `RetentionIsBounded` | `RetentionBound` | | `OneSlot`, `NoFaults` |
| `StaleFeedsAreReplaced` | `StaleOnlyWhileRebuilding` | | `OneSlot` (in the property: `lost`, `overtaken`) |
| `CursorsSurviveOneRefresh` | `CursorSurvivesOneRefresh` | | `OneSlot`, `NoFaults`, `NoExpiries` |
| `EpochsAreBuiltOnce` | `OneGenerationPerEpoch` | | the three, `AlwaysShort` |
| **ProfileProofs** | | number of handlers, builds, sends, faults, outages; any weights and ages | |
| `RecordingIsUnique` | `RecordedOnce` | | |
| `InvalidationIsUnique` | `InvalidatedOnce` | | |
| `AffinitiesStayWithinOne` | `AffinityNormalised` | | |
| `SerialProfilesAreComplete` | `SerialProfileCoversRows` | | (in the property: `overlapped`) |
| `WarmUsersStayWarm` | `SerialStaysWarm` | | (in the property: `overlapped`) |
| `ProfilesAreTyped` | types of Profile | | |
| **RecommenderProofs** | | corpus, history, weights, limits, writes by others | |
| `NothingSeenIsRecommended` | `Recommendable` | | |
| `ShortageIsExact` | `ShortageReported` | | (in the property) |
| `ColdStartsIgnoreTheProfile` | `ColdStartIsGlobal` | | |
| `DislikesAreNoPromotion` | `DislikesNeverPromote` | | |
| **DiversityProofs** | | corpus, ranking, limit, window, caps | |
| `CapsAreHonoured` | `CapsHold` | | |
| `ListIsGreedy` | `IsGreedy` | | |
| `CapsAreLiftedLast` | `RelaxedOnlyWhenBlocked` | | |
| **PipelineProofs** | | number of passes, slots, scripts, attempts, faults | |
| `TypeCorrect` | types of Pipeline | | |
| `RowsNameObjects` | `RowHasObject` | | |
| `ReRunsAreNoOps` | `ReRunUploadsNothing` | | |
| `AnalyzedImpliesFeatures` | `AnalyzedHasFeatures` | | |
| `RowsMatchJobs` | `JobMatchesRow` | | (in the property: no script, `torn`, `died`) |
| `AttemptsLeaveNothing` | `AttemptsHideNoFeatures` | | (in the property: no script, `torn`) |
| **AnalysisCallsProofs** | | number of videos, pool size, retries, refusals, files, cuts, hashes | |
| `RequestsAreBounded` | `OneProbePerRun` | | |
| `LoneRefusalsAreAbsorbed` | `LoneRefusalIsAbsorbed` | | |
| `PlansAreBounded` | `PlanWithinBudget` | | `SomeFrames` |
| `SelectionStandsForAll` | `SelectionIsRepresentative` | | |
| `FramesAreThereWhenRead` | `FramesLiveUntilRead` | | |
| `FramesAreAffordable` | `FramesAffordable` | | `SomeFrames`, `ShapesInReach` |
| **DemoPageProofs** | | number of users, flows, clicks, outages; page and feed sizes | |
| `ListsNeverMix` | `NeverMixesGenerations` | | |
| `PollsAreBounded` | `OneBoundedPoll` | | |
| `BuildingIsTrue` | `BuildingMeansPolling` | | |
| `PagesFollowEachOther` | `ShowsOwnFeedInOrder` | | |
| `PageIsNeverSilentlyBlank` | `SettledPageIsHonest` | | |

`NeverOverwritesFresher` is what SlowBuildOverwrites refutes for two slots; the types
of Profile and of Pipeline, and `ReRunUploadsNothing`, are repeated by no run.

### Hypotheses

Each holds in the run that checks the property, and each was needed: without it the
code does something else.

* `OneSlot`: no two job slots work for one user at a time. With two, publications
  interleave and the pointer goes back (SlowBuildOverwrites) or names a generation that
  the other slot has trimmed.
* `NoFaults`: no await throws, no process dies. A build that dies between `SET` and
  `LPUSH` leaves a payload no index lists. Expiries are allowed.
* `NoExpiries`: a cursor to a key that has expired is gone, whatever was published.
  An index or a pointer that expired hides the build of this epoch from
  the guard that would stop a second one.
* `AlwaysShort`: no refills, which rebuild an epoch on purpose.
* `SomeFrames`: the hard cap on frames is at least one. The budget never goes below one
  frame, so with 0 it is over the cap.
* `ShapesInReach`: an even `FRAME_MAX_LONG_EDGE`, sides of at least two pixels, and no
  side longer than `FRAME_MAX_LONG_EDGE + 1` times the other. The code rounds both
  sides to even numbers and keeps them above zero (section 5).
* The properties about profiles, lost builds and endings carry their exceptions
  themselves, over history variables that record exactly what went wrong
  (`overlapped`, `lost`, `overtaken`, `torn`, `died`), instead of excluding all failures.
* `ShortageReported` itself asks that `CAND_EXPLORE_K` is not below the limit: what the
  other sources spend on videos the union drops, exploration makes up for.

### Arguments

*Feed, any number of slots.* Types alone are not inductive: a publishing slot
dereferences the feed it named some awaits before. `SlotShape` says what each await
guarantees about the slot's locals, `RequestShape` the same of a request; with them
`Shaped` is inductive. `FeedsCoverTheirEpoch` follows the information: an event that
opened epoch n is stored (`OpenedStored`, because POST commits before it invalidates);
no job, draft or payload is ahead of the epoch (`JobsBehind`); so whoever saw epoch n
and ranked afterwards left it out as seen (`DraftsCover`), and publishing copies that
(`PayloadsCover`). The profile follows on the same way as long as no two rebuilds
overlap: then a stored profile is only replaced by one of a history loaded after it was
stored, so what it counts only grows, POST has put the event in before it moves the
epoch, and whoever saw the epoch reads at least that. Nothing in the argument needs one
slot, order, or no failure.
`EvictionIsSafe` needs only that a generation's id is drawn once (`NamesAreDistinct`)
and pushed once (`PushedOnce`): then an id that was beyond the retained head of the
index when a slot read it can never come back in front, and the slot's own `LTRIM`
removes it before its `DEL` (`EvictedBehind`).

*Feed, one slot.* `OfferInv` orders the ids: the index lists them newest first
(`NewestFirst`), the pointer names the newest that was flipped to, and the running
publication deletes nothing at or above it (`OfferIsKept`); a later id was built for no
older epoch (`EpochsInOrder`: a slot that has re-checked builds for an epoch that no
stored generation is ahead of). Readability, order, monotony and the refinement are all read
off it: in FeedPromise `SET` of a payload adds a generation, `SET active` offers the
newest, an invalidation changes the state, deletions and expiries drop or withdraw, and
every other step stutters. For retention, whatever is readable is listed or being
published (`ReadableIsListed`), and the list is short except between `LPUSH` and
`LTRIM` (`IndexIsShort`). `StaleIsReplaced` says where the promise of a rebuild is at any
time: in the handler that is about to enqueue it, in the queue, or in the slot; it needs
that a job is for the epoch its deduplication id names (`IdsNameEpochs`). When a
failure takes it away the epoch is in `lost`; the pointer was removed when the epoch
began, so only a slot that was past its recheck then can bring it back to an older
feed (`Excused`), and `overtaken` has that epoch.

*Profile.* The request whose insert added the row carries a token. It found no row, so
nobody held the token before it; the row stays, so nobody will after (`TokenHasRow`,
`RecordedOnce`); while it has not refreshed, the event has invalidated nothing
(`RefreshAhead`). For the stored profile, `SerialInv` says that it was computed from
some history (`StoredFrom`) that holds every answered event, and that every rebuild that
runs, of a handler or of a build, has loaded an extension of it (`Keeps`): as long as only one runs, replacing the
profile can only extend it. Without `overlapped` the last part fails, which is the lost
update of section 5. `AffinitiesStayWithinOne` compares two sums over different sets:
the events of one creator and all events, in absolute value; a part of a sum of
non-negative terms is within the sum, whatever the order it was added up in.

*Pipeline.* What a process knows at its await: the object is there at `insert`
(`UploadsFirst`), a pass that started behind the row is on no path to `upload`
(`LateFindRow`), features are there at `markAnalyzed` (`FeaturesFirst`), a job that
can be taken has an attempt left (`AttemptsLeft`). The last two theorems are about
histories in which no script ran (`scripted`); there no more than one execution is under
way (`JobRunsAlone`), it knows at each await whether features are stored
(`SlotKnows`), and where the job is says what the row and the features are (`JobSays`),
with `torn` where an execution left features behind an unmarked row and `died` where it
left no verdict. A transaction that throws needs no exception: the row is marked failed
and nothing was stored.

*Diversity.* While the strict pass runs, the counts the code keeps are those of the
list (`CountsMatch`); a relaxed pick is no strict position. The caps need no more, and
hold for every scoring. That the list is greedy needs that picks never change what was
admissible before them (`GreedyAt` speaks of a prefix, and prefixes stay), that the
code's `remaining` is what the list has not taken (`RemainingMatches`), and that strict
picks come before relaxed ones (`PrefixInv`).

*Recommender.* A call reads six snapshots of different moments, so nothing relates them
except what the code does with them: `CallInv` says what is known of each variable once
its query is answered and nothing of it before, whatever others write. For the shortage,
exploration either had room for every unseen eligible video or returned as many as were
asked for (`Explored`), and each pick takes one candidate away (`Counted`), so the list
ends short only when the candidates do.

*Preprocessing.* The plan, the snapping and the selection are folds over sequences. An
operator that is folded cannot be passed to an induction theorem, but a set can:
FiniteInduction states induction for subsets of the naturals and of the finite subsets
of a set, unfolds the folds of the community modules to one step over such a set, and
derives that sums agree, split and are monotone. The rest is arithmetic: the planned
instants rise because the midpoints do and rounding and capping do not reverse them; a
snapped instant stays within the window of its own; a frame is left out in the first
pass only if an earlier, nearly equal one was kept, and restored by rank until the
floor is met. `RunInv` joins that to the directory (`FilesInv`: what is on disk at each
await) and to the call (`ReadsInCallback`: the provider reads frames only while the
callback runs, which is inside the `try`), so no `finally` comes before a read.

*Vision.* The two flags change together, and once (`FlagsAgree`). Some call fell
back exactly when they have changed (`FallbackIsKnown`), and that call asks for plain
output from then on (`WaitingCall`). So a second fallback would need a flag that is
gone, and a call that finds the flag gone without having fallen back knows that
another has. That is also why the promise "a refusal never fails a video" cannot be
proved: the other one exists as soon as two requests are in flight.

*Demo page.* Of the server it is used that a page is cut out of one generation
(`PageIsOfOneFeed`) and is what the flow asked for (`Served`); with that, `applyPage`
decides between appending and replacing by the generation on show at that moment, so
nothing that happened since the request matters for `ListsNeverMix`. For the poll the
invariant is the meaning of the flag (`FlagTellsPoll`): it is up exactly while one flow
polls, only the flow that raised it lowers it, and each way out of a poll, the failing
request included, lowers it. A blank page is owed something by a flow that runs
(`Owes`): each way out of such a flow draws a feed or an error. That flow need not be
the only one, so `PageIsNeverSilentlyBlank` holds for any overlap; the order of the list
does not, and there `ShownInv` says that the one flow asks for what the page would ask
for now (`Asks`), so that its answer continues the list (`InOrder`). Every action moves
at most one flow (`OneFlowMoves`), and each has one lemma.

### Only model-checked

Liveness under fairness (`EventuallyFresh`, `QueuedIsDecided`, `PollEnds`), which, like
`ENABLED`, the provers do not reason about.


## 5. Known limits of the code

Beside the four violations above, with their lines under `findings`.

Feed:

* Two slots that publish at once may leave the pointer on a generation that one of
  them has trimmed (`cache.ts:224`; the comment above `publishGeneration`, 196-198,
  promises that a reader never sees a pointer to a missing payload).
* Two trims of different slots may disagree: an id pushed out between one slot's
  `LRANGE` and its `LTRIM` is trimmed and deleted by nobody, until it expires.
* When the build an invalidation should queue is lost (the enqueue fails, the request
  dies, or the job fails three times) while an older build is past its last check, a
  stale feed is on offer until the pointer expires and no rebuild is queued
  (LostEnqueueServesStale). `cache.ts:126-132` makes the same promise as `server.ts`.
* The id of a refill is free when the refill is done, so a session that still reads
  the old generation asks for another. A refill that cannot be queued fails the page
  that was in hand.
* A build that dies between `LPUSH` and `SET active` has taken a place in the index;
  the retry takes another, and the generation being read goes after one refresh.
* A profile rebuild that throws after the row was committed fails the request, and
  the retry is a duplicate: the feed is never invalidated for that event
  (`server.ts:113` before `120`).
* Two overlapping rebuilds of one profile may be stored in the wrong order, and the
  older history stays until the next interaction. They may be those of two requests,
  or of a request and of a build that found no profile (`recommender.ts:95`): a user's
  first interaction can be lost to a build queued for the cold cache. A feed built
  meanwhile leaves the interaction out as seen but is not ranked over it.
* With two slots two builds for one epoch may both pass the second check for an existing
  build and both publish.

Recommendation:

* One source that fails rejects the recommendation (`candidates.ts:384`), although the
  sources are separate so that "one failing source can never starve the feed"
  (`candidates.ts:21-22`); the build is retried.
* A cold start still has the user's fatigue and exploration terms.
* The greedy first pass may block itself where another choice would have satisfied
  the caps: a video with two tags may use up both.
* The list is only sure to be as long as the eligible videos allow while
  `CAND_EXPLORE_K` is not below the limit.

Ingestion and analysis:

* A crash between the features transaction and the status update leaves features
  behind a status that is not `analyzed`, and so does an update that throws, which the
  `catch` turns into `failed` (FeaturesLeftBehind): later runs skip the video because it
  has features (`analyzeVideo.ts:87`), the queue calls the retry done, and the video is
  not eligible. A forced run of an analysed video that fails leaves the same, without any
  fault of a write.
* A script run that fails marks `failed` a video another run has just analysed.
* Two passes with different manifests that both found a creator missing fill it one
  after the other. An upload whose `INSERT` fails leaves an object that no row names;
  a row whose enqueue fails waits for an analysis that nothing queues.
* Snapping may send an instant past the end, where no frame comes out, or two instants
  to one cut, which costs one of them.
* `structuredOutputProbed` is only set by a refusal, so a 4xx for any other reason late
  in a run, a 429 for one, downgrades the run.
* `scaledDimensions` makes both sides even, so an odd `FRAME_MAX_LONG_EDGE` is exceeded
  by one pixel; a side of one pixel becomes two, and so does the short side of a video
  longer than `FRAME_MAX_LONG_EDGE + 1` times its width, whose frame then has another
  shape.
* `MAX_ANALYSIS_FRAMES` is parsed as any integer: with 0 or less the budget is one
  frame all the same, over the cap.
* A failure to store the features is reported as of kind `preprocess`; a `mkdir` that
  fails after `mkdtemp` leaves an empty directory.

Demo page:

* With overlapping clicks, or when the profile request of a selection fails, the page
  may keep the feed of the user before, until the next click.
* Two clicks on "load more" ask for the same page, and both answers are appended.
* A request lost in the network may leave the message that the feed is being built.

## 6. Not modelled

* SQL, vector search, ffmpeg, the vision model, S3, HTTP and its parsing: their
  answers are choices or table constants. The base64 form of a cursor is a codec; that
  it binds a user and a generation is modelled.
* The 110 dimensions of a vector, cosine and embedding in floating point: only the
  order of scores, the sums of signal and the sign of a similarity matter to what is
  stated, and Ranking keeps them in integers.
* A Redis client that resends a command whose reply was lost; `LPUSH` and `INCR`
  are not idempotent, but the policy is the driver's. A job declared stalled while
  its process lives. `EXPIRE` of the index, merged with the `LPUSH` before it.
* Other writers of the profile: `scripts/simulate-events.ts`, which rebuilds the profile
  of every user it made events for, and the option `rebuildProfile` of
  `recommendCandidates`, which only tests set. An overlap with them loses events
  as the others do.
* `clearFeed` and `scripts/demo-reset.ts`, helpers of the demo and the tests that
  assume nothing else is running: epochs restart at 0 there.
* Interactions without an `eventId`: each is a new row, none is ever a duplicate.
* The mock provider, gold evaluation, benchmarks and the cost model: pure reports.
* Command-line output, the page's markup, configuration parsing, contact sheets and
  posters, migrations.

## 7. Plan

In this order:

1. `clearFeed` as a fault of FeedServing: epochs that restart at 0 under jobs of the
   old epoch 0. It would take `EpochInv` apart, which reads epochs as time.
2. Weaker hypotheses where the code allows them: what a failed build costs, as a
   bound of `RetentionBound` that counts the failures; `EpochsAreBuiltOnce` with
   refills, where an epoch is built at most once per reason.
3. What two slots do keep of `ActiveReadable`: the pointer is readable whenever no
   publication is running and no two have overlapped.
