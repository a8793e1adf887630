----------------------------- MODULE AnalysisCalls -----------------------------
(***************************************************************************)
(* A run of scripts/analyze.ts: a pool takes the videos in order, a few at *)
(* a time, and every analysis calls the one vision provider while its      *)
(* frames are on disk.  The first video is followed through its            *)
(* preprocessing; of the others, whose frames are taken to be ready, only  *)
(* the calls are.  What a run does to the rows is in module Analysis.      *)
(***************************************************************************)
EXTENDS Preprocess, Vision

CONSTANT concurrency

ASSUME PoolAssumption ==
  /\ concurrency \in Nat \ {0}
  /\ Calls = 1 .. Cardinality(Calls) /\ 1 \in Calls

VARIABLE cursor   \* the next video to take

vars == <<preprocessVars, visionVars, cursor>>

Init == PreprocessInit /\ VisionInit /\ cursor = 1

Followed == 1

Returned(c) == IF c = Followed THEN step = "ended" ELSE calls[c].at = "done"

InFlight == {c \in Calls : c < cursor /\ ~Returned(c)}

\* A worker that is free takes a video.
TakeVideo ==
  /\ cursor \in Calls
  /\ Cardinality(InFlight) < concurrency
  /\ cursor' = cursor + 1
  /\ IF cursor = Followed
     THEN /\ Enter("idle", "download")
          /\ UNCHANGED calls
     ELSE /\ Begin(cursor)
          /\ UNCHANGED step
  /\ UNCHANGED <<video, timestamps, position, extracted, selected, target, files>>
  /\ UNCHANGED <<Flags, accepts, refusals>>

\* An error before the callback is not the provider's.
Preprocessing ==
  /\ PreprocessVideo
  /\ IF step' = "cleanup" THEN End(Followed, "preprocess") ELSE UNCHANGED calls
  /\ UNCHANGED <<Flags, accepts, refusals, cursor>>

\* beforeCleanup: the frames go to the provider while they exist.
BeforeCleanup ==
  /\ step = "callback"
  /\ calls[Followed].at = "idle"
  /\ IF selected = <<>>
     THEN /\ End(Followed, "no_frames")
          /\ step' = "cleanup"
     ELSE /\ Begin(Followed)
          /\ UNCHANGED step
  /\ UNCHANGED <<video, timestamps, position, extracted, selected, target, files>>
  /\ UNCHANGED <<Flags, accepts, refusals, cursor>>

\* The frames are in memory from here on; what led to them is of no more use.
ReadOwnFrames ==
  /\ {frame.index : frame \in ToSet(selected)} \subseteq files
  /\ ReadFrames(Followed)
  /\ timestamps' = <<>>
  /\ extracted' = <<>>
  /\ selected' = <<>>
  /\ UNCHANGED <<video, step, position, target, files, cursor>>

ReadOtherFrames ==
  /\ \E c \in Calls \ {Followed} : ReadFrames(c)
  /\ UNCHANGED <<preprocessVars, cursor>>

Answer ==
  /\ \E c \in Calls : Answered(c)
  /\ UNCHANGED <<preprocessVars, cursor>>

\* What was analysed is stored, all or nothing; a store that fails is reported as
\* any other error.
Persist ==
  /\ Enter("callback", "cleanup")
  /\ calls[Followed].at = "done"
  /\ \/ UNCHANGED calls
     \/ /\ calls[Followed].outcome = "analyzed"
        /\ calls' = [calls EXCEPT ![Followed].outcome = "preprocess"]
  /\ UNCHANGED <<video, timestamps, position, extracted, selected, target, files>>
  /\ UNCHANGED <<Flags, accepts, refusals, cursor>>

RemoveFiles ==
  /\ Cleanup
  /\ UNCHANGED <<visionVars, cursor>>

\* The script prints its summary.
Finished ==
  /\ \A c \in Calls : Returned(c)
  /\ UNCHANGED vars

Next ==
  \/ TakeVideo
  \/ Preprocessing
  \/ BeforeCleanup
  \/ ReadOwnFrames
  \/ ReadOtherFrames
  \/ Answer
  \/ Persist
  \/ RemoveFiles
  \/ Finished

Spec == Init /\ [][Next]_vars

-----------------------------------------------------------------------------
Frame == [timestamp : Nat, index : Nat \ {0}, hash : Pictures]

IsListOf(s, S) == DOMAIN s = 1 .. Len(s) /\ ToSet(s) \subseteq S

\* Type correctness of a run of the script: the file followed, what is sampled of
\* it, the directory, and every call to the provider.
TypeOK ==
  /\ video \in Videos
  /\ step \in Steps
  /\ IsListOf(timestamps, Nat)
  /\ position \in Nat
  /\ IsListOf(extracted, Frame)
  /\ IsListOf(selected, Frame)
  /\ target \in [width : Nat, height : Nat]
  /\ files \subseteq {Source} \cup 1 .. policy.maxFrames
  /\ {useStructuredOutput, structuredOutputProbed, accepts} \subseteq BOOLEAN
  /\ calls \in [Calls -> Call]
  /\ refusals \in 0 .. MaxRefusals
  /\ cursor \in 1 .. Cardinality(Calls) + 1

Planned == ToSet(planTimestamps(video.duration, frameBudgetFor(video.duration)))

\* Whatever the duration and wherever the cuts, a video is sampled at no more
\* instants than its budget and the hard cap, each later than the one before; as
\* planned they keep off the last frame, and snapped to cuts they stay within the
\* window of a planned one (frameBudgetFor, planTimestamps, snapToScenes).
PlanWithinBudget ==
  /\ Len(timestamps) <= frameBudgetFor(video.duration)
  /\ Len(timestamps) <= policy.maxFrames
  /\ \A i \in 2 .. Len(timestamps) : timestamps[i - 1] < timestamps[i]
  /\ step = "scenes" => ToSet(timestamps) \subseteq 0 .. Max({video.duration - 50, 0})
  /\ \A t \in ToSet(timestamps) : \E p \in Planned : Distance(p, t) <= SCENE_SNAP_WINDOW

\* The frames sent to the model stand for all that were hashed: they are in time
\* order, as many as the floor asks for and the video gives, above the floor each
\* is unlike the one before, and every frame left out is nearly the same as one
\* sent that is earlier (dedupeByHash).
SelectionIsRepresentative ==
  step = "callback" /\ extracted # <<>> =>
    /\ \A i \in 2 .. Len(selected) : selected[i - 1].timestamp < selected[i].timestamp
    /\ ToSet(selected) \subseteq ToSet(extracted)
    /\ Len(selected) >= Min({MIN_ANALYSIS_FRAMES, Len(extracted)})
    /\ Len(selected) > MIN_ANALYSIS_FRAMES =>
         \A i \in 2 .. Len(selected) :
           hammingDistance(selected[i - 1].hash, selected[i].hash) > DEDUP_HAMMING_THRESHOLD
    /\ \A frame \in ToSet(extracted) \ ToSet(selected) :
         \E earlier \in ToSet(selected) :
           /\ earlier.index < frame.index
           /\ hammingDistance(earlier.hash, frame.hash) <= DEDUP_HAMMING_THRESHOLD

\* Every frame selected is on disk under its own number until the provider has
\* read it, numbers have no gap, for the hashing pass reads an unbroken sequence,
\* and a run that is over, however it ended, left nothing behind (extractFrames,
\* beforeCleanup, the finally block of preprocessVideo).
FramesLiveUntilRead ==
  /\ \A i \in DOMAIN extracted : extracted[i].index = i
  /\ calls[Followed].at = "reading" =>
       {frame.index : frame \in ToSet(selected)} \subseteq files
  /\ step = "ended" => files = {}

\* What the model is paid for is bounded: frames under the hard cap, none larger
\* than the limit or than the video, upright as it is shown, and of its shape up
\* to the rounding to even sides (scaledDimensions, readRotation).
FramesAffordable ==
  step \in {"scenes", "extract", "hash", "callback"} =>
    LET shown == displayDimensions(video)
    IN  /\ Len(extracted) <= policy.maxFrames
        /\ Max({target.width, target.height}) <= Max({FRAME_MAX_LONG_EDGE, 2})
        /\ target.width <= shown.width /\ target.height <= shown.height
        /\ Distance(target.width * shown.height, target.height * shown.width)
             <= shown.width + shown.height

FellBack(c) == calls[c].requests > calls[c].attempt

\* A video costs one request per attempt, but for one video of the whole run one
\* more, the one sent again without the format; output that cannot be read is
\* reported only when every attempt is used up (analyze, callWithFallback).
OneProbePerRun ==
  /\ \A c \in Calls :
       /\ calls[c].attempt <= maxRetries + 1
       /\ calls[c].requests <= calls[c].attempt + 1
       /\ calls[c].outcome \in NotRead => calls[c].attempt = maxRetries + 1
  /\ \A c, d \in Calls : FellBack(c) /\ FellBack(d) => c = d

\* A server that refuses nothing but the format fails a video only when another
\* one, refused at the same time, made the run fall back first (callWithFallback).
LoneRefusalIsAbsorbed ==
  refusals = 0 =>
    \A c \in Calls :
      calls[c].outcome = "model_error" => ~accepts /\ \E d \in Calls \ {c} : FellBack(d)

\* "transparently falling back when the backend cannot do schema-constrained
\* decoding": a server that refuses nothing but the format fails no video.
RefusalNeverFailsVideo ==
  refusals = 0 => \A c \in Calls : calls[c].outcome # "model_error"

=============================================================================
