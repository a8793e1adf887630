------------------------------ MODULE Preprocess ------------------------------
(***************************************************************************)
(* preprocessVideo (src/src/analysis/preprocess.ts) on one video, one      *)
(* await per action: any of them may throw, and what it leaves on disk is  *)
(* removed in the end.  keepFrames, a debug option, is left out.           *)
(***************************************************************************)
EXTENDS Sampling

CONSTANTS
  Videos,     \* files: duration, width, height, rotation and where the scene cuts are
  Pictures    \* hashes a frame may have

\* probeVideo refuses a file without sides or duration.
ASSUME FilesAssumption ==
  /\ \A v \in Videos :
       /\ v.duration \in Nat /\ {v.width, v.height} \subseteq Nat \ {0}
       /\ v.cuts \subseteq Nat /\ IsFiniteSet(v.cuts)
  /\ \A picture \in Pictures : IsFiniteSet(picture)

VARIABLES
  video,       \* the file
  step,        \* the await the run is at
  timestamps,  \* where to look, then
  position,    \* how many of them were tried
  extracted,   \* frames on disk, in order
  selected,    \* frames for the model
  target,      \* their size
  files        \* what the run's directory holds

preprocessVars == <<video, step, timestamps, position, extracted, selected, target, files>>

Source == 0  \* source.mp4; a frame's file is its number

Steps == {"idle", "download", "probe", "scenes", "extract", "hash", "callback", "cleanup", "ended"}

PreprocessInit ==
  /\ video \in Videos
  /\ step = "idle"
  /\ timestamps = <<>>
  /\ position = 0
  /\ extracted = <<>>
  /\ selected = <<>>
  /\ target = [width |-> 0, height |-> 0]
  /\ files = {}

Enter(from, to) ==
  /\ step = from
  /\ step' = to

\* The object is streamed to disk; a stream that breaks leaves a part of it.
Download ==
  /\ Enter("download", "probe") \/ Enter("download", "cleanup")
  /\ files' \in {files, files \cup {Source}}
  /\ step' = "probe" => Source \in files'
  /\ UNCHANGED <<video, timestamps, position, extracted, selected, target>>

ProbeFails ==
  /\ Enter("probe", "cleanup")
  /\ UNCHANGED <<video, timestamps, position, extracted, selected, target, files>>

\* What is sampled is decided by the bytes at hand, not by the stored row.
Probe ==
  /\ Enter("probe", "scenes") \/ Enter("probe", "extract")
  /\ timestamps' = planTimestamps(video.duration, frameBudgetFor(video.duration))
  /\ target' = scaledDimensions(displayDimensions(video))
  /\ UNCHANGED <<video, position, extracted, selected, files>>

\* A detection that fails finds no cut.
DetectScenes ==
  /\ Enter("scenes", "extract")
  /\ \E cuts \in {video.cuts, {}} : timestamps' = snapToScenes(timestamps, cuts)
  /\ UNCHANGED <<video, position, extracted, selected, target, files>>

\* Mutation of extractFrame: a timestamp keeps its number although others failed.
ExtractNumbered(picture) ==
  LET frame == [timestamp |-> timestamps[position + 1], index |-> position + 1, hash |-> picture]
  IN  /\ frame.timestamp < video.duration
      /\ extracted' = Append(extracted, frame)
      /\ files' = files \cup {Len(extracted) + 1}

\* Frames are numbered without gaps over those that came out.
extractFrame(picture) ==
  LET frame == [timestamp |-> timestamps[position + 1], index |-> Len(extracted) + 1, hash |-> picture]
  IN  /\ frame.timestamp < video.duration
      /\ extracted' = Append(extracted, frame)
      /\ files' = files \cup {frame.index}

\* One timestamp; when nothing comes out, past the end for one, it is skipped.
ExtractFrames ==
  /\ step = "extract"
  /\ IF position < Len(timestamps)
     THEN /\ position' = position + 1
          /\ UNCHANGED step
          /\ \/ \E picture \in Pictures : extractFrame(picture)
             \/ UNCHANGED <<extracted, files>>
     ELSE /\ step' = "hash"
          /\ UNCHANGED <<position, extracted, files>>
  /\ UNCHANGED <<video, timestamps, selected, target>>

\* All frames are hashed at once.  The output may end early: frames without a
\* hash are dropped.
HashFrames ==
  /\ Enter("hash", "callback")
  /\ \E n \in 0 .. Len(extracted) :
       /\ extracted' = SubSeq(extracted, 1, n)
       /\ selected' = dedupeByHash(SubSeq(extracted, 1, n))
  /\ UNCHANGED <<video, timestamps, position, target, files>>

HashingFails ==
  /\ extracted # <<>>
  /\ Enter("hash", "cleanup")
  /\ UNCHANGED <<video, timestamps, position, extracted, selected, target, files>>

\* The finally block.
Cleanup ==
  /\ Enter("cleanup", "ended")
  /\ files' = {}
  /\ UNCHANGED <<video, timestamps, position, extracted, selected, target>>

PreprocessVideo ==
  \/ Download
  \/ ProbeFails
  \/ Probe
  \/ DetectScenes
  \/ ExtractFrames
  \/ HashFrames
  \/ HashingFails

=============================================================================
