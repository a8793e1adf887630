------------------------------- MODULE Sampling -------------------------------
(***************************************************************************)
(* Which frames of a video are looked at, and which of those are sent to   *)
(* the model (src/src/analysis/sampling.ts, dhash.ts, frames.ts,           *)
(* ffprobe.ts).  Pure: times are milliseconds, a hash is the set of its    *)
(* bits.                                                                   *)
(***************************************************************************)
EXTENDS Integers, SequencesExt

CONSTANTS
  policy,                     \* SamplingPolicy; headTailTrimPct in per cent
  SCENE_SNAP_WINDOW,
  FRAME_MAX_LONG_EDGE,
  DEDUP_HAMMING_THRESHOLD,
  MIN_ANALYSIS_FRAMES

ASSUME SamplingAssumption ==
  /\ policy \in [{"tierShort", "tierMedium", "tierLong", "tierMax", "maxFrames"} \cup
                 {"boundShort", "boundMedium", "boundLong", "headTailTrimPct"} -> Nat]
  /\ {SCENE_SNAP_WINDOW, FRAME_MAX_LONG_EDGE} \subseteq Nat
  /\ {DEDUP_HAMMING_THRESHOLD, MIN_ANALYSIS_FRAMES} \subseteq Nat

-----------------------------------------------------------------------------
Second == 1000

tierFor(duration) ==
  CASE duration <= policy.boundShort -> policy.tierShort
    [] duration \in policy.boundShort + 1 .. policy.boundMedium -> policy.tierMedium
    [] duration \in policy.boundMedium + 1 .. policy.boundLong -> policy.tierLong
    [] OTHER -> policy.tierMax

\* The tier, under the hard cap, and no more than a frame per second.
frameBudgetFor(duration) ==
  Max({1, Min({tierFor(duration), policy.maxFrames, Max({1, duration \div Second})})})

\* [...new Set(s)]: the first of each value.
Distinct(s) == FoldLeft(LAMBDA kept, x : IF Contains(kept, x) THEN kept ELSE Append(kept, x), <<>>, s)

\* The midpoint rule over the trimmed window, rounded to the millisecond, and
\* off the last frame.
planTimestamps(duration, count) ==
  LET trim == Min({policy.headTailTrimPct, 45})
      parts == 200 * count
      numerator(i) == duration * (2 * trim * count + (100 - 2 * trim) * (2 * i - 1))
      position(i) == (2 * numerator(i) + parts) \div (2 * parts)
  IN  Distinct([i \in 1 .. count |-> Min({position(i), Max({duration - 50, 0})})])

Distance(a, b) == IF a > b THEN a - b ELSE b - a

\* Where a timestamp lands: just after the nearest cut, the earlier of two at
\* one distance, unless none in the window is left.
snap(timestamp, cuts, used) ==
  LET near == {cut + 150 : cut \in cuts} \ used
      inWindow == {c \in near : Distance(c, timestamp) <= SCENE_SNAP_WINDOW}
      best == {c \in inWindow : \A d \in inWindow : Distance(c, timestamp) <= Distance(d, timestamp)}
  IN  IF inWindow = {} THEN timestamp ELSE Min(best)

snapped(timestamps, cuts) ==
  FoldLeft(LAMBDA result, t : Append(result, snap(t, cuts, ToSet(result))), <<>>, timestamps)

\* A set of numbers in ascending order.
Ascending(S) ==
  [n \in 1 .. Cardinality(S) |-> CHOOSE x \in S : Cardinality({y \in S : y < x}) = n - 1]

\* Mutation of snapToScenes: in the order of the plan.
SnapUnsorted(timestamps, cuts) == Distinct(snapped(timestamps, cuts))

snapToScenes(timestamps, cuts) ==
  IF cuts = {} \/ SCENE_SNAP_WINDOW = 0 THEN timestamps
  ELSE Ascending(ToSet(snapped(timestamps, cuts)))

-----------------------------------------------------------------------------
hammingDistance(a, b) == Cardinality((a \ b) \cup (b \ a))

\* Mutation of Reference: the frame before it, kept or not.
PreviousFrame(kept, i) == i - 1

\* The frame a candidate is compared with: the last one kept before it.
Reference(kept, i) == Max({k \in kept : k < i})

\* How far frame i is from its reference.
Novelty(frames, kept, i) == hammingDistance(frames[Reference(kept, i)].hash, frames[i].hash)

\* One pass in time order.
FirstPass(frames) ==
  FoldLeftDomain(LAMBDA kept, i :
      IF i = 1 \/ Novelty(frames, kept, i) > DEDUP_HAMMING_THRESHOLD THEN kept \cup {i} ELSE kept,
    {}, frames)

\* The most distinctive first, the earlier of two alike.
MoreNovel(frames, kept, j, i) ==
  \/ Novelty(frames, kept, j) > Novelty(frames, kept, i)
  \/ Novelty(frames, kept, j) = Novelty(frames, kept, i) /\ j < i

\* Below the floor, the most distinctive discards come back.
Restored(frames, kept) ==
  LET removed == DOMAIN frames \ kept
      rank(i) == Cardinality({j \in removed : MoreNovel(frames, kept, j, i)})
  IN  {i \in removed : rank(i) < MIN_ANALYSIS_FRAMES - Cardinality(kept)}

dedupeByHash(frames) ==
  LET kept == FirstPass(frames)
      order == Ascending(kept \cup Restored(frames, kept))
  IN  [n \in DOMAIN order |-> frames[order[n]]]

-----------------------------------------------------------------------------
\* A quarter turn in the container swaps the sides.
displayDimensions(size) ==
  IF size.rotation \in {90, 270} THEN [width |-> size.height, height |-> size.width]
  ELSE [width |-> size.width, height |-> size.height]

\* Mutation of scaledDimensions: the long edge is taken to be the height.
ScaleByHeight(d) ==
  LET even(x) == Max({2, ((x * FRAME_MAX_LONG_EDGE + d.height) \div (2 * d.height)) * 2})
  IN  IF d.height <= FRAME_MAX_LONG_EDGE THEN d
      ELSE [width |-> even(d.width), height |-> even(d.height)]

\* Even sides, the long one at the limit; a smaller video stays as it is.
scaledDimensions(d) ==
  LET longEdge == Max({d.width, d.height})
      even(x) == Max({2, ((x * FRAME_MAX_LONG_EDGE + longEdge) \div (2 * longEdge)) * 2})
  IN  IF longEdge <= FRAME_MAX_LONG_EDGE THEN d
      ELSE [width |-> even(d.width), height |-> even(d.height)]

=============================================================================
