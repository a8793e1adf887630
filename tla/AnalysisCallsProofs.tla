-------------------------- MODULE AnalysisCallsProofs --------------------------
(***************************************************************************)
(* What holds of a run for any number of videos, any files and pictures,   *)
(* any pool, any number of retries and any refusals.                       *)
(*                                                                         *)
(* The calls: the provider's two flags only change together and only once; *)
(* the call that changes them is the one that fell back, so a call that    *)
(* finds them changed by another knows that there is another.              *)
(*                                                                         *)
(* The frames: what each pure function of module Sampling returns, by      *)
(* unfolding its fold over the range it runs on, and then the invariant of *)
(* the run that is followed: timestamps that rise, one frame at most per   *)
(* timestamp tried, a selection made of the frames that were hashed.       *)
(***************************************************************************)
EXTENDS AnalysisCalls, FiniteInduction, TLAPS

CallsTyped ==
  /\ calls \in [Calls -> Call]
  /\ cursor \in Nat
  /\ useStructuredOutput \in BOOLEAN

\* A video the pool has not taken has no call, and a call that has sent nothing
\* has no attempt and no verdict.
UntakenIsIdle ==
  /\ step # "idle" => Followed < cursor
  /\ \A c \in Calls :
       /\ c >= cursor => calls[c].at = "idle"
       /\ calls[c].at \in {"idle", "reading"} =>
            calls[c].attempt = 0 /\ calls[c].requests = 0 /\ calls[c].outcome = "none"

FlagsAgree == structuredOutputProbed = ~useStructuredOutput

\* The format is given up exactly when some call fell back, and that call has
\* asked for plain output since.
FallbackIsKnown ==
  /\ ~useStructuredOutput => \E c \in Calls : FellBack(c)
  /\ \A c \in Calls : FellBack(c) => ~useStructuredOutput

WaitingCall ==
  \A c \in Calls : calls[c].at = "waiting" =>
    /\ calls[c].requests >= calls[c].attempt
    /\ calls[c].fallback => FellBack(c)
    /\ FellBack(c) => ~calls[c].structured
    /\ calls[c].outcome = "none"

ProviderInv ==
  /\ CallsTyped
  /\ FlagsAgree
  /\ FallbackIsKnown
  /\ WaitingCall
  /\ OneProbePerRun
  /\ LoneRefusalIsAbsorbed
  /\ refusals \in Nat

CallsInv == UntakenIsIdle /\ ProviderInv

-----------------------------------------------------------------------------
LEMMA Constants == Calls \subseteq Nat \ {0} /\ Followed \in Calls /\ maxRetries \in Nat
<1>1. maxRetries \in Nat
  BY VisionAssumption
<1>2. Cardinality(Calls) \in Nat
  BY VisionAssumption, FS_CardinalityType
<1>3. Calls = 1 .. Cardinality(Calls) /\ 1 \in Calls
  BY PoolAssumption
<1>4. Calls \subseteq Nat \ {0}
  BY <1>2, <1>3
<1> QED BY <1>1, <1>3, <1>4 DEF Followed

\* Nothing is taken and nothing sent at first.
LEMMA CallsInvHolds == Init => CallsInv
<1> SUFFICES ASSUME Init PROVE CallsInv
  OBVIOUS
<1> USE DEF Init, VisionInit, PreprocessInit, Unstarted
<1>1. Calls \subseteq Nat \ {0} /\ maxRetries \in Nat
  BY Constants
<1>2. Unstarted \in Call
  BY DEF Call
<1>3. CallsTyped /\ UntakenIsIdle /\ FlagsAgree /\ refusals \in Nat
  BY <1>1, <1>2 DEF CallsTyped, UntakenIsIdle, FlagsAgree
<1>4. FallbackIsKnown /\ WaitingCall /\ OneProbePerRun /\ LoneRefusalIsAbsorbed
  BY <1>1 DEF FallbackIsKnown, WaitingCall, OneProbePerRun, LoneRefusalIsAbsorbed, FellBack, NotRead
<1> QED BY <1>3, <1>4 DEF CallsInv, ProviderInv

\* A call that goes on or ends without touching the flags: it has fallen back
\* after the step if and only if it had before.
LEMMA OneCallMoves ==
  ASSUME ProviderInv, NEW c \in Calls, NEW r \in Call,
         calls' = [calls EXCEPT ![c] = r],
         UNCHANGED <<Flags, accepts>>, cursor' \in Nat,
         refusals' \in Nat, refusals' >= refusals,
         r.attempt <= maxRetries + 1, r.requests <= r.attempt + 1,
         r.outcome \in NotRead => r.attempt = maxRetries + 1,
         r.requests > r.attempt <=> FellBack(c),
         r.at = "waiting" =>
           /\ r.requests >= r.attempt
           /\ r.fallback => FellBack(c)
           /\ r.structured => useStructuredOutput
           /\ r.outcome = "none",
         r.outcome = "model_error" /\ refusals' = 0 =>
           ~accepts /\ \E d \in Calls \ {c} : FellBack(d)
  PROVE  ProviderInv'
<1> USE DEF ProviderInv
<1>1. CallsTyped'
  BY DEF CallsTyped, Flags
<1>2. /\ calls'[c] = r
      /\ \A d \in Calls \ {c} : calls'[d] = calls[d]
  BY DEF CallsTyped
<1>3. \A d \in Calls : FellBack(d)' <=> FellBack(d)
  BY <1>2 DEF FellBack
<1>4. FlagsAgree' /\ FallbackIsKnown'
  BY <1>3 DEF FlagsAgree, FallbackIsKnown, Flags
<1>5. WaitingCall'
  BY <1>2, <1>3 DEF WaitingCall, FallbackIsKnown
<1>6. OneProbePerRun'
  BY <1>2, <1>3 DEF OneProbePerRun
<1>7. LoneRefusalIsAbsorbed'
  <2> SUFFICES ASSUME refusals' = 0, NEW d \in Calls, calls'[d].outcome = "model_error"
               PROVE  ~accepts' /\ \E e \in Calls \ {d} : FellBack(e)'
    BY DEF LoneRefusalIsAbsorbed
  <2>1. refusals = 0
    OBVIOUS
  <2>2. ~accepts /\ \E e \in Calls \ {d} : FellBack(e)
    BY <1>2, <2>1 DEF LoneRefusalIsAbsorbed
  <2> QED BY <1>3, <2>2
<1> QED BY <1>1, <1>4, <1>5, <1>6, <1>7

\* The one step that changes the flags.  Nobody fell back before it.
LEMMA Downgrade ==
  ASSUME ProviderInv, NEW c \in Calls,
         calls[c].at = "waiting", ~calls[c].fallback, useStructuredOutput,
         useStructuredOutput' = FALSE, structuredOutputProbed' = TRUE,
         Request(c, calls[c].attempt, TRUE),
         refusals' \in Nat, refusals' >= refusals, accepts' = accepts, cursor' = cursor
  PROVE  ProviderInv'
<1> USE DEF ProviderInv
<1>1. maxRetries \in Nat
  BY Constants
<1>2. calls[c] \in Call
  BY DEF CallsTyped
<1> DEFINE r == [at |-> "waiting", attempt |-> calls[c].attempt, structured |-> FALSE,
                 fallback |-> TRUE, requests |-> calls[c].requests + 1, outcome |-> "none"]
<1>3. r \in Call
  BY <1>2 DEF Call
<1>4. calls' = [calls EXCEPT ![c] = r]
  BY DEF Request, CallsTyped
<1>5. /\ calls'[c] = r
      /\ \A d \in Calls \ {c} : calls'[d] = calls[d]
  BY <1>4 DEF CallsTyped
<1>6. CallsTyped'
  BY <1>3, <1>4 DEF CallsTyped
<1>7. \A d \in Calls : ~FellBack(d)
  BY DEF FallbackIsKnown
<1>8. calls[c].requests = calls[c].attempt
  BY <1>2, <1>7 DEF WaitingCall, FellBack, Call
<1>9. \A d \in Calls : FellBack(d)' <=> d = c
  BY <1>2, <1>5, <1>7, <1>8 DEF FellBack, Call
<1>10. FlagsAgree' /\ FallbackIsKnown'
  BY <1>9 DEF FlagsAgree, FallbackIsKnown
<1>11. WaitingCall'
  <2> SUFFICES ASSUME NEW d \in Calls, calls'[d].at = "waiting"
               PROVE  /\ calls'[d].requests >= calls'[d].attempt
                      /\ calls'[d].fallback => FellBack(d)'
                      /\ FellBack(d)' => ~calls'[d].structured
                      /\ calls'[d].outcome = "none"
    BY DEF WaitingCall
  <2>1. CASE d = c
    BY <1>2, <1>5, <1>8, <1>9, <2>1 DEF Call
  <2>2. CASE d # c
    BY <1>5, <1>7, <1>9, <2>2 DEF WaitingCall
  <2> QED BY <2>1, <2>2
<1>12. OneProbePerRun'
  BY <1>1, <1>2, <1>5, <1>8, <1>9 DEF OneProbePerRun, Call, NotRead
<1>13. LoneRefusalIsAbsorbed'
  BY <1>5, <1>7 DEF LoneRefusalIsAbsorbed
<1> QED BY <1>6, <1>10, <1>11, <1>12, <1>13
-----------------------------------------------------------------------------
\* A call that ends keeps what it has sent.
LEMMA EndKeepsInv ==
  ASSUME ProviderInv, NEW c \in Calls, NEW kind \in Kinds \cup {"analyzed"}, End(c, kind),
         UNCHANGED <<Flags, accepts, cursor>>, refusals' \in Nat, refusals' >= refusals,
         kind \in NotRead => calls[c].attempt = maxRetries + 1,
         kind = "model_error" /\ refusals' = 0 =>
           ~accepts /\ \E d \in Calls \ {c} : FellBack(d)
  PROVE  ProviderInv'
<1> DEFINE r == [at |-> "done", attempt |-> calls[c].attempt, structured |-> FALSE,
                 fallback |-> FALSE, requests |-> calls[c].requests, outcome |-> kind]
<1>1. calls[c] \in Call
  BY DEF ProviderInv, CallsTyped
<1>3. r \in Call
  BY <1>1 DEF Call
<1>4. calls' = [calls EXCEPT ![c] = r]
  BY DEF End, ProviderInv, CallsTyped
<1>5. /\ r.attempt = calls[c].attempt
      /\ r.requests = calls[c].requests
      /\ r.outcome = kind
      /\ r.at # "waiting"
  OBVIOUS
<1>6. cursor' \in Nat
  BY DEF ProviderInv, CallsTyped
<1>7. calls[c].attempt <= maxRetries + 1 /\ calls[c].requests <= calls[c].attempt + 1
  BY DEF ProviderInv, OneProbePerRun
<1>8. r.requests > r.attempt <=> FellBack(c)
  BY <1>5 DEF FellBack
<1> HIDE DEF r
<1> QED BY <1>3, <1>4, <1>5, <1>6, <1>7, <1>8, OneCallMoves

\* An attempt is a request in the format of the moment.
LEMMA AttemptKeepsInv ==
  ASSUME ProviderInv, NEW c \in Calls, NEW n \in Nat, Request(c, n, FALSE),
         UNCHANGED <<Flags, accepts, refusals, cursor>>,
         n <= maxRetries + 1, n = calls[c].attempt + 1,
         calls[c].requests >= calls[c].attempt
  PROVE  ProviderInv'
<1> DEFINE r == [at |-> "waiting", attempt |-> n, structured |-> useStructuredOutput,
                 fallback |-> FALSE, requests |-> calls[c].requests + 1, outcome |-> "none"]
<1>1. calls[c] \in Call
  BY DEF ProviderInv, CallsTyped
<1>2. r \in Call
  BY <1>1 DEF Call, ProviderInv, CallsTyped
<1>3. calls' = [calls EXCEPT ![c] = r]
  BY DEF Request, Flags, ProviderInv, CallsTyped
<1>4. r.requests <= r.attempt + 1 /\ r.requests >= r.attempt
  BY <1>1 DEF ProviderInv, OneProbePerRun, Call
<1>5. r.requests > r.attempt <=> FellBack(c)
  BY <1>1 DEF FellBack, Call
<1>6. /\ r.attempt = n /\ ~r.fallback /\ r.structured = useStructuredOutput
      /\ r.outcome = "none" /\ r.outcome \notin NotRead
  BY DEF NotRead
<1>7. cursor' \in Nat /\ refusals' \in Nat /\ refusals' >= refusals
  BY DEF ProviderInv, CallsTyped
<1> HIDE DEF r
<1> QED BY <1>2, <1>3, <1>4, <1>5, <1>6, <1>7, OneCallMoves

\* Every answer to a call in flight.
LEMMA AnswerKeepsInv ==
  ASSUME ProviderInv, NEW c \in Calls, Answered(c), cursor' = cursor
  PROVE  ProviderInv'
<1> USE DEF ProviderInv
<1>1. /\ calls[c].at = "waiting" /\ accepts' = accepts
      /\ calls[c] \in Call
      /\ calls[c].requests >= calls[c].attempt
  BY DEF Answered, CallsTyped, WaitingCall
<1>2. /\ maxRetries \in Nat
      /\ calls[c].attempt \in Nat
      /\ calls[c].attempt <= maxRetries + 1
  BY <1>1, Constants DEF Call, OneProbePerRun
<1>3. CASE Refused(c)
  <2>1. refusals' \in Nat /\ refusals' >= refusals
    BY <1>3 DEF Refused
  <2>2. CASE ~calls[c].fallback /\ useStructuredOutput /\ ~structuredOutputProbed
    BY <1>1, <1>3, <2>1, <2>2, Downgrade DEF Refused, callWithFallback
  <2>3. CASE ~(~calls[c].fallback /\ useStructuredOutput /\ ~structuredOutputProbed)
    <3>1. End(c, "model_error") /\ UNCHANGED Flags
      BY <1>3, <2>3 DEF Refused, callWithFallback
    <3>2. ASSUME refusals' = 0
          PROVE  ~accepts /\ \E d \in Calls \ {c} : FellBack(d)
      <4>1. calls[c].structured /\ ~accepts
        BY <1>3, <3>2 DEF Refused
      <4>2. ~FellBack(c) /\ ~calls[c].fallback
        BY <1>1, <4>1 DEF WaitingCall
      <4>3. ~useStructuredOutput
        BY <2>3, <4>2 DEF FlagsAgree
      <4> QED BY <4>1, <4>2, <4>3 DEF FallbackIsKnown
    <3> QED BY <1>1, <2>1, <3>1, <3>2, EndKeepsInv DEF NotRead, Kinds
  <2> QED BY <2>2, <2>3
<1>4. CASE \E kind \in NotReached : Unreachable(c, kind)
  <2>1. PICK kind \in NotReached : Unreachable(c, kind)
    BY <1>4
  <2>2. kind \in Kinds /\ kind \notin NotRead /\ kind # "model_error"
    BY DEF NotReached, NotRead, Kinds
  <2>3. End(c, kind) /\ UNCHANGED <<Flags, refusals>>
    BY <2>1 DEF Unreachable
  <2> QED BY <1>1, <2>2, <2>3, EndKeepsInv
<1>5. CASE Valid(c)
  <2>1. End(c, "analyzed") /\ UNCHANGED <<Flags, refusals>>
    BY <1>5 DEF Valid
  <2> QED BY <1>1, <2>1, EndKeepsInv DEF NotRead
<1>6. CASE \E kind \in NotRead : Repair(c, kind)
  <2>1. PICK kind \in NotRead : Repair(c, kind)
    BY <1>6
  <2>2. UNCHANGED <<Flags, refusals>>
    BY <2>1 DEF Repair
  <2>3. CASE calls[c].attempt < maxRetries + 1
    <3>1. Request(c, calls[c].attempt + 1, FALSE)
      BY <2>1, <2>3 DEF Repair
    <3>2. calls[c].attempt + 1 \in Nat /\ calls[c].attempt + 1 <= maxRetries + 1
      BY <1>2, <2>3
    <3> QED BY <1>1, <2>2, <3>1, <3>2, AttemptKeepsInv
  <2>4. CASE ~(calls[c].attempt < maxRetries + 1)
    <3>1. End(c, kind)
      BY <2>1, <2>4 DEF Repair
    <3>2. calls[c].attempt = maxRetries + 1
      BY <1>2, <2>4
    <3>3. kind \in Kinds /\ kind # "model_error"
      BY DEF NotRead, Kinds
    <3> QED BY <1>1, <2>2, <3>1, <3>2, <3>3, EndKeepsInv
  <2> QED BY <2>3, <2>4
<1> QED BY <1>3, <1>4, <1>5, <1>6 DEF Answered
-----------------------------------------------------------------------------
LEMMA NoCallMoves ==
  ASSUME ProviderInv, UNCHANGED <<calls, Flags, accepts, refusals>>, cursor' \in Nat
  PROVE  ProviderInv'
BY DEF ProviderInv, CallsTyped, FlagsAgree, FallbackIsKnown, WaitingCall, OneProbePerRun,
       LoneRefusalIsAbsorbed, FellBack, Flags

\* What a call that is not in flight may become: taken, or settled by the script.
LEMMA QuietCallMoves ==
  ASSUME ProviderInv, NEW c \in Calls, NEW r \in Call,
         r.attempt = calls[c].attempt, r.requests = calls[c].requests,
         r.at # "waiting", r.outcome \in {"none", "preprocess"},
         calls' = [calls EXCEPT ![c] = r],
         UNCHANGED <<Flags, accepts, refusals>>, cursor' \in Nat
  PROVE  ProviderInv'
<1>1. calls[c].attempt <= maxRetries + 1 /\ calls[c].requests <= calls[c].attempt + 1
  BY DEF ProviderInv, OneProbePerRun
<1>2. r.requests > r.attempt <=> FellBack(c)
  BY DEF FellBack
<1>3. refusals' \in Nat /\ refusals' >= refusals
  BY DEF ProviderInv
<1>4. r.outcome \notin NotRead /\ r.outcome # "model_error"
  BY DEF NotRead
<1> QED BY <1>1, <1>2, <1>3, <1>4, OneCallMoves

\* A call begins by reading its frames; it has sent nothing yet.
LEMMA BeginKeepsInv ==
  ASSUME ProviderInv, NEW c \in Calls, calls[c].outcome = "none", Begin(c),
         UNCHANGED <<Flags, accepts, refusals>>, cursor' \in Nat
  PROVE  ProviderInv'
<1> DEFINE r == [calls[c] EXCEPT !.at = "reading"]
<1>1. calls[c] \in Call
  BY DEF ProviderInv, CallsTyped
<1>2. /\ r \in Call
      /\ r.attempt = calls[c].attempt /\ r.requests = calls[c].requests
      /\ r.at = "reading" /\ r.outcome = "none"
  BY <1>1 DEF Call
<1>3. calls' = [calls EXCEPT ![c] = r]
  BY DEF Begin, ProviderInv, CallsTyped
<1> HIDE DEF r
<1> QED BY <1>2, <1>3, QuietCallMoves

\* Frames are read once per call: what is reading has sent nothing.
LEMMA ReadFramesKeepsInv ==
  ASSUME CallsInv, NEW c \in Calls, ReadFrames(c), cursor' = cursor
  PROVE  ProviderInv'
<1>1. calls[c].at = "reading" /\ Request(c, 1, FALSE) /\ UNCHANGED <<Flags, accepts, refusals>>
  BY DEF ReadFrames
<1>2. calls[c].attempt = 0 /\ calls[c].requests = 0
  BY <1>1 DEF CallsInv, UntakenIsIdle
<1>3. /\ 1 \in Nat /\ 1 <= maxRetries + 1
      /\ 1 = calls[c].attempt + 1
      /\ calls[c].requests >= calls[c].attempt
  BY <1>2, Constants
<1>4. ProviderInv
  BY DEF CallsInv
<1> QED BY <1>1, <1>3, <1>4, AttemptKeepsInv

\* Every step of the run keeps what is known of the provider.
LEMMA ProviderStep == CallsInv /\ [Next]_vars => ProviderInv'
<1> SUFFICES ASSUME CallsInv, [Next]_vars PROVE ProviderInv'
  OBVIOUS
<1>1. ProviderInv /\ cursor \in Nat /\ Followed \in Calls
  BY Constants DEF CallsInv, ProviderInv, CallsTyped
<1>2. CASE TakeVideo
  <2>1. cursor \in Calls /\ cursor' \in Nat /\ UNCHANGED <<Flags, accepts, refusals>>
    BY <1>1, <1>2 DEF TakeVideo
  <2>2. CASE cursor = Followed
    BY <1>1, <1>2, <2>1, <2>2, NoCallMoves DEF TakeVideo
  <2>3. CASE cursor # Followed
    <3>1. Begin(cursor)
      BY <1>2, <2>3 DEF TakeVideo
    <3>2. calls[cursor].outcome = "none"
      BY <1>1, <2>1 DEF CallsInv, UntakenIsIdle
    <3> QED BY <1>1, <2>1, <3>1, <3>2, BeginKeepsInv
  <2> QED BY <2>2, <2>3
<1>3. CASE Preprocessing
  <2>1. UNCHANGED <<Flags, accepts, refusals, cursor>>
    BY <1>3 DEF Preprocessing
  <2>2. CASE step' = "cleanup"
    <3>1. End(Followed, "preprocess")
      BY <1>3, <2>2 DEF Preprocessing
    <3>2. refusals' \in Nat /\ refusals' >= refusals
      BY <1>1, <2>1 DEF ProviderInv
    <3> QED BY <1>1, <2>1, <3>1, <3>2, EndKeepsInv DEF Kinds, NotRead
  <2>3. CASE step' # "cleanup"
    BY <1>1, <1>3, <2>1, <2>3, NoCallMoves DEF Preprocessing
  <2> QED BY <2>2, <2>3
<1>4. CASE BeforeCleanup
  <2>1. UNCHANGED <<Flags, accepts, refusals, cursor>> /\ calls[Followed].at = "idle"
    BY <1>4 DEF BeforeCleanup
  <2>2. CASE selected = <<>>
    <3>1. End(Followed, "no_frames")
      BY <1>4, <2>2 DEF BeforeCleanup
    <3>2. refusals' \in Nat /\ refusals' >= refusals
      BY <1>1, <2>1 DEF ProviderInv
    <3> QED BY <1>1, <2>1, <3>1, <3>2, EndKeepsInv DEF Kinds, NotRead
  <2>3. CASE selected # <<>>
    <3>1. Begin(Followed)
      BY <1>4, <2>3 DEF BeforeCleanup
    <3>2. calls[Followed].outcome = "none"
      BY <1>1, <2>1 DEF CallsInv, UntakenIsIdle
    <3> QED BY <1>1, <2>1, <3>1, <3>2, BeginKeepsInv
  <2> QED BY <2>2, <2>3
<1>5. CASE ReadOwnFrames
  BY <1>1, <1>5, ReadFramesKeepsInv DEF ReadOwnFrames
<1>6. CASE ReadOtherFrames
  BY <1>6, ReadFramesKeepsInv DEF ReadOtherFrames
<1>7. CASE Answer
  BY <1>1, <1>7, AnswerKeepsInv DEF Answer
<1>8. CASE Persist
  <2>1. UNCHANGED <<Flags, accepts, refusals, cursor>> /\ calls[Followed].at = "done"
    BY <1>8 DEF Persist
  <2>2. CASE UNCHANGED calls
    BY <1>1, <2>1, <2>2, NoCallMoves
  <2>3. CASE calls' = [calls EXCEPT ![Followed].outcome = "preprocess"]
    <3> DEFINE r == [calls[Followed] EXCEPT !.outcome = "preprocess"]
    <3>1. calls[Followed] \in Call
      BY <1>1 DEF ProviderInv, CallsTyped
    <3>2. /\ r \in Call
          /\ r.attempt = calls[Followed].attempt /\ r.requests = calls[Followed].requests
          /\ r.at = "done" /\ r.outcome = "preprocess"
      BY <2>1, <3>1 DEF Call, Kinds
    <3>3. calls' = [calls EXCEPT ![Followed] = r]
      BY <1>1, <2>3 DEF ProviderInv, CallsTyped
    <3> HIDE DEF r
    <3> QED BY <1>1, <2>1, <3>2, <3>3, QuietCallMoves
  <2> QED BY <1>8, <2>2, <2>3 DEF Persist
<1>9. CASE RemoveFiles
  BY <1>1, <1>9, NoCallMoves DEF RemoveFiles, visionVars, Flags
<1>10. CASE Finished \/ UNCHANGED vars
  BY <1>1, <1>10, NoCallMoves DEF Finished, vars, visionVars, Flags
<1> QED BY <1>2, <1>3, <1>4, <1>5, <1>6, <1>7, <1>8, <1>9, <1>10 DEF Next
-----------------------------------------------------------------------------
\* A call in flight, or one that ends, is that of a video taken.
LEMMA MovedCallIsTaken ==
  ASSUME CallsTyped, UntakenIsIdle, NEW c \in Calls, c < cursor,
         step' = step \/ step # "idle", cursor' = cursor,
         \A d \in Calls \ {c} : calls'[d] = calls[d],
         calls'[c].at \in {"waiting", "done"}
  PROVE  UntakenIsIdle'
<1>1. c \in Nat
  BY Constants
<1> QED BY <1>1, Constants DEF UntakenIsIdle, CallsTyped

\* Every step leaves the videos not taken alone.
LEMMA UntakenStep == CallsInv /\ [Next]_vars => UntakenIsIdle'
<1> SUFFICES ASSUME CallsInv, [Next]_vars PROVE UntakenIsIdle'
  OBVIOUS
<1>1. /\ CallsTyped /\ UntakenIsIdle /\ cursor \in Nat
      /\ Followed \in Calls /\ Calls \subseteq Nat
  BY Constants DEF CallsInv, ProviderInv, CallsTyped
<1>2. ASSUME NEW c \in Calls, NEW outcome, End(c, outcome)
      PROVE  calls'[c].at = "done" /\ \A d \in Calls \ {c} : calls'[d] = calls[d]
  BY <1>1, <1>2 DEF End, CallsTyped
<1>3. ASSUME NEW c \in Calls, NEW n, NEW fallback, Request(c, n, fallback)
      PROVE  calls'[c].at = "waiting" /\ \A d \in Calls \ {c} : calls'[d] = calls[d]
  BY <1>1, <1>3 DEF Request, CallsTyped
<1>4. ASSUME NEW c \in Calls, calls[c].at # "idle" PROVE c < cursor
  BY <1>1, <1>4 DEF UntakenIsIdle
<1>5. ASSUME NEW c \in Calls, ReadFrames(c), UNCHANGED <<step, cursor>>
      PROVE  UntakenIsIdle'
  <2>1. c < cursor /\ Request(c, 1, FALSE)
    BY <1>4, <1>5 DEF ReadFrames
  <2> QED BY <1>1, <1>3, <1>5, <2>1, MovedCallIsTaken
<1>6. CASE TakeVideo
  <2>1. cursor \in Calls /\ cursor' = cursor + 1
    BY <1>6 DEF TakeVideo
  <2>2. CASE cursor = Followed
    BY <1>1, <1>6, <2>1, <2>2 DEF TakeVideo, Enter, UntakenIsIdle
  <2>3. CASE cursor # Followed
    <3>1. /\ calls' = [calls EXCEPT ![cursor].at = "reading"]
          /\ step' = step
      BY <1>6, <2>3 DEF TakeVideo, Begin
    <3>2. /\ calls[cursor].attempt = 0 /\ calls[cursor].requests = 0
          /\ calls[cursor].outcome = "none"
      BY <1>1, <2>1 DEF UntakenIsIdle
    <3>3. calls[cursor] \in Call
      BY <1>1, <2>1 DEF CallsTyped
    <3>4. /\ calls'[cursor].attempt = 0 /\ calls'[cursor].requests = 0
          /\ calls'[cursor].outcome = "none"
          /\ \A d \in Calls \ {cursor} : calls'[d] = calls[d]
      BY <1>1, <2>1, <3>1, <3>2, <3>3 DEF CallsTyped, Call
    <3> QED BY <1>1, <2>1, <3>1, <3>4 DEF UntakenIsIdle
  <2> QED BY <2>2, <2>3
<1>7. CASE Preprocessing
  <2>1. step # "idle" /\ cursor' = cursor
    BY <1>7 DEF Preprocessing, PreprocessVideo, Download, ProbeFails, Probe, DetectScenes,
                ExtractFrames, HashFrames, HashingFails, Enter
  <2>2. Followed < cursor
    BY <1>1, <2>1 DEF UntakenIsIdle
  <2>3. CASE step' = "cleanup"
    <3>1. End(Followed, "preprocess")
      BY <1>7, <2>3 DEF Preprocessing
    <3> QED BY <1>1, <1>2, <2>1, <2>2, <3>1, MovedCallIsTaken
  <2>4. CASE step' # "cleanup"
    <3>1. calls' = calls
      BY <1>7, <2>4 DEF Preprocessing
    <3> QED BY <1>1, <2>1, <2>2, <3>1 DEF UntakenIsIdle
  <2> QED BY <2>3, <2>4
<1>8. CASE BeforeCleanup
  <2>1. step = "callback" /\ cursor' = cursor /\ calls[Followed].at = "idle"
    BY <1>8 DEF BeforeCleanup
  <2>2. Followed < cursor
    BY <1>1, <2>1 DEF UntakenIsIdle
  <2>3. CASE selected = <<>>
    <3>1. End(Followed, "no_frames")
      BY <1>8, <2>3 DEF BeforeCleanup
    <3> QED BY <1>1, <1>2, <2>1, <2>2, <3>1, MovedCallIsTaken
  <2>4. CASE selected # <<>>
    <3>1. calls' = [calls EXCEPT ![Followed].at = "reading"] /\ step' = step
      BY <1>8, <2>4 DEF BeforeCleanup, Begin
    <3>2. /\ calls[Followed].attempt = 0 /\ calls[Followed].requests = 0
          /\ calls[Followed].outcome = "none" /\ calls[Followed] \in Call
      BY <1>1, <2>1 DEF UntakenIsIdle, CallsTyped
    <3>3. /\ calls'[Followed].attempt = 0 /\ calls'[Followed].requests = 0
          /\ calls'[Followed].outcome = "none"
          /\ \A d \in Calls \ {Followed} : calls'[d] = calls[d]
      BY <1>1, <3>1, <3>2 DEF CallsTyped, Call
    <3> QED BY <1>1, <2>1, <2>2, <3>1, <3>3 DEF UntakenIsIdle
  <2> QED BY <2>3, <2>4
<1>9. CASE ReadOwnFrames
  BY <1>1, <1>5, <1>9 DEF ReadOwnFrames
<1>10. CASE ReadOtherFrames
  BY <1>5, <1>10 DEF ReadOtherFrames, preprocessVars
<1>11. CASE Answer
  <2>1. PICK c \in Calls : Answered(c)
    BY <1>11 DEF Answer
  <2>2. c < cursor /\ step' = step /\ cursor' = cursor
    BY <1>4, <1>11, <2>1 DEF Answer, Answered, preprocessVars
  <2>3. \/ \E outcome \in Kinds \cup {"analyzed"} : End(c, outcome)
        \/ \E n \in {calls[c].attempt, calls[c].attempt + 1}, fallback \in BOOLEAN :
             Request(c, n, fallback)
    BY <2>1 DEF Answered, Refused, callWithFallback, Unreachable, Valid, Repair, Kinds,
                NotRead, NotReached
  <2>4. /\ calls'[c].at \in {"waiting", "done"}
        /\ \A d \in Calls \ {c} : calls'[d] = calls[d]
    BY <1>2, <1>3, <2>3
  <2> QED BY <1>1, <2>2, <2>4, MovedCallIsTaken
<1>12. CASE Persist
  <2>1. /\ calls[Followed].at = "done" /\ step # "idle" /\ cursor' = cursor
        /\ \/ calls' = calls
           \/ calls' = [calls EXCEPT ![Followed].outcome = "preprocess"]
    BY <1>12 DEF Persist, Enter
  <2>2. /\ calls'[Followed].at = "done"
        /\ \A d \in Calls \ {Followed} : calls'[d] = calls[d]
    BY <1>1, <2>1 DEF CallsTyped, Call
  <2>3. Followed < cursor
    BY <1>4, <1>1, <2>1
  <2> QED BY <1>1, <2>1, <2>2, <2>3, MovedCallIsTaken
<1>13. CASE RemoveFiles
  <2>1. step # "idle" /\ UNCHANGED <<calls, cursor>>
    BY <1>13 DEF RemoveFiles, Cleanup, Enter, visionVars
  <2> QED BY <1>1, <2>1 DEF UntakenIsIdle
<1>14. CASE Finished \/ UNCHANGED vars
  BY <1>1, <1>14 DEF Finished, vars, visionVars, preprocessVars, UntakenIsIdle
<1> QED BY <1>6, <1>7, <1>8, <1>9, <1>10, <1>11, <1>12, <1>13, <1>14 DEF Next

-----------------------------------------------------------------------------
LEMMA CallsInvAlways == Spec => []CallsInv
<1>1. CallsInv /\ [Next]_vars => CallsInv'
  BY ProviderStep, UntakenStep DEF CallsInv
<1> QED BY CallsInvHolds, <1>1, PTL DEF Spec

(* However many videos share the provider, the format is given up once for *)
(* all of them, at the cost of one request, and every video's requests are *)
(* bounded by its attempts (analyze, callWithFallback).                    *)
THEOREM RequestsAreBounded == Spec => []OneProbePerRun
<1>1. CallsInv => OneProbePerRun
  BY DEF CallsInv, ProviderInv
<1> QED BY CallsInvAlways, <1>1, PTL

(* A refusal of the format alone fails a video only when another one fell  *)
(* back (callWithFallback).                                                *)
THEOREM LoneRefusalsAreAbsorbed == Spec => []LoneRefusalIsAbsorbed
<1>1. CallsInv => LoneRefusalIsAbsorbed
  BY DEF CallsInv, ProviderInv
<1> QED BY CallsInvAlways, <1>1, PTL

-----------------------------------------------------------------------------
(* Lists in ascending order. *)

Numbers(S) == S \subseteq Int

\* Ascending(S) lists S, each number once, in order.
LEMMA AscendingLists ==
  ASSUME NEW S, Numbers(S), IsFiniteSet(S)
  PROVE  /\ Ascending(S) \in [1 .. Cardinality(S) -> S]
         /\ ToSet(Ascending(S)) = S
         /\ \A i, j \in 1 .. Cardinality(S) : i < j => Ascending(S)[i] < Ascending(S)[j]
<1> DEFINE R == {p \in S \X S : p[1] < p[2]}
           N == 0 .. Cardinality(S) - 1
           At(n, x) == Cardinality({y \in S : y < x}) = n - 1
<1>1. Cardinality(S) \in Nat
  BY FS_CardinalityType
<1>2. IsOrder(S, R)
  BY DEF IsOrder, Numbers
<1>3. \A x \in S : RankIn(S, R, x) = Cardinality({y \in S : y < x})
  <2>1. \A x \in S : {y \in S : <<y, x>> \in R} = {y \in S : y < x}
    OBVIOUS
  <2> QED BY <2>1 DEF RankIn
<1>4. \A x, y \in S : x < y <=> RankIn(S, R, x) < RankIn(S, R, y)
  <2>1. \A x, y \in S : <<x, y>> \in R <=> x < y
    OBVIOUS
  <2> HIDE DEF R
  <2> QED BY <1>2, <2>1, RanksFollow
<1>5. \A n \in N : \E x \in S : RankIn(S, R, x) = n
  <2> HIDE DEF R
  <2> QED BY <1>2, RanksFill
<1>6. \A x \in S : RankIn(S, R, x) \in N
  BY <1>2, RanksFollow
<1> HIDE DEF R, At
<1>7. \A n \in 1 .. Cardinality(S) : \E x \in S : At(n, x)
  <2>1. \A n \in 1 .. Cardinality(S) : n - 1 \in N
    BY <1>1
  <2> QED BY <1>3, <1>5, <2>1 DEF At
<1>8. Ascending(S) = [n \in 1 .. Cardinality(S) |-> CHOOSE x \in S : At(n, x)]
  BY DEF Ascending, At
<1>9. \A n \in 1 .. Cardinality(S) : Ascending(S)[n] \in S /\ At(n, Ascending(S)[n])
  BY <1>7, <1>8
<1>10. Ascending(S) \in [1 .. Cardinality(S) -> S]
  BY <1>8, <1>9
<1>11. ASSUME NEW i \in 1 .. Cardinality(S), NEW j \in 1 .. Cardinality(S), i < j
       PROVE  Ascending(S)[i] < Ascending(S)[j]
  <2>1. /\ RankIn(S, R, Ascending(S)[i]) = i - 1
        /\ RankIn(S, R, Ascending(S)[j]) = j - 1
    BY <1>3, <1>9 DEF At
  <2>2. Ascending(S)[i] \in S /\ Ascending(S)[j] \in S
    BY <1>9
  <2>3. i - 1 < j - 1
    BY <1>11
  <2>4. RankIn(S, R, Ascending(S)[i]) < RankIn(S, R, Ascending(S)[j])
    BY <2>1, <2>3
  <2> QED BY <1>4, <2>2, <2>4
<1>12. ASSUME NEW x \in S PROVE \E n \in 1 .. Cardinality(S) : Ascending(S)[n] = x
  <2>1. PICK n \in 1 .. Cardinality(S) : RankIn(S, R, x) = n - 1
    <3>1. RankIn(S, R, x) + 1 \in 1 .. Cardinality(S) /\ RankIn(S, R, x) = (RankIn(S, R, x) + 1) - 1
      BY <1>1, <1>6
    <3> QED BY <3>1
  <2>2. RankIn(S, R, Ascending(S)[n]) = n - 1 /\ Ascending(S)[n] \in S
    BY <1>3, <1>9 DEF At
  <2>3. ~(x < Ascending(S)[n]) /\ ~(Ascending(S)[n] < x)
    <3>1. ~(n - 1 < n - 1)
      OBVIOUS
    <3>2. /\ ~(RankIn(S, R, x) < RankIn(S, R, Ascending(S)[n]))
          /\ ~(RankIn(S, R, Ascending(S)[n]) < RankIn(S, R, x))
      BY <2>1, <2>2, <3>1
    <3> QED BY <1>4, <2>2, <3>2
  <2>4. x \in Int /\ Ascending(S)[n] \in Int
    BY <2>2 DEF Numbers
  <2> QED BY <2>3, <2>4
<1>13. ToSet(Ascending(S)) = S
  BY <1>9, <1>10, <1>12 DEF ToSet
<1> QED BY <1>10, <1>11, <1>13

-----------------------------------------------------------------------------
(* Timestamps without repetition. *)

Rising(s) == \A i, j \in 1 .. Len(s) : i < j => s[i] < s[j]

\* A part of a range loses its greatest number and stays a part.
LEMMA PartMax ==
  ASSUME NEW n \in Nat, NEW t \in SUBSET (1 .. n), t # {}
  PROVE  Max(t) \in t /\ t \ {Max(t)} \in SUBSET (1 .. n)
<1>1. IsFiniteSet(1 .. n)
  BY FS_Interval
<1>2. IsFiniteSet(t)
  <2> DEFINE R == 1 .. n
  <2>1. IsFiniteSet(R) /\ t \in SUBSET R
    BY <1>1
  <2> HIDE DEF R
  <2> QED BY <2>1, FS_Subset
<1>3. t \in SUBSET Int
  OBVIOUS
<1> QED BY <1>2, <1>3, MaxOfFinite

\* Two lists with the same values have the same members.
LEMMA SameMembers ==
  ASSUME NEW d, NEW s,
         \A i \in DOMAIN d : \E j \in DOMAIN s : d[i] = s[j],
         \A j \in DOMAIN s : \E i \in DOMAIN d : d[i] = s[j]
  PROVE  ToSet(d) = ToSet(s)
  BY DEF ToSet

\* Distinct keeps the values of a sequence that never falls, and makes it rise.
LEMMA DistinctRises ==
  ASSUME NEW n \in Nat, NEW s \in [1 .. n -> Int],
         \A i, j \in 1 .. n : i < j => s[i] <= s[j]
  PROVE  /\ Distinct(s) \in Seq(Int) /\ Len(Distinct(s)) <= n
         /\ ToSet(Distinct(s)) = ToSet(s)
         /\ Rising(Distinct(s))
<1> DEFINE Add(kept, x) == IF Contains(kept, x) THEN kept ELSE Append(kept, x)
           IsIter(f) == f = [t \in SUBSET (1 .. n) |->
                               IF t = {} THEN <<>> ELSE Add(f[t \ {Max(t)}], s[Max(t)])]
           iter == CHOOSE f : IsIter(f)
           adding == [i \in 1 .. n |-> [v \in Seq(Int) |-> Add(v, s[i])]]
<1>1. \E f : IsIter(f)
  <2>1. adding \in [1 .. n -> [Seq(Int) -> Seq(Int)]] /\ <<>> \in Seq(Int)
    OBVIOUS
  <2>2. \A i \in 1 .. n, v \in Seq(Int) : adding[i][v] = Add(v, s[i])
    OBVIOUS
  <2> HIDE DEF adding, Add
  <2>3. PICK f : IsRangeFold(n, Seq(Int), <<>>, adding, f)
    BY <2>1, FoldsOverRange
  <2>4. ASSUME NEW t \in SUBSET (1 .. n)
        PROVE  f[t] = IF t = {} THEN <<>> ELSE Add(f[t \ {Max(t)}], s[Max(t)])
    BY <2>2, <2>3, PartMax DEF IsRangeFold
  <2>5. IsIter(f)
    BY <2>3, <2>4 DEF IsRangeFold
  <2> QED BY <2>5
<1>2. IsIter(iter)
  BY <1>1
<1>3. Distinct(s) = iter[1 .. n]
  BY DEF Distinct, FoldLeft, MapThenFoldSet
<1>4. iter[{}] = <<>>
  BY <1>2
<1>5. ASSUME NEW k \in Nat, k + 1 <= n
      PROVE  iter[1 .. k + 1] = Add(iter[1 .. k], s[k + 1])
  <2>1. k + 1 \in Nat \ {0} /\ (k + 1) - 1 = k /\ 1 .. k + 1 \in SUBSET (1 .. n)
    BY <1>5
  <2>2. Max(1 .. k + 1) = k + 1 /\ (1 .. k + 1) \ {k + 1} = 1 .. k /\ 1 .. k + 1 # {}
    BY <2>1, LastOfRange
  <2> QED BY <1>2, <2>1, <2>2
<1> HIDE DEF iter, IsIter
<1> DEFINE Good(k) == LET d == iter[1 .. k]
                      IN  /\ d \in Seq(Int) /\ Len(d) <= k
                          /\ \A i \in 1 .. Len(d) : \E j \in 1 .. k : d[i] = s[j]
                          /\ \A j \in 1 .. k : \E i \in 1 .. Len(d) : d[i] = s[j]
                          /\ Rising(d)
           P == {k \in Nat : k <= n => Good(k)}
<1>6. 0 \in P
  <2>1. 1 .. 0 = {}
    OBVIOUS
  <2>2. iter[1 .. 0] = <<>>
    BY <1>4, <2>1
  <2>3. <<>> \in Seq(Int) /\ Len(<<>>) = 0 /\ 1 .. Len(<<>>) = {}
    OBVIOUS
  <2>4. Rising(<<>>)
    BY <2>3 DEF Rising
  <2> DEFINE d == iter[1 .. 0]
  <2>5. /\ d \in Seq(Int) /\ Len(d) <= 0 /\ Rising(d)
        /\ \A i \in 1 .. Len(d) : \E j \in 1 .. 0 : d[i] = s[j]
    BY <2>2, <2>3, <2>4
  <2>6. \A j \in 1 .. 0 : \E i \in 1 .. Len(d) : d[i] = s[j]
    BY <2>1
  <2> HIDE DEF d
  <2>7. Good(0)
    BY <2>5, <2>6 DEF d
  <2> HIDE DEF Good
  <2> QED BY <2>7
<1>7. ASSUME NEW k \in P PROVE k + 1 \in P
  <2> SUFFICES ASSUME k + 1 <= n PROVE Good(k + 1)
    OBVIOUS
  <2>1. Good(k) /\ k \in Nat
    OBVIOUS
  <2> DEFINE d == iter[1 .. k]
             e == iter[1 .. k + 1]
             x == s[k + 1]
  <2>2. e = Add(d, x) /\ x \in Int
    BY <1>5, <2>1
  <2>3. \A i \in 1 .. Len(d) : d[i] <= x
    <3>1. ASSUME NEW i \in 1 .. Len(d) PROVE d[i] <= x
      <4>1. PICK j \in 1 .. k : d[i] = s[j]
        BY <2>1
      <4>2. j < k + 1 /\ j \in 1 .. n /\ k + 1 \in 1 .. n
        BY <2>1
      <4> QED BY <4>1, <4>2
    <3> QED BY <3>1
  <2>4. \A j \in 1 .. k + 1 : j \in 1 .. k \/ j = k + 1
    BY <2>1
  <2>5. \A j \in 1 .. k : j \in 1 .. k + 1
    BY <2>1
  <2>6. d \in Seq(Int) /\ Len(d) \in Nat /\ Len(d) <= k
    BY <2>1
  <2> USE DEF Rising
  <2>7. CASE Contains(d, x)
    <3>1. e = d
      BY <2>2, <2>7
    <3>2. \A j \in 1 .. k + 1 : \E i \in 1 .. Len(d) : d[i] = s[j]
      BY <2>1, <2>4, <2>7 DEF Contains
    <3>3. \A i \in 1 .. Len(d) : \E j \in 1 .. k + 1 : d[i] = s[j]
      BY <2>1, <2>5
    <3>4. Len(d) <= k + 1
      BY <2>6
    <3> HIDE DEF d, e
    <3>5. /\ e \in Seq(Int) /\ Len(e) <= k + 1 /\ Rising(e)
          /\ \A i \in 1 .. Len(e) : \E j \in 1 .. k + 1 : e[i] = s[j]
          /\ \A j \in 1 .. k + 1 : \E i \in 1 .. Len(e) : e[i] = s[j]
      BY <2>1, <2>6, <3>1, <3>2, <3>3, <3>4 DEF d
    <3> QED BY <3>5 DEF e
  <2>8. CASE ~Contains(d, x)
    <3>1. e = Append(d, x)
      BY <2>2, <2>8
    <3>2. /\ e \in Seq(Int) /\ Len(e) = Len(d) + 1 /\ e[Len(d) + 1] = x
          /\ \A i \in 1 .. Len(d) : e[i] = d[i]
      <4> HIDE DEF d, e, x
      <4> QED BY <2>2, <2>6, <3>1
    <3>3. \A i \in 1 .. Len(d) : d[i] \in Int /\ d[i] # x
      BY <2>6, <2>8 DEF Contains
    <3>4. Rising(d)
      BY <2>1
    <3>5. ASSUME NEW i \in 1 .. Len(e), NEW j \in 1 .. Len(e), i < j PROVE e[i] < e[j]
      <4>1. i \in 1 .. Len(d) /\ (j \in 1 .. Len(d) \/ j = Len(d) + 1)
        <5>1. i \in Int /\ j \in Int /\ 1 <= i /\ i < j /\ j <= Len(d) + 1 /\ 1 <= j
          BY <3>2, <3>5, <2>6
        <5>2. \A m \in Nat : j <= m + 1 => i \in 1 .. m /\ (j \in 1 .. m \/ j = m + 1)
          BY <5>1
        <5> QED BY <2>6, <5>1, <5>2
      <4>2. CASE j \in 1 .. Len(d)
        BY <3>2, <3>4, <3>5, <4>1, <4>2
      <4>3. CASE j = Len(d) + 1
        <5>1. d[i] <= x /\ d[i] # x /\ d[i] \in Int
          BY <2>3, <3>3, <4>1
        <5>2. d[i] < x
          <6> HIDE DEF d, x
          <6> QED BY <2>2, <5>1
        <5> QED BY <3>2, <4>1, <4>3, <5>2
      <4> QED BY <4>1, <4>2, <4>3
    <3>6. ASSUME NEW j \in 1 .. k + 1 PROVE \E i \in 1 .. Len(e) : e[i] = s[j]
      <4>1. CASE j = k + 1
        <5>1. Len(d) + 1 \in 1 .. Len(e)
          BY <2>6, <3>2
        <5> QED BY <3>2, <4>1, <5>1
      <4>2. CASE j \in 1 .. k
        <5>1. PICK i \in 1 .. Len(d) : d[i] = s[j]
          BY <2>1, <4>2
        <5>2. i \in 1 .. Len(e) /\ e[i] = s[j]
          BY <2>6, <3>2, <5>1
        <5> QED BY <5>2
      <4> QED BY <2>4, <4>1, <4>2
    <3>7. ASSUME NEW i \in 1 .. Len(e) PROVE \E j \in 1 .. k + 1 : e[i] = s[j]
      <4>1. i \in 1 .. Len(d) \/ i = Len(d) + 1
        BY <2>6, <3>2
      <4>2. CASE i \in 1 .. Len(d)
        <5>1. PICK j \in 1 .. k : d[i] = s[j]
          BY <2>1, <4>2
        <5>2. j \in 1 .. k + 1 /\ e[i] = s[j]
          BY <2>1, <3>2, <4>2, <5>1
        <5> QED BY <5>2
      <4>3. CASE i = Len(d) + 1
        <5>1. k + 1 \in 1 .. k + 1 /\ e[i] = s[k + 1]
          BY <2>1, <3>2, <4>3
        <5> QED BY <5>1
      <4> QED BY <4>1, <4>2, <4>3
    <3>8. Len(e) <= k + 1
      BY <2>6, <3>2
    <3> HIDE DEF d, e
    <3> QED BY <3>2, <3>5, <3>6, <3>7, <3>8 DEF e
  <2> QED BY <2>7, <2>8
<1>8. P \in SUBSET Nat
  OBVIOUS
<1> HIDE DEF P
<1>9. P = Nat
  BY <1>6, <1>7, <1>8, InductionOverNat
<1>10. Good(n)
  <2> HIDE DEF Good
  <2>1. n \in P /\ n <= n
    BY <1>9
  <2> QED BY <2>1 DEF P
<1>11. ToSet(Distinct(s)) = ToSet(s)
  <2> DEFINE d == iter[1 .. n]
  <2>1. /\ d \in Seq(Int)
        /\ \A i \in 1 .. Len(d) : \E j \in 1 .. n : d[i] = s[j]
        /\ \A j \in 1 .. n : \E i \in 1 .. Len(d) : d[i] = s[j]
    BY <1>10
  <2> HIDE DEF d
  <2>2. DOMAIN s = 1 .. n /\ DOMAIN d = 1 .. Len(d)
    BY <2>1
  <2>3. /\ \A i \in DOMAIN d : \E j \in DOMAIN s : d[i] = s[j]
        /\ \A j \in DOMAIN s : \E i \in DOMAIN d : d[i] = s[j]
    BY <2>1, <2>2
  <2>4. ToSet(d) = ToSet(s)
    BY <2>3, SameMembers
  <2> QED BY <1>3, <2>4 DEF d
<1> QED BY <1>3, <1>10, <1>11

-----------------------------------------------------------------------------
(* Timestamps snapped to cuts. *)

\* What Append does, in the form the proofs below use.
LEMMA AppendFacts ==
  ASSUME NEW S, NEW d \in Seq(S), NEW x \in S
  PROVE  /\ Append(d, x) \in Seq(S) /\ Len(Append(d, x)) = Len(d) + 1
         /\ Append(d, x)[Len(d) + 1] = x
         /\ \A i \in 1 .. Len(d) : Append(d, x)[i] = d[i]
  OBVIOUS

\* A function on a range is a sequence, of any larger set too.
LEMMA ListIsSequence ==
  ASSUME NEW m \in Nat, NEW S, NEW T, S \subseteq T, NEW f \in [1 .. m -> S]
  PROVE  f \in Seq(T) /\ Len(f) = m
<1>1. f \in [1 .. m -> T]
  OBVIOUS
<1> QED BY <1>1

\* An instant lands in its window.
LEMMA SnapLands ==
  ASSUME NEW t \in Nat, NEW cuts \in SUBSET Nat, NEW used
  PROVE  /\ snap(t, cuts, used) \in Nat
         /\ Distance(t, snap(t, cuts, used)) <= SCENE_SNAP_WINDOW
<1> DEFINE near == {cut + 150 : cut \in cuts} \ used
           inWindow == {c \in near : Distance(c, t) <= SCENE_SNAP_WINDOW}
           best == {c \in inWindow : \A d \in inWindow : Distance(c, t) <= Distance(d, t)}
<1>1. SCENE_SNAP_WINDOW \in Nat
  BY SamplingAssumption
<1>2. near \subseteq Nat /\ \A c \in Nat : Distance(c, t) \in Nat /\ Distance(t, c) = Distance(c, t)
  BY DEF Distance
<1>3. CASE inWindow = {}
  <2>1. snap(t, cuts, used) = t
    BY <1>3 DEF snap
  <2> QED BY <1>1, <2>1 DEF Distance
<1>4. CASE inWindow # {}
  <2>1. snap(t, cuts, used) = Min(best)
    BY <1>4 DEF snap
  <2> DEFINE D == {Distance(c, t) : c \in inWindow}
  <2> HIDE DEF near
  <2>2. D \in SUBSET Nat /\ D # {}
    BY <1>2, <1>4
  <2>3. PICK m \in D : \A y \in D : m <= y
    BY <2>2, LeastNatural
  <2>4. PICK c \in inWindow : Distance(c, t) = m
    OBVIOUS
  <2>5. c \in best
    BY <2>3, <2>4
  <2>6. best \in SUBSET Nat /\ best # {}
    BY <1>2, <2>5
  <2>7. PICK b \in best : \A y \in best : b <= y
    BY <2>6, LeastNatural
  <2>8. \A x \in best : x \in inWindow
    OBVIOUS
  <2> HIDE DEF best
  <2>9. Min(best) \in best
    BY <2>7 DEF Min
  <2> QED BY <1>2, <2>1, <2>8, <2>9
<1> QED BY <1>3, <1>4

\* Every instant lands in the window of the one planned.
LEMMA SnappedLands ==
  ASSUME NEW n \in Nat, NEW ts \in [1 .. n -> Nat], NEW cuts \in SUBSET Nat
  PROVE  /\ snapped(ts, cuts) \in [1 .. n -> Nat]
         /\ \A i \in 1 .. n : Distance(ts[i], snapped(ts, cuts)[i]) <= SCENE_SNAP_WINDOW
<1> DEFINE Add(result, t) == Append(result, snap(t, cuts, ToSet(result)))
           IsIter(f) == f = [t \in SUBSET (1 .. n) |->
                               IF t = {} THEN <<>> ELSE Add(f[t \ {Max(t)}], ts[Max(t)])]
           iter == CHOOSE f : IsIter(f)
           adding == [i \in 1 .. n |-> [v \in Seq(Nat) |-> Add(v, ts[i])]]
<1>1. \A i \in 1 .. n, v \in Seq(Nat) :
        /\ snap(ts[i], cuts, ToSet(v)) \in Nat
        /\ Distance(ts[i], snap(ts[i], cuts, ToSet(v))) <= SCENE_SNAP_WINDOW
  BY SnapLands
<1>2. \E f : IsIter(f)
  <2>1. adding \in [1 .. n -> [Seq(Nat) -> Seq(Nat)]] /\ <<>> \in Seq(Nat)
    BY <1>1
  <2>2. \A i \in 1 .. n, v \in Seq(Nat) : adding[i][v] = Add(v, ts[i])
    OBVIOUS
  <2> HIDE DEF adding, Add
  <2>3. PICK f : IsRangeFold(n, Seq(Nat), <<>>, adding, f)
    BY <2>1, FoldsOverRange
  <2>4. ASSUME NEW t \in SUBSET (1 .. n)
        PROVE  f[t] = IF t = {} THEN <<>> ELSE Add(f[t \ {Max(t)}], ts[Max(t)])
    BY <2>2, <2>3, PartMax DEF IsRangeFold
  <2>5. IsIter(f)
    BY <2>3, <2>4 DEF IsRangeFold
  <2> QED BY <2>5
<1>3. IsIter(iter)
  BY <1>2
<1>4. snapped(ts, cuts) = iter[1 .. n]
  BY DEF snapped, FoldLeft, MapThenFoldSet
<1>5. iter[{}] = <<>>
  BY <1>3
<1>6. ASSUME NEW k \in Nat, k + 1 <= n
      PROVE  iter[1 .. k + 1] = Add(iter[1 .. k], ts[k + 1])
  <2>1. k + 1 \in Nat \ {0} /\ (k + 1) - 1 = k /\ 1 .. k + 1 \in SUBSET (1 .. n)
    BY <1>6
  <2>2. Max(1 .. k + 1) = k + 1 /\ (1 .. k + 1) \ {k + 1} = 1 .. k /\ 1 .. k + 1 # {}
    BY <2>1, LastOfRange
  <2> QED BY <1>3, <2>1, <2>2
<1> HIDE DEF iter, IsIter
<1> DEFINE Good(k) ==
             /\ iter[1 .. k] \in Seq(Nat) /\ Len(iter[1 .. k]) = k
             /\ \A i \in 1 .. k : Distance(ts[i], iter[1 .. k][i]) <= SCENE_SNAP_WINDOW
           P == {k \in Nat : k <= n => Good(k)}
<1>7. 0 \in P
  <2>1. 1 .. 0 = {} /\ <<>> \in Seq(Nat) /\ Len(<<>>) = 0
    OBVIOUS
  <2>2. iter[1 .. 0] = <<>>
    BY <1>5, <2>1
  <2> QED BY <2>1, <2>2
<1>8. ASSUME NEW k \in P PROVE k + 1 \in P
  <2> SUFFICES ASSUME k + 1 <= n PROVE Good(k + 1)
    OBVIOUS
  <2> DEFINE d == iter[1 .. k]
             x == snap(ts[k + 1], cuts, ToSet(d))
             e == iter[1 .. k + 1]
  <2>1. k \in Nat /\ d \in Seq(Nat) /\ Len(d) = k
    OBVIOUS
  <2>2. \A i \in 1 .. k : Distance(ts[i], d[i]) <= SCENE_SNAP_WINDOW
    BY <2>1
  <2>3. x \in Nat /\ Distance(ts[k + 1], x) <= SCENE_SNAP_WINDOW
    <3>1. k + 1 \in 1 .. n
      BY <2>1
    <3> HIDE DEF d
    <3> QED BY <1>1, <2>1, <3>1
  <2>4. e = Append(d, x)
    BY <1>6, <2>1
  <2> HIDE DEF d, x, e
  <2>5. /\ e \in Seq(Nat) /\ Len(e) = k + 1 /\ e[k + 1] = x
        /\ \A i \in 1 .. k : e[i] = d[i]
    BY <2>1, <2>3, <2>4, AppendFacts
  <2>6. ASSUME NEW i \in 1 .. k + 1 PROVE Distance(ts[i], e[i]) <= SCENE_SNAP_WINDOW
    <3>1. i \in 1 .. k \/ i = k + 1
      BY <2>1
    <3> QED BY <2>2, <2>3, <2>5, <3>1
  <2> QED BY <2>5, <2>6 DEF e
<1>9. P \in SUBSET Nat
  OBVIOUS
<1> HIDE DEF P
<1>10. P = Nat
  BY <1>7, <1>8, <1>9, InductionOverNat
<1>11. Good(n)
  <2> HIDE DEF Good
  <2>1. n \in P /\ n <= n
    BY <1>10
  <2> QED BY <2>1 DEF P
<1>12. iter[1 .. n] \in [1 .. n -> Nat]
  BY <1>11
<1> QED BY <1>4, <1>11, <1>12

\* Snapping keeps the order and the number of the instants, and each of them near
\* one that was planned.
LEMMA SnapKeepsPlan ==
  ASSUME NEW n \in Nat, NEW ts \in [1 .. n -> Nat], NEW cuts \in SUBSET Nat, Rising(ts)
  PROVE  /\ snapToScenes(ts, cuts) \in Seq(Nat) /\ Len(snapToScenes(ts, cuts)) <= n
         /\ Rising(snapToScenes(ts, cuts))
         /\ \A t \in ToSet(snapToScenes(ts, cuts)) :
              \E p \in ToSet(ts) : Distance(p, t) <= SCENE_SNAP_WINDOW
<1>1. CASE cuts = {} \/ SCENE_SNAP_WINDOW = 0
  <2>1. snapToScenes(ts, cuts) = ts
    BY <1>1 DEF snapToScenes
  <2>2. SCENE_SNAP_WINDOW \in Nat
    BY SamplingAssumption
  <2>3. \A t \in Nat : Distance(t, t) <= SCENE_SNAP_WINDOW
    BY <2>2 DEF Distance
  <2>4. ts \in Seq(Nat) /\ Len(ts) = n
    OBVIOUS
  <2>5. ToSet(ts) \subseteq Nat
    BY DEF ToSet
  <2> QED BY <2>1, <2>3, <2>4, <2>5
<1>2. CASE ~(cuts = {} \/ SCENE_SNAP_WINDOW = 0)
  <2> DEFINE r == snapped(ts, cuts)
             S == ToSet(r)
  <2>1. /\ r \in [1 .. n -> Nat]
        /\ \A i \in 1 .. n : Distance(ts[i], r[i]) <= SCENE_SNAP_WINDOW
    BY SnappedLands
  <2>2. S = {r[i] : i \in 1 .. n}
    BY <2>1 DEF ToSet
  <2>3. IsFiniteSet(S) /\ Cardinality(S) <= n /\ Cardinality(S) \in Nat
    <3> DEFINE N == 1 .. n
    <3>1. IsFiniteSet(N) /\ Cardinality(N) = n
      <4>1. IsFiniteSet(N) /\ Cardinality(N) = IF 1 > n THEN 0 ELSE n - 1 + 1
        BY FS_Interval
      <4> QED BY <4>1
    <3> HIDE DEF N, r
    <3>2. r \in Surjection(N, S)
      BY <2>1, <2>2, Fun_IsSurj DEF N
    <3> HIDE DEF S
    <3>3. IsFiniteSet(S) /\ Cardinality(S) <= Cardinality(N)
      BY <3>1, <3>2, FS_Surjection
    <3> QED BY <3>1, <3>3, FS_CardinalityType
  <2>4. snapToScenes(ts, cuts) = Ascending(S)
    BY <1>2 DEF snapToScenes
  <2>5. S \subseteq Nat
    BY <2>1, <2>2
  <2>6. Numbers(S)
    BY <2>5 DEF Numbers
  <2> HIDE DEF S, r
  <2>7. /\ Ascending(S) \in [1 .. Cardinality(S) -> S]
        /\ ToSet(Ascending(S)) = S
        /\ \A i, j \in 1 .. Cardinality(S) : i < j => Ascending(S)[i] < Ascending(S)[j]
    BY <2>3, <2>6, AscendingLists
  <2>8. Ascending(S) \in Seq(Nat) /\ Len(Ascending(S)) = Cardinality(S)
    BY <2>3, <2>5, <2>7, ListIsSequence
  <2>9. ASSUME NEW t \in S PROVE \E p \in ToSet(ts) : Distance(p, t) <= SCENE_SNAP_WINDOW
    <3>1. PICK i \in 1 .. n : t = r[i]
      BY <2>2
    <3>2. ts[i] \in ToSet(ts)
      BY DEF ToSet
    <3> QED BY <2>1, <3>1, <3>2
  <2> QED BY <2>3, <2>4, <2>7, <2>8, <2>9 DEF Rising
<1> QED BY <1>1, <1>2

-----------------------------------------------------------------------------
(* The budget and the plan. *)

\* The greater of two numbers.
LEMMA MaxOfTwo ==
  ASSUME NEW a \in Int, NEW b \in Int
  PROVE  /\ Max({a, b}) \in {a, b} /\ Max({a, b}) >= a /\ Max({a, b}) >= b
<1>1. \E x \in {a, b} : \A y \in {a, b} : x >= y
  <2>1. CASE a >= b
    BY <2>1
  <2>2. CASE ~(a >= b)
    <3>1. b >= a /\ b >= b
      BY <2>2
    <3> QED BY <3>1
  <2> QED BY <2>1, <2>2
<1>2. Max({a, b}) \in {a, b} /\ \A y \in {a, b} : Max({a, b}) >= y
  BY <1>1 DEF Max
<1> QED BY <1>2

\* A set of naturals has its minimum.
LEMMA MinOfNaturals ==
  ASSUME NEW S \in SUBSET Nat, S # {}
  PROVE  Min(S) \in S /\ \A y \in S : Min(S) <= y
<1>1. PICK x \in S : \A y \in S : x <= y
  BY LeastNatural
<1> QED BY <1>1 DEF Min

\* Products keep the order.
LEMMA ProductGrows ==
  ASSUME NEW a \in Nat, NEW b \in Nat, NEW c \in Nat, a <= b
  PROVE  a * c <= b * c /\ c * a <= c * b
<1>1. (b - a) * c \in Nat
  <2>1. b - a \in Nat
    OBVIOUS
  <2>2. \A x, y \in Nat : x * y \in Nat
    OBVIOUS
  <2> QED BY <2>1, <2>2
<1>2. (b - a) * c = b * c - a * c /\ c * a = a * c /\ c * b = b * c
  OBVIOUS
<1>3. b * c \in Int /\ a * c \in Int
  OBVIOUS
<1> QED BY <1>1, <1>2, <1>3

\* So do quotients.
LEMMA QuotientGrows ==
  ASSUME NEW a \in Nat, NEW b \in Nat, NEW c \in Nat \ {0}, a <= b
  PROVE  a \div c \in Nat /\ a \div c <= b \div c
<1> DEFINE p == a \div c
           q == b \div c
<1>1. p \in Nat /\ q \in Nat
  OBVIOUS
<1>2. a = c * p + (a % c) /\ b = c * q + (b % c) /\ a % c \in 0 .. c - 1 /\ b % c \in 0 .. c - 1
  OBVIOUS
<1> HIDE DEF p, q
<1>3. CASE p <= q
  BY <1>1, <1>3 DEF p, q
<1>4. CASE ~(p <= q)
  <2>1. q + 1 <= p
    BY <1>1, <1>4
  <2>2. c * (q + 1) <= c * p
    BY <1>1, <2>1, ProductGrows
  <2>3. c * (q + 1) = c * q + c
    BY <1>1
  <2>4. c * q \in Int /\ c * p \in Int
    BY <1>1
  <2> HIDE DEF p, q
  <2>5. FALSE
    BY <1>2, <2>2, <2>3, <2>4
  <2> QED BY <2>5
<1> QED BY <1>3, <1>4

SomeFrames == policy.maxFrames \in Nat \ {0}

\* A video has a frame at least, and no more than the hard cap.
LEMMA BudgetBounds ==
  ASSUME NEW duration \in Nat
  PROVE  /\ frameBudgetFor(duration) \in Nat \ {0}
         /\ SomeFrames => frameBudgetFor(duration) <= policy.maxFrames
<1> DEFINE feasible == Max({1, duration \div Second})
           S == {tierFor(duration), policy.maxFrames, feasible}
<1>1. duration \div Second \in Nat
  BY DEF Second
<1>2. feasible \in Nat
  <2> DEFINE q == duration \div Second
  <2>1. q \in Nat
    BY <1>1
  <2> HIDE DEF q
  <2>2. Max({1, q}) \in {1, q}
    BY <2>1, MaxOfTwo
  <2>3. Max({1, q}) \in Nat
    BY <2>1, <2>2
  <2> QED BY <2>3 DEF q
<1>3. tierFor(duration) \in Nat
  BY SamplingAssumption DEF tierFor
<1>4. policy.maxFrames \in Nat
  BY SamplingAssumption
<1>5. Min(S) \in S /\ \A y \in S : Min(S) <= y
  <2> HIDE DEF feasible
  <2>1. S \in SUBSET Nat /\ S # {}
    BY <1>2, <1>3, <1>4
  <2> HIDE DEF S
  <2> QED BY <2>1, MinOfNaturals
<1>6. Min(S) \in Nat /\ Min(S) <= policy.maxFrames
  <2> HIDE DEF feasible
  <2> QED BY <1>2, <1>3, <1>4, <1>5
<1>7. frameBudgetFor(duration) = Max({1, Min(S)})
  BY DEF frameBudgetFor
<1> HIDE DEF S
<1>8. Max({1, Min(S)}) \in {1, Min(S)} /\ Max({1, Min(S)}) >= 1
  BY <1>6, MaxOfTwo
<1> QED BY <1>4, <1>6, <1>7, <1>8 DEF SomeFrames

\* The plan is in order, in number and off the last frame.
LEMMA PlanInOrder ==
  ASSUME NEW duration \in Nat, NEW count \in Nat \ {0}
  PROVE  /\ planTimestamps(duration, count) \in Seq(Nat)
         /\ Len(planTimestamps(duration, count)) <= count
         /\ Rising(planTimestamps(duration, count))
         /\ ToSet(planTimestamps(duration, count)) \subseteq 0 .. Max({duration - 50, 0})
<1> DEFINE trim == Min({policy.headTailTrimPct, 45})
           parts == 200 * count
           numerator(i) == duration * (2 * trim * count + (100 - 2 * trim) * (2 * i - 1))
           place(i) == (2 * numerator(i) + parts) \div (2 * parts)
           last == Max({duration - 50, 0})
           f == [i \in 1 .. count |-> Min({place(i), last})]
<1>1. planTimestamps(duration, count) = Distinct(f)
  BY DEF planTimestamps
<1>2. trim \in Nat /\ trim <= 45
  <2>1. policy.headTailTrimPct \in Nat
    BY SamplingAssumption
  <2>2. {policy.headTailTrimPct, 45} \in SUBSET Nat /\ {policy.headTailTrimPct, 45} # {}
    BY <2>1
  <2>3. trim \in {policy.headTailTrimPct, 45} /\ trim <= 45
    BY <2>2, MinOfNaturals
  <2> QED BY <2>1, <2>3
<1>3. last \in Nat
  BY MaxOfTwo
<1> HIDE DEF trim, last
<1> DEFINE A == 2 * trim * count
           B == 100 - 2 * trim
<1>4. A \in Nat /\ B \in Nat /\ parts \in Nat \ {0} /\ 2 * parts \in Nat \ {0}
  <2>1. \A x, y \in Nat : x * y \in Nat
    OBVIOUS
  <2>2. 2 * trim \in Nat /\ B \in Nat
    BY <1>2
  <2> QED BY <2>1, <2>2
<1>5. \A i \in 1 .. count : numerator(i) = duration * (A + B * (2 * i - 1))
  OBVIOUS
<1> HIDE DEF A, B
<1>6. ASSUME NEW i \in 1 .. count PROVE numerator(i) \in Nat
  <2>1. \A x, y \in Nat : x * y \in Nat
    OBVIOUS
  <2>2. 2 * i - 1 \in Nat
    OBVIOUS
  <2>3. B * (2 * i - 1) \in Nat
    BY <1>4, <2>1, <2>2
  <2>4. A + B * (2 * i - 1) \in Nat
    BY <1>4, <2>3
  <2>5. duration * (A + B * (2 * i - 1)) \in Nat
    BY <2>1, <2>4
  <2> QED BY <1>5, <2>5
<1>7. ASSUME NEW i \in 1 .. count, NEW j \in 1 .. count, i < j
      PROVE  numerator(i) <= numerator(j)
  <2>1. 2 * i - 1 \in Nat /\ 2 * j - 1 \in Nat /\ 2 * i - 1 <= 2 * j - 1
    BY <1>7
  <2>2. B * (2 * i - 1) <= B * (2 * j - 1)
    BY <1>4, <2>1, ProductGrows
  <2>3. B * (2 * i - 1) \in Nat /\ B * (2 * j - 1) \in Nat
    <3>1. \A x, y \in Nat : x * y \in Nat
      OBVIOUS
    <3> QED BY <1>4, <2>1, <3>1
  <2>4. /\ A + B * (2 * i - 1) \in Nat /\ A + B * (2 * j - 1) \in Nat
        /\ A + B * (2 * i - 1) <= A + B * (2 * j - 1)
    BY <1>4, <2>2, <2>3
  <2>5. duration * (A + B * (2 * i - 1)) <= duration * (A + B * (2 * j - 1))
    BY <2>4, ProductGrows
  <2> QED BY <1>5, <2>5
<1> HIDE DEF numerator, parts
<1>8. ASSUME NEW i \in 1 .. count PROVE place(i) \in Nat
  <2>1. 2 * numerator(i) + parts \in Nat
    BY <1>4, <1>6
  <2> QED BY <1>4, <2>1, QuotientGrows
<1>9. ASSUME NEW i \in 1 .. count, NEW j \in 1 .. count, i < j
      PROVE  place(i) <= place(j)
  <2>1. /\ 2 * numerator(i) + parts \in Nat /\ 2 * numerator(j) + parts \in Nat
        /\ 2 * numerator(i) + parts <= 2 * numerator(j) + parts
    BY <1>4, <1>6, <1>7, <1>9
  <2> QED BY <1>4, <2>1, QuotientGrows
<1> HIDE DEF place
<1>10. ASSUME NEW i \in 1 .. count
       PROVE  /\ Min({place(i), last}) \in {place(i), last}
              /\ Min({place(i), last}) <= place(i) /\ Min({place(i), last}) <= last
  <2>1. {place(i), last} \in SUBSET Nat /\ {place(i), last} # {}
    BY <1>3, <1>8
  <2> QED BY <2>1, MinOfNaturals
<1>11. \A i \in 1 .. count : f[i] = Min({place(i), last})
  OBVIOUS
<1>12. \A i \in 1 .. count : f[i] \in 0 .. last
  BY <1>3, <1>8, <1>10, <1>11
<1>13. f \in [1 .. count -> Int]
  BY <1>3, <1>12
<1>14. ASSUME NEW i \in 1 .. count, NEW j \in 1 .. count, i < j PROVE f[i] <= f[j]
  BY <1>3, <1>8, <1>9, <1>10, <1>11, <1>14
<1>15. ToSet(f) \subseteq 0 .. last
  BY <1>12, <1>13 DEF ToSet
<1> HIDE DEF f
<1>16. /\ Distinct(f) \in Seq(Int) /\ Len(Distinct(f)) <= count
       /\ ToSet(Distinct(f)) = ToSet(f)
       /\ Rising(Distinct(f))
  BY <1>13, <1>14, DistinctRises
<1>17. Distinct(f) \in Seq(Nat)
  <2> DEFINE d == Distinct(f)
  <2>1. d \in [1 .. Len(d) -> Int] /\ Len(d) \in Nat /\ \A i \in 1 .. Len(d) : d[i] \in ToSet(d)
    BY <1>16 DEF ToSet
  <2>2. \A i \in 1 .. Len(d) : d[i] \in Nat
    BY <1>3, <1>15, <1>16, <2>1
  <2>3. d \in [1 .. Len(d) -> Nat]
    BY <2>1, <2>2
  <2> HIDE DEF d
  <2>4. d \in Seq(Nat)
    BY <2>1, <2>3, ListIsSequence
  <2> QED BY <2>4 DEF d
<1> QED BY <1>1, <1>15, <1>16, <1>17 DEF last

-----------------------------------------------------------------------------
(* The first pass, and the floor. *)

\* A set that has a greatest element has it as its maximum.
LEMMA MaxIs ==
  ASSUME NEW S \in SUBSET Int, NEW x \in S, \A y \in S : x >= y
  PROVE  Max(S) = x
<1>1. \E z \in S : \A y \in S : z >= y
  OBVIOUS
<1>2. Max(S) \in S /\ \A y \in S : Max(S) >= y
  BY <1>1 DEF Max
<1> DEFINE m == Max(S)
<1>3. m >= x /\ x >= m /\ m \in Int /\ x \in Int
  BY <1>2
<1> HIDE DEF m
<1>4. m = x
  BY <1>3
<1> QED BY <1>4 DEF m

HashesOf(frames, n) ==
  /\ DOMAIN frames = 1 .. n
  /\ \A i \in 1 .. n : IsFiniteSet(frames[i].hash)

\* Distances between hashes are naturals.
LEMMA NoveltyTyped ==
  ASSUME NEW n \in Nat, NEW frames, HashesOf(frames, n), NEW i \in 1 .. n, NEW j \in 1 .. n
  PROVE  hammingDistance(frames[i].hash, frames[j].hash) \in Nat
<1> DEFINE a == frames[i].hash
           b == frames[j].hash
<1>1. IsFiniteSet(a) /\ IsFiniteSet(b)
  BY DEF HashesOf
<1> HIDE DEF a, b
<1>2. IsFiniteSet(a \ b) /\ IsFiniteSet(b \ a)
  BY <1>1, FS_Difference
<1>3. IsFiniteSet((a \ b) \cup (b \ a))
  BY <1>2, FS_Union
<1>4. hammingDistance(a, b) \in Nat
  BY <1>3, FS_CardinalityType DEF hammingDistance
<1> QED BY <1>4 DEF a, b

\* The pass keeps the first frame, and those unlike the one kept before them.
LEMMA FirstPassKeeps ==
  ASSUME NEW n \in Nat, NEW frames, DOMAIN frames = 1 .. n
  PROVE  /\ FirstPass(frames) \in SUBSET (1 .. n)
         /\ \A i \in 1 .. n : i \in FirstPass(frames) <=>
              i = 1 \/ Novelty(frames, FirstPass(frames), i) > DEDUP_HAMMING_THRESHOLD
<1> DEFINE Keeps(kept, i) == i = 1 \/ Novelty(frames, kept, i) > DEDUP_HAMMING_THRESHOLD
           Add(kept, i) == IF Keeps(kept, i) THEN kept \cup {i} ELSE kept
           IsIter(f) == f = [t \in SUBSET (1 .. n) |->
                               IF t = {} THEN {} ELSE Add(f[t \ {Max(t)}], [i \in 1 .. n |-> i][Max(t)])]
           iter == CHOOSE f : IsIter(f)
           V == SUBSET (1 .. n)
           adding == [i \in 1 .. n |-> [v \in V |-> Add(v, i)]]
<1>1. \E f : IsIter(f)
  <2>1. adding \in [1 .. n -> [V -> V]] /\ {} \in V
    <3>1. \A i \in 1 .. n, v \in V : Add(v, i) \in V
      OBVIOUS
    <3> QED BY <3>1
  <2>2. \A i \in 1 .. n, v \in V : adding[i][v] = Add(v, i)
    OBVIOUS
  <2> HIDE DEF adding, Add, V
  <2>3. PICK f : IsRangeFold(n, V, {}, adding, f)
    BY <2>1, FoldsOverRange
  <2>4. ASSUME NEW t \in SUBSET (1 .. n)
        PROVE  f[t] = IF t = {} THEN {} ELSE Add(f[t \ {Max(t)}], [i \in 1 .. n |-> i][Max(t)])
    BY <2>2, <2>3, PartMax DEF IsRangeFold
  <2>5. IsIter(f)
    BY <2>3, <2>4 DEF IsRangeFold
  <2> QED BY <2>5
<1>2. IsIter(iter)
  BY <1>1
<1>3. FirstPass(frames) = iter[1 .. n]
  BY DEF FirstPass, FoldLeftDomain, FoldLeft, MapThenFoldSet
<1>4. iter[{}] = {}
  BY <1>2
<1>5. ASSUME NEW k \in Nat, k + 1 <= n
      PROVE  iter[1 .. k + 1] = Add(iter[1 .. k], k + 1)
  <2>1. /\ k + 1 \in Nat \ {0} /\ (k + 1) - 1 = k /\ 1 .. k + 1 \in SUBSET (1 .. n)
        /\ k + 1 \in 1 .. n
    BY <1>5
  <2>2. Max(1 .. k + 1) = k + 1 /\ (1 .. k + 1) \ {k + 1} = 1 .. k /\ 1 .. k + 1 # {}
    BY <2>1, LastOfRange
  <2>3. [i \in 1 .. n |-> i][k + 1] = k + 1
    BY <2>1
  <2> DEFINE R == 1 .. k + 1
  <2>4. iter[R] = IF R = {} THEN {} ELSE Add(iter[R \ {Max(R)}], [i \in 1 .. n |-> i][Max(R)])
    <3> HIDE DEF Add, iter
    <3>1. R \in SUBSET (1 .. n)
      BY <2>1
    <3> HIDE DEF R
    <3> QED BY <1>2, <3>1
  <2> HIDE DEF Add, iter
  <2> QED BY <2>2, <2>3, <2>4
<1> HIDE DEF iter, IsIter, Keeps
<1> DEFINE Good(k) == /\ iter[1 .. k] \in SUBSET (1 .. k)
                      /\ \A i \in 1 .. k : i \in iter[1 .. k] <=> Keeps(iter[1 .. k], i)
           P == {k \in Nat : k <= n => Good(k)}
<1>6. 0 \in P
  <2>1. 1 .. 0 = {}
    OBVIOUS
  <2>2. iter[1 .. 0] = {}
    BY <1>4, <2>1
  <2> QED BY <2>1, <2>2
<1>7. ASSUME NEW k \in P PROVE k + 1 \in P
  <2> SUFFICES ASSUME k + 1 <= n PROVE Good(k + 1)
    OBVIOUS
  <2> DEFINE K == iter[1 .. k]
             L == iter[1 .. k + 1]
  <2>1. k \in Nat /\ K \in SUBSET (1 .. k) /\ \A i \in 1 .. k : i \in K <=> Keeps(K, i)
    OBVIOUS
  <2>2. L = IF Keeps(K, k + 1) THEN K \cup {k + 1} ELSE K
    BY <1>5, <2>1
  <2> HIDE DEF K, L
  <2>3. ASSUME NEW i \in 1 .. k + 1 PROVE Keeps(L, i) <=> Keeps(K, i)
    <3>1. {x \in L : x < i} = {x \in K : x < i}
      BY <2>1, <2>2
    <3>2. Reference(L, i) = Reference(K, i)
      BY <3>1 DEF Reference
    <3> QED BY <3>2 DEF Keeps, Novelty
  <2>4. k + 1 \notin K /\ \A i \in 1 .. k + 1 : i \in 1 .. k \/ i = k + 1
    BY <2>1
  <2>5. \A i \in 1 .. k + 1 : i \in L <=> Keeps(L, i)
    BY <2>1, <2>2, <2>3, <2>4
  <2>6. L \in SUBSET (1 .. k + 1)
    BY <2>1, <2>2
  <2> QED BY <2>5, <2>6 DEF L
<1>8. P \in SUBSET Nat
  OBVIOUS
<1> HIDE DEF P
<1>9. P = Nat
  BY <1>6, <1>7, <1>8, InductionOverNat
<1>10. Good(n)
  <2> HIDE DEF Good
  <2>1. n \in P /\ n <= n
    BY <1>9
  <2> QED BY <2>1 DEF P
<1> QED BY <1>3, <1>10 DEF Keeps

\* By descending key, then by ascending number.
LEMMA OrderByKey ==
  ASSUME NEW S, Numbers(S), NEW key \in [S -> Nat], NEW R,
         \A x, y \in S : <<x, y>> \in R <=> (key[x] > key[y] \/ (key[x] = key[y] /\ x < y))
  PROVE  IsOrder(S, R)
<1>1. \A x \in S : x \in Int /\ key[x] \in Nat
  BY DEF Numbers
<1>2. ASSUME NEW x \in S, NEW y \in S
      PROVE  /\ <<x, y>> \in R => <<y, x>> \notin R
             /\ x # y => <<x, y>> \in R \/ <<y, x>> \in R
  <2> DEFINE a == key[x]
             b == key[y]
  <2>1. a \in Int /\ b \in Int /\ x \in Int /\ y \in Int
    BY <1>1
  <2>2. /\ <<x, y>> \in R <=> (a > b \/ (a = b /\ x < y))
        /\ <<y, x>> \in R <=> (b > a \/ (b = a /\ y < x))
    OBVIOUS
  <2> HIDE DEF a, b
  <2>3. \A c, d \in Int : c > d \/ d > c \/ c = d
    OBVIOUS
  <2>4. (a > b => ~(b > a) /\ a # b) /\ (x < y => ~(y < x)) /\ (b > a => a # b)
    BY <2>1
  <2>5. x # y => x < y \/ y < x
    BY <2>1
  <2> QED BY <2>1, <2>2, <2>3, <2>4, <2>5
<1>3. ASSUME NEW x \in S, NEW y \in S, NEW z \in S, <<x, y>> \in R, <<y, z>> \in R
      PROVE  <<x, z>> \in R
  BY <1>1, <1>3
<1> QED BY <1>2, <1>3 DEF IsOrder

\* Below the floor frames come back until it is met, or all are back; above it none does.
LEMMA FloorIsMet ==
  ASSUME NEW n \in Nat, NEW frames, HashesOf(frames, n),
         NEW kept \in SUBSET (1 .. n), 1 \in kept
  PROVE  LET restored == Restored(frames, kept)
         IN  /\ restored \in SUBSET ((1 .. n) \ kept)
             /\ IsFiniteSet(kept \cup restored)
             /\ \/ kept \cup restored = 1 .. n /\ n <= MIN_ANALYSIS_FRAMES
                \/ Cardinality(kept \cup restored) = MIN_ANALYSIS_FRAMES
                \/ restored = {} /\ Cardinality(kept) > MIN_ANALYSIS_FRAMES
<1> DEFINE N == 1 .. n
           removed == N \ kept
           novelty(i) == Novelty(frames, kept, i)
           Before(j, i) == MoreNovel(frames, kept, j, i)
           O == {p \in removed \X removed : Before(p[1], p[2])}
           missing == MIN_ANALYSIS_FRAMES - Cardinality(kept)
           low == {x \in removed : RankIn(removed, O, x) < missing}
<1>1. IsFiniteSet(N) /\ Cardinality(N) = n
  <2>1. IsFiniteSet(N) /\ Cardinality(N) = IF 1 > n THEN 0 ELSE n - 1 + 1
    BY FS_Interval
  <2> QED BY <2>1
<1>2. /\ IsFiniteSet(kept) /\ IsFiniteSet(removed)
      /\ Cardinality(kept) \in Nat /\ Cardinality(removed) \in Nat
      /\ Cardinality(kept) + Cardinality(removed) = n
  <2>1. kept \in SUBSET N /\ removed \in SUBSET N /\ N \cap kept = kept
    OBVIOUS
  <2> HIDE DEF N, removed
  <2>2. IsFiniteSet(kept) /\ IsFiniteSet(removed)
    BY <1>1, <2>1, FS_Subset
  <2>3. Cardinality(removed) = Cardinality(N) - Cardinality(kept)
    <3>1. Cardinality(N \ kept) = Cardinality(N) - Cardinality(N \cap kept)
      BY <1>1, FS_Difference
    <3> QED BY <2>1, <3>1 DEF removed
  <2>4. Cardinality(kept) \in Nat /\ Cardinality(removed) \in Nat
    BY <2>2, FS_CardinalityType
  <2> QED BY <1>1, <2>2, <2>3, <2>4
<1>3. ASSUME NEW i \in removed PROVE novelty(i) \in Nat
  <2>1. 1 \in {k \in kept : k < i} /\ {k \in kept : k < i} \in SUBSET N
    <3>1. i \in 1 .. n /\ i # 1
      OBVIOUS
    <3>2. 1 < i
      BY <3>1
    <3> QED BY <3>2
  <2>2. Reference(kept, i) \in {k \in kept : k < i}
    BY <2>1, PartMax DEF Reference
  <2>3. Reference(kept, i) \in N /\ i \in N
    BY <2>2
  <2> QED BY <2>3, NoveltyTyped DEF Novelty
<1>4. IsOrder(removed, O)
  <2> DEFINE key == [i \in removed |-> novelty(i)]
  <2>1. key \in [removed -> Nat] /\ Numbers(removed)
    BY <1>3 DEF Numbers
  <2>2. \A x, y \in removed : <<x, y>> \in O <=> (key[x] > key[y] \/ (key[x] = key[y] /\ x < y))
    <3> SUFFICES ASSUME NEW x \in removed, NEW y \in removed
                 PROVE  <<x, y>> \in O <=> (key[x] > key[y] \/ (key[x] = key[y] /\ x < y))
      OBVIOUS
    <3>1. <<x, y>> \in O <=> Before(x, y)
      <4> HIDE DEF Before
      <4> QED OBVIOUS
    <3>2. Before(x, y) <=> (novelty(x) > novelty(y) \/ (novelty(x) = novelty(y) /\ x < y))
      BY DEF MoreNovel
    <3>3. key[x] = novelty(x) /\ key[y] = novelty(y)
      <4> HIDE DEF novelty
      <4> QED OBVIOUS
    <3> HIDE DEF O, key, Before, novelty
    <3> QED BY <3>1, <3>2, <3>3
  <2> HIDE DEF O, key, removed
  <2> QED BY <2>1, <2>2, OrderByKey
<1>5. Restored(frames, kept) = low
  <2>1. \A x \in removed : {y \in removed : <<y, x>> \in O} = {y \in removed : Before(y, x)}
    OBVIOUS
  <2>2. \A x \in removed : RankIn(removed, O, x) = Cardinality({y \in removed : Before(y, x)})
    BY <2>1 DEF RankIn
  <2>3. Restored(frames, kept) =
          {i \in removed : Cardinality({j \in removed : Before(j, i)}) < missing}
    <3> DEFINE lowIn(D) == {i \in D : Cardinality({j \in D : Before(j, i)}) < missing}
    <3>1. DOMAIN frames \ kept = removed
      BY DEF HashesOf
    <3>2. Restored(frames, kept) = lowIn(DOMAIN frames \ kept)
      BY DEF Restored
    <3> HIDE DEF lowIn, removed
    <3>3. lowIn(DOMAIN frames \ kept) = lowIn(removed)
      BY <3>1
    <3> QED BY <3>2, <3>3 DEF lowIn
  <2> HIDE DEF Before, O, removed, missing
  <2> QED BY <2>2, <2>3
<1>6. MIN_ANALYSIS_FRAMES \in Nat /\ missing \in Int
  BY <1>2, SamplingAssumption
<1> HIDE DEF O, missing
<1>7. /\ missing >= Cardinality(removed) => low = removed
      /\ missing \in 0 .. Cardinality(removed) => Cardinality(low) = missing
      /\ missing <= 0 => low = {}
  <2> HIDE DEF removed
  <2> QED BY <1>2, <1>4, <1>6, LowRanks
<1>8. low \subseteq removed
  OBVIOUS
<1>9. kept \cup removed = N /\ kept \cap low = {}
  OBVIOUS
<1> HIDE DEF low, removed, N
<1>10. /\ IsFiniteSet(low)
       /\ IsFiniteSet(kept \cup low)
       /\ Cardinality(kept \cup low) = Cardinality(kept) + Cardinality(low)
  <2>1. IsFiniteSet(low)
    BY <1>2, <1>8, FS_Subset
  <2>2. /\ IsFiniteSet(kept \cup low)
        /\ Cardinality(kept \cup low)
             = Cardinality(kept) + Cardinality(low) - Cardinality(kept \cap low)
    BY <1>2, <2>1, FS_Union
  <2>3. Cardinality(kept \cap low) = 0 /\ Cardinality(low) \in Nat
    BY <1>9, <2>1, FS_EmptySet, FS_CardinalityType
  <2> QED BY <1>2, <2>1, <2>2, <2>3
<1>11. CASE missing >= Cardinality(removed)
  <2>1. kept \cup low = N
    BY <1>7, <1>9, <1>11
  <2>2. n <= MIN_ANALYSIS_FRAMES
    BY <1>2, <1>6, <1>11 DEF missing
  <2> QED BY <1>5, <1>8, <1>10, <2>1, <2>2 DEF N, removed
<1>12. CASE missing \in 0 .. Cardinality(removed)
  <2>1. Cardinality(kept \cup low) = MIN_ANALYSIS_FRAMES
    BY <1>2, <1>6, <1>7, <1>10, <1>12 DEF missing
  <2> QED BY <1>5, <1>8, <1>10, <2>1 DEF N, removed
<1>13. CASE missing < 0
  <2>1. low = {} /\ Cardinality(kept) > MIN_ANALYSIS_FRAMES
    BY <1>2, <1>6, <1>7, <1>13 DEF missing
  <2> QED BY <1>5, <1>8, <1>10, <2>1 DEF N, removed
<1> QED BY <1>2, <1>6, <1>11, <1>12, <1>13

-----------------------------------------------------------------------------
(* What the chosen frames stand for. *)

\* The frames kept or brought back.
Chosen(frames) == FirstPass(frames) \cup Restored(frames, FirstPass(frames))

Near(frames, k, i) == hammingDistance(frames[k].hash, frames[i].hash) <= DEDUP_HAMMING_THRESHOLD

\* As many as the floor asks for; above it those of the first pass; and whoever is left
\* out is near an earlier one.
LEMMA ChosenStandForAll ==
  ASSUME NEW n \in Nat \ {0}, NEW frames, HashesOf(frames, n)
  PROVE  LET A == Chosen(frames)
         IN  /\ A \in SUBSET (1 .. n) /\ 1 \in A
             /\ IsFiniteSet(A) /\ Cardinality(A) \in Nat
             /\ Cardinality(A) >= Min({MIN_ANALYSIS_FRAMES, n})
             /\ Cardinality(A) > MIN_ANALYSIS_FRAMES => A = FirstPass(frames)
             /\ \A i \in (1 .. n) \ A : \E k \in A : k < i /\ Near(frames, k, i)
<1> DEFINE K == FirstPass(frames)
           B == Restored(frames, K)
           A == Chosen(frames)
           N == 1 .. n
<1>1. /\ K \in SUBSET N
      /\ \A i \in N : i \in K <=> i = 1 \/ Novelty(frames, K, i) > DEDUP_HAMMING_THRESHOLD
  BY FirstPassKeeps DEF HashesOf
<1>2. 1 \in N
  OBVIOUS
<1>3. 1 \in K
  BY <1>1, <1>2
<1> HIDE DEF K
<1>4. /\ B \in SUBSET (N \ K)
      /\ IsFiniteSet(K \cup B)
      /\ \/ K \cup B = N /\ n <= MIN_ANALYSIS_FRAMES
         \/ Cardinality(K \cup B) = MIN_ANALYSIS_FRAMES
         \/ B = {} /\ Cardinality(K) > MIN_ANALYSIS_FRAMES
  BY <1>1, <1>3, FloorIsMet
<1>5. A = K \cup B
  BY DEF Chosen, K
<1>6. Cardinality(N) = n /\ Cardinality(A) \in Nat /\ IsFiniteSet(A)
  <2>1. Cardinality(N) = IF 1 > n THEN 0 ELSE n - 1 + 1
    BY FS_Interval
  <2>2. Cardinality(N) = n
    BY <2>1
  <2> HIDE DEF B, A, N
  <2> QED BY <1>4, <1>5, <2>2, FS_CardinalityType
<1> HIDE DEF A, B
<1>7. A \in SUBSET N /\ 1 \in A
  BY <1>1, <1>3, <1>4, <1>5
<1>8. /\ MIN_ANALYSIS_FRAMES \in Nat /\ DEDUP_HAMMING_THRESHOLD \in Nat
      /\ Min({MIN_ANALYSIS_FRAMES, n}) \in Nat
      /\ Min({MIN_ANALYSIS_FRAMES, n}) <= MIN_ANALYSIS_FRAMES
      /\ Min({MIN_ANALYSIS_FRAMES, n}) <= n
  <2>1. MIN_ANALYSIS_FRAMES \in Nat /\ DEDUP_HAMMING_THRESHOLD \in Nat
    BY SamplingAssumption
  <2> DEFINE T == {MIN_ANALYSIS_FRAMES, n}
  <2>2. T \in SUBSET Nat /\ T # {} /\ MIN_ANALYSIS_FRAMES \in T /\ n \in T
    BY <2>1
  <2> HIDE DEF T
  <2>3. Min(T) \in T /\ \A y \in T : Min(T) <= y
    BY <2>2, MinOfNaturals
  <2>4. Min(T) \in Nat
    BY <2>2, <2>3
  <2> QED BY <2>1, <2>2, <2>3, <2>4 DEF T
<1>9. /\ Cardinality(A) >= Min({MIN_ANALYSIS_FRAMES, n})
      /\ Cardinality(A) > MIN_ANALYSIS_FRAMES => A = K
  <2> DEFINE least == Min({MIN_ANALYSIS_FRAMES, n})
  <2> HIDE DEF least, N
  <2>1. CASE A = N /\ n <= MIN_ANALYSIS_FRAMES
    BY <1>6, <1>8, <2>1 DEF least
  <2>2. CASE Cardinality(A) = MIN_ANALYSIS_FRAMES
    BY <1>6, <1>8, <2>2 DEF least
  <2>3. CASE B = {} /\ Cardinality(K) > MIN_ANALYSIS_FRAMES
    <3>1. A = K
      BY <1>5, <2>3
    <3> QED BY <1>6, <1>8, <2>3, <3>1 DEF least
  <2> QED BY <1>4, <1>5, <2>1, <2>2, <2>3
<1>10. ASSUME NEW i \in N \ A PROVE \E k \in A : k < i /\ Near(frames, k, i)
  <2>1. i \notin K /\ i # 1 /\ i \in 1 .. n
    BY <1>5, <1>7
  <2> DEFINE below == {k \in K : k < i}
             r == Reference(K, i)
  <2>2. 1 \in below /\ below \in SUBSET (1 .. n)
    <3>1. 1 < i
      BY <2>1
    <3> QED BY <1>1, <1>3, <3>1
  <2>3. r \in below
    <3>1. r = Max(below)
      BY DEF Reference
    <3> HIDE DEF below, r
    <3> QED BY <2>2, <3>1, PartMax
  <2>4. r \in A /\ r < i /\ r \in 1 .. n
    BY <1>1, <1>5, <2>3
  <2> HIDE DEF r
  <2>5. ~(Novelty(frames, K, i) > DEDUP_HAMMING_THRESHOLD)
    BY <1>1, <2>1
  <2>6. Novelty(frames, K, i) = hammingDistance(frames[r].hash, frames[i].hash)
    BY DEF Novelty, r
  <2>7. hammingDistance(frames[r].hash, frames[i].hash) \in Nat
    BY <2>1, <2>4, NoveltyTyped
  <2>8. Near(frames, r, i)
    <3> DEFINE h == hammingDistance(frames[r].hash, frames[i].hash)
    <3>1. h \in Nat /\ ~(h > DEDUP_HAMMING_THRESHOLD)
      BY <2>5, <2>6, <2>7
    <3> HIDE DEF h
    <3>2. h <= DEDUP_HAMMING_THRESHOLD
      BY <1>8, <3>1
    <3> QED BY <3>2 DEF Near, h
  <2> QED BY <2>4, <2>8
<1> HIDE DEF N
<1> QED BY <1>6, <1>7, <1>9, <1>10 DEF A, N, K

\* Of frames kept one after the other, the second is unlike the first.
LEMMA NeighboursDiffer ==
  ASSUME NEW n \in Nat \ {0}, NEW frames, HashesOf(frames, n),
         NEW m \in Nat, NEW order \in [1 .. m -> FirstPass(frames)],
         ToSet(order) = FirstPass(frames),
         \A i, j \in 1 .. m : i < j => order[i] < order[j],
         NEW k \in 2 .. m
  PROVE  ~Near(frames, order[k - 1], order[k])
<1> DEFINE K == FirstPass(frames)
           below == {x \in K : x < order[k]}
<1>1. /\ K \in SUBSET (1 .. n)
      /\ \A i \in 1 .. n : i \in K <=> i = 1 \/ Novelty(frames, K, i) > DEDUP_HAMMING_THRESHOLD
  BY FirstPassKeeps DEF HashesOf
<1> HIDE DEF K
<1>2. k \in 1 .. m /\ k - 1 \in 1 .. m /\ k - 1 < k
  OBVIOUS
<1>3. /\ order[k] \in K /\ order[k - 1] \in K /\ order[k - 1] < order[k]
      /\ order[k] \in 1 .. n /\ order[k - 1] \in 1 .. n
  BY <1>1, <1>2 DEF K
<1>4. order[k] # 1
  BY <1>3
<1>5. Novelty(frames, K, order[k]) > DEDUP_HAMMING_THRESHOLD
  BY <1>1, <1>3, <1>4
<1>6. ASSUME NEW y \in below PROVE order[k - 1] >= y
  <2>1. y \in K /\ y < order[k] /\ y \in 1 .. n
    BY <1>1
  <2>2. PICK j \in 1 .. m : order[j] = y
    BY <2>1 DEF ToSet, K
  <2>3. CASE j <= k - 1
    <3>1. j = k - 1 \/ j < k - 1
      BY <2>3
    <3>2. j = k - 1 \/ order[j] < order[k - 1]
      BY <1>2, <3>1
    <3> QED BY <1>3, <2>1, <2>2, <3>2
  <2>4. CASE ~(j <= k - 1)
    <3>1. k = j \/ k < j
      BY <2>4
    <3>2. k = j \/ order[k] < order[j]
      BY <1>2, <3>1
    <3> QED BY <1>3, <2>1, <2>2, <3>2
  <2> QED BY <2>3, <2>4
<1>7. below \in SUBSET Int /\ order[k - 1] \in below
  <2>1. order[k - 1] \in below
    BY <1>3
  <2>2. below \subseteq K /\ K \subseteq 1 .. n /\ 1 .. n \subseteq Int
    BY <1>1
  <2> HIDE DEF below
  <2> QED BY <2>1, <2>2
<1>8. Reference(K, order[k]) = order[k - 1]
  <2>1. Reference(K, order[k]) = Max(below)
    BY DEF Reference
  <2> HIDE DEF below
  <2> QED BY <1>6, <1>7, <2>1, MaxIs
<1>9. hammingDistance(frames[order[k - 1]].hash, frames[order[k]].hash) > DEDUP_HAMMING_THRESHOLD
  BY <1>5, <1>8 DEF Novelty
<1>10. hammingDistance(frames[order[k - 1]].hash, frames[order[k]].hash) \in Nat
  BY <1>3, NoveltyTyped
<1>11. DEDUP_HAMMING_THRESHOLD \in Nat
  BY SamplingAssumption
<1> DEFINE h == hammingDistance(frames[order[k - 1]].hash, frames[order[k]].hash)
<1>12. h > DEDUP_HAMMING_THRESHOLD /\ h \in Nat
  BY <1>9, <1>10
<1> HIDE DEF h
<1>13. ~(h <= DEDUP_HAMMING_THRESHOLD)
  BY <1>11, <1>12
<1> QED BY <1>13 DEF Near, h

-----------------------------------------------------------------------------
(* The list sent. *)

\* Frames on disk: numbered without a gap, in time order.
Numbered(frames, n) ==
  /\ n \in Nat
  /\ frames \in [1 .. n -> Frame]
  /\ \A i \in 1 .. n : frames[i].index = i
  /\ \A i, j \in 1 .. n : i < j => frames[i].timestamp < frames[j].timestamp

\* What is known of numbered frames as a list.
LEMMA NumberedFrames ==
  ASSUME NEW n, NEW frames, Numbered(frames, n)
  PROVE  /\ HashesOf(frames, n) /\ Len(frames) = n
         /\ frames \in Seq(Frame)
         /\ ToSet(frames) = {frames[i] : i \in 1 .. n}
<1>1. n \in Nat /\ frames \in [1 .. n -> Frame]
  BY DEF Numbered
<1>2. \A i \in 1 .. n : IsFiniteSet(frames[i].hash)
  <2>1. \A i \in 1 .. n : frames[i] \in Frame
    BY <1>1
  <2>2. \A f \in Frame : f.hash \in Pictures
    BY DEF Frame
  <2> QED BY <2>1, <2>2, FilesAssumption
<1>3. DOMAIN frames = 1 .. n
  BY <1>1
<1>4. HashesOf(frames, n)
  BY <1>2, <1>3 DEF HashesOf
<1>5. frames \in Seq(Frame) /\ Len(frames) = n
  BY <1>1, ListIsSequence
<1> QED BY <1>3, <1>4, <1>5 DEF ToSet

\* What is selected is a list of the chosen frames in order.
LEMMA DedupeLists ==
  ASSUME NEW n, NEW frames, Numbered(frames, n)
  PROVE  LET A == Chosen(frames)
             m == Cardinality(A)
             order == Ascending(A)
             sel == dedupeByHash(frames)
         IN  /\ m \in Nat /\ order \in [1 .. m -> A] /\ ToSet(order) = A /\ A \in SUBSET (1 .. n)
             /\ \A i, j \in 1 .. m : i < j => order[i] < order[j]
             /\ sel \in [1 .. m -> Frame] /\ sel \in Seq(Frame) /\ Len(sel) = m
             /\ \A i \in 1 .. m : sel[i] = frames[order[i]]
             /\ ToSet(sel) = {frames[i] : i \in A}
<1> DEFINE K == FirstPass(frames)
           A == Chosen(frames)
           m == Cardinality(A)
           order == Ascending(A)
           sel == dedupeByHash(frames)
<1>1. n \in Nat /\ frames \in [1 .. n -> Frame] /\ HashesOf(frames, n)
  BY NumberedFrames DEF Numbered
<1>2. A \in SUBSET (1 .. n)
  <2>1. K \in SUBSET (1 .. n)
    BY <1>1, FirstPassKeeps
  <2>2. \A x \in Restored(frames, K) : x \in DOMAIN frames
    BY DEF Restored
  <2> HIDE DEF K
  <2> QED BY <1>1, <2>1, <2>2 DEF Chosen, K
<1>3. sel = [k \in DOMAIN order |-> frames[order[k]]]
  BY DEF dedupeByHash, Chosen
<1> HIDE DEF A
<1>4. IsFiniteSet(A) /\ m \in Nat
  <2> DEFINE R == 1 .. n
  <2>1. IsFiniteSet(R)
    BY <1>1, FS_Interval
  <2>2. A \in SUBSET R
    BY <1>2
  <2> HIDE DEF R
  <2> QED BY <2>1, <2>2, FS_Subset, FS_CardinalityType
<1>5. Numbers(A)
  BY <1>1, <1>2 DEF Numbers
<1>6. /\ order \in [1 .. m -> A] /\ ToSet(order) = A
      /\ \A i, j \in 1 .. m : i < j => order[i] < order[j]
  BY <1>4, <1>5, AscendingLists
<1> HIDE DEF order, sel, m
<1>7. \A i \in 1 .. m : order[i] \in A /\ order[i] \in 1 .. n /\ frames[order[i]] \in Frame
  BY <1>1, <1>2, <1>6
<1>8. sel = [k \in 1 .. m |-> frames[order[k]]]
  BY <1>3, <1>6
<1>9. sel \in [1 .. m -> Frame] /\ \A i \in 1 .. m : sel[i] = frames[order[i]]
  BY <1>7, <1>8
<1>10. sel \in Seq(Frame) /\ Len(sel) = m
  BY <1>4, <1>9, ListIsSequence
<1>11. ToSet(sel) = {frames[i] : i \in A}
  <2>1. \A x \in A : \E i \in 1 .. m : order[i] = x
    BY <1>6 DEF ToSet
  <2>2. ToSet(sel) = {sel[i] : i \in 1 .. m}
    BY <1>9 DEF ToSet
  <2>3. \A f : f \in ToSet(sel) <=> \E i \in 1 .. m : f = sel[i]
    BY <2>2
  <2>4. \A f : f \in ToSet(sel) <=> \E x \in A : f = frames[x]
    BY <1>7, <1>9, <2>1, <2>3
  <2> QED BY <2>4
<1> QED BY <1>2, <1>4, <1>6, <1>9, <1>10, <1>11 DEF A, m, order, sel

Represents(sent, all) ==
  /\ \A i \in 2 .. Len(sent) : sent[i - 1].timestamp < sent[i].timestamp
  /\ ToSet(sent) \subseteq ToSet(all)
  /\ Len(sent) >= Min({MIN_ANALYSIS_FRAMES, Len(all)})
  /\ Len(sent) > MIN_ANALYSIS_FRAMES =>
       \A i \in 2 .. Len(sent) :
         hammingDistance(sent[i - 1].hash, sent[i].hash) > DEDUP_HAMMING_THRESHOLD
  /\ \A frame \in ToSet(all) \ ToSet(sent) :
       \E earlier \in ToSet(sent) :
         /\ earlier.index < frame.index
         /\ hammingDistance(earlier.hash, frame.hash) <= DEDUP_HAMMING_THRESHOLD

\* The list sent stands for the frames hashed.
LEMMA DedupeRepresents ==
  ASSUME NEW n, NEW frames, Numbered(frames, n), n # 0
  PROVE  Represents(dedupeByHash(frames), frames)
<1> DEFINE K == FirstPass(frames)
           A == Chosen(frames)
           m == Cardinality(A)
           order == Ascending(A)
           sel == dedupeByHash(frames)
<1>1. /\ n \in Nat \ {0} /\ frames \in [1 .. n -> Frame] /\ HashesOf(frames, n) /\ Len(frames) = n
      /\ ToSet(frames) = {frames[i] : i \in 1 .. n}
  BY NumberedFrames DEF Numbered
<1>2. /\ m \in Nat /\ order \in [1 .. m -> A] /\ ToSet(order) = A /\ A \in SUBSET (1 .. n)
      /\ \A i, j \in 1 .. m : i < j => order[i] < order[j]
      /\ Len(sel) = m
      /\ \A i \in 1 .. m : sel[i] = frames[order[i]]
      /\ ToSet(sel) = {frames[i] : i \in A}
  BY DedupeLists
<1>3. /\ m >= Min({MIN_ANALYSIS_FRAMES, n})
      /\ m > MIN_ANALYSIS_FRAMES => A = K
      /\ \A i \in (1 .. n) \ A : \E k \in A : k < i /\ Near(frames, k, i)
  BY <1>1, ChosenStandForAll
<1> HIDE DEF A, sel, K, order, m
<1>4. ASSUME NEW i \in 2 .. m
      PROVE  /\ i \in 1 .. m /\ i - 1 \in 1 .. m
             /\ order[i - 1] \in 1 .. n /\ order[i] \in 1 .. n
             /\ order[i - 1] < order[i]
             /\ sel[i] = frames[order[i]] /\ sel[i - 1] = frames[order[i - 1]]
  <2>1. i \in 1 .. m /\ i - 1 \in 1 .. m /\ i - 1 < i
    BY <1>2
  <2>2. order[i - 1] \in A /\ order[i] \in A
    BY <1>2, <2>1
  <2>3. A \subseteq 1 .. n
    BY <1>2
  <2> QED BY <1>2, <2>1, <2>2, <2>3
<1>5. \A i \in 2 .. m : sel[i - 1].timestamp < sel[i].timestamp
  BY <1>4 DEF Numbered
<1>6. ToSet(sel) \subseteq ToSet(frames)
  BY <1>1, <1>2
<1>7. ASSUME m > MIN_ANALYSIS_FRAMES, NEW i \in 2 .. m
      PROVE  hammingDistance(sel[i - 1].hash, sel[i].hash) > DEDUP_HAMMING_THRESHOLD
  <2>1. A = K
    BY <1>3, <1>7
  <2>2. /\ m \in Nat /\ order \in [1 .. m -> K] /\ ToSet(order) = K
        /\ \A a, b \in 1 .. m : a < b => order[a] < order[b]
    BY <1>2, <2>1
  <2>3. ~Near(frames, order[i - 1], order[i])
    BY <1>1, <2>2, NeighboursDiffer DEF K
  <2> DEFINE h == hammingDistance(sel[i - 1].hash, sel[i].hash)
  <2>4. h \in Nat /\ h = hammingDistance(frames[order[i - 1]].hash, frames[order[i]].hash)
    <3>1. h = hammingDistance(frames[order[i - 1]].hash, frames[order[i]].hash)
      BY <1>4
    <3>2. hammingDistance(frames[order[i - 1]].hash, frames[order[i]].hash) \in Nat
      BY <1>1, <1>4, NoveltyTyped
    <3> HIDE DEF h
    <3> QED BY <3>1, <3>2
  <2>5. ~(h <= DEDUP_HAMMING_THRESHOLD)
    <3> HIDE DEF h
    <3> QED BY <2>3, <2>4 DEF Near
  <2>6. DEDUP_HAMMING_THRESHOLD \in Nat
    BY SamplingAssumption
  <2> HIDE DEF h
  <2>7. h > DEDUP_HAMMING_THRESHOLD
    BY <2>4, <2>5, <2>6
  <2> QED BY <2>7 DEF h
<1>8. ASSUME NEW frame \in ToSet(frames) \ ToSet(sel)
      PROVE  \E earlier \in ToSet(sel) :
               /\ earlier.index < frame.index
               /\ hammingDistance(earlier.hash, frame.hash) <= DEDUP_HAMMING_THRESHOLD
  <2>1. PICK i \in 1 .. n : frame = frames[i]
    BY <1>1
  <2>2. i \notin A
    BY <1>2, <2>1
  <2>3. PICK k \in A : k < i /\ Near(frames, k, i)
    BY <1>3, <2>2
  <2>4. k \in 1 .. n /\ frames[k] \in ToSet(sel)
    BY <1>2
  <2>5. frames[k].index = k /\ frames[i].index = i
    BY <2>4 DEF Numbered
  <2> QED BY <2>1, <2>3, <2>4, <2>5 DEF Near
<1> QED BY <1>1, <1>2, <1>3, <1>5, <1>6, <1>7, <1>8 DEF Represents, sel, m

-----------------------------------------------------------------------------
(* Frames numbered as they come out. *)

\* The empty list.
LEMMA NoFrames == Numbered(<<>>, 0) /\ Len(<<>>) = 0 /\ ToSet(<<>>) = {}
<1>1. 1 .. 0 = {} /\ DOMAIN <<>> = {} /\ Len(<<>>) = 0 /\ <<>> \in [1 .. 0 -> Frame]
  OBVIOUS
<1>2. ToSet(<<>>) = {}
  BY <1>1 DEF ToSet
<1> QED BY <1>1, <1>2 DEF Numbered

\* A frame of a later instant, with the next number.
LEMMA OneMoreFrame ==
  ASSUME NEW n, NEW frames, Numbered(frames, n), NEW f \in Frame, f.index = n + 1,
         \A i \in 1 .. n : frames[i].timestamp < f.timestamp
  PROVE  Numbered(Append(frames, f), n + 1)
<1>1. n \in Nat /\ frames \in Seq(Frame) /\ Len(frames) = n
  BY NumberedFrames DEF Numbered
<1> DEFINE g == Append(frames, f)
<1>2. /\ g \in Seq(Frame) /\ Len(g) = n + 1 /\ g[n + 1] = f
      /\ \A i \in 1 .. n : g[i] = frames[i]
  BY <1>1, AppendFacts
<1> HIDE DEF g
<1>3. \A i \in 1 .. n + 1 : i \in 1 .. n \/ i = n + 1
  BY <1>1
<1>4. g \in [1 .. n + 1 -> Frame]
  BY <1>2
<1>5. \A i \in 1 .. n + 1 : g[i].index = i
  BY <1>2, <1>3 DEF Numbered
<1>6. ASSUME NEW i \in 1 .. n + 1, NEW j \in 1 .. n + 1, i < j
      PROVE  g[i].timestamp < g[j].timestamp
  <2>1. i \in 1 .. n
    BY <1>1, <1>6
  <2>2. CASE j \in 1 .. n
    BY <1>2, <1>6, <2>1, <2>2 DEF Numbered
  <2>3. CASE j = n + 1
    BY <1>2, <2>1, <2>3
  <2> QED BY <1>3, <2>2, <2>3
<1>7. n + 1 \in Nat
  BY <1>1
<1> QED BY <1>4, <1>5, <1>6, <1>7 DEF Numbered, g

\* The first k of them.
LEMMA FewerFrames ==
  ASSUME NEW n, NEW frames, Numbered(frames, n), NEW k \in 0 .. n
  PROVE  Numbered(SubSeq(frames, 1, k), k) /\ Len(SubSeq(frames, 1, k)) = k
<1>1. n \in Nat /\ frames \in [1 .. n -> Frame] /\ k \in Nat /\ 1 .. k \subseteq 1 .. n
  BY DEF Numbered
<1> DEFINE g == SubSeq(frames, 1, k)
<1>2. g = [i \in 1 .. k |-> frames[i]]
  <2>1. frames \in Seq(Frame) /\ Len(frames) = n
    BY NumberedFrames
  <2>2. /\ g \in Seq(Frame) /\ Len(g) = k /\ \A i \in 1 .. k : g[i] = frames[i]
    BY <1>1, <2>1
  <2> QED BY <1>1, <2>2
<1> HIDE DEF g
<1>3. g \in [1 .. k -> Frame] /\ \A i \in 1 .. k : g[i] = frames[i] /\ i \in 1 .. n
  BY <1>1, <1>2
<1>4. Numbered(g, k)
  BY <1>1, <1>3 DEF Numbered
<1>5. Len(g) = k
  BY <1>1, <1>3, ListIsSequence
<1> QED BY <1>4, <1>5 DEF g

-----------------------------------------------------------------------------
(* The run that is followed. *)

Budget == frameBudgetFor(video.duration)

PlanInv ==
  /\ timestamps \in Seq(Nat)
  /\ Len(timestamps) <= Budget
  /\ Rising(timestamps)
  /\ step = "scenes" => ToSet(timestamps) \subseteq Planned
  /\ \A t \in ToSet(timestamps) : \E p \in Planned : Distance(p, t) <= SCENE_SNAP_WINDOW

\* Each frame is of an instant tried.
FramesOfInstants ==
  /\ position \in Nat /\ position <= Len(timestamps)
  /\ Len(extracted) <= position
  /\ \A i \in 1 .. Len(extracted) : \E j \in 1 .. position :
       extracted[i].timestamp = timestamps[j]

FramesInv ==
  /\ Numbered(extracted, Len(extracted))
  /\ Len(extracted) <= Budget
  /\ step \in {"idle", "download", "probe", "scenes"} => extracted = <<>> /\ position = 0
  /\ step = "extract" => FramesOfInstants
  /\ step = "callback" /\ extracted # <<>> => Represents(selected, extracted)
  /\ step \in {"scenes", "extract", "hash", "callback"} =>
       target = scaledDimensions(displayDimensions(video))

FilesInv ==
  /\ step \in {"extract", "hash"} => 1 .. Len(extracted) \subseteq files
  /\ step = "callback" => {frame.index : frame \in ToSet(selected)} \subseteq files
  /\ step = "ended" => files = {}

SampleInv ==
  /\ video \in Videos /\ step \in Steps
  /\ PlanInv
  /\ FramesInv
  /\ FilesInv

\* The file's duration and its budget.
LEMMA VideoFacts ==
  ASSUME video \in Videos
  PROVE  /\ video.duration \in Nat
         /\ Budget \in Nat \ {0} /\ (SomeFrames => Budget <= policy.maxFrames)
<1>1. video.duration \in Nat
  BY FilesAssumption
<1> QED BY <1>1, BudgetBounds DEF Budget

\* The run has sampled nothing at first.
LEMMA SampleInit == Init => SampleInv
<1> SUFFICES ASSUME Init PROVE SampleInv
  OBVIOUS
<1>1. /\ video \in Videos /\ step = "idle" /\ timestamps = <<>> /\ extracted = <<>>
      /\ position = 0
  BY DEF Init, PreprocessInit
<1>2. Budget \in Nat \ {0}
  BY <1>1, VideoFacts
<1>3. Numbered(<<>>, 0) /\ Len(<<>>) = 0 /\ ToSet(<<>>) = {} /\ <<>> \in Seq(Nat)
  BY NoFrames
<1>4. PlanInv
  BY <1>1, <1>2, <1>3 DEF PlanInv, Rising
<1>5. FramesInv
  BY <1>1, <1>2, <1>3 DEF FramesInv
<1>6. FilesInv
  BY <1>1 DEF FilesInv
<1> QED BY <1>1, <1>4, <1>5, <1>6 DEF SampleInv, Steps

\* Steps that only move on.
LEMMA MovingOn ==
  ASSUME SampleInv, step' \in Steps,
         UNCHANGED <<video, timestamps, position, extracted, selected, target>>,
         \/ step' = step /\ files' = files
         \/ step = "idle" /\ step' = "download"
         \/ step = "download" /\ step' = "probe"
         \/ step' = "cleanup"
         \/ step' = "ended" /\ files' = {}
         \/ step = "extract" /\ step' = "hash" /\ files' = files
  PROVE  SampleInv'
<1> USE DEF SampleInv, Steps
<1>1. Budget' = Budget /\ Planned' = Planned
  BY DEF Budget, Planned
<1>2. PlanInv'
  BY <1>1 DEF PlanInv
<1>3. FramesInv'
  BY <1>1 DEF FramesInv, FramesOfInstants
<1>4. FilesInv'
  BY DEF FilesInv
<1> QED BY <1>2, <1>3, <1>4

\* The plan is made.
LEMMA ProbeKeeps ==
  ASSUME SampleInv, Probe
  PROVE  SampleInv'
<1> DEFINE ts == planTimestamps(video.duration, Budget)
<1>1. /\ video.duration \in Nat /\ Budget \in Nat \ {0}
      /\ video' = video /\ step = "probe" /\ step' \in {"scenes", "extract"}
      /\ timestamps' = ts /\ UNCHANGED <<position, extracted, selected, files>>
      /\ target' = scaledDimensions(displayDimensions(video))
  BY VideoFacts DEF SampleInv, Probe, Enter, Budget
<1>2. /\ ts \in Seq(Nat) /\ Len(ts) <= Budget /\ Rising(ts)
  BY <1>1, PlanInOrder
<1>3. ToSet(ts) = Planned /\ Planned' = Planned /\ Budget' = Budget
  BY <1>1 DEF Planned, Budget
<1> HIDE DEF ts
<1>4. \A t \in ToSet(ts) : t \in Planned /\ Distance(t, t) <= SCENE_SNAP_WINDOW
  <2>1. \A t \in ToSet(ts) : t \in Nat
    BY <1>2 DEF ToSet
  <2>2. SCENE_SNAP_WINDOW \in Nat
    BY SamplingAssumption
  <2> QED BY <1>3, <2>1, <2>2 DEF Distance
<1>5. PlanInv'
  BY <1>1, <1>2, <1>3, <1>4 DEF PlanInv
<1>6. extracted = <<>> /\ position = 0
  BY <1>1 DEF SampleInv, FramesInv
<1>7. Len(<<>>) = 0 /\ Numbered(<<>>, 0) /\ Len(ts) \in Nat
  BY <1>2, NoFrames
<1>8. FramesOfInstants'
  BY <1>1, <1>6, <1>7 DEF FramesOfInstants
<1>9. FramesInv'
  BY <1>1, <1>3, <1>6, <1>7, <1>8 DEF FramesInv, Budget
<1>10. FilesInv'
  BY <1>1, <1>6, <1>7 DEF FilesInv
<1> QED BY <1>1, <1>5, <1>9, <1>10 DEF SampleInv, Steps

\* The plan is snapped to the cuts found, if any.
LEMMA DetectScenesKeeps ==
  ASSUME SampleInv, DetectScenes
  PROVE  SampleInv'
<1>1. /\ step = "scenes" /\ step' = "extract"
      /\ UNCHANGED <<video, position, extracted, selected, target, files>>
  BY DEF DetectScenes, Enter
<1>2. PICK cuts \in {video.cuts, {}} : timestamps' = snapToScenes(timestamps, cuts)
  BY DEF DetectScenes
<1>3. cuts \in SUBSET Nat
  BY <1>2, FilesAssumption DEF SampleInv
<1> DEFINE n == Len(timestamps)
<1>4. /\ timestamps \in Seq(Nat) /\ n \in Nat /\ timestamps \in [1 .. n -> Nat]
      /\ n <= Budget /\ Rising(timestamps) /\ ToSet(timestamps) \subseteq Planned
  BY <1>1 DEF SampleInv, PlanInv
<1> HIDE DEF n
<1>5. /\ timestamps' \in Seq(Nat) /\ Len(timestamps') <= n /\ Rising(timestamps')
      /\ \A t \in ToSet(timestamps') : \E p \in ToSet(timestamps) : Distance(p, t) <= SCENE_SNAP_WINDOW
  BY <1>2, <1>3, <1>4, SnapKeepsPlan
<1>6. Budget \in Nat /\ Budget' = Budget /\ Planned' = Planned
  BY <1>1, VideoFacts DEF SampleInv, Budget, Planned
<1>7. Len(timestamps') \in Nat /\ Len(timestamps') <= Budget
  BY <1>4, <1>5, <1>6
<1>8. Rising(timestamps)'
  BY <1>5 DEF Rising
<1>9. PlanInv'
  BY <1>1, <1>4, <1>5, <1>6, <1>7, <1>8 DEF PlanInv
<1>10. extracted = <<>> /\ position = 0
  BY <1>1 DEF SampleInv, FramesInv
<1>11. Len(<<>>) = 0 /\ Numbered(<<>>, 0)
  BY NoFrames
<1>12. FramesOfInstants'
  BY <1>1, <1>7, <1>10, <1>11 DEF FramesOfInstants
<1>13. FramesInv'
  BY <1>1, <1>6, <1>10, <1>11, <1>12 DEF FramesInv, SampleInv
<1>14. FilesInv'
  BY <1>1, <1>10, <1>11 DEF FilesInv
<1> QED BY <1>1, <1>9, <1>13, <1>14 DEF SampleInv, Steps

\* One instant: a frame comes out, with the next number, or none does.
LEMMA ExtractFramesKeeps ==
  ASSUME SampleInv, ExtractFrames
  PROVE  SampleInv'
<1>1. /\ step = "extract" /\ UNCHANGED <<video, timestamps, selected, target>>
  BY DEF ExtractFrames
<1>2. /\ FramesOfInstants /\ Numbered(extracted, Len(extracted)) /\ Len(extracted) <= Budget
      /\ 1 .. Len(extracted) \subseteq files
      /\ target = scaledDimensions(displayDimensions(video))
      /\ Len(extracted) \in Nat
  BY <1>1 DEF SampleInv, FramesInv, FilesInv, Numbered
<1>3. Budget \in Nat /\ Budget' = Budget /\ Planned' = Planned
  BY <1>1, VideoFacts DEF SampleInv, Budget, Planned
<1>4. /\ timestamps \in Seq(Nat) /\ Len(timestamps) \in Nat /\ Len(timestamps) <= Budget
      /\ Rising(timestamps)
  BY DEF SampleInv, PlanInv
<1>5. ~(position < Len(timestamps)) => SampleInv'
  <2> SUFFICES ASSUME ~(position < Len(timestamps)) PROVE SampleInv'
    OBVIOUS
  <2>1. step' = "hash" /\ UNCHANGED <<position, extracted, files>>
    BY DEF ExtractFrames
  <2> QED BY <1>1, <2>1, MovingOn DEF Steps
<1>6. ASSUME position < Len(timestamps),
             UNCHANGED <<extracted, files>>, position' = position + 1, step' = step
      PROVE  SampleInv'
  <2>1. position' \in Nat /\ position' <= Len(timestamps) /\ Len(extracted) <= position'
    BY <1>2, <1>4, <1>6 DEF FramesOfInstants
  <2>2. \A j \in 1 .. position : j \in 1 .. position'
    BY <1>2, <1>6 DEF FramesOfInstants
  <2>3. FramesOfInstants'
    BY <1>1, <1>2, <1>6, <2>1, <2>2 DEF FramesOfInstants
  <2>4. PlanInv'
    BY <1>1, <1>3, <1>6 DEF SampleInv, PlanInv
  <2>5. FramesInv'
    BY <1>1, <1>2, <1>3, <1>6, <2>3 DEF FramesInv
  <2>6. FilesInv'
    BY <1>1, <1>2, <1>6 DEF FilesInv
  <2> QED BY <1>1, <1>6, <2>4, <2>5, <2>6 DEF SampleInv, Steps
<1>7. ASSUME position < Len(timestamps), NEW picture \in Pictures, extractFrame(picture),
             position' = position + 1, step' = step
      PROVE  SampleInv'
  <2> DEFINE n == Len(extracted)
             f == [timestamp |-> timestamps[position + 1], index |-> n + 1, hash |-> picture]
  <2>1. extracted' = Append(extracted, f) /\ files' = files \cup {n + 1}
    BY <1>7 DEF extractFrame
  <2>2. position + 1 \in 1 .. Len(timestamps) /\ position \in Nat
    BY <1>2, <1>4, <1>7 DEF FramesOfInstants
  <2>3. timestamps[position + 1] \in Nat
    BY <1>4, <2>2
  <2>4. f \in Frame /\ f.index = n + 1 /\ f.timestamp = timestamps[position + 1]
    BY <1>2, <2>3 DEF Frame
  <2>5. ASSUME NEW i \in 1 .. n PROVE extracted[i].timestamp < f.timestamp
    <3>1. PICK j \in 1 .. position : extracted[i].timestamp = timestamps[j]
      BY <1>2 DEF FramesOfInstants
    <3>2. j < position + 1 /\ j \in 1 .. Len(timestamps)
      BY <1>4, <2>2
    <3> HIDE DEF f
    <3> QED BY <1>4, <2>2, <2>4, <3>1, <3>2 DEF Rising
  <2> HIDE DEF f, n
  <2>6. n \in Nat /\ Numbered(extracted, n) /\ extracted \in Seq(Frame) /\ Len(extracted) = n
    BY <1>2, NumberedFrames DEF n
  <2>7. Numbered(extracted', n + 1)
    BY <2>1, <2>4, <2>5, <2>6, OneMoreFrame
  <2>8. /\ Len(extracted') = n + 1 /\ extracted'[n + 1] = f
        /\ \A i \in 1 .. n : extracted'[i] = extracted[i]
    BY <2>1, <2>4, <2>6, AppendFacts
  <2>9. n <= position /\ position' <= Len(timestamps) /\ n + 1 <= position' /\ n + 1 <= Budget
    <3>1. n <= position
      BY <1>2 DEF FramesOfInstants, n
    <3> QED BY <1>3, <1>4, <1>7, <2>2, <2>6, <3>1
  <2>10. ASSUME NEW i \in 1 .. n + 1
         PROVE  \E j \in 1 .. position' : extracted'[i].timestamp = timestamps[j]
    <3>1. i \in 1 .. n \/ i = n + 1
      BY <2>6
    <3>2. CASE i \in 1 .. n
      <4>1. PICK j \in 1 .. position : extracted[i].timestamp = timestamps[j]
        BY <1>2, <3>2 DEF FramesOfInstants, n
      <4>2. j \in 1 .. position'
        BY <1>7, <2>2
      <4> QED BY <2>8, <3>2, <4>1, <4>2
    <3>3. CASE i = n + 1
      <4>1. position + 1 \in 1 .. position'
        BY <1>7, <2>2
      <4> QED BY <2>4, <2>8, <3>3, <4>1
    <3> QED BY <3>1, <3>2, <3>3
  <2>11. FramesOfInstants'
    <3>1. position' \in Nat
      BY <1>7, <2>2
    <3> QED BY <1>1, <2>8, <2>9, <2>10, <3>1 DEF FramesOfInstants
  <2>12. Numbered(extracted, Len(extracted))'
    BY <2>7, <2>8 DEF Numbered
  <2>13. PlanInv'
    BY <1>1, <1>3, <1>7 DEF SampleInv, PlanInv
  <2>14. FramesInv'
    BY <1>1, <1>2, <1>3, <1>7, <2>8, <2>9, <2>11, <2>12 DEF FramesInv
  <2>15. 1 .. Len(extracted') \subseteq files'
    <3>1. 1 .. n \subseteq files
      BY <1>2 DEF n
    <3>2. \A i \in 1 .. n + 1 : i \in 1 .. n \/ i = n + 1
      BY <2>6
    <3> QED BY <2>1, <2>8, <3>1, <3>2
  <2>16. FilesInv'
    BY <1>1, <1>7, <2>15 DEF FilesInv
  <2> QED BY <1>1, <1>7, <2>13, <2>14, <2>16 DEF SampleInv, Steps
<1> QED BY <1>5, <1>6, <1>7 DEF ExtractFrames

\* The hashes may run out; of the frames that have one the list to send is chosen.
LEMMA HashFramesKeeps ==
  ASSUME SampleInv, HashFrames
  PROVE  SampleInv'
<1>1. /\ step = "hash" /\ step' = "callback"
      /\ UNCHANGED <<video, timestamps, position, target, files>>
  BY DEF HashFrames, Enter
<1>2. PICK k \in 0 .. Len(extracted) :
        /\ extracted' = SubSeq(extracted, 1, k)
        /\ selected' = dedupeByHash(SubSeq(extracted, 1, k))
  BY DEF HashFrames
<1>3. /\ Numbered(extracted, Len(extracted)) /\ Len(extracted) <= Budget
      /\ 1 .. Len(extracted) \subseteq files
      /\ target = scaledDimensions(displayDimensions(video))
      /\ Len(extracted) \in Nat
  BY <1>1 DEF SampleInv, FramesInv, FilesInv, Numbered
<1>4. Budget \in Nat /\ Budget' = Budget /\ Planned' = Planned
  BY <1>1, VideoFacts DEF SampleInv, Budget, Planned
<1> DEFINE kept == extracted'
<1>5. Numbered(kept, k) /\ Len(kept) = k
  BY <1>2, <1>3, FewerFrames
<1>6. selected' = dedupeByHash(kept)
  BY <1>2
<1> HIDE DEF kept
<1>7. k \in Nat /\ k <= Budget /\ 1 .. k \subseteq files
  BY <1>3, <1>4
<1>8. kept # <<>> => Represents(selected', kept)
  <2> SUFFICES ASSUME kept # <<>> PROVE Represents(selected', kept)
    OBVIOUS
  <2>1. kept \in Seq(Frame) /\ Len(kept) = k
    BY <1>5, NumberedFrames
  <2>2. k # 0
    BY <2>1
  <2> QED BY <1>5, <1>6, <2>2, DedupeRepresents
<1>9. {frame.index : frame \in ToSet(selected')} \subseteq files
  <2> DEFINE A == Chosen(kept)
  <2>1. A \in SUBSET (1 .. k) /\ ToSet(selected') = {kept[i] : i \in A}
    BY <1>5, <1>6, DedupeLists
  <2> HIDE DEF A
  <2>2. \A i \in A : kept[i].index \in files
    BY <1>5, <1>7, <2>1 DEF Numbered
  <2> QED BY <2>1, <2>2
<1>10. PlanInv'
  BY <1>1, <1>4 DEF SampleInv, PlanInv
<1>11. Numbered(extracted, Len(extracted))'
  BY <1>5 DEF Numbered, kept
<1>12. Represents(selected, extracted)' <=> Represents(selected', kept)
  BY DEF Represents, kept
<1>13. FramesInv'
  BY <1>1, <1>3, <1>4, <1>5, <1>7, <1>8, <1>11, <1>12 DEF FramesInv, kept
<1>14. FilesInv'
  BY <1>1, <1>9 DEF FilesInv
<1> QED BY <1>1, <1>10, <1>13, <1>14 DEF SampleInv, Steps

\* What is forgotten once the frames are in memory was of no more use.
LEMMA ReadingForgets ==
  ASSUME SampleInv, timestamps' = <<>>, extracted' = <<>>, selected' = <<>>,
         step = "callback", UNCHANGED <<video, step, position, target, files>>
  PROVE  SampleInv'
<1>1. Numbered(<<>>, 0) /\ Len(<<>>) = 0 /\ ToSet(<<>>) = {} /\ <<>> \in Seq(Nat)
  BY NoFrames
<1>2. Budget \in Nat /\ Budget' = Budget
  BY VideoFacts DEF SampleInv, Budget
<1>3. PlanInv'
  BY <1>1, <1>2 DEF PlanInv, Rising
<1>4. FramesInv'
  <2>1. target = scaledDimensions(displayDimensions(video))
    BY DEF SampleInv, FramesInv
  <2>2. Numbered(extracted, Len(extracted))' /\ Len(extracted') <= Budget'
    BY <1>1, <1>2 DEF Numbered
  <2> QED BY <2>1, <2>2 DEF FramesInv
<1>5. FilesInv'
  BY <1>1 DEF FilesInv
<1> QED BY <1>3, <1>4, <1>5 DEF SampleInv, Steps

\* Every step of preprocessVideo.
LEMMA PreprocessVideoKeeps ==
  ASSUME SampleInv, PreprocessVideo
  PROVE  SampleInv'
<1>1. CASE Download
  BY <1>1, MovingOn DEF Download, Enter, Steps
<1>2. CASE ProbeFails
  BY <1>2, MovingOn DEF ProbeFails, Enter, Steps
<1>3. CASE HashingFails
  BY <1>3, MovingOn DEF HashingFails, Enter, Steps
<1> QED BY <1>1, <1>2, <1>3, ProbeKeeps, DetectScenesKeeps, ExtractFramesKeeps, HashFramesKeeps
        DEF PreprocessVideo

\* The frames are read while the run waits for the callback.
ReadsInCallback == calls[Followed].at = "reading" => step = "callback"

\* Every step of the run.
LEMMA SampleStep == SampleInv /\ ReadsInCallback /\ [Next]_vars => SampleInv'
<1> SUFFICES ASSUME SampleInv, ReadsInCallback, [Next]_vars PROVE SampleInv'
  OBVIOUS
<1>1. step \in Steps
  BY DEF SampleInv
<1>2. CASE TakeVideo
  BY <1>1, <1>2, MovingOn DEF TakeVideo, Enter, Steps
<1>3. CASE Preprocessing
  BY <1>3, PreprocessVideoKeeps DEF Preprocessing
<1>4. CASE BeforeCleanup
  BY <1>1, <1>4, MovingOn DEF BeforeCleanup, Steps
<1>5. CASE ReadOwnFrames
  <2>1. step = "callback"
    BY <1>5 DEF ReadOwnFrames, ReadFrames, ReadsInCallback
  <2> QED BY <1>5, <2>1, ReadingForgets DEF ReadOwnFrames
<1>6. CASE ReadOtherFrames
  BY <1>1, <1>6, MovingOn DEF ReadOtherFrames, preprocessVars
<1>7. CASE Answer
  BY <1>1, <1>7, MovingOn DEF Answer, preprocessVars
<1>8. CASE Persist
  BY <1>8, MovingOn DEF Persist, Enter, Steps
<1>9. CASE RemoveFiles
  BY <1>9, MovingOn DEF RemoveFiles, Cleanup, Enter, Steps
<1>10. CASE Finished \/ UNCHANGED vars
  BY <1>1, <1>10, MovingOn DEF Finished, vars, preprocessVars
<1> QED BY <1>2, <1>3, <1>4, <1>5, <1>6, <1>7, <1>8, <1>9, <1>10 DEF Next

\* A call reads its frames only in the callback, and the callback waits for it.
LEMMA ReadsInCallbackStep ==
  CallsTyped /\ ReadsInCallback /\ [Next]_vars => ReadsInCallback'
<1> SUFFICES ASSUME CallsTyped, ReadsInCallback, [Next]_vars, calls'[Followed].at = "reading"
             PROVE  step' = "callback"
  BY DEF ReadsInCallback
<1>1. calls \in [Calls -> Call] /\ Followed \in Calls
  BY Constants DEF CallsTyped
<1>2. ASSUME NEW c \in Calls, NEW outcome, End(c, outcome)
      PROVE  calls'[c].at = "done" /\ \A d \in Calls \ {c} : calls'[d] = calls[d]
  BY <1>1, <1>2 DEF End
<1>3. ASSUME NEW c \in Calls, NEW n, NEW fallback, Request(c, n, fallback)
      PROVE  calls'[c].at = "waiting" /\ \A d \in Calls \ {c} : calls'[d] = calls[d]
  BY <1>1, <1>3 DEF Request
<1>4. ASSUME UNCHANGED step, calls'[Followed] = calls[Followed] PROVE step' = "callback"
  BY <1>4 DEF ReadsInCallback
<1>5. CASE TakeVideo
  <2>1. CASE cursor = Followed
    BY <1>5, <2>1 DEF TakeVideo, Enter, ReadsInCallback
  <2>2. CASE cursor # Followed
    <3>1. calls' = [calls EXCEPT ![cursor].at = "reading"] /\ step' = step
      BY <1>5, <2>2 DEF TakeVideo, Begin
    <3>2. calls'[Followed] = calls[Followed]
      BY <1>1, <2>2, <3>1
    <3> QED BY <1>4, <3>1, <3>2
  <2> QED BY <2>1, <2>2
<1>6. CASE Preprocessing
  <2>1. CASE step' = "cleanup"
    <3>1. calls'[Followed].at = "done"
      BY <1>1, <1>2, <1>6, <2>1 DEF Preprocessing
    <3> QED BY <3>1
  <2>2. CASE step' # "cleanup"
    <3>1. calls' = calls
      BY <1>6, <2>2 DEF Preprocessing
    <3>2. step = "callback"
      BY <3>1 DEF ReadsInCallback
    <3> QED BY <1>6, <3>2 DEF Preprocessing, PreprocessVideo, Download, ProbeFails, Probe,
                DetectScenes, ExtractFrames, HashFrames, HashingFails, Enter
  <2> QED BY <2>1, <2>2
<1>7. CASE BeforeCleanup
  <2>1. CASE selected = <<>>
    <3>1. calls'[Followed].at = "done"
      BY <1>1, <1>2, <1>7, <2>1 DEF BeforeCleanup
    <3> QED BY <3>1
  <2>2. CASE selected # <<>>
    BY <1>7, <2>2 DEF BeforeCleanup
  <2> QED BY <2>1, <2>2
<1>8. CASE ReadOwnFrames
  <2>1. calls'[Followed].at = "waiting"
    BY <1>1, <1>3, <1>8 DEF ReadOwnFrames, ReadFrames
  <2> QED BY <2>1
<1>9. CASE ReadOtherFrames
  <2>1. PICK c \in Calls \ {Followed} : ReadFrames(c)
    BY <1>9 DEF ReadOtherFrames
  <2>2. calls'[Followed] = calls[Followed]
    BY <1>1, <1>3, <2>1 DEF ReadFrames
  <2> QED BY <1>4, <1>9, <2>2 DEF ReadOtherFrames, preprocessVars
<1>10. CASE Answer
  <2>1. PICK c \in Calls : Answered(c)
    BY <1>10 DEF Answer
  <2>2. \/ \E outcome \in Kinds \cup {"analyzed"} : End(c, outcome)
        \/ \E n \in {calls[c].attempt, calls[c].attempt + 1}, fallback \in BOOLEAN :
             Request(c, n, fallback)
    BY <2>1 DEF Answered, Refused, callWithFallback, Unreachable, Valid, Repair, Kinds,
                NotRead, NotReached
  <2>3. /\ calls'[c].at \in {"waiting", "done"}
        /\ \A d \in Calls \ {c} : calls'[d] = calls[d]
    BY <1>2, <1>3, <2>2
  <2>4. calls'[Followed] = calls[Followed]
    BY <1>1, <2>3
  <2> QED BY <1>4, <1>10, <2>4 DEF Answer, preprocessVars
<1>11. CASE Persist
  <2>1. calls[Followed].at = "done"
    BY <1>11 DEF Persist
  <2>2. calls'[Followed].at = "done"
    BY <1>1, <1>11, <2>1 DEF Persist, Call
  <2> QED BY <2>2
<1>12. CASE RemoveFiles
  <2>1. calls' = calls /\ step = "cleanup"
    BY <1>12 DEF RemoveFiles, Cleanup, Enter, visionVars
  <2> QED BY <2>1 DEF ReadsInCallback
<1>13. CASE Finished \/ UNCHANGED vars
  BY <1>4, <1>13 DEF Finished, vars, visionVars, preprocessVars
<1> QED BY <1>5, <1>6, <1>7, <1>8, <1>9, <1>10, <1>11, <1>12, <1>13 DEF Next

RunInv == CallsInv /\ SampleInv /\ ReadsInCallback

\* The invariant of the run.
LEMMA RunInvAlways == Spec => []RunInv
<1>1. Init => ReadsInCallback
  <2> SUFFICES ASSUME Init PROVE calls[Followed].at # "reading"
    BY DEF ReadsInCallback
  <2> QED BY Constants DEF Init, VisionInit, Unstarted
<1>2. Init => RunInv
  BY <1>1, CallsInvHolds, SampleInit DEF RunInv
<1>3. RunInv /\ [Next]_vars => RunInv'
  <2>1. CallsInv => CallsTyped
    BY DEF CallsInv, ProviderInv
  <2>2. CallsInv /\ [Next]_vars => CallsInv'
    BY ProviderStep, UntakenStep DEF CallsInv
  <2> QED BY <2>1, <2>2, SampleStep, ReadsInCallbackStep DEF RunInv
<1> QED BY <1>2, <1>3, PTL DEF Spec

\* The invariant bounds the plan.
LEMMA SampledAsPlanned == SomeFrames /\ SampleInv => PlanWithinBudget
<1> SUFFICES ASSUME SomeFrames, SampleInv PROVE PlanWithinBudget
  OBVIOUS
<1>1. /\ video.duration \in Nat /\ Budget \in Nat \ {0} /\ Budget <= policy.maxFrames
  BY VideoFacts DEF SampleInv
<1>2. PlanInv /\ timestamps \in Seq(Nat) /\ Len(timestamps) \in Nat /\ Len(timestamps) <= Budget
  BY DEF SampleInv, PlanInv
<1>3. policy.maxFrames \in Nat
  BY DEF SomeFrames
<1>4. Len(timestamps) <= policy.maxFrames
  BY <1>1, <1>2, <1>3
<1>5. ASSUME NEW i \in 2 .. Len(timestamps) PROVE timestamps[i - 1] < timestamps[i]
  <2>1. i - 1 \in 1 .. Len(timestamps) /\ i \in 1 .. Len(timestamps) /\ i - 1 < i
    BY <1>2
  <2> QED BY <1>2, <2>1 DEF PlanInv, Rising
<1>6. Planned \subseteq 0 .. Max({video.duration - 50, 0})
  BY <1>1, PlanInOrder DEF Planned, Budget
<1> QED BY <1>2, <1>4, <1>5, <1>6 DEF PlanWithinBudget, PlanInv, Budget

(* Whatever the video and the cuts found in it, no more instants are sampled than  *)
(* the budget of its duration and the hard cap allow, in order and near the plan   *)
(* (frameBudgetFor, planTimestamps, snapToScenes).                                 *)
THEOREM PlansAreBounded == ASSUME SomeFrames PROVE Spec => []PlanWithinBudget
<1>1. RunInv => PlanWithinBudget
  BY SampledAsPlanned DEF RunInv
<1> QED BY RunInvAlways, <1>1, PTL

(* However many frames come out and whatever their hashes, those sent to the model *)
(* stand for all that were hashed (dedupeByHash).                                  *)
THEOREM SelectionStandsForAll == Spec => []SelectionIsRepresentative
<1>1. SampleInv => SelectionIsRepresentative
  BY DEF SampleInv, FramesInv, Represents, SelectionIsRepresentative
<1>2. RunInv => SelectionIsRepresentative
  BY <1>1 DEF RunInv
<1> QED BY RunInvAlways, <1>2, PTL

(* Wherever the run breaks off, the frames selected are on disk until the provider *)
(* has read them and nothing is left on disk after it (extractFrames,              *)
(* preprocessVideo's finally block).                                               *)
THEOREM FramesAreThereWhenRead == Spec => []FramesLiveUntilRead
<1>1. SampleInv /\ ReadsInCallback => FramesLiveUntilRead
  <2> SUFFICES ASSUME SampleInv, ReadsInCallback PROVE FramesLiveUntilRead
    OBVIOUS
  <2>1. Numbered(extracted, Len(extracted))
    BY DEF SampleInv, FramesInv
  <2>2. \A i \in DOMAIN extracted : extracted[i].index = i
    BY <2>1 DEF Numbered
  <2> QED BY <2>2 DEF SampleInv, FilesInv, ReadsInCallback, FramesLiveUntilRead
<1>2. RunInv => FramesLiveUntilRead
  BY <1>1 DEF RunInv
<1> QED BY RunInvAlways, <1>2, PTL

-----------------------------------------------------------------------------
(* The size of a frame. *)

EvenLimit == FRAME_MAX_LONG_EDGE % 2 = 0

\* x times the scale that brings the long edge to the limit, to an even number.
Quotient(x, edge) == (x * FRAME_MAX_LONG_EDGE + edge) \div (2 * edge)
EvenSide(x, edge) == Max({2, Quotient(x, edge) * 2})

\* The scaled side is even, fits, and is off by half a pixel pair at most.
LEMMA QuotientBounds ==
  ASSUME EvenLimit, NEW edge \in Nat \ {0, 1}, FRAME_MAX_LONG_EDGE < edge,
         NEW x \in Nat \ {0, 1}, x <= edge
  PROVE  LET q == Quotient(x, edge)
             L == FRAME_MAX_LONG_EDGE
         IN  /\ q \in Nat /\ 2 * q <= x /\ 2 * q <= L
             /\ x = edge => 2 * q = L
             /\ edge * (2 * q) <= x * L + edge
             /\ x * L < edge * (2 * q) + edge
<1> DEFINE L == FRAME_MAX_LONG_EDGE
           p == x * L
           q == Quotient(x, edge)
           u == edge * q
           r == (p + edge) % (2 * edge)
<1>1. L \in Nat /\ L <= edge - 1 /\ edge \in Nat /\ x \in Nat
  BY SamplingAssumption
<1>2. L % 2 = 0
  BY DEF EvenLimit
<1> HIDE DEF L
<1>3. \A a, b \in Nat : a * b \in Nat
  OBVIOUS
<1>4. p \in Nat
  BY <1>1, <1>3
<1>5. q = (p + edge) \div (2 * edge)
  BY DEF Quotient, L
<1> HIDE DEF p, q
<1>6. p + edge \in Nat /\ 2 * edge \in Nat \ {0}
  BY <1>1, <1>4
<1>7. q \in Nat /\ r \in 0 .. 2 * edge - 1 /\ p + edge = (2 * edge) * q + r
  <2> DEFINE a == p + edge
             c == 2 * edge
  <2> HIDE DEF a, c
  <2>1. a \in Nat /\ c \in Nat \ {0}
    BY <1>6 DEF a, c
  <2>2. a \div c \in Nat /\ a % c \in 0 .. c - 1 /\ a = c * (a \div c) + (a % c)
    BY <2>1
  <2> QED BY <1>5, <2>2 DEF a, c
<1> HIDE DEF r
<1>8. u \in Nat /\ (2 * edge) * q = 2 * u /\ edge * (2 * q) = 2 * u
  <2>1. u \in Nat
    BY <1>1, <1>3, <1>7
  <2> QED BY <1>1, <1>7, <2>1
<1>9. p + edge = 2 * u + r /\ r \in Nat /\ r < 2 * edge
  BY <1>1, <1>7, <1>8
<1>10. edge * (2 * q) <= p + edge /\ p < edge * (2 * q) + edge
  <2> HIDE DEF u
  <2> QED BY <1>1, <1>4, <1>8, <1>9
<1>11. p <= x * edge - x /\ p <= edge * L /\ x * edge \in Nat /\ edge * L \in Nat
  <2>1. x * L <= x * (edge - 1) /\ edge - 1 \in Nat
    BY <1>1, ProductGrows
  <2>2. x * (edge - 1) = x * edge - x
    BY <1>1
  <2>3. x * L <= edge * L
    BY <1>1, ProductGrows
  <2>4. x * edge \in Nat /\ edge * L \in Nat
    BY <1>1, <1>3
  <2> QED BY <2>1, <2>2, <2>3, <2>4 DEF p
<1>12. 2 * q <= x
  <2> SUFFICES ASSUME ~(2 * q <= x) PROVE FALSE
    OBVIOUS
  <2>1. x + 1 <= 2 * q /\ 2 * q \in Nat /\ x + 1 \in Nat
    BY <1>1, <1>7
  <2>2. edge * (x + 1) <= edge * (2 * q)
    BY <1>1, <2>1, ProductGrows
  <2>3. edge * (x + 1) = x * edge + edge
    BY <1>1
  <2> DEFINE w == x * edge
  <2> HIDE DEF w, u
  <2>4. w + edge <= 2 * u /\ p <= w - x /\ w \in Nat
    BY <1>8, <1>11, <2>2, <2>3 DEF w
  <2>5. 2 * u <= p + edge /\ x > 0
    BY <1>1, <1>8, <1>10
  <2> QED BY <1>1, <1>4, <1>8, <2>4, <2>5
<1>13. PICK k \in Nat : L = 2 * k
  <2>1. L = 2 * (L \div 2) + (L % 2) /\ L \div 2 \in Nat
    BY <1>1
  <2> QED BY <1>1, <1>2, <2>1
<1>14. 2 * q <= L
  <2> SUFFICES ASSUME ~(2 * q <= L) PROVE FALSE
    OBVIOUS
  <2>1. L + 2 <= 2 * q /\ 2 * q \in Nat /\ L + 2 \in Nat
    BY <1>1, <1>7, <1>13
  <2>2. edge * (L + 2) <= edge * (2 * q)
    BY <1>1, <2>1, ProductGrows
  <2>3. edge * (L + 2) = edge * L + 2 * edge
    BY <1>1
  <2> DEFINE w == edge * L
  <2> HIDE DEF w, u
  <2>4. w + 2 * edge <= 2 * u /\ p <= w /\ w \in Nat
    BY <1>8, <1>11, <2>2, <2>3 DEF w
  <2>5. 2 * u <= p + edge
    BY <1>8, <1>10
  <2> QED BY <1>1, <1>4, <1>8, <2>4, <2>5
<1>15. ASSUME x = edge PROVE 2 * q = L
  <2> SUFFICES ASSUME 2 * q # L PROVE FALSE
    OBVIOUS
  <2>1. 2 * q + 2 <= L /\ 2 * q \in Nat /\ 2 * q + 2 \in Nat
    BY <1>1, <1>7, <1>13, <1>14
  <2>2. edge * (2 * q + 2) <= edge * L
    BY <1>1, <2>1, ProductGrows
  <2>3. edge * (2 * q + 2) = edge * (2 * q) + 2 * edge
    BY <1>1, <2>1
  <2>4. p = edge * L
    BY <1>15 DEF p
  <2> DEFINE w == edge * L
  <2> HIDE DEF w, u
  <2>5. 2 * u + 2 * edge <= w /\ p = w
    BY <1>8, <2>2, <2>3, <2>4 DEF w
  <2> QED BY <1>1, <1>4, <1>8, <1>10, <2>5
<1> QED BY <1>7, <1>10, <1>12, <1>14, <1>15 DEF L, p, q

Greater(a, b) == Max({a, b})

\* MaxOfTwo under a name.
LEMMA TheGreater ==
  ASSUME NEW a \in Int, NEW b \in Int
  PROVE  /\ Greater(a, b) = a \/ Greater(a, b) = b
         /\ Greater(a, b) >= a /\ Greater(a, b) >= b
<1>1. Max({a, b}) \in {a, b} /\ Max({a, b}) >= a /\ Max({a, b}) >= b
  BY MaxOfTwo
<1>2. Greater(a, b) \in {a, b} /\ Greater(a, b) >= a /\ Greater(a, b) >= b
  BY <1>1 DEF Greater
<1> QED BY <1>2

\* Both sides of a video scaled by its long edge, the other one being s.
LEMMA SidesFit ==
  ASSUME EvenLimit, NEW edge \in Nat \ {0, 1}, FRAME_MAX_LONG_EDGE < edge,
         NEW s \in Nat \ {0, 1}, s <= edge, edge <= s * (FRAME_MAX_LONG_EDGE + 1)
  PROVE  LET big == EvenSide(edge, edge)
             small == EvenSide(s, edge)
         IN  /\ big \in Nat /\ small \in Nat /\ big <= edge /\ small <= s
             /\ Max({big, small}) <= Max({FRAME_MAX_LONG_EDGE, 2})
             /\ Distance(big * s, small * edge) <= s + edge
<1> DEFINE L == FRAME_MAX_LONG_EDGE
           q == Quotient(s, edge)
           big == EvenSide(edge, edge)
           small == EvenSide(s, edge)
           p == s * L
           limit == Max({L, 2})
<1>1. L \in Nat
  BY SamplingAssumption
<1>2. /\ q \in Nat /\ 2 * q <= s /\ 2 * q <= L
      /\ edge * (2 * q) <= p + edge /\ p < edge * (2 * q) + edge
  BY QuotientBounds
<1>3. Quotient(edge, edge) \in Nat /\ 2 * Quotient(edge, edge) = L
  BY QuotientBounds
<1> HIDE DEF L, q
<1>4. (limit = L \/ limit = 2) /\ limit >= L /\ limit >= 2
  <2>1. limit = Greater(L, 2) /\ L \in Int /\ 2 \in Int
    BY <1>1 DEF Greater
  <2> HIDE DEF limit
  <2> QED BY <2>1, TheGreater
<1>5. big = Max({2, L})
  <2>1. Quotient(edge, edge) * 2 = L
    BY <1>3
  <2> QED BY <2>1 DEF EvenSide
<1>6. (big = 2 \/ big = L) /\ big >= 2 /\ big >= L
  <2>1. big = Greater(2, L) /\ L \in Int /\ 2 \in Int
    BY <1>1, <1>5 DEF Greater
  <2> HIDE DEF big
  <2> QED BY <2>1, TheGreater
<1>7. small = Max({2, 2 * q})
  <2>1. q * 2 = 2 * q
    BY <1>2
  <2> QED BY <2>1 DEF EvenSide, q
<1>8. 2 * q \in Nat
  BY <1>2
<1>9. (small = 2 \/ small = 2 * q) /\ small >= 2 /\ small >= 2 * q
  <2> DEFINE t == 2 * q
  <2>1. small = Greater(2, t) /\ t \in Int /\ 2 \in Int
    BY <1>7, <1>8 DEF Greater
  <2> HIDE DEF small, t
  <2>2. (small = 2 \/ small = t) /\ small >= 2 /\ small >= t
    BY <2>1, TheGreater
  <2> QED BY <2>2 DEF t
<1> HIDE DEF big, small, limit
<1>10. big \in Nat /\ small \in Nat /\ limit \in Nat
  BY <1>1, <1>4, <1>6, <1>8, <1>9
<1>11. big <= edge /\ small <= s
  BY <1>1, <1>2, <1>6, <1>8, <1>9 DEF L
<1>12. Max({big, small}) <= limit
  <2> DEFINE m == Max({big, small})
  <2>1. m = Greater(big, small) /\ big \in Int /\ small \in Int
    BY <1>10 DEF Greater
  <2> HIDE DEF m
  <2>3. m = big \/ m = small
    BY <2>1, TheGreater
  <2>2. big <= limit /\ small <= limit
    BY <1>1, <1>2, <1>4, <1>6, <1>8, <1>9
  <2>4. m <= limit
    BY <2>2, <2>3
  <2> QED BY <2>4 DEF m
<1>13. p \in Nat /\ edge <= p + s /\ L * s = p
  <2>1. \A a, b \in Nat : a * b \in Nat
    OBVIOUS
  <2>2. s * (L + 1) = s * L + s /\ L * s = s * L
    BY <1>1
  <2> QED BY <1>1, <2>1, <2>2 DEF L
<1>14. Distance(big * s, small * edge) <= s + edge
  <2>1. CASE L = 0
    <3>1. s = edge
      BY <1>13, <2>1
    <3>2. big = 2 /\ small = 2
      BY <1>2, <1>6, <1>8, <1>9, <2>1
    <3> QED BY <3>1, <3>2 DEF Distance
  <2>2. CASE L # 0
    <3>1. big = L
      <4>1. L >= 2
        BY <1>1, <1>3, <2>2
      <4> QED BY <1>1, <1>6, <4>1
    <3>2. big * s = p
      BY <1>13, <3>1
    <3> HIDE DEF p
    <3>3. CASE q = 0
      <4>1. small = 2 /\ p < edge
        BY <1>9, <1>2, <3>3
      <4>2. small * edge = 2 * edge
        BY <4>1
      <4> QED BY <1>13, <3>2, <4>1, <4>2 DEF Distance
    <3>4. CASE q # 0
      <4>1. small = 2 * q
        BY <1>2, <1>9, <3>4
      <4> DEFINE u == edge * (2 * q)
      <4>2. small * edge = u /\ u \in Nat
        <5>1. \A a, b \in Nat : a * b \in Nat /\ a * b = b * a
          OBVIOUS
        <5> QED BY <1>8, <4>1, <5>1
      <4>3. u <= p + edge /\ p < u + edge
        BY <1>2
      <4> HIDE DEF u
      <4> QED BY <1>13, <3>2, <4>2, <4>3 DEF Distance
    <3> QED BY <3>3, <3>4
  <2> QED BY <2>1, <2>2
<1> QED BY <1>10, <1>11, <1>12, <1>14 DEF big, small, limit, L
\* An even limit, no side of one pixel, and no video so narrow that its small side
\* would be scaled to less than a pixel or so.
ShapesInReach ==
  /\ EvenLimit
  /\ \A v \in Videos :
       /\ {v.width, v.height} \subseteq Nat \ {0, 1}
       /\ v.width <= v.height * (FRAME_MAX_LONG_EDGE + 1)
       /\ v.height <= v.width * (FRAME_MAX_LONG_EDGE + 1)

\* So whichever side is the long one.
LEMMA ScaledFits ==
  ASSUME EvenLimit, NEW d, NEW w \in Nat \ {0, 1}, NEW h \in Nat \ {0, 1},
         d = [width |-> w, height |-> h],
         w <= h * (FRAME_MAX_LONG_EDGE + 1), h <= w * (FRAME_MAX_LONG_EDGE + 1)
  PROVE  LET t == scaledDimensions(d)
         IN  /\ Max({t.width, t.height}) <= Max({FRAME_MAX_LONG_EDGE, 2})
             /\ t.width <= w /\ t.height <= h
             /\ Distance(t.width * h, t.height * w) <= w + h
<1> DEFINE t == scaledDimensions(d)
           edge == Greater(w, h)
           L == FRAME_MAX_LONG_EDGE
           limit == Max({L, 2})
<1>1. L \in Nat /\ d.width = w /\ d.height = h
  BY SamplingAssumption
<1>2. (edge = w \/ edge = h) /\ edge >= w /\ edge >= h
  BY TheGreater
<1>3. Max({d.width, d.height}) = edge
  BY <1>1 DEF Greater
<1> HIDE DEF edge
<1>4. CASE edge <= L
  <2>1. t = d
    BY <1>3, <1>4 DEF scaledDimensions
  <2>2. Max({t.width, t.height}) = edge
    BY <1>3, <2>1
  <2>3. limit >= L /\ limit \in Int
    <3>1. limit = Greater(L, 2)
      BY DEF Greater
    <3> HIDE DEF limit, L
    <3> QED BY <1>1, <3>1, TheGreater
  <2>4. edge <= limit
    <3> HIDE DEF limit
    <3> QED BY <1>1, <1>2, <1>4, <2>3
  <2>5. Distance(w * h, h * w) = 0
    <3>1. w * h = h * w /\ w * h \in Int
      OBVIOUS
    <3> QED BY <3>1 DEF Distance
  <2> QED BY <1>1, <2>1, <2>2, <2>4, <2>5
<1>5. CASE ~(edge <= L)
  <2>1. t = [width |-> EvenSide(w, edge), height |-> EvenSide(h, edge)]
    BY <1>1, <1>3, <1>5 DEF scaledDimensions, EvenSide, Quotient
  <2>2. edge \in Nat \ {0, 1} /\ L < edge
    BY <1>1, <1>2, <1>5
  <2>3. CASE edge = w
    <3>1. /\ EvenSide(w, edge) \in Nat /\ EvenSide(h, edge) \in Nat
          /\ EvenSide(w, edge) <= w /\ EvenSide(h, edge) <= h
          /\ Max({EvenSide(w, edge), EvenSide(h, edge)}) <= limit
          /\ Distance(EvenSide(w, edge) * h, EvenSide(h, edge) * w) <= h + w
      BY <1>2, <2>2, <2>3, SidesFit
    <3> DEFINE x == EvenSide(w, edge)
               y == EvenSide(h, edge)
    <3>2. h + w = w + h
      OBVIOUS
    <3>3. t.width = x /\ t.height = y
      BY <2>1
    <3> HIDE DEF x, y, t
    <3>4. /\ Max({x, y}) <= limit /\ x <= w /\ y <= h
          /\ Distance(x * h, y * w) <= w + h
      BY <3>1, <3>2 DEF x, y
    <3> QED BY <3>3, <3>4 DEF t
  <2>4. CASE edge = h
    <3>1. /\ EvenSide(h, edge) \in Nat /\ EvenSide(w, edge) \in Nat
          /\ EvenSide(h, edge) <= h /\ EvenSide(w, edge) <= w
          /\ Max({EvenSide(h, edge), EvenSide(w, edge)}) <= limit
          /\ Distance(EvenSide(h, edge) * w, EvenSide(w, edge) * h) <= w + h
      BY <1>2, <2>2, <2>4, SidesFit
    <3> DEFINE x == EvenSide(w, edge)
               y == EvenSide(h, edge)
    <3>2. {x, y} = {y, x}
      OBVIOUS
    <3>3. Distance(x * h, y * w) = Distance(y * w, x * h)
      <4>1. \A a, b \in Int : Distance(a, b) = Distance(b, a)
        BY DEF Distance
      <4>2. x * h \in Int /\ y * w \in Int
        BY <3>1
      <4> HIDE DEF x, y
      <4> QED BY <4>1, <4>2
    <3>4. t.width = x /\ t.height = y
      BY <2>1
    <3> QED BY <3>1, <3>2, <3>3, <3>4
  <2> QED BY <1>2, <2>3, <2>4
<1> QED BY <1>4, <1>5

(* No frame is larger than the limit or than the video, whichever way up it is, its *)
(* shape is kept up to the rounding, and there are no more of them than the hard    *)
(* cap (scaledDimensions, readRotation, frameBudgetFor).                            *)
THEOREM FramesAreAffordable ==
  ASSUME SomeFrames, ShapesInReach PROVE Spec => []FramesAffordable
<1>1. SampleInv => FramesAffordable
  <2> SUFFICES ASSUME SampleInv, step \in {"scenes", "extract", "hash", "callback"}
               PROVE  LET shown == displayDimensions(video)
                      IN  /\ Len(extracted) <= policy.maxFrames
                          /\ Max({target.width, target.height}) <= Max({FRAME_MAX_LONG_EDGE, 2})
                          /\ target.width <= shown.width /\ target.height <= shown.height
                          /\ Distance(target.width * shown.height, target.height * shown.width)
                               <= shown.width + shown.height
    BY DEF FramesAffordable
  <2> DEFINE shown == displayDimensions(video)
             w == shown.width
             h == shown.height
  <2>1. /\ Budget \in Nat /\ Budget <= policy.maxFrames /\ policy.maxFrames \in Nat
        /\ Len(extracted) <= Budget /\ Len(extracted) \in Nat
        /\ target = scaledDimensions(shown) /\ video \in Videos
    BY VideoFacts DEF SampleInv, FramesInv, Numbered, SomeFrames
  <2>2. Len(extracted) <= policy.maxFrames
    BY <2>1
  <2>3. /\ shown = [width |-> w, height |-> h]
        /\ \/ w = video.width /\ h = video.height
           \/ w = video.height /\ h = video.width
    BY DEF displayDimensions
  <2>4. /\ video.width \in Nat \ {0, 1} /\ video.height \in Nat \ {0, 1}
        /\ video.width <= video.height * (FRAME_MAX_LONG_EDGE + 1)
        /\ video.height <= video.width * (FRAME_MAX_LONG_EDGE + 1)
    BY <2>1 DEF ShapesInReach
  <2>5. /\ w \in Nat \ {0, 1} /\ h \in Nat \ {0, 1}
        /\ w <= h * (FRAME_MAX_LONG_EDGE + 1) /\ h <= w * (FRAME_MAX_LONG_EDGE + 1)
    BY <2>3, <2>4
  <2> HIDE DEF shown, w, h
  <2>6. /\ Max({target.width, target.height}) <= Max({FRAME_MAX_LONG_EDGE, 2})
        /\ target.width <= w /\ target.height <= h
        /\ Distance(target.width * h, target.height * w) <= w + h
    BY <2>1, <2>3, <2>5, ScaledFits DEF ShapesInReach
  <2> QED BY <2>2, <2>6 DEF shown, w, h
<1>2. RunInv => FramesAffordable
  BY <1>1 DEF RunInv
<1> QED BY RunInvAlways, <1>2, PTL

=============================================================================
