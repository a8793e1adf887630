-------------------------------- MODULE Vision --------------------------------
(***************************************************************************)
(* OpenAICompatibleProvider (src/src/analysis/vision/openaiCompatible.ts): *)
(* one provider serves the calls of several videos at once, and they share *)
(* what it has learnt of the server.  A call runs between its awaits       *)
(* without being interrupted.                                              *)
(***************************************************************************)
EXTENDS Naturals, FiniteSets

CONSTANTS
  Calls,        \* one per video analysed
  maxRetries,
  MaxRefusals   \* bound of the model: 4xx answers that are not about the format

ASSUME VisionAssumption ==
  /\ IsFiniteSet(Calls)
  /\ {maxRetries, MaxRefusals} \subseteq Nat

VARIABLES
  useStructuredOutput,
  structuredOutputProbed,
  calls,     \* calls[c]: its await, attempt, request and outcome
  accepts,   \* whether the server takes json_schema
  refusals   \* 4xx answers so far that were not about it

Flags == <<useStructuredOutput, structuredOutputProbed>>

visionVars == <<useStructuredOutput, structuredOutputProbed, calls, accepts, refusals>>

NotRead == {"invalid_json", "schema_validation"}
NotReached == {"transport", "timeout"}
Kinds == NotRead \cup NotReached \cup {"model_error", "no_frames", "preprocess"}

Call == [at : {"idle", "reading", "waiting", "done"}, attempt : Nat, structured : BOOLEAN,
         fallback : BOOLEAN, requests : Nat, outcome : Kinds \cup {"none", "analyzed"}]

Unstarted == [at |-> "idle", attempt |-> 0, structured |-> FALSE, fallback |-> FALSE,
              requests |-> 0, outcome |-> "none"]

VisionInit ==
  /\ useStructuredOutput = TRUE
  /\ structuredOutputProbed = FALSE
  /\ calls = [c \in Calls |-> Unstarted]
  /\ accepts \in BOOLEAN
  /\ refusals = 0

-----------------------------------------------------------------------------
Begin(c) == calls' = [calls EXCEPT ![c].at = "reading"]

\* An attempt, or the second request of one, in the format of the moment.
Request(c, attempt, fallback) ==
  calls' = [calls EXCEPT ![c] =
    [at |-> "waiting", attempt |-> attempt, structured |-> useStructuredOutput',
     fallback |-> fallback, requests |-> @.requests + 1, outcome |-> "none"]]

End(c, outcome) ==
  calls' = [calls EXCEPT ![c] =
    [at |-> "done", attempt |-> @.attempt, structured |-> FALSE, fallback |-> FALSE,
     requests |-> @.requests, outcome |-> outcome]]

\* The frames are read and encoded, then the first request goes out.
ReadFrames(c) ==
  /\ calls[c].at = "reading"
  /\ UNCHANGED <<Flags, accepts, refusals>>
  /\ Request(c, 1, FALSE)

\* The answer is taxonomy output.
Valid(c) ==
  /\ End(c, "analyzed")
  /\ UNCHANGED <<Flags, refusals>>

\* It is not: the model is told and asked again, a bounded number of times.
Repair(c, kind) ==
  /\ UNCHANGED <<Flags, refusals>>
  /\ IF calls[c].attempt < maxRetries + 1
     THEN Request(c, calls[c].attempt + 1, FALSE)
     ELSE End(c, kind)

\* Mutation of callWithFallback: plain for this request, not for the run.
FallbackOnce(c) ==
  /\ UNCHANGED Flags
  /\ IF ~calls[c].fallback /\ useStructuredOutput
     THEN calls' = [calls EXCEPT ![c].structured = FALSE, ![c].fallback = TRUE,
                                 ![c].requests = @ + 1]
     ELSE End(c, "model_error")

\* Mutation of callWithFallback: the flag is cleared for the requests to come.
NoSecondRequest(c) ==
  /\ useStructuredOutput' = FALSE
  /\ structuredOutputProbed' = TRUE
  /\ End(c, "model_error")

\* HTTP 4xx.  While nothing is known of the server it is taken to mean the
\* format: the run goes on without and the request is sent again.  Both flags are
\* read now, not when the request was sent.
callWithFallback(c) ==
  IF ~calls[c].fallback /\ useStructuredOutput /\ ~structuredOutputProbed
  THEN /\ useStructuredOutput' = FALSE
       /\ structuredOutputProbed' = TRUE
       /\ Request(c, calls[c].attempt, TRUE)
  ELSE /\ UNCHANGED Flags
       /\ End(c, "model_error")

\* 4xx: the server does not take json_schema, or has another reason (bounded).
Refused(c) ==
  /\ \/ calls[c].structured /\ ~accepts /\ UNCHANGED refusals
     \/ refusals < MaxRefusals /\ refusals' = refusals + 1
  /\ callWithFallback(c)

\* No answer in time, none at all, or HTTP 5xx: no attempt is made again.
Unreachable(c, kind) ==
  /\ End(c, kind)
  /\ UNCHANGED <<Flags, refusals>>

Answered(c) ==
  /\ calls[c].at = "waiting"
  /\ \/ Refused(c)
     \/ \E kind \in NotReached : Unreachable(c, kind)
     \/ /\ calls[c].structured => accepts
        /\ \/ Valid(c)
           \/ \E kind \in NotRead : Repair(c, kind)
  /\ UNCHANGED accepts

=============================================================================
