------------------------------- MODULE Endings -------------------------------
(***************************************************************************)
(* What an execution of analyzeVideo that breaks off leaves behind.  Two   *)
(* history variables: torn when one ended between storing the features and *)
(* marking the row, because the UPDATE threw or the process died; died     *)
(* when one ended without a result at all, because the process died or an  *)
(* await outside the try threw, the UPDATEs to analyzing and failed, say.  *)
(***************************************************************************)
EXTENDS Pipeline

VARIABLES torn, died

endingVars == <<vars, torn, died>>

EndingsInit == Init /\ torn = FALSE /\ died = FALSE

LeavesUnmarked ==
  \E r \in AnalysisRuns : run[r] = "markAnalyzed" /\ run'[r] \in {"markFailed", "idle"}

Dies == faults' # faults /\ \E r \in AnalysisRuns : InProgress(r) /\ ~InProgress(r)'

EndingsNext ==
  /\ Next
  /\ torn' = (torn \/ LeavesUnmarked)
  /\ died' = (died \/ Dies)

EndingsSpec == EndingsInit /\ [][EndingsNext]_endingVars

\* The slots keep running; whether a script is ever started or finishes is open.
FairEndings == EndingsSpec /\ \A r \in Slots : WF_vars(Analysing(r))

-----------------------------------------------------------------------------
(***************************************************************************)
(* While no script runs beside the queue, the row tells what became of the *)
(* job: done means recommendable, unless the row was never marked; given   *)
(* up means failed, unless an execution ended without a result             *)
(* (analysisWorker.ts: "a permanently bad video ends up with               *)
(* status='failed'").                                                      *)
(***************************************************************************)
JobMatchesRow ==
  scripted = {} =>
    /\ job = "completed" => Recommendable \/ torn
    /\ job = "failed" => status = "failed" \/ died

(***************************************************************************)
(* When nothing runs, a video that is not analyzed has no features, so     *)
(* that a later pass over it does the work (candidates.ts:81-83: "A video  *)
(* whose analysis failed or is pending has no features").  It does not     *)
(* hold: an UPDATE that throws is enough.                                  *)
(***************************************************************************)
UnfinishedHasNoFeatures ==
  (\A r \in AnalysisRuns : ~InProgress(r)) /\ status # "analyzed" => features = None

(***************************************************************************)
(* The executions of the queue hide no features, however analyses, other   *)
(* writes and processes fail, except by ending between storing them and    *)
(* marking the row.                                                        *)
(***************************************************************************)
AttemptsHideNoFeatures == scripted = {} /\ ~torn => UnfinishedHasNoFeatures

(***************************************************************************)
(* A queued video is decided, within its attempts, whatever fails or runs  *)
(* beside; and unless a script ran or an execution ended without a result, *)
(* its row says so.                                                        *)
(***************************************************************************)
QueuedIsDecided ==
  job = "waiting" ~>
    /\ job \in {"completed", "failed"}
    /\ scripted = {} /\ ~died => status \in {"analyzed", "failed"}

=============================================================================
