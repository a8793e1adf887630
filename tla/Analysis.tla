------------------------------ MODULE Analysis ------------------------------
(***************************************************************************)
(* analyzeVideo (src/src/analysis/analyzeVideo.ts) on one video, one await *)
(* per action, as the analysis worker and the analyze script run it.       *)
(* Several executions may overlap, the job in one process and the script   *)
(* in another.  A job that stalls does so because its process has died.    *)
(***************************************************************************)
EXTENDS Videos

CONSTANTS
  Slots,   \* the executions that serve the queue; the others are script runs
  Forced   \* the script runs started with --force

ASSUME AnalysisAssumption ==
  /\ Slots \subseteq AnalysisRuns
  /\ Forced \subseteq AnalysisRuns \ Slots

VARIABLES
  run,       \* run[r]: the await execution r is at
  attempts,  \* attempts the job has used
  scripted   \* the script runs that have started: each runs once

analysisVars == <<run, attempts, scripted>>

AnalysisSteps == {"idle", "check", "mark", "preprocess", "analyze", "store",
                  "markAnalyzed", "markFailed", "succeeded", "failed"}

AnalysisTypeOK ==
  /\ run \in [AnalysisRuns -> AnalysisSteps]
  /\ attempts \in 0 .. MaxAttempts
  /\ scripted \subseteq AnalysisRuns

AnalysisInit ==
  /\ run = [r \in AnalysisRuns |-> "idle"]
  /\ attempts = 0
  /\ scripted = {}

Move(r, from, to) ==
  /\ run[r] = from
  /\ run' = [run EXCEPT ![r] = to]

InProgress(r) == run[r] # "idle"

-----------------------------------------------------------------------------
TakeAnalysisJob(r) ==
  /\ r \in Slots
  /\ job = "waiting"
  /\ job' = "active"
  /\ attempts' = attempts + 1
  /\ Move(r, "idle", "check")
  /\ UNCHANGED <<rowVars, features, objects, scripted, faults>>

\* listAnalyzableVideoIds: every video not analyzed yet, or all with --force.
StartScript(r) ==
  /\ r \in AnalysisRuns \ (Slots \cup scripted)
  /\ video # None
  /\ status # "analyzed" \/ r \in Forced
  /\ Move(r, "idle", "check")
  /\ scripted' = scripted \cup {r}
  /\ UNCHANGED <<rowVars, features, objects, job, attempts, faults>>

\* A video with features is skipped unless forced, whatever its status.
CheckExisting(r) ==
  /\ Move(r, "check", IF features # None /\ r \notin Forced THEN "succeeded" ELSE "mark")
  /\ UNCHANGED <<rowVars, features, objects, job, attempts, scripted, faults>>

\* Every UPDATE of the row's status.
SetStatus(r, from, to, value) ==
  /\ Move(r, from, to)
  /\ status' = value
  /\ UNCHANGED <<video, creator, features, objects, job, attempts, scripted, faults>>

MarkAnalyzing(r) == SetStatus(r, "mark", "preprocess", "analyzing")

\* A stage inside the try that writes nothing, and may fail.
Stage(r, from, to) ==
  /\ \/ Move(r, from, to)
     \/ Move(r, from, "markFailed")
  /\ UNCHANGED <<rowVars, features, objects, job, attempts, scripted, faults>>

\* Download, probe, sample, extract, de-duplicate; no frame at all is a failure too.
PreprocessVideo(r) == Stage(r, "preprocess", "analyze")

Analyze(r) == Stage(r, "analyze", "store")

\* Mutation of Store: the transaction is rolled back and nobody notices.
StoreRolledBack(r) ==
  /\ Move(r, "store", "markAnalyzed")
  /\ UNCHANGED <<rowVars, features, objects, job, attempts, scripted, faults>>

\* Features and embedding in one transaction.
Store(r) ==
  /\ Move(r, "store", "markAnalyzed")
  /\ features' = r
  /\ UNCHANGED <<rowVars, objects, job, attempts, scripted, faults>>

\* Mutation of MarkAnalyzed: the update of the status is left out.
MarkAnalyzedLater(r) == SetStatus(r, "markAnalyzed", "succeeded", status)

MarkAnalyzed(r) == SetStatus(r, "markAnalyzed", "succeeded", "analyzed")

\* Mutation of MarkFailed: the diagnosis is left to the queue.
LogFailureOnly(r) == SetStatus(r, "markFailed", "failed", status)

MarkFailed(r) == SetStatus(r, "markFailed", "failed", "failed")

\* The outcome reaches the queue: a failed result is thrown so that it retries.
Finish(r) ==
  /\ run[r] \in {"succeeded", "failed"}
  /\ run' = [run EXCEPT ![r] = "idle"]
  /\ \/ r \notin Slots /\ UNCHANGED job
     \/ r \in Slots /\ run[r] = "succeeded" /\ job' = "completed"
     \/ /\ r \in Slots /\ run[r] = "failed"
        /\ job' = IF attempts < MaxAttempts THEN "waiting" ELSE "failed"
  /\ UNCHANGED <<rowVars, features, objects, attempts, scripted, faults>>

(***************************************************************************)
(* An UPDATE or the transaction throws inside the try, and the row is      *)
(* marked failed.                                                          *)
(***************************************************************************)
WriteFails(r) ==
  /\ faults < MaxFaults
  /\ faults' = faults + 1
  /\ run[r] \in {"store", "markAnalyzed"}
  /\ run' = [run EXCEPT ![r] = "markFailed"]
  /\ UNCHANGED <<rowVars, features, objects, job, attempts, scripted>>

\* The process dies, or an await outside the try throws: the job is retried.
AnalysisDies(r) ==
  /\ faults < MaxFaults
  /\ faults' = faults + 1
  /\ InProgress(r)
  /\ run' = [run EXCEPT ![r] = "idle"]
  /\ job' = IF r \notin Slots THEN job
            ELSE IF attempts < MaxAttempts THEN "waiting" ELSE "failed"
  /\ UNCHANGED <<rowVars, features, objects, attempts, scripted>>

AnalyzeVideo(r) ==
  \/ TakeAnalysisJob(r)
  \/ StartScript(r)
  \/ CheckExisting(r)
  \/ MarkAnalyzing(r)
  \/ PreprocessVideo(r)
  \/ Analyze(r)
  \/ Store(r)
  \/ MarkAnalyzed(r)
  \/ MarkFailed(r)
  \/ Finish(r)

=============================================================================
