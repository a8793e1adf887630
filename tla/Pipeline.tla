------------------------------ MODULE Pipeline ------------------------------
(***************************************************************************)
(* From file to recommendable video: concurrent ingestion runs, the        *)
(* analysis queue and the analyze script, over one file's row.             *)
(***************************************************************************)
EXTENDS Ingest, Analysis

vars == <<rowVars, features, objects, job, faults, ingestVars, analysisVars>>

Init == VideosInit /\ IngestInit /\ AnalysisInit

Ingestion == \E i \in IngestRuns : (IngestItem(i) \/ IngestFails(i)) /\ UNCHANGED analysisVars

Analysing(r) == AnalyzeVideo(r) /\ UNCHANGED ingestVars

AnalysisFaults ==
  \E r \in AnalysisRuns : (WriteFails(r) \/ AnalysisDies(r)) /\ UNCHANGED ingestVars

Next ==
  \/ Ingestion
  \/ \E r \in AnalysisRuns : Analysing(r)
  \/ AnalysisFaults

Spec == Init /\ [][Next]_vars

\* Types of the variables, proved in PipelineProofs.
TypeOK == VideosTypeOK /\ IngestTypeOK /\ AnalysisTypeOK

-----------------------------------------------------------------------------
(***************************************************************************)
(* The row is written after the upload, whoever wins the race for it: it   *)
(* never names an object that is not in storage (ingestService.ts).        *)
(***************************************************************************)
RowHasObject == video # None => video \in objects

(***************************************************************************)
(* A pass over a file that has a row stores nothing, whatever other passes *)
(* do meanwhile (ingestService.ts: "a re-run must be a no-op").            *)
(***************************************************************************)
ReRunUploadsNothing == late \cap objects = {}

(***************************************************************************)
(* A video offered to candidate generation has its features, though the    *)
(* status and the features are separate writes of overlapping executions.  *)
(***************************************************************************)
AnalyzedHasFeatures == status = "analyzed" => features # None

=============================================================================
