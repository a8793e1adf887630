--------------------------- MODULE PipelineProofs ---------------------------
(***************************************************************************)
(* What holds of a file's row for any number of ingestion passes, worker   *)
(* slots, script runs and failures.  Each invariant says what a process    *)
(* already knows at the await it is at: uploads are done before "insert",  *)
(* a pass that started late is kept away from "upload" by the row it       *)
(* finds, and features are stored before "markAnalyzed".                   *)
(***************************************************************************)
EXTENDS Endings, TLAPS

Unuploaded == {"unstarted", "lookup", "reconcile", "probe", "upload"}
TowardsRow == {"unstarted", "probe", "upload", "insert", "enqueue"}

UploadsFirst ==
  \A i \in IngestRuns :
    /\ ingest[i] = "insert" => i \in objects
    /\ ingest[i] \in Unuploaded => i \notin objects

LateFindRow == \A i \in late : video # None /\ ingest[i] \notin TowardsRow

FeaturesFirst == \A r \in AnalysisRuns : run[r] = "markAnalyzed" => features # None

\* A job that may still be taken has an attempt left.
AttemptsLeft == job \in {"none", "waiting"} => attempts < MaxAttempts

Typed == TypeOK /\ AttemptsLeft

IngestInv == Typed /\ UploadsFirst /\ LateFindRow /\ RowHasObject /\ ReRunUploadsNothing

AnalysisInv == Typed /\ FeaturesFirst /\ AnalyzedHasFeatures

-----------------------------------------------------------------------------
\* One step of one ingestion pass keeps the types and moves that pass alone.
LEMMA IngestTypes ==
  ASSUME Typed, NEW i \in IngestRuns, IngestItem(i) \/ IngestFails(i), UNCHANGED analysisVars
  PROVE  Typed'
<1> USE DEF Typed, AttemptsLeft, TypeOK, VideosTypeOK, IngestTypeOK, AnalysisTypeOK, Statuses,
            JobStates, IngestSteps, Outcomes, rowVars, analysisVars
<1>1. AnalysisTypeOK'
  OBVIOUS
<1> QED
  <2>1. CASE Materialise(i)
    BY <1>1, <2>1 DEF Materialise, Advance
  <2>2. CASE Lookup(i)
    BY <1>1, <2>2 DEF Lookup, Advance
  <2>3. CASE reconcileCreator(i)
    <3>1. Wanted[i] \in Creators \cup {None}
      BY IngestAssumption
    <3> QED BY <1>1, <2>3, <3>1 DEF reconcileCreator, Advance
  <2>4. CASE Probe(i)
    BY <1>1, <2>4 DEF Probe, Advance
  <2>5. CASE Upload(i)
    BY <1>1, <2>5 DEF Upload, Advance
  <2>6. CASE Insert(i)
    <3>1. Wanted[i] \in Creators \cup {None}
      BY IngestAssumption
    <3> QED BY <1>1, <2>6, <3>1 DEF Insert, Advance
  <2>7. CASE Enqueue(i)
    BY <1>1, <2>7 DEF Enqueue, Advance
  <2>8. CASE IngestFails(i)
    BY <1>1, <2>8, VideosAssumption DEF IngestFails
  <2> QED BY <2>1, <2>2, <2>3, <2>4, <2>5, <2>6, <2>7, <2>8 DEF IngestItem

\* One step of one analysis keeps the types, stores no object and moves no pass.
LEMMA AnalysisTypes ==
  ASSUME Typed, NEW r \in AnalysisRuns, AnalyzeVideo(r) \/ WriteFails(r) \/ AnalysisDies(r),
         UNCHANGED ingestVars
  PROVE  Typed' /\ UNCHANGED <<video, creator, objects>>
<1> USE DEF Typed, AttemptsLeft, TypeOK, VideosTypeOK, IngestTypeOK, AnalysisTypeOK, Statuses,
            JobStates, AnalysisSteps, rowVars, ingestVars
<1>1. CASE TakeAnalysisJob(r)
  <2>1. attempts' \in 0 .. MaxAttempts
    BY <1>1, VideosAssumption DEF TakeAnalysisJob
  <2> QED BY <1>1, <2>1 DEF TakeAnalysisJob, Move
<1>2. CASE StartScript(r)
  BY <1>2 DEF StartScript, Move
<1>3. CASE CheckExisting(r)
  BY <1>3 DEF CheckExisting, Move
<1>4. CASE MarkAnalyzing(r)
  BY <1>4 DEF MarkAnalyzing, SetStatus, Move
<1>5. CASE PreprocessVideo(r) \/ Analyze(r)
  BY <1>5 DEF PreprocessVideo, Analyze, Stage, Move
<1>6. CASE Store(r)
  BY <1>6 DEF Store, Move
<1>7. CASE MarkAnalyzed(r)
  BY <1>7 DEF MarkAnalyzed, SetStatus, Move
<1>8. CASE MarkFailed(r)
  BY <1>8 DEF MarkFailed, SetStatus, Move
<1>9. CASE Finish(r)
  BY <1>9 DEF Finish
<1>10. CASE WriteFails(r)
  BY <1>10, VideosAssumption DEF WriteFails
<1>11. CASE AnalysisDies(r)
  BY <1>11, VideosAssumption DEF AnalysisDies
<1> QED BY <1>1, <1>2, <1>3, <1>4, <1>5, <1>6, <1>7, <1>8, <1>9, <1>10, <1>11 DEF AnalyzeVideo

LEMMA InitTypes == Init => Typed
BY VideosAssumption
   DEF Init, VideosInit, IngestInit, AnalysisInit, Typed, AttemptsLeft, TypeOK, VideosTypeOK,
       IngestTypeOK, AnalysisTypeOK, Statuses, JobStates, IngestSteps, AnalysisSteps

LEMMA NextTypes == ASSUME Typed, [Next]_vars PROVE Typed'
<1>1. CASE Ingestion
  BY <1>1, IngestTypes DEF Ingestion
<1>2. CASE \E r \in AnalysisRuns : Analysing(r)
  BY <1>2, AnalysisTypes DEF Analysing
<1>3. CASE AnalysisFaults
  BY <1>3, AnalysisTypes DEF AnalysisFaults
<1>4. CASE UNCHANGED vars
  BY <1>4 DEF vars, rowVars, ingestVars, analysisVars, Typed, AttemptsLeft, TypeOK, VideosTypeOK,
              IngestTypeOK, AnalysisTypeOK
<1> QED BY <1>1, <1>2, <1>3, <1>4 DEF Next

\* Every variable of the pipeline keeps its type.
THEOREM TypeCorrect == Spec => []TypeOK
<1>1. Typed /\ [Next]_vars => Typed'
  BY NextTypes
<1>2. Typed => TypeOK
  BY DEF Typed
<1> QED BY InitTypes, <1>1, <1>2, PTL DEF Spec

-----------------------------------------------------------------------------
\* One step of a pass keeps what passes know of the row and of the objects.
LEMMA IngestStep ==
  ASSUME IngestInv, NEW i \in IngestRuns, IngestItem(i) \/ IngestFails(i), UNCHANGED analysisVars
  PROVE  IngestInv'
<1>1. Typed'
  BY IngestTypes DEF IngestInv
<1>2. /\ TypeOK /\ UploadsFirst /\ LateFindRow /\ RowHasObject /\ ReRunUploadsNothing
      /\ ingest \in [IngestRuns -> IngestSteps] /\ late \subseteq IngestRuns
      /\ video \in IngestRuns \cup {None} /\ None \notin IngestRuns
  BY VideosAssumption DEF IngestInv, Typed, TypeOK, IngestTypeOK, VideosTypeOK
<1> USE DEF UploadsFirst, LateFindRow, RowHasObject, ReRunUploadsNothing, Unuploaded,
            TowardsRow, rowVars, Advance
<1>3. UploadsFirst' /\ LateFindRow' /\ RowHasObject' /\ ReRunUploadsNothing'
  <2>1. CASE Materialise(i)
    BY <1>2, <2>1 DEF Materialise
  <2>2. CASE Lookup(i)
    BY <1>2, <2>2 DEF Lookup
  <2>3. CASE reconcileCreator(i)
    BY <1>2, <2>3 DEF reconcileCreator
  <2>4. CASE Probe(i)
    BY <1>2, <2>4 DEF Probe
  <2>5. CASE Upload(i)
    BY <1>2, <2>5 DEF Upload
  <2>6. CASE Insert(i)
    BY <1>2, <2>6 DEF Insert
  <2>7. CASE Enqueue(i)
    BY <1>2, <2>7 DEF Enqueue
  <2>8. CASE IngestFails(i)
    BY <1>2, <2>8 DEF IngestFails, Outcomes
  <2> QED BY <2>1, <2>2, <2>3, <2>4, <2>5, <2>6, <2>7, <2>8 DEF IngestItem
<1> QED BY <1>1, <1>3 DEF IngestInv

\* Ingestion: the inductive invariant behind the two theorems that follow.
LEMMA IngestInvariant == Spec => []IngestInv
<1>1. Init => IngestInv
  BY InitTypes DEF Init, VideosInit, IngestInit, IngestInv, UploadsFirst, LateFindRow,
                   RowHasObject, ReRunUploadsNothing
<1>2. IngestInv /\ [Next]_vars => IngestInv'
  <2> SUFFICES ASSUME IngestInv, [Next]_vars PROVE IngestInv'
    OBVIOUS
  <2>1. CASE Ingestion
    BY <2>1, IngestStep DEF Ingestion
  <2>2. CASE UNCHANGED <<ingestVars, video, objects>>
    <3>1. Typed'
      BY NextTypes DEF IngestInv
    <3> QED BY <2>2, <3>1 DEF IngestInv, ingestVars, UploadsFirst, LateFindRow, RowHasObject,
                              ReRunUploadsNothing
  <2>3. CASE (\E r \in AnalysisRuns : Analysing(r)) \/ AnalysisFaults
    <3>1. UNCHANGED <<ingestVars, video, objects>>
      BY <2>3, AnalysisTypes DEF IngestInv, Analysing, AnalysisFaults
    <3> QED BY <2>2, <3>1
  <2>4. CASE UNCHANGED vars
    BY <2>2, <2>4 DEF vars, rowVars
  <2> QED BY <2>1, <2>3, <2>4 DEF Next
<1> QED BY <1>1, <1>2, PTL DEF Spec

\* A row names an object that is in storage, however many passes race for it.
THEOREM RowsNameObjects == Spec => []RowHasObject
<1>1. IngestInv => RowHasObject
  BY DEF IngestInv
<1> QED BY <1>1, IngestInvariant, PTL

\* A pass that starts when the row exists uploads nothing.
THEOREM ReRunsAreNoOps == Spec => []ReRunUploadsNothing
<1>1. IngestInv => ReRunUploadsNothing
  BY DEF IngestInv
<1> QED BY <1>1, IngestInvariant, PTL

-----------------------------------------------------------------------------
\* One step of an analysis writes "analyzed" only behind its features.
LEMMA AnalysisStep ==
  ASSUME AnalysisInv, NEW r \in AnalysisRuns, AnalyzeVideo(r) \/ WriteFails(r) \/ AnalysisDies(r),
         UNCHANGED ingestVars
  PROVE  AnalysisInv'
<1>1. Typed'
  BY AnalysisTypes DEF AnalysisInv
<1>2. /\ TypeOK /\ FeaturesFirst /\ AnalyzedHasFeatures
      /\ run \in [AnalysisRuns -> AnalysisSteps] /\ None \notin AnalysisRuns
  BY VideosAssumption DEF AnalysisInv, Typed, TypeOK, AnalysisTypeOK
<1> USE DEF FeaturesFirst, AnalyzedHasFeatures, rowVars, Move
<1>3. FeaturesFirst' /\ AnalyzedHasFeatures'
  <2>1. CASE TakeAnalysisJob(r)
    BY <1>2, <2>1 DEF TakeAnalysisJob
  <2>2. CASE StartScript(r)
    BY <1>2, <2>2 DEF StartScript
  <2>3. CASE CheckExisting(r)
    BY <1>2, <2>3 DEF CheckExisting
  <2>4. CASE MarkAnalyzing(r)
    BY <1>2, <2>4 DEF MarkAnalyzing, SetStatus
  <2>5. CASE PreprocessVideo(r) \/ Analyze(r)
    BY <1>2, <2>5 DEF PreprocessVideo, Analyze, Stage
  <2>6. CASE Store(r)
    BY <1>2, <2>6 DEF Store
  <2>7. CASE MarkAnalyzed(r)
    BY <1>2, <2>7 DEF MarkAnalyzed, SetStatus
  <2>8. CASE MarkFailed(r)
    BY <1>2, <2>8 DEF MarkFailed, SetStatus
  <2>9. CASE Finish(r)
    BY <1>2, <2>9 DEF Finish
  <2>10. CASE WriteFails(r)
    BY <1>2, <2>10 DEF WriteFails
  <2>11. CASE AnalysisDies(r)
    BY <1>2, <2>11 DEF AnalysisDies
  <2> QED BY <2>1, <2>2, <2>3, <2>4, <2>5, <2>6, <2>7, <2>8, <2>9, <2>10, <2>11 DEF AnalyzeVideo
<1> QED BY <1>1, <1>3 DEF AnalysisInv

\* A step of ingestion leaves features and executions alone, and never says "analyzed".
LEMMA IngestStepAnalysis ==
  ASSUME AnalysisInv, NEW i \in IngestRuns, IngestItem(i) \/ IngestFails(i), UNCHANGED analysisVars
  PROVE  AnalysisInv'
<1>1. Typed'
  BY IngestTypes DEF AnalysisInv
<1>2. UNCHANGED <<run, features>> /\ status' \in {status, "ingested"}
  BY DEF IngestItem, Materialise, Lookup, reconcileCreator, Probe, Upload, Insert, Enqueue,
         IngestFails, rowVars, analysisVars
<1> QED BY <1>1, <1>2 DEF AnalysisInv, FeaturesFirst, AnalyzedHasFeatures

(***************************************************************************)
(* A video offered to candidate generation has its features, for any       *)
(* number of overlapping executions, failures and forced re-runs.          *)
(***************************************************************************)
THEOREM AnalyzedImpliesFeatures == Spec => []AnalyzedHasFeatures
<1>1. Init => AnalysisInv
  BY InitTypes DEF Init, VideosInit, AnalysisInit, AnalysisInv, FeaturesFirst,
                   AnalyzedHasFeatures
<1>2. AnalysisInv /\ [Next]_vars => AnalysisInv'
  <2> SUFFICES ASSUME AnalysisInv, [Next]_vars PROVE AnalysisInv'
    OBVIOUS
  <2>1. CASE Ingestion
    BY <2>1, IngestStepAnalysis DEF Ingestion
  <2>2. CASE (\E r \in AnalysisRuns : Analysing(r)) \/ AnalysisFaults
    BY <2>2, AnalysisStep DEF Analysing, AnalysisFaults
  <2>3. CASE UNCHANGED vars
    <3>1. Typed'
      BY NextTypes DEF AnalysisInv
    <3> QED BY <2>3, <3>1 DEF vars, rowVars, analysisVars, AnalysisInv, FeaturesFirst,
                              AnalyzedHasFeatures
  <2> QED BY <2>1, <2>2, <2>3 DEF Next
<1>3. AnalysisInv => AnalyzedHasFeatures
  BY DEF AnalysisInv
<1> QED BY <1>1, <1>2, <1>3, PTL DEF Spec

-----------------------------------------------------------------------------
(***************************************************************************)
(* The queue by itself.  Without scripts the one job of the row is run by  *)
(* one slot at a time, whatever dies, and the row follows it: features     *)
(* outlive an execution only under "analyzed", or behind one that broke    *)
(* off before the UPDATE.  That only one pass inserts the row keeps        *)
(* "ingested" from coming back over an analysis.                           *)
(***************************************************************************)
QueuedHasRow ==
  /\ job # "none" => video # None
  /\ \A i \in IngestRuns : ingest[i] = "enqueue" => video # None
  /\ \A r \in Slots : InProgress(r) => job # "none"

JobRunsAlone ==
  /\ \A r \in AnalysisRuns : InProgress(r) => r \in Slots /\ job = "active"
  /\ \A q, r \in AnalysisRuns : InProgress(q) /\ InProgress(r) => q = r
  /\ job = "active" => \E r \in AnalysisRuns : InProgress(r)

Unstored == features = None \/ torn

BeforeStored == {"mark", "preprocess", "analyze", "store", "markFailed"}

\* What the slot that runs the job knows of the row.
SlotKnows(r) ==
  /\ run[r] = "check" => Unstored \/ status = "analyzed"
  /\ run[r] \in BeforeStored => Unstored
  /\ run[r] = "markAnalyzed" => features # None
  /\ run[r] = "succeeded" => Recommendable \/ torn
  /\ run[r] = "failed" => status = "failed" /\ Unstored

\* What the job says of it.
JobSays ==
  /\ job = "none" => Unstored
  /\ job \in {"waiting", "failed"} => Unstored \/ status = "analyzed"
  /\ job = "completed" => Recommendable \/ torn
  /\ job = "failed" => status = "failed" \/ died

QueueAlone == JobRunsAlone /\ (\A r \in AnalysisRuns : SlotKnows(r)) /\ JobSays

QueueInv == Typed /\ QueuedHasRow /\ (scripted = {} => QueueAlone)

LEMMA IngestStepQueue ==
  ASSUME QueueInv, NEW i \in IngestRuns, IngestItem(i) \/ IngestFails(i),
         UNCHANGED analysisVars, torn' = (torn \/ LeavesUnmarked), died' = (died \/ Dies)
  PROVE  QueueInv'
<1>1. Typed'
  BY IngestTypes DEF QueueInv
<1>2. /\ QueuedHasRow /\ (scripted = {} => QueueAlone)
      /\ ingest \in [IngestRuns -> IngestSteps] /\ None \notin IngestRuns
  BY VideosAssumption DEF QueueInv, Typed, TypeOK, IngestTypeOK, VideosTypeOK
<1>3. QueuedHasRow'
  <2>1. UNCHANGED run
    BY DEF analysisVars
  <2> QED BY <1>2, <2>1
          DEF QueuedHasRow, IngestItem, Materialise, Lookup, reconcileCreator, Probe, Upload,
              Insert, Enqueue, IngestFails, Advance, Outcomes, rowVars, InProgress
<1>4. ASSUME scripted' = {} PROVE QueueAlone'
  <2>1. UNCHANGED <<run, features>> /\ QueueAlone
    BY <1>2, <1>4 DEF IngestItem, Materialise, Lookup, reconcileCreator, Probe, Upload, Insert,
           Enqueue, IngestFails, analysisVars
  <2>0. (torn => torn') /\ (died => died')
    OBVIOUS
  <2> USE DEF QueueAlone, JobRunsAlone, SlotKnows, JobSays, InProgress, Recommendable, Unstored
  <2>2. CASE Insert(i)
    <3>1. status' = status \/ video = None
      BY <2>2 DEF Insert, rowVars
    <3>2. video = None => job = "none" /\ \A r \in AnalysisRuns : ~InProgress(r)
      BY <1>2, <2>1 DEF QueuedHasRow
    <3>3. job' = job
      BY <2>2 DEF Insert
    <3> QED BY <2>0, <2>1, <3>1, <3>2, <3>3 DEF BeforeStored
  <2>3. CASE Enqueue(i)
    <3>1. status' = status /\ job' = IF job = "none" THEN "waiting" ELSE job
      BY <2>3 DEF Enqueue, rowVars
    <3> QED BY <2>0, <2>1, <3>1
  <2>4. CASE Materialise(i) \/ Lookup(i) \/ reconcileCreator(i) \/ Probe(i) \/ Upload(i)
               \/ IngestFails(i)
    <3>1. UNCHANGED <<status, job>>
      BY <2>4 DEF Materialise, Lookup, reconcileCreator, Probe, Upload, IngestFails, rowVars
    <3> QED BY <2>0, <2>1, <3>1
  <2> QED BY <2>2, <2>3, <2>4 DEF IngestItem
<1> QED BY <1>1, <1>3, <1>4 DEF QueueInv

LEMMA AnalysisStepQueue ==
  ASSUME QueueInv, NEW r \in AnalysisRuns, AnalyzeVideo(r) \/ WriteFails(r) \/ AnalysisDies(r),
         UNCHANGED ingestVars, torn' = (torn \/ LeavesUnmarked), died' = (died \/ Dies)
  PROVE  QueueInv'
<1>1. Typed' /\ UNCHANGED video
  BY AnalysisTypes DEF QueueInv
<1>2. /\ QueuedHasRow /\ (scripted = {} => QueueAlone) /\ faults \in Nat
      /\ run \in [AnalysisRuns -> AnalysisSteps] /\ job \in JobStates /\ None \notin AnalysisRuns
  BY VideosAssumption DEF QueueInv, Typed, TypeOK, AnalysisTypeOK, VideosTypeOK
<1>3. QueuedHasRow'
  <2>1. /\ \A q \in AnalysisRuns \ {r} : run'[q] = run[q]
        /\ r \in Slots /\ run'[r] # "idle" => run[r] # "idle" \/ job' = "active"
        /\ job' = job \/ (job' # "none" /\ r \in Slots /\ run[r] # "idle")
             \/ (job' # "none" /\ job = "waiting")
    BY <1>2 DEF AnalyzeVideo, TakeAnalysisJob, StartScript, CheckExisting, MarkAnalyzing,
         PreprocessVideo, Analyze, Stage, Store, MarkAnalyzed, MarkFailed, SetStatus, Finish,
         WriteFails, AnalysisDies, Move, InProgress
  <2> QED BY <1>1, <1>2, <2>1, AnalysisAssumption DEF QueuedHasRow, ingestVars, InProgress
<1>4. ASSUME scripted' = {} PROVE QueueAlone'
  <2>1. ~StartScript(r) /\ scripted = {}
    BY <1>4 DEF AnalyzeVideo, StartScript, TakeAnalysisJob, CheckExisting, MarkAnalyzing,
         PreprocessVideo, Analyze, Stage, Store, MarkAnalyzed, MarkFailed, SetStatus, Finish,
         WriteFails, AnalysisDies
  <2>2. QueueAlone
    BY <1>2, <2>1
  <2>3. (torn => torn') /\ (died => died')
    OBVIOUS
  <2> USE DEF QueueAlone, JobRunsAlone, InProgress, SlotKnows, JobSays, BeforeStored, Unstored,
              Recommendable, Move, rowVars
  <2>4. CASE TakeAnalysisJob(r)
    BY <1>2, <2>2, <2>3, <2>4 DEF TakeAnalysisJob
  <2>5. CASE CheckExisting(r)
    <3>1. r \in Slots /\ r \notin Forced /\ (Unstored \/ status = "analyzed")
      BY <1>2, <2>2, <2>5, AnalysisAssumption DEF CheckExisting
    <3> QED BY <1>2, <2>2, <2>3, <2>5, <3>1 DEF CheckExisting
  <2>6. CASE MarkAnalyzing(r)
    BY <1>2, <2>2, <2>3, <2>6 DEF MarkAnalyzing, SetStatus
  <2>7. CASE PreprocessVideo(r) \/ Analyze(r)
    BY <1>2, <2>2, <2>3, <2>7 DEF PreprocessVideo, Analyze, Stage
  <2>8. CASE Store(r)
    BY <1>2, <2>2, <2>3, <2>8 DEF Store
  <2>9. CASE MarkAnalyzed(r)
    BY <1>2, <2>2, <2>3, <2>9 DEF MarkAnalyzed, SetStatus
  <2>10. CASE MarkFailed(r)
    BY <1>2, <2>2, <2>3, <2>10 DEF MarkFailed, SetStatus
  <2>11. CASE Finish(r)
    BY <1>2, <2>2, <2>3, <2>11 DEF Finish
  <2>12. CASE WriteFails(r)
    <3>1. run[r] = "markAnalyzed" => torn'
      BY <1>2, <2>12 DEF WriteFails, LeavesUnmarked
    <3>2. run[r] = "store" => Unstored
      BY <2>2
    <3> QED BY <1>2, <2>2, <2>3, <2>12, <3>1, <3>2 DEF WriteFails
  <2>13. CASE AnalysisDies(r)
    <3>1. run[r] = "markAnalyzed" => torn'
      BY <1>2, <2>13 DEF AnalysisDies, LeavesUnmarked
    <3>2. died'
      <4>1. faults' # faults
        BY <1>2, <2>13 DEF AnalysisDies
      <4>2. InProgress(r) /\ ~InProgress(r)'
        BY <1>2, <2>13 DEF AnalysisDies
      <4> QED BY <4>1, <4>2 DEF Dies
    <3>3. run[r] # "markAnalyzed" => Unstored \/ status = "analyzed"
      BY <1>2, <2>2, <2>13 DEF AnalysisDies, AnalysisSteps
    <3>4. r \in Slots /\ job' \in {"waiting", "failed"} /\ UNCHANGED <<status, features>>
      BY <1>2, <2>2, <2>13 DEF AnalysisDies
    <3>5. \A q \in AnalysisRuns : run'[q] = "idle"
      BY <1>2, <2>2, <2>13 DEF AnalysisDies
    <3> QED BY <2>3, <3>1, <3>2, <3>3, <3>4, <3>5
  <2> QED BY <2>1, <2>4, <2>5, <2>6, <2>7, <2>8, <2>9, <2>10, <2>11, <2>12, <2>13
          DEF AnalyzeVideo
<1> QED BY <1>1, <1>3, <1>4 DEF QueueInv

LEMMA QueueInvariant == EndingsSpec => []QueueInv
<1>1. EndingsInit => QueueInv
  BY InitTypes, AnalysisAssumption
     DEF EndingsInit, Init, VideosInit, IngestInit, AnalysisInit, QueueInv, QueuedHasRow,
         QueueAlone, JobRunsAlone, SlotKnows, JobSays, Unstored, BeforeStored, InProgress
<1>2. QueueInv /\ [EndingsNext]_endingVars => QueueInv'
  <2> SUFFICES ASSUME QueueInv, [EndingsNext]_endingVars PROVE QueueInv'
    OBVIOUS
  <2>1. CASE Ingestion /\ EndingsNext
    BY <2>1, IngestStepQueue DEF Ingestion, EndingsNext
  <2>2. CASE ((\E r \in AnalysisRuns : Analysing(r)) \/ AnalysisFaults) /\ EndingsNext
    BY <2>2, AnalysisStepQueue DEF EndingsNext, Analysing, AnalysisFaults
  <2>3. CASE UNCHANGED endingVars
    <3>1. Typed'
      BY <2>3, NextTypes DEF QueueInv, endingVars
    <3> QED BY <2>3, <3>1 DEF endingVars, vars, rowVars, ingestVars, analysisVars, QueueInv,
                              QueuedHasRow, QueueAlone, JobRunsAlone, SlotKnows, JobSays,
                              Unstored, InProgress, Recommendable
  <2> QED BY <2>1, <2>2, <2>3 DEF EndingsNext, Next
<1> QED BY <1>1, <1>2, PTL DEF EndingsSpec

(***************************************************************************)
(* What the queue calls done can be recommended, unless an execution broke *)
(* off behind the features, and what it gives up is marked failed, unless  *)
(* one ended without a result; for any number of slots, attempts, passes   *)
(* and failures, as long as no script runs beside the queue.               *)
(***************************************************************************)
THEOREM RowsMatchJobs == EndingsSpec => []JobMatchesRow
<1>1. QueueInv => JobMatchesRow
  BY DEF QueueInv, QueueAlone, JobSays, JobMatchesRow
<1> QED BY <1>1, QueueInvariant, PTL

(***************************************************************************)
(* An execution of the queue leaves features behind a row that is not      *)
(* analyzed in one way only: it stored them, and before the row was marked *)
(* its UPDATE threw or its process died.                                   *)
(***************************************************************************)
THEOREM AttemptsLeaveNothing == EndingsSpec => []AttemptsHideNoFeatures
<1>1. QueueInv => AttemptsHideNoFeatures
  <2> SUFFICES ASSUME QueueInv, scripted = {}, ~torn, \A r \in AnalysisRuns : ~InProgress(r),
                      status # "analyzed"
               PROVE  features = None
    BY DEF AttemptsHideNoFeatures, UnfinishedHasNoFeatures
  <2>1. job \in JobStates /\ job # "active"
    BY DEF QueueInv, Typed, TypeOK, VideosTypeOK, QueueAlone, JobRunsAlone
  <2> QED BY <2>1 DEF QueueInv, QueueAlone, JobSays, Unstored, Recommendable, JobStates
<1> QED BY <1>1, QueueInvariant, PTL

=============================================================================
