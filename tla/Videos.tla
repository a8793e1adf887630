------------------------------- MODULE Videos -------------------------------
(***************************************************************************)
(* What ingestion and analysis share about one file: its row, its object   *)
(* in storage, its analysis job and what the model said about it.  A file  *)
(* is its content - the checksum is unique - so one file stands for all.   *)
(* A faults budget bounds the awaits that throw and the processes that die *)
(* in either part.                                                         *)
(***************************************************************************)
EXTENDS Integers, FiniteSets

CONSTANTS
  IngestRuns,    \* passes of the ingestion script over the file; each draws its own id
  AnalysisRuns,  \* executions of analyzeVideo on it: worker slots and scripts
  Creators,
  MaxAttempts,   \* attempts: 3 of the analysis queue
  MaxFaults,     \* bound of the model
  None

ASSUME VideosAssumption ==
  /\ MaxAttempts \in Nat \ {0}
  /\ MaxFaults \in Nat
  /\ None \notin IngestRuns \cup AnalysisRuns \cup Creators

VARIABLES
  video,     \* None, or the id of the videos row with this checksum
  creator,   \* its creator_id, or None
  status,    \* its status; "absent" without a row
  features,  \* the run whose features and embedding are stored, or None
  objects,   \* the ids under which the file has been uploaded
  job,       \* the analysis job of the row
  faults

rowVars == <<video, creator, status>>

Statuses == {"absent", "ingested", "analyzing", "analyzed", "failed"}
JobStates == {"none", "waiting", "active", "completed", "failed"}

VideosTypeOK ==
  /\ video \in IngestRuns \cup {None}
  /\ creator \in Creators \cup {None}
  /\ status \in Statuses
  /\ features \in AnalysisRuns \cup {None}
  /\ objects \subseteq IngestRuns
  /\ job \in JobStates
  /\ faults \in 0 .. MaxFaults

VideosInit ==
  /\ video = None
  /\ creator = None
  /\ status = "absent"
  /\ features = None
  /\ objects = {}
  /\ job = "none"
  /\ faults = 0

\* loadEligibleVideos: an analysed row joined to its features and embedding.
Recommendable == status = "analyzed" /\ features # None

=============================================================================
