------------------------------- MODULE Ingest -------------------------------
(***************************************************************************)
(* ingestItem (src/src/ingest/ingestService.ts), one await per action.     *)
(* Bytes are read, hashed and looked up; a new file is probed, uploaded,   *)
(* inserted and, with --enqueue, queued; a known one may get the creator   *)
(* its manifest names.                                                     *)
(***************************************************************************)
EXTENDS Videos

CONSTANTS
  Wanted,   \* Wanted[i]: the creator the manifest of run i names, or None
  Enqueues  \* the runs started with --enqueue

ASSUME IngestAssumption ==
  /\ Wanted \in [IngestRuns -> Creators \cup {None}]
  /\ Enqueues \subseteq IngestRuns

VARIABLES
  ingest,     \* ingest[i]: the await run i is at, or its outcome
  existing,   \* existing[i]: the creator of the row the lookup found
  late        \* history: the runs that started when the row was there

ingestVars == <<ingest, existing, late>>

Outcomes == {"ingested", "duplicate", "rejected", "failed"}
IngestSteps == {"unstarted", "lookup", "reconcile", "probe", "upload",
                "insert", "enqueue", "dead"} \cup Outcomes

IngestTypeOK ==
  /\ ingest \in [IngestRuns -> IngestSteps]
  /\ existing \in [IngestRuns -> Creators \cup {None}]
  /\ late \subseteq IngestRuns

IngestInit ==
  /\ ingest = [i \in IngestRuns |-> "unstarted"]
  /\ existing = [i \in IngestRuns |-> None]
  /\ late = {}

Advance(i, from, to) ==
  /\ ingest[i] = from
  /\ ingest' = [ingest EXCEPT ![i] = to]

Materialise(i) ==
  /\ \/ Advance(i, "unstarted", "lookup")
     \/ Advance(i, "unstarted", "rejected")
  /\ late' = IF video # None THEN late \cup {i} ELSE late
  /\ UNCHANGED <<rowVars, features, objects, job, existing, faults>>

Lookup(i) ==
  /\ \/ Advance(i, "lookup", "probe") /\ video = None /\ UNCHANGED existing
     \/ /\ Advance(i, "lookup", "reconcile") /\ video # None
        /\ existing' = [existing EXCEPT ![i] = creator]
  /\ UNCHANGED <<rowVars, features, objects, job, late, faults>>

\* Fills a creator the lookup found missing; a different one is a conflict.
reconcileCreator(i) ==
  /\ Advance(i, "reconcile", "duplicate")
  /\ creator' = IF Wanted[i] # None /\ existing[i] = None THEN Wanted[i] ELSE creator
  /\ UNCHANGED <<video, status, features, objects, job, existing, late, faults>>

\* Mutation of Probe: an acceptable file is inserted first and uploaded never.
ProbeSkippingUpload(i) ==
  /\ \/ Advance(i, "probe", "insert")
     \/ Advance(i, "probe", "rejected")
  /\ UNCHANGED <<rowVars, features, objects, job, existing, late, faults>>

\* Reading fails, or the duration is out of bounds: rejected before any upload.
Probe(i) ==
  /\ \/ Advance(i, "probe", "upload")
     \/ Advance(i, "probe", "rejected")
  /\ UNCHANGED <<rowVars, features, objects, job, existing, late, faults>>

\* putObject, then the poster, whose absence is accepted.
Upload(i) ==
  /\ Advance(i, "upload", "insert")
  /\ objects' = objects \cup {i}
  /\ UNCHANGED <<rowVars, features, job, existing, late, faults>>

\* The unique index on the checksum turns a second row into an error.
Insert(i) ==
  /\ \/ /\ video = None
        /\ Advance(i, "insert", IF i \in Enqueues THEN "enqueue" ELSE "ingested")
        /\ video' = i
        /\ creator' = Wanted[i]
        /\ status' = "ingested"
     \/ /\ video # None
        /\ Advance(i, "insert", "failed")
        /\ UNCHANGED rowVars
  /\ UNCHANGED <<features, objects, job, existing, late, faults>>

Enqueue(i) ==
  /\ Advance(i, "enqueue", "ingested")
  /\ job' = IF job = "none" THEN "waiting" ELSE job
  /\ UNCHANGED <<rowVars, features, objects, existing, late, faults>>

\* An await throws and the file is reported failed, or the process dies.
IngestFails(i) ==
  /\ faults < MaxFaults
  /\ faults' = faults + 1
  /\ ingest[i] \notin Outcomes \cup {"unstarted", "dead"}
  /\ \E end \in {"failed", "dead"} : ingest' = [ingest EXCEPT ![i] = end]
  /\ UNCHANGED <<rowVars, features, objects, job, existing, late>>

IngestItem(i) ==
  \/ Materialise(i)
  \/ Lookup(i)
  \/ reconcileCreator(i)
  \/ Probe(i)
  \/ Upload(i)
  \/ Insert(i)
  \/ Enqueue(i)

=============================================================================
