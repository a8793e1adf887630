----------------------------- MODULE MCPipeline -----------------------------
(***************************************************************************)
(* Passes of the ingestion script with and without a manifest.             *)
(***************************************************************************)
EXTENDS Endings

\* One pass without a manifest, the other with one.
LateManifest == [i \in IngestRuns |-> IF i = "first" THEN None ELSE "c1"]

=============================================================================
