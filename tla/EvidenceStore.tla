--------------------------- MODULE EvidenceStore ---------------------------
(***************************************************************************)
(* What ingestion promises about the evidence of one experiment            *)
(* (docs/architecture.md, "Replaces existing records"): an ingest replaces *)
(* the documents and the metrics of the one before it at once, and never   *)
(* comes back.                                                             *)
(***************************************************************************)
CONSTANTS
  Ingesters,  \* the ingests of the experiment
  Seed        \* the ingest that may have run before

VARIABLES
  documents, metrics,  \* the ingests whose rows a reader finds
  past                 \* the ingests that have replaced them

storeVars == <<documents, metrics, past>>

Init ==
  /\ documents \in {{}, {Seed}} /\ metrics = documents
  /\ past = {}

Replace(i) ==
  /\ i \notin past
  /\ documents' = {i} /\ metrics' = {i}
  /\ past' = past \cup {i}

Next == \E i \in Ingesters : Replace(i)

Spec == Init /\ [][Next]_storeVars
=============================================================================
