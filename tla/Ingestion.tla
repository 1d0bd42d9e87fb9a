----------------------------- MODULE Ingestion -----------------------------
(***************************************************************************)
(* Concurrent ingests of one experiment (packages/ingestion): every call   *)
(* of ingest_experiment_dir reads its files, then replaces the rows of the *)
(* experiment in one transaction.  PostgreSQL runs the transactions READ   *)
(* COMMITTED: a statement sees what was committed when it started, waits   *)
(* for the rows another transaction has written, and goes on with what is  *)
(* left of the rows it saw.  An analysis reads beside them, one session    *)
(* per query.                                                              *)
(*                                                                         *)
(* A row is known by the ingest that wrote it.  The metric rows of an      *)
(* ingest, and its document with the chunks, come and go together.         *)
(***************************************************************************)
EXTENDS Naturals, FiniteSets

CONSTANTS
  Ingesters,  \* calls of ingest_experiment_dir, each runs once
  Seed,       \* an ingest that may have been committed before
  Configs, Statuses, SourceUris, Names,
  Inputs      \* the files the ingests may have read

Owners == Ingesters \cup {Seed}
Columns == {"config", "status"}
Tables == {"documents", "metrics"}

\* The parsed directory: metadata.json as it is stored (config) and the status
\* in it, which stands for every column that repeats a part of it; the path of
\* the report; the stored names of the metric rows.
ExperimentInputs ==
  [config : Configs, status : Statuses, source_uri : SourceUris,
   names : (SUBSET Names) \ {{}}]

ASSUME SeedAssumption == Seed \notin Ingesters /\ "none" \notin Owners
ASSUME IngestersAssumption == IsFiniteSet(Ingesters)
ASSUME InputsAssumption ==
  /\ Inputs \subseteq [Owners -> ExperimentInputs]
  /\ \A f \in Inputs : \A a, b \in Owners :
       f[a].config = f[b].config => f[a].status = f[b].status

\* Every ingest brings other metadata than any other.
OwnMetadata(f) == \A a, b \in Owners : f[a].config = f[b].config => a = b
\* All have read their report from the same path.
OneDirectory(f) == \A a, b \in Owners : f[a].source_uri = f[b].source_uri

VARIABLES
  files,     \* what each ingest has read
  experiment,  \* the committed row: per column the ingest that wrote it, or Absent
  rows,      \* per table the ingests whose rows it holds, committed or not
  pc,        \* where an ingest is
  seen,      \* the row an ingest has selected
  view,      \* the rows its DELETE in progress has found
  gone,      \* per table the rows its transaction has deleted
  todo,      \* the tables its flush has still to write
  at,        \* history: the position of an ingest in the order of commits
  analyst    \* what the analysis has read: the writer of the config, the metrics

tx == <<seen, view, gone, todo>>
vars == <<files, experiment, rows, pc, tx, at, analyst>>

Absent == [c \in Columns |-> "none"]
Nothing == [t \in Tables |-> {}]

-----------------------------------------------------------------------------
(* Transactions. *)

Statements == {"save", "documents", "documents wait", "metrics", "metrics wait",
               "insert", "commit"}
Waiting(t) == IF t = "documents" THEN "documents wait" ELSE "metrics wait"

OpenUntilCommitted(i) == pc[i] \notin {"files", "committed"}  \* a mutant: no rollback
Open(i) == pc[i] \in Statements
Committed(o) == o = Seed \/ pc[o] = "committed"
Visible(t) == {o \in rows[t] : Committed(o)}

\* The columns the unit of work finds changed: those whose new value differs
\* from the one that was selected.
ChangedNever(i) == {}  \* a mutant: the metadata of an existing experiment is kept
Changed(i) == {c \in Columns : files[i][c] # files[seen[i][c]][c]}

\* An ingest writes the row of the experiment, and holds it from then on.
Writes(i) == seen[i] = Absent \/ Changed(i) # {}

\* UniqueConstraint("experiment_id", "source_uri") and ("experiment_id", "name").
Clash(t, i, o) ==
  \/ t = "documents" /\ files[i].source_uri = files[o].source_uri
  \/ t = "metrics" /\ files[i].names \cap files[o].names # {}

Others(i) == {j \in Ingesters \ {i} : Open(j)}

\* Whom an INSERT of i into t waits for: the open transactions that have
\* inserted or deleted a row with the same key.
InsertWaitsFor(i, t) ==
  {j \in Others(i) : \E o \in rows[t] \ gone[i][t] :
     Clash(t, i, o) /\ (o = j \/ o \in gone[j][t])}

\* A row with the same key that is there to stay.
Taken(i, t) ==
  \E o \in rows[t] \ gone[i][t] :
    /\ Clash(t, i, o) /\ Committed(o)
    /\ \A j \in Others(i) : o \notin gone[j][t]

DeleteWaitsFor(i, t) == {j \in Others(i) : gone[j][t] \cap view[i] # {}}

SaveWaitsFor(i) ==
  IF Writes(i) THEN {j \in Others(i) : pc[j] # "save" /\ Writes(j)} ELSE {}

WaitsFor(i) ==
  CASE pc[i] = "save" -> SaveWaitsFor(i)
    [] pc[i] = "documents wait" -> DeleteWaitsFor(i, "documents")
    [] pc[i] = "metrics wait" -> DeleteWaitsFor(i, "metrics")
    [] pc[i] = "insert" /\ \A t \in todo[i] : InsertWaitsFor(i, t) # {} ->
         UNION {InsertWaitsFor(i, t) : t \in todo[i]}
    [] OTHER -> {}

-----------------------------------------------------------------------------
Init ==
  /\ files \in Inputs
  /\ experiment \in {Absent, [c \in Columns |-> Seed]}
  /\ rows = [t \in Tables |-> IF experiment = Absent THEN {} ELSE {Seed}]
  /\ pc = [i \in Ingesters |-> "files"]
  /\ seen = [i \in Ingesters |-> Absent]
  /\ view = [i \in Ingesters |-> {}]
  /\ gone = [i \in Ingesters |-> Nothing]
  /\ todo = [i \in Ingesters |-> {}]
  /\ at = [o \in Owners |-> 0]
  /\ analyst = [stage |-> "idle", config |-> "none", metrics |-> {}]

Goto(i, stage) == pc' = [pc EXCEPT ![i] = stage]

\* The end of a transaction that was not committed: its rows are taken back.
Rollback(i) ==
  /\ Goto(i, "failed")
  /\ rows' = [t \in Tables |-> rows[t] \ {i}]
  /\ gone' = [gone EXCEPT ![i] = Nothing]
  /\ view' = [view EXCEPT ![i] = {}]
  /\ UNCHANGED <<files, experiment, seen, todo, at, analyst>>

\* The files are invalid, or the embedding provider raised: no session was opened.
Refuse(i) ==
  /\ pc[i] = "files"
  /\ Goto(i, "failed")
  /\ UNCHANGED <<files, experiment, rows, tx, at, analyst>>

\* select(Experiment).where(Experiment.name == metadata.name)
Select(i) ==
  /\ pc[i] = "files"
  /\ seen' = [seen EXCEPT ![i] = experiment]
  /\ Goto(i, "save")
  /\ UNCHANGED <<files, experiment, rows, view, gone, todo, at, analyst>>

\* The flush after the selection: a new row, the changed columns of the
\* selected one, or no statement at all when none has changed.  A name that
\* was inserted meanwhile is a violation.
Save(i) ==
  /\ pc[i] = "save" /\ SaveWaitsFor(i) = {}
  /\ IF seen[i] = Absent /\ experiment # Absent THEN Rollback(i)
     ELSE /\ Goto(i, IF seen[i] = Absent THEN "insert" ELSE "documents")
          /\ todo' = [todo EXCEPT ![i] = IF seen[i] = Absent THEN Tables ELSE {}]
          /\ UNCHANGED <<files, experiment, rows, seen, view, gone, at, analyst>>

\* A DELETE starts: it finds the committed rows of the experiment.
Find(i, t) ==
  /\ pc[i] = t
  /\ view' = [view EXCEPT ![i] = Visible(t)]
  /\ Goto(i, Waiting(t))
  /\ UNCHANGED <<files, experiment, rows, seen, gone, todo, at, analyst>>

DeletableDocuments(i, t) ==  \* a mutant: the metrics are not deleted
  IF t = "documents" THEN view[i] \cap rows[t] ELSE {}
DeletableOfOwnKeys(i, t) == {o \in view[i] \cap rows[t] : Clash(t, i, o)}  \* a mutant
\* Of the rows it found those that are still there.
Deletable(i, t) == view[i] \cap rows[t]

Delete(i, t) ==
  /\ pc[i] = Waiting(t)
  /\ DeleteWaitsFor(i, t) = {}
  /\ gone' = [gone EXCEPT ![i][t] = Deletable(i, t)]
  /\ view' = [view EXCEPT ![i] = {}]
  /\ Goto(i, IF t = "documents" THEN "metrics" ELSE "insert")
  /\ todo' = [todo EXCEPT ![i] = IF t = "documents" THEN {} ELSE Tables]
  /\ UNCHANGED <<files, experiment, rows, seen, at, analyst>>

\* The flush of metrics and document, in the order the unit of work takes them.
Insert(i, t) ==
  /\ pc[i] = "insert" /\ t \in todo[i]
  /\ IF Taken(i, t) THEN Rollback(i)
     ELSE /\ InsertWaitsFor(i, t) = {}
          /\ rows' = [rows EXCEPT ![t] = @ \cup {i}]
          /\ todo' = [todo EXCEPT ![i] = @ \ {t}]
          /\ Goto(i, IF todo[i] = {t} THEN "commit" ELSE "insert")
          /\ UNCHANGED <<files, experiment, seen, view, gone, at, analyst>>

StoredWithoutStatus(i) ==  \* a mutant: a new row is added without its status
  [c \in Columns |-> IF c = "config" THEN i ELSE experiment[c]]
\* The row of the experiment with what the ingest has written of it.
Stored(i) ==
  [c \in Columns |-> IF seen[i] = Absent \/ c \in Changed(i) THEN i ELSE experiment[c]]

\* The chunks are written and the transaction ends.
Commit(i) ==
  /\ pc[i] = "commit"
  /\ Goto(i, "committed")
  /\ rows' = [t \in Tables |-> rows[t] \ gone[i][t]]
  /\ experiment' = Stored(i)
  /\ gone' = [gone EXCEPT ![i] = Nothing]
  /\ at' = [at EXCEPT ![i] = Cardinality({j \in Ingesters : pc[j] = "committed"}) + 1]
  /\ UNCHANGED <<files, seen, view, todo, analyst>>

\* The process or its connection dies.
Abort(i) == Open(i) /\ Rollback(i)

\* The server ends one of the transactions that wait for each other.
Deadlocked(S) == \A i \in S : Open(i) /\ WaitsFor(i) \cap S # {}
Victim(i) ==
  /\ \E S \in SUBSET Ingesters : i \in S /\ Deadlocked(S)
  /\ Rollback(i)

-----------------------------------------------------------------------------
(* The analysis of the experiment: get_experiment, then get_metrics. *)

GetExperiment ==
  /\ analyst.stage = "idle" /\ experiment # Absent
  /\ analyst' = [analyst EXCEPT !.stage = "found", !.config = experiment["config"]]
  /\ UNCHANGED <<files, experiment, rows, pc, tx, at>>

GetMetrics ==
  /\ analyst.stage = "found"
  /\ analyst' = [analyst EXCEPT !.stage = "done", !.metrics = Visible("metrics")]
  /\ UNCHANGED <<files, experiment, rows, pc, tx, at>>

Ended ==
  /\ \A i \in Ingesters : pc[i] \in {"committed", "failed"}
  /\ UNCHANGED vars

Ingest(i) ==
  \/ Select(i) \/ Save(i) \/ Commit(i) \/ Victim(i)
  \/ \E t \in Tables : Find(i, t) \/ Delete(i, t) \/ Insert(i, t)

Next ==
  \/ \E i \in Ingesters : Ingest(i) \/ Refuse(i) \/ Abort(i)
  \/ GetExperiment \/ GetMetrics \/ Ended

\* An ingest that has opened its session waits for nothing but the server, and
\* the server looks for deadlocks.
Fairness == \A i \in Ingesters : WF_vars(Open(i) /\ Ingest(i))

Spec == Init /\ [][Next]_vars /\ Fairness

-----------------------------------------------------------------------------
TypeOK ==
  /\ files \in Inputs
  /\ experiment \in {Absent} \cup [Columns -> Owners]
  /\ rows \in [Tables -> SUBSET Owners]
  /\ pc \in [Ingesters -> Statements \cup {"files", "committed", "failed"}]
  /\ seen \in [Ingesters -> {Absent} \cup [Columns -> Owners]]
  /\ view \in [Ingesters -> SUBSET Owners]
  /\ gone \in [Ingesters -> [Tables -> SUBSET Owners]]
  /\ todo \in [Ingesters -> SUBSET Tables]
  /\ at \in [Owners -> Nat]
  /\ analyst \in [stage : {"idle", "found", "done"}, config : Owners \cup {"none"},
                  metrics : SUBSET Owners]

\* A reader finds the documents and the metrics of one and the same ingest, and
\* finds them as soon as there is an experiment.  It takes metadata of their own
\* or one directory: both make the ingests queue.
OneEvidence ==
  IF experiment = Absent THEN \A t \in Tables : Visible(t) = {}
  ELSE \E o \in Owners : \A t \in Tables : Visible(t) = {o}

\* An analysis whose two reads were interleaved with ingests never judges an
\* experiment by metrics older than the description it has read.
MetricsNotOlder ==
  analyst.stage = "done" =>
    \A o \in analyst.metrics : at[analyst.config] <= at[o]

\* No ingest waits for ever: it commits or raises.
EveryIngestEnds ==
  \A i \in Ingesters : Open(i) ~> pc[i] \in {"committed", "failed"}

\* Documents and metrics as an evidence store.
Evidence == INSTANCE EvidenceStore WITH
  documents <- Visible("documents"), metrics <- Visible("metrics"),
  past <- {i \in Ingesters : pc[i] = "committed"}

\* Each commit replaces the evidence as a whole and once; no statement, failure
\* or deadlock of an ingest changes what a reader finds.
ImplementsReplacement == Evidence!Spec

\* docs/architecture.md: an ingest "Replaces existing records when an experiment
\* with the same name is re-ingested": what is stored is of one ingest, the row
\* of the experiment included.
OneVersion ==
  experiment # Absent =>
    \E o \in Owners :
      /\ \A t \in Tables : Visible(t) = {o}
      /\ \A c \in Columns : files[experiment[c]][c] = files[o][c]
=============================================================================
