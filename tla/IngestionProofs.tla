-------------------------- MODULE IngestionProofs --------------------------
(***************************************************************************)
(* Proofs about Ingestion for any number of ingests: types for all files,  *)
(* what readers find for ingests that queue.                               *)
(***************************************************************************)
EXTENDS Ingestion, FiniteSetTheorems, TLAPS

\* What was selected is there to stay.
Selected == \A i \in Ingesters : seen[i] # Absent => experiment # Absent

LEMMA AbsentIsNoRow == \A r \in [Columns -> Owners] : r # Absent
  BY SeedAssumption DEF Absent, Columns

LEMMA StoredType ==
  ASSUME TypeOK, Selected, NEW i \in Ingesters
  PROVE  Stored(i) \in [Columns -> Owners]
<1>1. CASE seen[i] = Absent
  BY <1>1 DEF Stored, Owners, Columns
<1>2. CASE seen[i] # Absent
  <2>1. experiment \in [Columns -> Owners]
    BY <1>2 DEF TypeOK, Selected
  <2> QED BY <2>1 DEF Stored, Owners, Columns
<1> QED BY <1>1, <1>2

LEMMA PublishedCount ==
  Cardinality({j \in Ingesters : pc[j] = "committed"}) \in Nat
<1>1. IsFiniteSet({j \in Ingesters : pc[j] = "committed"})
  BY IngestersAssumption, FS_Subset
<1> QED BY <1>1, FS_CardinalityType

LEMMA TypeStart == Init => TypeOK /\ Selected
  BY DEF Init, TypeOK, Selected, Owners, Tables, Nothing, Columns

LEMMA RollbackType ==
  ASSUME TypeOK, Selected, NEW i \in Ingesters, Rollback(i)
  PROVE  TypeOK' /\ Selected'
<1>1. Nothing \in [Tables -> SUBSET Owners]
  BY DEF Nothing
<1>2. rows' \in [Tables -> SUBSET Owners]
  BY DEF Rollback, TypeOK
<1>3. gone' \in [Ingesters -> [Tables -> SUBSET Owners]]
  BY <1>1 DEF Rollback, TypeOK
<1> QED BY <1>2, <1>3 DEF Rollback, TypeOK, Selected, Goto

LEMMA TypeStep == TypeOK /\ Selected /\ [Next]_vars => TypeOK' /\ Selected'
<1> SUFFICES ASSUME TypeOK, Selected, [Next]_vars PROVE TypeOK' /\ Selected'
  OBVIOUS
<1>1. CASE UNCHANGED vars
  BY <1>1 DEF vars, tx, TypeOK, Selected
<1>2. ASSUME NEW i \in Ingesters, Refuse(i) PROVE TypeOK' /\ Selected'
  BY <1>2 DEF Refuse, Goto, tx, TypeOK, Selected
<1>3. ASSUME NEW i \in Ingesters, Rollback(i) PROVE TypeOK' /\ Selected'
  BY <1>3, RollbackType
<1>4. ASSUME NEW i \in Ingesters, Select(i) PROVE TypeOK' /\ Selected'
  BY <1>4 DEF Select, Goto, Statements, TypeOK, Selected
<1>5. ASSUME NEW i \in Ingesters, Save(i) PROVE TypeOK' /\ Selected'
  <2>1. CASE seen[i] = Absent /\ experiment # Absent
    BY <2>1, <1>3, <1>5 DEF Save
  <2>2. CASE ~(seen[i] = Absent /\ experiment # Absent)
    <3>1. Goto(i, IF seen[i] = Absent THEN "insert" ELSE "documents")
          /\ todo' = [todo EXCEPT ![i] = IF seen[i] = Absent THEN Tables ELSE {}]
          /\ UNCHANGED <<files, experiment, rows, seen, view, gone, at, analyst>>
      BY <2>2, <1>5 DEF Save
    <3>2. pc' \in [Ingesters -> Statements \cup {"files", "committed", "failed"}]
      BY <3>1 DEF Goto, Statements, TypeOK
    <3>3. todo' \in [Ingesters -> SUBSET Tables]
      BY <3>1 DEF TypeOK
    <3> QED BY <3>1, <3>2, <3>3 DEF TypeOK, Selected
  <2> QED BY <2>1, <2>2
<1>6. ASSUME NEW i \in Ingesters, NEW t \in Tables, Find(i, t) PROVE TypeOK' /\ Selected'
  <2>1. Visible(t) \subseteq Owners
    BY DEF Visible, TypeOK
  <2> QED BY <2>1, <1>6 DEF Find, Goto, Waiting, Statements, TypeOK, Selected
<1>7. ASSUME NEW i \in Ingesters, NEW t \in Tables, Delete(i, t) PROVE TypeOK' /\ Selected'
  <2>1. Deletable(i, t) \subseteq Owners
    BY DEF Deletable, TypeOK
  <2>2. gone' \in [Ingesters -> [Tables -> SUBSET Owners]]
    BY <2>1, <1>7 DEF Delete, TypeOK
  <2> QED BY <2>2, <1>7 DEF Delete, Goto, Statements, TypeOK, Selected
<1>8. ASSUME NEW i \in Ingesters, NEW t \in Tables, Insert(i, t) PROVE TypeOK' /\ Selected'
  <2>1. CASE Taken(i, t)
    BY <2>1, <1>3, <1>8 DEF Insert
  <2>2. CASE ~Taken(i, t)
    <3>1. rows' \in [Tables -> SUBSET Owners]
      <4>1. rows' = [rows EXCEPT ![t] = @ \cup {i}]
        BY <2>2, <1>8 DEF Insert
      <4>2. rows \in [Tables -> SUBSET Owners] /\ i \in Owners
        BY DEF TypeOK, Owners
      <4> QED BY <4>1, <4>2
    <3>2. Goto(i, IF todo[i] = {t} THEN "commit" ELSE "insert")
          /\ todo' = [todo EXCEPT ![i] = @ \ {t}]
          /\ UNCHANGED <<files, experiment, seen, view, gone, at, analyst>>
      BY <2>2, <1>8 DEF Insert
    <3>3. pc' \in [Ingesters -> Statements \cup {"files", "committed", "failed"}]
      BY <3>2 DEF Goto, Statements, TypeOK
    <3>4. todo' \in [Ingesters -> SUBSET Tables]
      BY <3>2 DEF TypeOK
    <3> QED BY <3>1, <3>2, <3>3, <3>4 DEF TypeOK, Selected
  <2> QED BY <2>1, <2>2
<1>9. ASSUME NEW i \in Ingesters, Commit(i) PROVE TypeOK' /\ Selected'
  <2>1. experiment' \in [Columns -> Owners] /\ experiment' # Absent
    BY <1>9, StoredType, AbsentIsNoRow DEF Commit
  <2>2. at' \in [Owners -> Nat]
    <3> DEFINE n == Cardinality({j \in Ingesters : pc[j] = "committed"}) + 1
    <3>1. at' = [at EXCEPT ![i] = n]
      BY <1>9 DEF Commit
    <3>2. n \in Nat
      BY PublishedCount
    <3> HIDE DEF n
    <3> QED BY <3>1, <3>2 DEF TypeOK
  <2>3. rows' \in [Tables -> SUBSET Owners]
    BY <1>9 DEF Commit, TypeOK
  <2>4. gone' \in [Ingesters -> [Tables -> SUBSET Owners]]
    BY <1>9 DEF Commit, TypeOK, Nothing
  <2> QED BY <2>1, <2>2, <2>3, <2>4, <1>9 DEF Commit, Goto, TypeOK, Selected
<1>10. CASE GetExperiment
  <2>1. experiment \in [Columns -> Owners]
    BY <1>10 DEF GetExperiment, TypeOK
  <2>2. experiment["config"] \in Owners
    BY <2>1 DEF Columns
  <2> QED BY <2>2, <1>10 DEF GetExperiment, tx, TypeOK, Selected
<1>11. CASE GetMetrics
  <2>1. Visible("metrics") \subseteq Owners
    BY DEF Visible, TypeOK, Tables
  <2> QED BY <2>1, <1>11 DEF GetMetrics, tx, TypeOK, Selected
<1>12. CASE Ended
  BY <1>1, <1>12 DEF Ended
<1> QED
  BY <1>1, <1>2, <1>3, <1>4, <1>5, <1>6, <1>7, <1>8, <1>9, <1>10, <1>11, <1>12
  DEF Next, Ingest, Abort, Victim

\* Rows, views and locks are of ingests, and a committed experiment has every
\* column: what a statement of a transaction finds is of the declared shape.
THEOREM TypeCorrectness == Spec => []TypeOK
  BY TypeStart, TypeStep, PTL DEF Spec

-----------------------------------------------------------------------------
(* One evidence.  The ingests queue when each brings metadata of its own,  *)
(* behind the row of the experiment, or when they share a directory,       *)
(* behind the key of the document.                                         *)

Queue(f) == OwnMetadata(f) \/ OneDirectory(f)
Queues == \A f \in Inputs : Queue(f)

PastSave == Statements \ {"save"}

\* An ingest whose turn it is: it has written the row of the experiment, or
\* deleted the document.
Holds(i) ==
  /\ pc[i] \in PastSave
  /\ seen[i] = Absent \/ OwnMetadata(files) \/ gone[i]["documents"] # {}

\* What is read or selected was committed, and stays so.
Grounded(i) ==
  /\ seen[i] # Absent => /\ experiment # Absent
                         /\ \A c \in Columns : Committed(seen[i][c])
  /\ \A o \in view[i] : Committed(o)

\* What an ingest has done when it is at a statement.
Staged(i) ==
  /\ pc[i] \in {"files", "save", "documents", "documents wait"} => gone[i] = Nothing
  /\ pc[i] \in {"documents", "documents wait", "metrics", "metrics wait"} =>
       seen[i] # Absent
  /\ pc[i] = "insert" => \A t \in Tables \ todo[i] : i \in rows[t]
  /\ pc[i] = "commit" => \A t \in Tables : i \in rows[t]

\* Only an ingest whose turn it is gets past the insertion of its document.
InTurn(i) ==
  pc[i] = "commit" \/ (pc[i] = "insert" /\ "documents" \notin todo[i]) => Holds(i)

\* In its turn it finds and deletes all that a reader sees.
Whole(i) ==
  Holds(i) =>
    /\ seen[i] = Absent => experiment = Absent /\ pc[i] \in {"insert", "commit"}
    /\ pc[i] = "documents wait" => view[i] = Visible("documents")
    /\ pc[i] = "metrics wait" => view[i] = Visible("metrics")
    /\ pc[i] \in {"metrics", "metrics wait", "insert", "commit"} =>
         gone[i]["documents"] = Visible("documents")
    /\ pc[i] \in {"insert", "commit"} => gone[i]["metrics"] = Visible("metrics")

Sound(i) == Grounded(i) /\ Staged(i) /\ InTurn(i) /\ Whole(i)

Exclusive == \A i, j \in Ingesters : Holds(i) /\ Holds(j) => i = j

IInv ==
  /\ TypeOK
  /\ Queue(files)
  /\ experiment # Absent => \A c \in Columns : Committed(experiment[c])
  /\ OneEvidence
  /\ \A i \in Ingesters : Sound(i)
  /\ Exclusive

-----------------------------------------------------------------------------
\* A step of i that commits nothing: readers see the same, the other ingests
\* are where they were.
Beside(i) ==
  /\ UNCHANGED <<files, experiment, at, analyst>>
  /\ \A o \in Owners : Committed(o)' <=> Committed(o)
  /\ \A t \in Tables : Visible(t)' = Visible(t)
  /\ \A j \in Ingesters \ {i} :
       /\ pc'[j] = pc[j] /\ seen'[j] = seen[j] /\ view'[j] = view[j]
       /\ gone'[j] = gone[j] /\ todo'[j] = todo[j]
       /\ \A t \in Tables : j \in rows'[t] <=> j \in rows[t]

LEMMA OthersKept ==
  ASSUME IInv, NEW i \in Ingesters, Beside(i), NEW j \in Ingesters \ {i}
  PROVE  Sound(j)' /\ (Holds(j)' <=> Holds(j))
<1>1. Holds(j)' <=> Holds(j)
  BY DEF Beside, Holds
<1>2. Grounded(j)'
  <2>1. view[j] \subseteq Owners /\ (seen[j] # Absent => \A c \in Columns : seen[j][c] \in Owners)
    BY DEF IInv, TypeOK
  <2> QED BY <2>1 DEF IInv, Sound, Grounded, Beside
<1>3. Staged(j)'
  <2>1. Staged(j)
    BY DEF IInv, Sound
  <2>2. /\ pc'[j] = pc[j] /\ seen'[j] = seen[j] /\ gone'[j] = gone[j] /\ todo'[j] = todo[j]
        /\ \A t \in Tables : j \in rows'[t] <=> j \in rows[t]
    BY DEF Beside
  <2> QED BY <2>1, <2>2 DEF Staged
<1>4. InTurn(j)' /\ Whole(j)'
  BY <1>1 DEF IInv, Sound, InTurn, Whole, Beside, Tables
<1> QED BY <1>1, <1>2, <1>3, <1>4 DEF Sound

\* What is to be shown of such a step.
LEMMA BesideStep ==
  ASSUME IInv, TypeOK', NEW i \in Ingesters, Beside(i), Sound(i)',
         Holds(i)' => Holds(i) \/ \A j \in Ingesters \ {i} : ~Holds(j)
  PROVE  IInv'
<1>1. \A j \in Ingesters : Sound(j)'
  BY OthersKept
<1>2. Exclusive'
  BY OthersKept DEF IInv, Exclusive
<1>3. (experiment # Absent => \A c \in Columns : Committed(experiment[c]))'
  <2>1. experiment # Absent => \A c \in Columns : experiment[c] \in Owners
    BY DEF IInv, TypeOK
  <2> QED BY <2>1 DEF IInv, Beside
<1>4. OneEvidence'
  BY DEF IInv, OneEvidence, Beside
<1> QED BY <1>1, <1>2, <1>3, <1>4 DEF IInv, Beside, Queue, OwnMetadata, OneDirectory

\* Only a commit changes who has committed.
LEMMA StageKept ==
  ASSUME TypeOK, NEW i \in Ingesters, NEW stage \in Statements \cup {"failed"},
         pc[i] # "committed", Goto(i, stage)
  PROVE  /\ \A o \in Owners : Committed(o)' <=> Committed(o)
         /\ pc'[i] = stage /\ \A j \in Ingesters \ {i} : pc'[j] = pc[j]
<1>1. pc'[i] = stage /\ \A j \in Ingesters \ {i} : pc'[j] = pc[j]
  BY DEF Goto, TypeOK
<1>2. stage # "committed"
  BY DEF Statements
<1> QED BY <1>1, <1>2 DEF Committed, Owners

\* With the rows of the others a reader's view stays.
LEMMA RowsKept ==
  ASSUME TypeOK, TypeOK', NEW i \in Ingesters, ~Committed(i),
         \A o \in Owners : Committed(o)' <=> Committed(o),
         \A t \in Tables, o \in Owners \ {i} : o \in rows'[t] <=> o \in rows[t]
  PROVE  \A t \in Tables : Visible(t)' = Visible(t)
<1> SUFFICES ASSUME NEW t \in Tables PROVE Visible(t)' = Visible(t)
  OBVIOUS
<1>1. rows[t] \subseteq Owners /\ rows'[t] \subseteq Owners
  BY DEF TypeOK
<1>2. i \in Owners
  BY DEF Owners
<1> QED BY <1>1, <1>2 DEF Visible

\* Every ingest with metadata of its own writes the row of the experiment.
LEMMA OwnWrites ==
  ASSUME IInv, OwnMetadata(files), NEW i \in Ingesters, Open(i)
  PROVE  Writes(i)
<1>1. CASE seen[i] = Absent
  BY <1>1 DEF Writes
<1>2. CASE seen[i] # Absent
  <2>1. Committed(seen[i]["config"]) /\ seen[i]["config"] \in Owners
    BY <1>2 DEF IInv, Sound, Grounded, Columns, TypeOK
  <2>2. ~Committed(i)
    BY SeedAssumption DEF Committed, Open, Statements
  <2>3. files[i].config # files[seen[i]["config"]].config
    BY <2>1, <2>2 DEF OwnMetadata, Owners
  <2>4. "config" \in Changed(i)
    BY <2>3 DEF Changed, Columns
  <2> QED BY <2>4 DEF Writes
<1> QED BY <1>1, <1>2

-----------------------------------------------------------------------------
(* One lemma per statement. *)

\* A transaction that is taken back leaves nothing behind.
LEMMA RollbackStep ==
  ASSUME IInv, TypeOK', NEW i \in Ingesters, Open(i), Rollback(i)
  PROVE  IInv' /\ Beside(i)
<1>1. pc[i] # "committed" /\ ~Committed(i)
  BY SeedAssumption DEF Open, Statements, Committed
<1>2. /\ \A o \in Owners : Committed(o)' <=> Committed(o)
      /\ pc'[i] = "failed" /\ \A j \in Ingesters \ {i} : pc'[j] = pc[j]
  BY <1>1, StageKept DEF IInv, Rollback
<1>3. \A t \in Tables, o \in Owners \ {i} : o \in rows'[t] <=> o \in rows[t]
  BY DEF Rollback
<1>4. \A t \in Tables : Visible(t)' = Visible(t)
  BY <1>1, <1>2, <1>3, RowsKept DEF IInv
<1>5. \A j \in Ingesters \ {i} : gone'[j] = gone[j] /\ view'[j] = view[j]
  BY DEF IInv, TypeOK, Rollback
<1>6. Beside(i)
  BY <1>2, <1>3, <1>4, <1>5 DEF Beside, Rollback, Owners
<1>7. view'[i] = {} /\ gone'[i] = Nothing /\ seen'[i] = seen[i]
  BY DEF IInv, TypeOK, Rollback
<1>8. ~Holds(i)'
  BY <1>2 DEF Holds, PastSave, Statements
<1>9. Sound(i)'
  <2>1. Grounded(i)'
    <3>1. seen[i] # Absent => \A c \in Columns : seen[i][c] \in Owners
      BY DEF IInv, TypeOK
    <3> QED BY <1>6, <1>7, <3>1 DEF IInv, Sound, Grounded, Beside
  <2>2. Staged(i)'
    BY <1>2 DEF Staged
  <2>3. InTurn(i)' /\ Whole(i)'
    BY <1>2, <1>8 DEF InTurn, Whole
  <2> QED BY <2>1, <2>2, <2>3 DEF Sound
<1> QED BY <1>6, <1>8, <1>9, BesideStep

LEMMA RefuseStep ==
  ASSUME IInv, TypeOK', NEW i \in Ingesters, Refuse(i)
  PROVE  IInv' /\ Beside(i)
<1>1. pc[i] # "committed" /\ ~Committed(i)
  BY SeedAssumption DEF Refuse, Committed
<1>2. /\ \A o \in Owners : Committed(o)' <=> Committed(o)
      /\ pc'[i] = "failed" /\ \A j \in Ingesters \ {i} : pc'[j] = pc[j]
  BY <1>1, StageKept DEF IInv, Refuse
<1>3. \A t \in Tables : Visible(t)' = Visible(t)
  BY <1>1, <1>2, RowsKept DEF IInv, Refuse
<1>4. Beside(i)
  BY <1>2, <1>3 DEF Beside, Refuse, tx
<1>5. ~Holds(i)'
  BY <1>2 DEF Holds, PastSave, Statements
<1>6. Sound(i)'
  <2>1. Grounded(i)'
    <3>1. view[i] \subseteq Owners /\ (seen[i] # Absent => \A c \in Columns : seen[i][c] \in Owners)
      BY DEF IInv, TypeOK
    <3> QED BY <1>2, <3>1 DEF IInv, Sound, Grounded, Refuse, tx
  <2>2. Staged(i)' /\ InTurn(i)' /\ Whole(i)'
    BY <1>2, <1>5 DEF Staged, InTurn, Whole
  <2> QED BY <2>1, <2>2 DEF Sound
<1> QED BY <1>4, <1>5, <1>6, BesideStep

LEMMA SelectStep ==
  ASSUME IInv, TypeOK', NEW i \in Ingesters, Select(i)
  PROVE  IInv' /\ Beside(i)
<1>1. pc[i] = "files" /\ pc[i] # "committed" /\ ~Committed(i)
  BY SeedAssumption DEF Select, Committed
<1>2. /\ \A o \in Owners : Committed(o)' <=> Committed(o)
      /\ pc'[i] = "save" /\ \A j \in Ingesters \ {i} : pc'[j] = pc[j]
  BY <1>1, StageKept DEF IInv, Select, Statements
<1>3. \A t \in Tables : Visible(t)' = Visible(t)
  BY <1>1, <1>2, RowsKept DEF IInv, Select
<1>4. seen'[i] = experiment /\ \A j \in Ingesters \ {i} : seen'[j] = seen[j]
  BY DEF IInv, TypeOK, Select
<1>5. Beside(i)
  BY <1>2, <1>3, <1>4 DEF Beside, Select
<1>6. ~Holds(i)'
  BY <1>2 DEF Holds, PastSave, Statements
<1>7. Sound(i)'
  <2>1. Grounded(i)'
    <3>1. view[i] \subseteq Owners /\ (experiment # Absent => \A c \in Columns : experiment[c] \in Owners)
      BY DEF IInv, TypeOK
    <3> QED BY <1>2, <1>4, <3>1 DEF IInv, Sound, Grounded, Select
  <2>2. Staged(i)'
    BY <1>1, <1>2 DEF IInv, Sound, Staged, Select
  <2>3. InTurn(i)' /\ Whole(i)'
    BY <1>2, <1>6 DEF InTurn, Whole
  <2> QED BY <2>1, <2>2, <2>3 DEF Sound
<1> QED BY <1>5, <1>6, <1>7, BesideStep

\* Whoever waits for nobody to write the row of the experiment is alone.
LEMMA Alone ==
  ASSUME IInv, NEW i \in Ingesters, pc[i] = "save", Writes(i), SaveWaitsFor(i) = {},
         experiment = Absent \/ OwnMetadata(files)
  PROVE  \A j \in Ingesters \ {i} : ~Holds(j)
<1> SUFFICES ASSUME NEW j \in Ingesters \ {i}, Holds(j) PROVE FALSE
  OBVIOUS
<1>1. Open(j) /\ pc[j] # "save"
  BY DEF Holds, PastSave, Open
<1>2. Writes(j)
  <2>1. CASE experiment = Absent
    BY <2>1 DEF IInv, Sound, Grounded, Writes
  <2>2. CASE OwnMetadata(files)
    BY <1>1, <2>2, OwnWrites
  <2> QED BY <2>1, <2>2
<1> QED BY <1>1, <1>2 DEF SaveWaitsFor, Others

LEMMA SaveStep ==
  ASSUME IInv, TypeOK', NEW i \in Ingesters, Save(i)
  PROVE  IInv' /\ Beside(i)
<1>1. pc[i] = "save" /\ Open(i) /\ pc[i] # "committed" /\ ~Committed(i)
  BY SeedAssumption DEF Save, Committed, Open, Statements
<1>2. CASE seen[i] = Absent /\ experiment # Absent
  BY <1>1, <1>2, RollbackStep DEF Save
<1>3. CASE ~(seen[i] = Absent /\ experiment # Absent)
  <2> DEFINE stage == IF seen[i] = Absent THEN "insert" ELSE "documents"
  <2>1. /\ Goto(i, stage)
        /\ todo' = [todo EXCEPT ![i] = IF seen[i] = Absent THEN Tables ELSE {}]
        /\ UNCHANGED <<files, experiment, rows, seen, view, gone, at, analyst>>
    BY <1>3 DEF Save
  <2>2. stage \in Statements
    BY DEF Statements
  <2>3. /\ \A o \in Owners : Committed(o)' <=> Committed(o)
        /\ pc'[i] = stage /\ \A j \in Ingesters \ {i} : pc'[j] = pc[j]
    BY <1>1, <2>1, <2>2, StageKept DEF IInv
  <2>4. \A t \in Tables : Visible(t)' = Visible(t)
    BY <1>1, <2>1, <2>3, RowsKept DEF IInv
  <2>5. /\ todo'[i] = IF seen[i] = Absent THEN Tables ELSE {}
        /\ \A j \in Ingesters \ {i} : todo'[j] = todo[j]
    BY <2>1 DEF IInv, TypeOK
  <2>6. Beside(i)
    BY <2>1, <2>3, <2>4, <2>5 DEF Beside
  <2>7. gone[i] = Nothing /\ gone'[i] = Nothing
    BY <1>1, <2>1 DEF IInv, Sound, Staged
  <2>8. Sound(i)'
    <3>1. Grounded(i)'
      <4>1. view[i] \subseteq Owners /\ (seen[i] # Absent => \A c \in Columns : seen[i][c] \in Owners)
        BY DEF IInv, TypeOK
      <4> QED BY <2>1, <2>3, <4>1 DEF IInv, Sound, Grounded
    <3>2. Staged(i)'
      BY <2>1, <2>3, <2>5, <2>7 DEF Staged
    <3>3. InTurn(i)'
      BY <2>3, <2>5 DEF InTurn, Tables
    <3>4. Whole(i)'
      <4>1. CASE seen[i] = Absent
        <5>1. \A t \in Tables : Visible(t) = {}
          BY <1>3, <4>1 DEF IInv, OneEvidence
        <5> QED BY <1>3, <2>1, <2>3, <2>4, <2>7, <4>1, <5>1
                DEF Whole, Tables, Nothing
      <4>2. CASE seen[i] # Absent
        BY <2>1, <2>3, <4>2 DEF Whole
      <4> QED BY <4>1, <4>2
    <3> QED BY <3>1, <3>2, <3>3, <3>4 DEF Sound
  <2>9. ASSUME Holds(i)' PROVE \A j \in Ingesters \ {i} : ~Holds(j)
    <3>1. seen[i] = Absent \/ OwnMetadata(files)
      BY <2>1, <2>7, <2>9 DEF Holds, Nothing, Tables, OwnMetadata
    <3>2. Writes(i)
      BY <1>1, <3>1, OwnWrites DEF Writes
    <3> QED BY <1>1, <1>3, <3>1, <3>2, Alone DEF Save
  <2> QED BY <2>6, <2>8, <2>9, BesideStep
<1> QED BY <1>2, <1>3

LEMMA FindStep ==
  ASSUME IInv, TypeOK', NEW i \in Ingesters, NEW t \in Tables, Find(i, t)
  PROVE  IInv' /\ Beside(i)
<1>1. pc[i] = t /\ t \in {"documents", "metrics"} /\ pc[i] # "committed" /\ ~Committed(i)
  BY SeedAssumption DEF Find, Committed, Tables
<1>2. /\ \A o \in Owners : Committed(o)' <=> Committed(o)
      /\ pc'[i] = Waiting(t) /\ \A j \in Ingesters \ {i} : pc'[j] = pc[j]
  BY <1>1, StageKept DEF IInv, Find, Statements, Waiting
<1>3. \A u \in Tables : Visible(u)' = Visible(u)
  BY <1>1, <1>2, RowsKept DEF IInv, Find
<1>4. view'[i] = Visible(t) /\ \A j \in Ingesters \ {i} : view'[j] = view[j]
  BY DEF IInv, TypeOK, Find
<1>5. Beside(i)
  BY <1>2, <1>3, <1>4 DEF Beside, Find
<1>6. Holds(i)' <=> Holds(i)
  BY <1>1, <1>2, <1>5 DEF Holds, PastSave, Statements, Waiting, Find
<1>7. Sound(i)'
  <2>1. Grounded(i)'
    <3>1. Visible(t) \subseteq Owners /\ (seen[i] # Absent => \A c \in Columns : seen[i][c] \in Owners)
      BY DEF IInv, TypeOK, Visible
    <3>2. \A o \in Visible(t) : Committed(o)
      BY DEF Visible
    <3> QED BY <1>2, <1>4, <3>1, <3>2 DEF IInv, Sound, Grounded, Find
  <2>2. Staged(i)'
    BY <1>1, <1>2 DEF IInv, Sound, Staged, Find, Waiting
  <2>3. InTurn(i)'
    BY <1>1, <1>2 DEF InTurn, Waiting
  <2>4. Whole(i)'
    BY <1>1, <1>2, <1>3, <1>4, <1>6 DEF IInv, Sound, Whole, Find, Waiting, Tables
  <2> QED BY <2>1, <2>2, <2>3, <2>4 DEF Sound
<1> QED BY <1>5, <1>6, <1>7, BesideStep

\* What a DELETE takes is visible, and all of it when the table held what the
\* statement found.
LEMMA DeletedIsVisible ==
  ASSUME IInv, NEW i \in Ingesters, NEW t \in Tables
  PROVE  /\ Deletable(i, t) \subseteq Visible(t)
         /\ view[i] = Visible(t) => Deletable(i, t) = Visible(t)
  BY DEF IInv, Sound, Grounded, Deletable, Visible

\* Whoever has found the document has found all there is, and nobody else has
\* deleted it.
LEMMA DocumentTaken ==
  ASSUME IInv, NEW i \in Ingesters, pc[i] = "documents wait",
         DeleteWaitsFor(i, "documents") = {}, Deletable(i, "documents") # {}
  PROVE  /\ Deletable(i, "documents") = Visible("documents")
         /\ Holds(i) \/ \A j \in Ingesters \ {i} : ~Holds(j)
<1>1. experiment # Absent /\ seen[i] # Absent
  BY DEF IInv, Sound, Grounded, Staged
<1>2. Deletable(i, "documents") \subseteq Visible("documents")
  BY DeletedIsVisible DEF Tables
<1>3. PICK o : Visible("documents") = {o}
  BY <1>1 DEF IInv, OneEvidence, Tables
<1>4. Deletable(i, "documents") = Visible("documents")
  BY <1>2, <1>3
<1>5. ASSUME NEW j \in Ingesters \ {i}, Holds(j), ~Holds(i) PROVE FALSE
  <2>1. ~OwnMetadata(files)
    BY <1>5 DEF Holds, PastSave, Statements
  <2>2. seen[j] # Absent
    BY <1>1, <1>5 DEF IInv, Sound, Whole
  <2>3. gone[j]["documents"] # {}
    BY <1>5, <2>1, <2>2 DEF Holds
  <2>4. pc[j] \notin {"documents", "documents wait"}
    BY <2>3 DEF IInv, Sound, Staged, Nothing, Tables
  <2>5. gone[j]["documents"] = Visible("documents")
    BY <1>5, <2>4 DEF IInv, Sound, Whole, Holds, PastSave, Statements
  <2>6. Open(j)
    BY <1>5 DEF Holds, PastSave, Open
  <2>7. o \in view[i] /\ o \in gone[j]["documents"]
    BY <1>3, <1>4, <2>5 DEF Deletable
  <2> QED BY <2>6, <2>7 DEF DeleteWaitsFor, Others
<1> QED BY <1>4, <1>5

LEMMA DeleteStep ==
  ASSUME IInv, TypeOK', NEW i \in Ingesters, NEW t \in Tables, Delete(i, t)
  PROVE  IInv' /\ Beside(i)
<1> DEFINE stage == IF t = "documents" THEN "metrics" ELSE "insert"
<1>1. /\ pc[i] = Waiting(t) /\ pc[i] \in {"documents wait", "metrics wait"}
      /\ pc[i] # "committed" /\ ~Committed(i)
  BY SeedAssumption DEF Delete, Committed, Waiting
<1>2. /\ \A o \in Owners : Committed(o)' <=> Committed(o)
      /\ pc'[i] = stage /\ \A j \in Ingesters \ {i} : pc'[j] = pc[j]
  <2>1. stage \in Statements /\ Goto(i, stage)
    BY DEF Delete, Statements
  <2> QED BY <1>1, <2>1, StageKept DEF IInv
<1>3. \A u \in Tables : Visible(u)' = Visible(u)
  BY <1>1, <1>2, RowsKept DEF IInv, Delete
<1>4. /\ view'[i] = {} /\ \A j \in Ingesters \ {i} : view'[j] = view[j]
      /\ todo'[i] = IF t = "documents" THEN {} ELSE Tables
      /\ \A j \in Ingesters \ {i} : todo'[j] = todo[j]
  BY DEF IInv, TypeOK, Delete
<1>5. /\ gone'[i][t] = Deletable(i, t)
      /\ \A u \in Tables \ {t} : gone'[i][u] = gone[i][u]
      /\ \A j \in Ingesters \ {i} : gone'[j] = gone[j]
  BY DEF IInv, TypeOK, Delete
<1>6. Beside(i)
  BY <1>2, <1>3, <1>4, <1>5 DEF Beside, Delete
<1>7. seen'[i] = seen[i] /\ seen[i] # Absent
  BY <1>1 DEF Delete, IInv, Sound, Staged
<1>8. CASE t = "documents"
  <2>1. pc[i] = "documents wait" /\ pc'[i] = "metrics"
    BY <1>1, <1>2, <1>8 DEF Waiting
  <2>2. gone[i]["documents"] = {}
    BY <2>1 DEF IInv, Sound, Staged, Nothing, Tables
  <2>3. Holds(i)' => Holds(i) \/ Deletable(i, "documents") # {}
    BY <1>5, <1>6, <1>7, <1>8, <2>1 DEF Holds, PastSave, Statements, Beside, OwnMetadata
  <2>4. Holds(i) => view[i] = Visible("documents")
    BY <2>1 DEF IInv, Sound, Whole
  <2>5. Holds(i)' => Deletable(i, "documents") = Visible("documents")
    BY <1>8, <2>1, <2>3, <2>4, DeletedIsVisible, DocumentTaken DEF Delete
  <2>6. Holds(i)' => Holds(i) \/ \A j \in Ingesters \ {i} : ~Holds(j)
    BY <1>8, <2>1, <2>3, DocumentTaken DEF Delete
  <2>7. Sound(i)'
    <3>1. Grounded(i)'
      <4>1. seen[i] # Absent => \A c \in Columns : seen[i][c] \in Owners
        BY DEF IInv, TypeOK
      <4> QED BY <1>2, <1>4, <1>7, <4>1 DEF IInv, Sound, Grounded, Delete
    <3>2. Staged(i)' /\ InTurn(i)'
      BY <1>7, <2>1 DEF Staged, InTurn
    <3>3. Whole(i)'
      BY <1>3, <1>5, <1>7, <1>8, <2>1, <2>5 DEF Whole, Tables
    <3> QED BY <3>1, <3>2, <3>3 DEF Sound
  <2> QED BY <1>6, <2>6, <2>7, BesideStep
<1>9. CASE t = "metrics"
  <2>1. pc[i] = "metrics wait" /\ pc'[i] = "insert" /\ todo'[i] = Tables
    BY <1>1, <1>2, <1>4, <1>9 DEF Waiting
  <2>2. gone'[i]["documents"] = gone[i]["documents"]
    BY <1>5, <1>9 DEF Tables
  <2>3. Holds(i)' <=> Holds(i)
    BY <1>6, <1>7, <2>1, <2>2 DEF Holds, PastSave, Statements, Beside, OwnMetadata
  <2>4. Holds(i) => /\ gone[i]["documents"] = Visible("documents")
                    /\ view[i] = Visible("metrics")
    BY <2>1 DEF IInv, Sound, Whole
  <2>5. Holds(i) => gone'[i]["metrics"] = Visible("metrics")
    BY <1>5, <1>9, <2>4, DeletedIsVisible
  <2>6. Sound(i)'
    <3>1. Grounded(i)'
      <4>1. seen[i] # Absent => \A c \in Columns : seen[i][c] \in Owners
        BY DEF IInv, TypeOK
      <4> QED BY <1>2, <1>4, <1>7, <4>1 DEF IInv, Sound, Grounded, Delete
    <3>2. Staged(i)' /\ InTurn(i)'
      BY <2>1 DEF Staged, InTurn, Tables
    <3>3. Whole(i)'
      BY <1>3, <1>7, <2>1, <2>2, <2>3, <2>4, <2>5 DEF Whole, Tables
    <3> QED BY <3>1, <3>2, <3>3 DEF Sound
  <2> QED BY <1>6, <2>3, <2>6, BesideStep
<1> QED BY <1>8, <1>9 DEF Tables

\* The unique key of the document lets nobody in who has not deleted the one
\* that is there.
LEMMA KeyTaken ==
  ASSUME IInv, NEW i \in Ingesters, pc[i] = "insert", ~Holds(i),
         ~Taken(i, "documents"), InsertWaitsFor(i, "documents") = {}
  PROVE  FALSE
<1>1. seen[i] # Absent /\ ~OwnMetadata(files) /\ gone[i]["documents"] = {}
  BY DEF Holds, PastSave, Statements
<1>2. OneDirectory(files)
  BY <1>1 DEF IInv, Queue
<1>3. PICK o \in Owners : Visible("documents") = {o}
  BY <1>1 DEF IInv, Sound, Grounded, OneEvidence, Tables
<1>4. o \in rows["documents"] \ gone[i]["documents"] /\ Committed(o)
  BY <1>1, <1>3 DEF Visible
<1>5. Clash("documents", i, o)
  BY <1>2 DEF Clash, OneDirectory, Owners
<1>6. PICK j \in Others(i) : o \in gone[j]["documents"]
  BY <1>4, <1>5 DEF Taken
<1> QED BY <1>4, <1>5, <1>6 DEF InsertWaitsFor

LEMMA InsertStep ==
  ASSUME IInv, TypeOK', NEW i \in Ingesters, NEW t \in Tables, Insert(i, t)
  PROVE  IInv' /\ Beside(i)
<1>1. pc[i] = "insert" /\ Open(i) /\ pc[i] # "committed" /\ ~Committed(i)
  BY SeedAssumption DEF Insert, Committed, Open, Statements
<1>2. CASE Taken(i, t)
  BY <1>1, <1>2, RollbackStep DEF Insert
<1>3. CASE ~Taken(i, t)
  <2> DEFINE stage == IF todo[i] = {t} THEN "commit" ELSE "insert"
  <2>1. /\ InsertWaitsFor(i, t) = {} /\ t \in todo[i]
        /\ rows' = [rows EXCEPT ![t] = @ \cup {i}]
        /\ todo' = [todo EXCEPT ![i] = @ \ {t}]
        /\ Goto(i, stage) /\ stage \in Statements
        /\ UNCHANGED <<files, experiment, seen, view, gone, at, analyst>>
    BY <1>3 DEF Insert, Statements
  <2>2. /\ \A o \in Owners : Committed(o)' <=> Committed(o)
        /\ pc'[i] = stage /\ \A j \in Ingesters \ {i} : pc'[j] = pc[j]
    BY <1>1, <2>1, StageKept DEF IInv
  <2>3. /\ \A u \in Tables, o \in Owners \ {i} : o \in rows'[u] <=> o \in rows[u]
        /\ i \in rows'[t] /\ \A u \in Tables : i \in rows[u] => i \in rows'[u]
    BY <2>1 DEF IInv, TypeOK
  <2>4. \A u \in Tables : Visible(u)' = Visible(u)
    BY <1>1, <2>2, <2>3, RowsKept DEF IInv
  <2>5. todo'[i] = todo[i] \ {t} /\ \A j \in Ingesters \ {i} : todo'[j] = todo[j]
    BY <2>1 DEF IInv, TypeOK
  <2>6. Beside(i)
    BY <2>1, <2>2, <2>3, <2>4, <2>5 DEF Beside, Owners
  <2>7. Holds(i)' <=> Holds(i)
    BY <1>1, <2>1, <2>2 DEF Holds, PastSave, Statements, OwnMetadata
  <2>8. Sound(i)'
    <3>1. Grounded(i)'
      <4>1. view[i] \subseteq Owners /\ (seen[i] # Absent => \A c \in Columns : seen[i][c] \in Owners)
        BY DEF IInv, TypeOK
      <4> QED BY <2>1, <2>2, <4>1 DEF IInv, Sound, Grounded
    <3>2. \A u \in Tables \ todo'[i] : i \in rows'[u]
      BY <1>1, <2>3, <2>5 DEF IInv, Sound, Staged
    <3>3. pc'[i] = "commit" => todo'[i] = {}
      BY <2>2, <2>5
    <3>4. Staged(i)'
      BY <2>2, <3>2, <3>3 DEF Staged
    <3>5. InTurn(i)'
      <4>1. CASE t = "documents"
        BY <1>1, <1>3, <2>1, <2>7, <4>1, KeyTaken DEF InTurn
      <4>2. CASE t # "documents"
        <5>1. "documents" \in todo'[i] => "documents" \in todo[i]
          BY <2>5
        <5>2. "documents" \notin todo'[i] => "documents" \notin todo[i]
          BY <2>5, <4>2
        <5>3. pc'[i] = "commit" => "documents" \notin todo'[i]
          BY <3>3
        <5> QED BY <1>1, <2>2, <2>7, <5>2, <5>3 DEF IInv, Sound, InTurn
      <4> QED BY <4>1, <4>2
    <3>6. Whole(i)'
      BY <1>1, <2>1, <2>2, <2>4, <2>7 DEF IInv, Sound, Whole, Tables
    <3> QED BY <3>1, <3>4, <3>5, <3>6 DEF Sound
  <2> QED BY <2>6, <2>7, <2>8, BesideStep
<1> QED BY <1>2, <1>3

\* A commit replaces all that a reader sees by the rows of one ingest.
LEMMA CommitReplaces ==
  ASSUME IInv, TypeOK', NEW i \in Ingesters, Commit(i)
  PROVE  /\ i \in Owners /\ ~Committed(i)
         /\ \A o \in Owners : Committed(o)' <=> Committed(o) \/ o = i
         /\ \A t \in Tables : gone[i][t] = Visible(t) /\ Visible(t)' = {i}
<1>1. pc[i] = "commit" /\ ~Committed(i) /\ i \in Owners
  BY SeedAssumption DEF Commit, Committed, Owners
<1>2. pc'[i] = "committed" /\ \A j \in Ingesters \ {i} : pc'[j] = pc[j]
  BY DEF IInv, TypeOK, Commit, Goto
<1>3. \A o \in Owners : Committed(o)' <=> Committed(o) \/ o = i
  BY <1>2, SeedAssumption DEF Committed, Owners
<1>4. Holds(i)
  BY <1>1 DEF IInv, Sound, InTurn
<1>5. \A t \in Tables : gone[i][t] = Visible(t) /\ i \in rows[t]
  BY <1>1, <1>4 DEF IInv, Sound, Whole, Staged, Tables
<1>6. ASSUME NEW t \in Tables PROVE Visible(t)' = {i}
  <2>1. rows'[t] = rows[t] \ Visible(t) /\ rows[t] \subseteq Owners /\ i \in rows'[t]
    BY <1>1, <1>5 DEF Commit, Visible, IInv, TypeOK
  <2> QED BY <1>1, <1>3, <2>1 DEF Visible
<1> QED BY <1>1, <1>3, <1>5, <1>6

LEMMA CommitStep ==
  ASSUME IInv, TypeOK', NEW i \in Ingesters, Commit(i)
  PROVE  IInv'
<1>1. /\ i \in Owners /\ ~Committed(i)
      /\ \A o \in Owners : Committed(o)' <=> Committed(o) \/ o = i
      /\ \A t \in Tables : gone[i][t] = Visible(t) /\ Visible(t)' = {i}
  BY CommitReplaces
<1>2. /\ pc[i] = "commit" /\ pc'[i] = "committed"
      /\ \A j \in Ingesters \ {i} : pc'[j] = pc[j] /\ gone'[j] = gone[j]
      /\ UNCHANGED <<files, seen, view, todo>>
  BY DEF IInv, TypeOK, Commit, Goto
<1>3. experiment' = Stored(i) /\ experiment' \in [Columns -> Owners] /\ experiment' # Absent
  <2>1. Selected
    BY DEF IInv, Sound, Grounded, Selected
  <2> QED BY <2>1, StoredType, AbsentIsNoRow DEF IInv, Commit
<1>4. \A c \in Columns : Committed(experiment[c])'
  <2>1. ASSUME NEW c \in Columns, NEW o \in Owners, o = experiment'[c] PROVE Committed(o)'
    <3>1. CASE o = i
      BY <1>1, <3>1
    <3>2. CASE o # i
      <4>1. seen[i] # Absent /\ o = experiment[c]
        BY <1>3, <2>1, <3>2 DEF Stored
      <4> QED BY <1>1, <4>1 DEF IInv, Sound, Grounded
    <3> QED BY <3>1, <3>2
  <2> QED BY <1>3, <2>1 DEF Committed
<1>5. ASSUME NEW j \in Ingesters \ {i}
      PROVE  Sound(j)' /\ (Holds(j)' <=> Holds(j)) /\ ~Holds(j)
  <2>1. ~Holds(j)
    <3>1. Holds(i)
      BY <1>2 DEF IInv, Sound, InTurn
    <3> QED BY <3>1 DEF IInv, Exclusive
  <2>2. Holds(j)' <=> Holds(j)
    BY <1>2 DEF Holds, OwnMetadata
  <2>3. Grounded(j)'
    <3>1. view[j] \subseteq Owners /\ (seen[j] # Absent => \A c \in Columns : seen[j][c] \in Owners)
      BY DEF IInv, TypeOK
    <3> QED BY <1>1, <1>2, <1>3, <3>1 DEF IInv, Sound, Grounded
  <2>4. Staged(j)'
    <3>1. ASSUME NEW t \in Tables, j \in rows[t], ~Committed(j) PROVE j \in rows'[t]
      BY <1>1, <3>1 DEF Commit, Visible
    <3>2. pc[j] \in {"insert", "commit"} => ~Committed(j)
      BY SeedAssumption DEF Committed
    <3> QED BY <1>2, <3>1, <3>2 DEF IInv, Sound, Staged
  <2>5. InTurn(j)' /\ Whole(j)'
    BY <1>2, <2>1, <2>2 DEF IInv, Sound, InTurn, Whole
  <2> QED BY <2>1, <2>2, <2>3, <2>4, <2>5 DEF Sound
<1>6. Sound(i)' /\ ~Holds(i)'
  <2>1. ~Holds(i)'
    BY <1>2 DEF Holds, PastSave, Statements
  <2>2. Grounded(i)'
    <3>1. view[i] \subseteq Owners /\ (seen[i] # Absent => \A c \in Columns : seen[i][c] \in Owners)
      BY DEF IInv, TypeOK
    <3> QED BY <1>1, <1>2, <1>3, <3>1 DEF IInv, Sound, Grounded
  <2>3. Staged(i)' /\ InTurn(i)' /\ Whole(i)'
    BY <1>2, <2>1 DEF Staged, InTurn, Whole
  <2> QED BY <2>1, <2>2, <2>3 DEF Sound
<1>7. OneEvidence'
  BY <1>1, <1>3 DEF OneEvidence
<1>8. Exclusive'
  BY <1>5, <1>6 DEF Exclusive
<1>9. Queue(files)'
  BY <1>2 DEF IInv, Queue, OwnMetadata, OneDirectory
<1> QED BY <1>4, <1>5, <1>6, <1>7, <1>8, <1>9 DEF IInv

\* An analysis, or nothing, changes no transaction.
LEMMA ReaderStep ==
  ASSUME IInv, TypeOK', UNCHANGED <<files, experiment, rows, pc, tx, at>>
  PROVE  IInv'
<1> USE DEF tx
<1>1. \A t \in Tables : Visible(t)' = Visible(t)
  BY DEF Visible, Committed
<1>2. \A o : Committed(o)' <=> Committed(o)
  BY DEF Committed
<1>3. \A j \in Ingesters : Holds(j)' <=> Holds(j)
  BY DEF Holds, OwnMetadata
<1>4. ASSUME NEW j \in Ingesters PROVE Sound(j)'
  <2>1. Grounded(j)' /\ Staged(j)'
    BY <1>2 DEF IInv, Sound, Grounded, Staged
  <2>2. InTurn(j)' /\ Whole(j)'
    BY <1>1, <1>3 DEF IInv, Sound, InTurn, Whole, Tables
  <2> QED BY <2>1, <2>2 DEF Sound
<1>5. Exclusive'
  BY <1>3 DEF IInv, Exclusive
<1>6. OneEvidence' /\ Queue(files)'
  BY <1>1 DEF IInv, OneEvidence, Queue, OwnMetadata, OneDirectory
<1>7. (experiment # Absent => \A c \in Columns : Committed(experiment[c]))'
  BY <1>2 DEF IInv
<1> QED BY <1>4, <1>5, <1>6, <1>7 DEF IInv

LEMMA StartIsSound == Queues /\ Init => IInv
<1> SUFFICES ASSUME Queues, Init PROVE IInv
  OBVIOUS
<1>1. TypeOK
  BY TypeStart
<1>2. Queue(files)
  BY DEF Init, Queues
<1>3. \A j \in Ingesters : pc[j] = "files"
  BY DEF Init
<1>4. \A t \in Tables : Visible(t) = IF experiment = Absent THEN {} ELSE {Seed}
  BY <1>3 DEF Init, Visible, Committed, Owners
<1>5. OneEvidence
  BY <1>4 DEF OneEvidence, Owners
<1>6. experiment # Absent => \A c \in Columns : Committed(experiment[c])
  BY DEF Init, Committed
<1>7. \A j \in Ingesters : ~Holds(j)
  BY <1>3 DEF Holds, PastSave, Statements
<1>8. ASSUME NEW j \in Ingesters PROVE Sound(j)
  <2>1. seen[j] = Absent /\ view[j] = {} /\ gone[j] = Nothing
    BY DEF Init
  <2> QED BY <1>3, <1>7, <2>1 DEF Sound, Grounded, Staged, InTurn, Whole
<1> QED BY <1>1, <1>2, <1>5, <1>6, <1>7, <1>8 DEF IInv, Exclusive

LEMMA InvariantStep == IInv /\ [Next]_vars => IInv'
<1> SUFFICES ASSUME IInv, [Next]_vars PROVE IInv'
  OBVIOUS
<1>1. TypeOK'
  <2>1. Selected
    BY DEF IInv, Sound, Grounded, Selected
  <2> QED BY <2>1, TypeStep DEF IInv
<1>2. ASSUME NEW i \in Ingesters, Ingest(i) \/ Refuse(i) \/ Abort(i) PROVE IInv'
  <2>1. Victim(i) => Open(i)
    BY DEF Victim, Deadlocked
  <2> QED BY <1>1, <1>2, <2>1, RefuseStep, SelectStep, SaveStep, FindStep, DeleteStep,
             InsertStep, CommitStep, RollbackStep DEF Ingest, Abort, Victim
<1>3. CASE GetExperiment \/ GetMetrics \/ Ended \/ UNCHANGED vars
  BY <1>1, <1>3, ReaderStep DEF GetExperiment, GetMetrics, Ended, vars
<1> QED BY <1>2, <1>3 DEF Next

LEMMA Invariance == ASSUME Queues PROVE Spec => []IInv
<1>1. Init => IInv
  BY Queues, StartIsSound
<1> QED BY <1>1, InvariantStep, PTL DEF Spec

\* A reader never sees the evidence of two ingests, or half of it, and sees some
\* as soon as there is an experiment, if the ingests queue.
THEOREM OneEvidenceTheorem == ASSUME Queues PROVE Spec => []OneEvidence
<1>1. IInv => OneEvidence
  BY DEF IInv
<1> QED BY <1>1, Invariance, PTL

-----------------------------------------------------------------------------
(* Refinement. *)

\* Every step either commits one ingest or leaves a reader's view as it is.
LEMMA CommitOrKept ==
  ASSUME IInv, [Next]_vars
  PROVE  \/ \E i \in Ingesters : Commit(i)
         \/ /\ \A o \in Owners : Committed(o)' <=> Committed(o)
            /\ \A t \in Tables : Visible(t)' = Visible(t)
<1>1. TypeOK'
  BY InvariantStep DEF IInv
<1>2. ASSUME NEW i \in Ingesters, Ingest(i) \/ Refuse(i) \/ Abort(i)
      PROVE  Commit(i) \/ Beside(i)
  <2>1. Victim(i) => Open(i)
    BY DEF Victim, Deadlocked
  <2> QED BY <1>1, <1>2, <2>1, RefuseStep, SelectStep, SaveStep, FindStep, DeleteStep,
             InsertStep, RollbackStep DEF Ingest, Abort, Victim
<1>3. CASE GetExperiment \/ GetMetrics \/ Ended \/ UNCHANGED vars
  BY <1>3 DEF GetExperiment, GetMetrics, Ended, vars, Visible, Committed
<1> QED BY <1>2, <1>3 DEF Next, Beside

\* Documents and metrics are replaced together by one ingest at a time and by
\* each at most once, whatever fails or waits beside it.
THEOREM Refinement == ASSUME Queues PROVE Spec => ImplementsReplacement
<1>1. Init => Evidence!Init
  <2> SUFFICES ASSUME Init PROVE Evidence!Init
    OBVIOUS
  <2>1. \A j \in Ingesters : pc[j] = "files"
    BY DEF Init
  <2>2. \A t \in Tables : Visible(t) = IF experiment = Absent THEN {} ELSE {Seed}
    BY <2>1 DEF Init, Visible, Committed, Owners
  <2> QED BY <2>1, <2>2 DEF Evidence!Init, Tables
<1>2. IInv /\ [Next]_vars => [Evidence!Next]_(Evidence!storeVars)
  <2> SUFFICES ASSUME IInv, [Next]_vars PROVE [Evidence!Next]_(Evidence!storeVars)
    OBVIOUS
  <2>1. ASSUME NEW i \in Ingesters, Commit(i) PROVE Evidence!Replace(i)
    <3>1. TypeOK'
      BY InvariantStep DEF IInv
    <3>2. \A t \in Tables : Visible(t)' = {i}
      BY <2>1, <3>1, CommitReplaces
    <3>3. /\ pc[i] # "committed" /\ pc'[i] = "committed"
          /\ \A j \in Ingesters \ {i} : pc'[j] = pc[j]
      BY <2>1 DEF IInv, TypeOK, Commit, Goto
    <3> QED BY <3>2, <3>3 DEF Evidence!Replace, Tables
  <2>2. CASE /\ \A o \in Owners : Committed(o)' <=> Committed(o)
             /\ \A t \in Tables : Visible(t)' = Visible(t)
    BY <2>2, SeedAssumption DEF Committed, Owners, Evidence!storeVars, Tables
  <2> QED BY <2>1, <2>2, CommitOrKept DEF Evidence!Next
<1> QED BY <1>1, <1>2, Invariance, PTL DEF Spec, ImplementsReplacement, Evidence!Spec

-----------------------------------------------------------------------------
(* The analysis beside the ingests. *)

Past == {j \in Ingesters : pc[j] = "committed"}

\* What a reader finds is the latest, and what the analysis has read was once
\* committed.
Latest ==
  /\ \A o \in Owners : at[o] <= Cardinality(Past)
  /\ \A o \in Visible("metrics"), p \in Owners : at[p] <= at[o]
  /\ analyst.stage # "idle" => analyst.config \in Owners /\ Committed(analyst.config)
  /\ \A o \in analyst.metrics : Committed(o)
  /\ MetricsNotOlder

LEMMA LatestKept ==
  ASSUME TypeOK, Latest, UNCHANGED <<at, analyst>>,
         \A o \in Owners : Committed(o)' <=> Committed(o), Visible("metrics")' = Visible("metrics")
  PROVE  Latest'
<1>1. Past' = Past
  BY SeedAssumption DEF Past, Committed, Owners
<1>2. analyst.metrics \subseteq Owners
  BY DEF TypeOK
<1> QED BY <1>1, <1>2 DEF Latest, MetricsNotOlder

LEMMA LatestCommit ==
  ASSUME IInv, TypeOK', Latest, NEW i \in Ingesters, Commit(i)
  PROVE  Latest'
<1>1. /\ i \in Owners /\ ~Committed(i)
      /\ \A o \in Owners : Committed(o)' <=> Committed(o) \/ o = i
      /\ Visible("metrics")' = {i}
  BY CommitReplaces DEF Tables
<1> DEFINE n == Cardinality(Past)
<1>2. n \in Nat /\ Cardinality(Past') = n + 1
  <2>1. IsFiniteSet(Past) /\ n \in Nat
    BY IngestersAssumption, FS_Subset, FS_CardinalityType DEF Past
  <2>2. Past' = Past \cup {i} /\ i \notin Past
    BY DEF Past, Commit, Goto, IInv, TypeOK
  <2> QED BY <2>1, <2>2, FS_AddElement
<1>3. at'[i] = n + 1 /\ \A o \in Owners \ {i} : at'[o] = at[o]
  BY <1>1 DEF Commit, Past, IInv, TypeOK
<1>4. \A o \in Owners : at[o] \in Nat /\ at[o] <= n
  BY DEF IInv, TypeOK, Latest
<1>5. \A o \in Owners : at'[o] <= n + 1
  <2> HIDE DEF n
  <2> QED BY <1>2, <1>3, <1>4
<1>6. analyst' = analyst /\ analyst.metrics \subseteq Owners
  BY DEF Commit, IInv, TypeOK
<1>7. \A o \in analyst.metrics : o # i
  BY <1>1 DEF Latest
<1>8. analyst.stage = "done" => analyst.config \in Owners \ {i}
  BY <1>1 DEF Latest
<1>9. MetricsNotOlder'
  BY <1>3, <1>6, <1>7, <1>8 DEF Latest, MetricsNotOlder
<1>10. (\A o \in Owners : at[o] <= Cardinality(Past))'
  BY <1>2, <1>5
<1>11. (\A o \in Visible("metrics"), p \in Owners : at[p] <= at[o])'
  BY <1>1, <1>3, <1>5
<1>12. (analyst.stage # "idle" => analyst.config \in Owners /\ Committed(analyst.config))'
       /\ (\A o \in analyst.metrics : Committed(o))'
  BY <1>1, <1>6 DEF Latest
<1> QED BY <1>9, <1>10, <1>11, <1>12 DEF Latest

LEMMA LatestStep == IInv /\ Latest /\ [Next]_vars => Latest'
<1> SUFFICES ASSUME IInv, Latest, [Next]_vars PROVE Latest'
  OBVIOUS
<1>1. TypeOK /\ TypeOK'
  BY InvariantStep DEF IInv
<1>2. ASSUME NEW i \in Ingesters, Ingest(i) \/ Refuse(i) \/ Abort(i) PROVE Latest'
  <2>1. Victim(i) => Open(i)
    BY DEF Victim, Deadlocked
  <2>2. Commit(i) \/ Beside(i)
    BY <1>1, <1>2, <2>1, RefuseStep, SelectStep, SaveStep, FindStep, DeleteStep,
       InsertStep, RollbackStep DEF Ingest, Abort, Victim
  <2>3. Beside(i) => Latest'
    BY <1>1, LatestKept DEF Beside, Tables
  <2> QED BY <1>1, <2>2, <2>3, LatestCommit
<1>3. CASE GetExperiment
  <2>1. /\ analyst' = [analyst EXCEPT !.stage = "found", !.config = experiment["config"]]
        /\ UNCHANGED <<rows, pc, at>>
    BY <1>3 DEF GetExperiment
  <2>2. Committed(experiment["config"]) /\ experiment["config"] \in Owners
    BY <1>1, <1>3 DEF GetExperiment, IInv, TypeOK, Columns
  <2>3. analyst'.stage = "found" /\ analyst'.config = experiment["config"]
        /\ analyst'.metrics = analyst.metrics
    BY <1>1, <2>1 DEF TypeOK
  <2> QED BY <2>1, <2>2, <2>3 DEF Latest, MetricsNotOlder, Past, Visible, Committed
<1>4. CASE GetMetrics
  <2>1. /\ analyst.stage = "found" /\ UNCHANGED <<rows, pc, at>>
        /\ analyst' = [analyst EXCEPT !.stage = "done", !.metrics = Visible("metrics")]
    BY <1>4 DEF GetMetrics
  <2>2. analyst'.stage = "done" /\ analyst'.config = analyst.config
        /\ analyst'.metrics = Visible("metrics")
    BY <1>1, <2>1 DEF TypeOK
  <2>3. analyst.config \in Owners /\ Committed(analyst.config)
    BY <2>1 DEF Latest
  <2> QED BY <2>1, <2>2, <2>3 DEF Latest, MetricsNotOlder, Past, Visible, Committed
<1>5. CASE Ended \/ UNCHANGED vars
  BY <1>5, <1>1, LatestKept DEF Ended, vars, Visible, Committed
<1> QED BY <1>2, <1>3, <1>4, <1>5 DEF Next

\* An analysis that reads the experiment and its metrics in two sessions never
\* combines a description with metrics it has replaced, if the ingests queue.
THEOREM NotOlderTheorem == ASSUME Queues PROVE Spec => []MetricsNotOlder
<1>1. Init => Latest
  <2> SUFFICES ASSUME Init PROVE Latest
    OBVIOUS
  <2>1. Past = {}
    BY DEF Init, Past
  <2>2. Cardinality(Past) = 0
    BY <2>1, FS_EmptySet
  <2>3. Visible("metrics") \subseteq Owners
    BY DEF Init, Visible, Owners, Tables
  <2> QED BY <2>2, <2>3 DEF Init, Latest, MetricsNotOlder
<1>2. Latest => MetricsNotOlder
  BY DEF Latest
<1> QED BY <1>1, <1>2, LatestStep, Invariance, PTL DEF Spec
=============================================================================
