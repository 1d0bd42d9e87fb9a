------------------------------- MODULE Spans -------------------------------
(***************************************************************************)
(* Tracing of requests (packages/observability).  Spans are buffered in a  *)
(* tree per request; a span without a parent is a root, and finishing a    *)
(* root hands the tree to the providers, one after the other, in the       *)
(* caller's own thread.  A provider may fail; a strict one re-raises into  *)
(* the request.  Inputs, outputs and redaction are left out: of a span the *)
(* model keeps its parent, its status and whether it was finished.         *)
(***************************************************************************)
EXTENDS Integers, Sequences, FiniteSets

CONSTANTS
  Requests,   \* the requests that are ever made
  Setups,     \* the provider lists the environment may configure
  TraceHash,  \* request -> the bucket in 0..100 its trace id hashes to
  None

SpanNames == {"ask_request", "workflow", "nodes", "legacy_rag", "retrieval",
              "prompt_rendering", "llm_generation", "response_serialization"}

\* What of a provider's settings decides where a trace goes.
Providers == [kind : {"langsmith", "otel", "phoenix"}, strict : BOOLEAN,
              rate : 0..100, alwaysErrors : BOOLEAN]

\* resolve_observability_provider: langsmith comes first, and there is one
\* OpenTelemetry provider at most, Phoenix being an exporter of it or itself.
\* The sampler of its SDK draws ids of its own: only rates 0 and 100 are
\* modelled for it.
SetupsAssumption0 ==
  \A s \in Setups :
    /\ s \in Seq(Providers) /\ Len(s) \in 0..2
    /\ Len(s) = 2 => s[1].kind = "langsmith" /\ s[2].kind # "langsmith"
    /\ \A i \in DOMAIN s : s[i].kind # "langsmith" => s[i].rate \in {0, 100}
ASSUME SetupsAssumption == SetupsAssumption0
ASSUME HashAssumption == TraceHash \in [Requests -> 0..100]
ASSUME NoneAssumption == None \notin Requests /\ None \notin SpanNames

VARIABLES
  setup,     \* the providers of this process, in order
  tree,      \* request -> its spans: name -> parent, status, ended
  emitted,   \* request -> the roots that were finished and handed out
  received   \* <<i, r, k>>: provider i has the k-th root of request r

spanVars == <<setup, tree, emitted, received>>

Statuses == {"pending", "completed", "error"}
SpanRecords == [parent : SpanNames \cup {None}, status : Statuses,
                ended : BOOLEAN]

\* Of a root that was handed out: its name and status code, whether it is
\* marked as an error, whether all spans of the request were below it and
\* finished, and the providers that failed on it.
Traces == [root : SpanNames, code : Nat, error : BOOLEAN, complete : BOOLEAN,
           failed : SUBSET (1..2)]

SpansTypeOK ==
  /\ setup \in Setups
  /\ \A r \in Requests :
       /\ DOMAIN tree[r] \subseteq SpanNames
       /\ \A n \in DOMAIN tree[r] : tree[r][n] \in SpanRecords
       /\ emitted[r] \in Seq(Traces)
  /\ received \subseteq (DOMAIN setup) \X Requests \X (Nat \ {0})

SpansInit ==
  /\ setup \in Setups
  /\ tree = [r \in Requests |-> <<>>]
  /\ emitted = [r \in Requests |-> <<>>]
  /\ received = {}

(***************************************************************************)
(* The tree.  A new span hangs below the span that is active in the        *)
(* caller's context, or is a root if none is.                              *)
(***************************************************************************)
Start(t, name, parent) ==
  [n \in DOMAIN t \cup {name} |->
     IF n = name THEN [parent |-> parent, status |-> "pending", ended |-> FALSE]
     ELSE t[n]]

Finish(t, name) ==
  [t EXCEPT ![name].ended = TRUE,
            ![name].status = IF @ = "pending" THEN "completed" ELSE @]

RecordError(t, name) == [t EXCEPT ![name].status = "error"]

Fail(t, name) == Finish(RecordError(t, name), name)
Done(t, name, parent) == Finish(Start(t, name, parent), name)

\* The spans below a root, and the root.
Below(t, root) ==
  [n \in {m \in DOMAIN t : \/ m = root \/ t[m].parent = root
                           \/ /\ t[m].parent \in DOMAIN t
                              /\ t[t[m].parent].parent = root} |-> t[n]]

(***************************************************************************)
(* Who takes a finished root.  The base class samples by the hash of the   *)
(* trace id and lets errors through; the OpenTelemetry provider overrides  *)
(* that and leaves sampling to the SDK, so that its alwaysErrors has no    *)
(* effect.                                                                 *)
(***************************************************************************)
Sampled(p, hash) == p.rate = 100 \/ (p.rate > 0 /\ hash <= p.rate)

ShouldEmitSampled(p, t, root, hash) ==  \* mutant: errors are sampled too
  Sampled(p, hash)

ShouldEmit(p, t, root, hash) ==
  (t[root].status = "error" /\ p.alwaysErrors) \/ Sampled(p, hash)

Exports(p, t, root, hash) ==
  IF p.kind = "langsmith" THEN ShouldEmit(p, t, root, hash) ELSE p.rate = 100

\* The wrapper of a request with an analysis applies the base rule to a lone
\* provider before that decides for itself; a composite passes all.
Admitted(t, root, hash, safe) ==
  safe /\ Len(setup) = 1 => ShouldEmit(setup[1], t, root, hash)

\* The providers a root reaches when those in faults raise: a strict one that
\* fails ends the loop of the composite.
Raises(i, t, root, hash, faults) ==
  i \in faults /\ setup[i].strict /\ Exports(setup[i], t, root, hash)

Reached(t, root, hash, safe, faults) ==
  {i \in DOMAIN setup : /\ Admitted(t, root, hash, safe)
                        /\ \A j \in 1..(i - 1) :
                             ~Raises(j, t, root, hash, faults)}

\* Whether finishing the root raises into the request: never when wrapped.
Breaks(t, root, hash, safe, faults) ==
  /\ ~safe
  /\ \E i \in DOMAIN setup : Raises(i, t, root, hash, faults)

\* Finishing the root of request r, whose spans are t, while the providers in
\* faults fail.  The tree itself is left to the caller.
FinishRoot(r, t, root, code, safe, faults) ==
  LET whole == Below(t, root)
      hash == TraceHash[r]
      trying == {i \in Reached(t, root, hash, safe, faults) :
                   Exports(setup[i], t, root, hash)}
      k == Len(emitted[r]) + 1
  IN  /\ faults \subseteq trying
      /\ emitted' = [emitted EXCEPT ![r] =
           Append(@, [root |-> root, code |-> code,
                      error |-> t[root].status = "error",
                      complete |-> whole = t /\ \A n \in DOMAIN t : t[n].ended,
                      failed |-> faults])]
      /\ received' = received \cup {<<i, r, k>> : i \in trying \ faults}
      /\ UNCHANGED setup
=============================================================================
