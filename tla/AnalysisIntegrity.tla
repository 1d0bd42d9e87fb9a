------------------------- MODULE AnalysisIntegrity -------------------------
(***************************************************************************)
(* One run of the agent workflow for a typed analysis request              *)
(* (packages/experiments/analysis/orchestration): the service analyses the *)
(* request and keeps the authoritative result; every later agent works on  *)
(* a copy of the shared state, and what it returns is compared with what   *)
(* the built-in agent makes of the authoritative result.  The latter is    *)
(* published, a difference is recorded as a finding against the node.      *)
(*                                                                         *)
(* Evidence is abstracted to its status, diagnostics to where they come    *)
(* from, artifacts and citations to their kinds.                           *)
(***************************************************************************)
CONSTANT
  Injected  \* the agents a caller has replaced by implementations of its own

Consumers == {"risk_assessment", "decision", "human_approval", "executive_summary"}

ASSUME InjectedAssumption == Injected \subseteq Consumers

Nodes == {"retrieval", "experiment_analysis", "business_impact"} \cup Consumers

AfterScenarioLast ==  \* a mutant: the scenario is attached after the risks were read
  [planner |-> "retrieval", retrieval |-> "experiment_analysis",
   experiment_analysis |-> "risk_assessment", risk_assessment |-> "business_impact",
   business_impact |-> "decision", decision |-> "human_approval",
   human_approval |-> "executive_summary", executive_summary |-> "response"]

\* The edges of the graph, and the response behind it.
After ==
  [planner |-> "retrieval", retrieval |-> "experiment_analysis",
   experiment_analysis |-> "business_impact", business_impact |-> "risk_assessment",
   risk_assessment |-> "decision", decision |-> "human_approval",
   human_approval |-> "executive_summary", executive_summary |-> "response"]

Statuses == {"completed", "inconclusive", "invalid", "abstained",
             "unavailable", "failed"}
Verdicts == {"approved", "rejected", "revision_requested"}
Intents == {"business_impact", "risk_assessment", "decision_support",
            "executive_summary", "other"}

\* A request: refused at the boundary with a status, or typed; its business
\* part; the intent of the question; the caller's raw approval input.
Requests ==
  {r \in [refused : {"no", "invalid", "abstained"},
          business : {"none", "refused", "given"},
          intent : Intents, input : Verdicts \cup {"absent", "invalid"}] :
     r.refused # "no" => r.business = "none"}

\* plan_analysis: a refused request is only analysed and summarised.
Plan(r) ==
  {"experiment_analysis", "executive_summary"} \cup
  {n \in Nodes :
     /\ r.refused = "no"
     /\ \/ n = "business_impact"
             /\ (r.business # "none" \/ r.intent = "business_impact")
        \/ n = "risk_assessment"
             /\ r.intent \in {"risk_assessment", "decision_support", "executive_summary"}
        \/ n \in {"decision", "human_approval"}
             /\ r.intent \in {"decision_support", "executive_summary"}}

-----------------------------------------------------------------------------
(* Result envelopes. *)

Kinds == {"request", "analysis", "business_impact"}
Scenarios == {"completed", "inconclusive", "abstained", "failed"}

Envelopes ==
  [status : Statuses, evidence : BOOLEAN, diagnosed : BOOLEAN,
   business : Scenarios \cup {"none"}, artifacts : SUBSET Kinds,
   findings : SUBSET (Consumers \cup {"response"})]

NoResult == [status |-> "none", evidence |-> FALSE, diagnosed |-> FALSE,
             business |-> "none", artifacts |-> {}, findings |-> {}]

Refusal(status) == [NoResult EXCEPT !.status = status, !.diagnosed = TRUE,
                                    !.artifacts = {"request"}]
Failure == [NoResult EXCEPT !.status = "failed", !.artifacts = {"request"}]
Evidence(status) == [NoResult EXCEPT !.status = status, !.evidence = TRUE,
                                     !.artifacts = {"request", "analysis"}]

\* A refused request keeps its status.  A typed one may fail its
\* revalidation, name no supported method or no usable dataset, make the
\* estimator raise, or end with a result of any status.
OutcomesUnmapped(r) ==  \* a mutant: the estimator's own "error" gets out
  IF r.refused # "no" THEN {Refusal(r.refused)}
  ELSE {Refusal("invalid"), Refusal("abstained"), Failure}
       \cup {Evidence(s) : s \in Statuses \cup {"error"}}

Outcomes(r) ==
  IF r.refused # "no" THEN {Refusal(r.refused)}
  ELSE {Refusal("invalid"), Refusal("abstained"), Failure}
       \cup {Evidence(s) : s \in Statuses}

Eligible(e) == e.status \in {"completed", "inconclusive"}

BusinessOfAnyEvidence(r, e) ==  \* a mutant: the status of the analysis is not asked
  IF e.evidence /\ r.business = "given" THEN Scenarios ELSE {"abstained"}

\* The scenario abstains on ineligible evidence and without usable inputs;
\* else the source may be unsuitable and the calculation may raise.
Business(r, e) ==
  IF Eligible(e) /\ r.business = "given" THEN Scenarios ELSE {"abstained"}

WithBusiness(e, s) ==
  [e EXCEPT !.business = s, !.artifacts = @ \cup {"business_impact"}]

WithOnlyFinding(e, n) == [e EXCEPT !.findings = {n}]  \* a mutant: the others are lost
WithFinding(e, n) == [e EXCEPT !.findings = @ \cup {n}]

-----------------------------------------------------------------------------
VARIABLES
  request,    \* the caller's input
  pc,         \* the node that runs next, "response", "done" or "raised"
  required,   \* the agents the plan names
  store,      \* the service's authoritative result
  result, citations,  \* the same as published in the shared state
  risk, decision, approval, summary, errors,  \* the other published sections
  accusable   \* history: the nodes whose agent departed from what it saw

published == <<result, citations, risk, decision, approval, summary, errors>>
vars == <<request, pc, required, store, published, accusable>>

NoRisk == [status |-> "not_required", sources |-> {}]
NoDecision == [status |-> "not_required", recommendation |-> "unknown",
               approvalRequired |-> FALSE]
NoApproval == [status |-> "not_requested", required |-> FALSE]
Shown(e) == [status |-> e.status, evidence |-> e.evidence,
             business |-> e.business, artifacts |-> e.artifacts]
NoSummary == [status |-> "not_required", shows |-> Shown(NoResult),
              citations |-> {}, rationale |-> "not_required"]

(* What the built-in agents make of a result and of the shared state. *)

\* The diagnostics the risk agent lists: the refusal's, the evidence's, the scenario's.
Sources(e) == {s \in {"refusal", "evidence", "business"} :
                 \/ s = "refusal" /\ e.diagnosed
                 \/ s = "evidence" /\ e.evidence
                 \/ s = "business" /\ e.business # "none"}

RiskOf(e) == [status |-> "partial_assessment", sources |-> Sources(e)]

DecisionOf(e, d, a) ==
  [status |-> IF Eligible(e) THEN "needs_more_data" ELSE "blocked",
   recommendation |-> "needs_more_data",
   approvalRequired |-> d.approvalRequired \/ a.required]

ApprovalOf(d) ==
  IF ~d.approvalRequired THEN [status |-> "skipped", required |-> FALSE]
  ELSE [status |-> IF request.input \in Verdicts THEN request.input ELSE "pending",
        required |-> TRUE]

SummaryOf(e, cited, d) ==
  [status |-> IF Eligible(e) THEN "generated" ELSE "insufficient_data",
   shows |-> Shown(e), citations |-> cited, rationale |-> d.status]

-----------------------------------------------------------------------------
Init ==
  /\ request \in Requests
  /\ pc = "planner"
  /\ required = {}
  /\ store = NoResult /\ result = NoResult /\ citations = {}
  /\ risk = NoRisk /\ decision = NoDecision /\ approval = NoApproval
  /\ summary = NoSummary /\ errors = {} /\ accusable = {}

Planner ==
  /\ pc = "planner"
  /\ pc' = After[pc]
  /\ required' = Plan(request)
  /\ UNCHANGED <<request, store, published, accusable>>

\* A node the plan does not name; with a result in the state the protection
\* publishes the stored one again.
Skip(n) ==
  /\ pc = n /\ n \notin required
  /\ pc' = After[n]
  /\ IF result = NoResult THEN UNCHANGED <<result, citations>>
     ELSE result' = store /\ citations' = store.artifacts
  /\ UNCHANGED <<request, required, store, risk, decision, approval, summary,
                 errors, accusable>>

Completes(n) ==
  /\ pc = n /\ n \in required
  /\ pc' = After[n]
  /\ UNCHANGED <<request, required>>

\* The service's own agents propose what the service has just saved.
Save(e) == store' = e /\ result' = e /\ citations' = e.artifacts

ExperimentAnalysis ==
  /\ Completes("experiment_analysis")
  /\ \E e \in Outcomes(request) : Save(e)
  /\ UNCHANGED <<risk, decision, approval, summary, errors, accusable>>

BusinessImpact ==
  /\ Completes("business_impact")
  /\ \E s \in Business(request, store) : Save(WithBusiness(store, s))
  /\ UNCHANGED <<risk, decision, approval, summary, errors, accusable>>

(***************************************************************************)
(* What a consumer's agent returns: its own section as it follows from     *)
(* the state it saw, another one or none; a value for a key that is not    *)
(* its own; the result it saw, another one or none; errors, which are      *)
(* dropped.  The built-in agent returns its section and no result.         *)
(***************************************************************************)
BuiltIn == [own |-> "seen", foreign |-> FALSE, result |-> "absent"]
Proposals(n) ==
  IF n \in Injected
  THEN [own : {"absent", "seen", "forged"}, foreign : BOOLEAN,
        result : {"absent", "seen", "forged"}]
  ELSE {BuiltIn}

Forged(x) == [x EXCEPT !.status = "forged"]
Departs(p) == p.own = "forged" \/ p.foreign \/ p.result = "forged"

ConflictOfOwnKeys(p, seen, canonical) ==  \* a mutant: foreign keys are not looked at
  \/ p.own # "absent" /\ (IF p.own = "seen" THEN seen ELSE Forged(seen)) # canonical
  \/ p.result # "absent" /\ (IF p.result = "seen" THEN result ELSE Forged(result)) # store

\* The agent's section against the canonical one, any other key, its result
\* against the stored one.
Conflict(p, seen, canonical) ==
  \/ p.own # "absent" /\ (IF p.own = "seen" THEN seen ELSE Forged(seen)) # canonical
  \/ p.foreign
  \/ p.result # "absent" /\ (IF p.result = "seen" THEN result ELSE Forged(result)) # store

ProtectBeforeFinding(n, p, seen, canonical) ==  \* a mutant: publishes the result read first
  /\ store' = IF Conflict(p, seen, canonical) THEN WithFinding(store, n) ELSE store
  /\ result' = store
  /\ citations' = store.artifacts
  /\ accusable' = IF Departs(p) THEN accusable \cup {n} ELSE accusable

\* protect_update for a consumer: seen is its section from the state as the
\* agent saw it, canonical the one from the stored result.
Protect(n, p, seen, canonical) ==
  /\ store' = IF Conflict(p, seen, canonical) THEN WithFinding(store, n) ELSE store
  /\ result' = store'
  /\ citations' = store.artifacts
  /\ accusable' = IF Departs(p) THEN accusable \cup {n} ELSE accusable

\* An injected agent may change what it was handed, too.
Rewrites(n) ==
  {decision} \cup
  (IF n \in Injected
   THEN {[decision EXCEPT !.recommendation = "rollout", !.approvalRequired = TRUE]}
   ELSE {})

IsolatedByReference(mine, rewritten) == rewritten  \* a mutant: the state is not copied
\* The agent was handed a deep copy.
Isolated(mine, rewritten) == mine

RiskAssessment ==
  /\ Completes("risk_assessment")
  /\ \E p \in Proposals("risk_assessment") :
       Protect("risk_assessment", p, RiskOf(result), RiskOf(store))
  /\ \E d \in Rewrites("risk_assessment") : decision' = Isolated(decision, d)
  /\ risk' = RiskOf(store)
  /\ UNCHANGED <<approval, summary, errors>>

Decision ==
  /\ Completes("decision")
  /\ \E p \in Proposals("decision"), d \in Rewrites("decision") :
       LET canonical == DecisionOf(store, Isolated(decision, d), approval)
       IN  /\ Protect("decision", p, DecisionOf(result, decision, approval), canonical)
           /\ decision' = canonical
  /\ UNCHANGED <<risk, approval, summary, errors>>

\* The errors of the built-in agent are the ones that are published.
HumanApproval ==
  /\ Completes("human_approval")
  /\ \E p \in Proposals("human_approval"), d \in Rewrites("human_approval") :
       LET canonical == ApprovalOf(Isolated(decision, d))
       IN  /\ Protect("human_approval", p, ApprovalOf(decision), canonical)
           /\ approval' = canonical
           /\ decision' = Isolated(decision, d)
  /\ errors' = IF request.input = "invalid" THEN errors \cup {"human_approval"} ELSE errors
  /\ UNCHANGED <<risk, summary>>

ExecutiveSummary ==
  /\ Completes("executive_summary")
  /\ \E p \in Proposals("executive_summary"), d \in Rewrites("executive_summary") :
       LET canonical == SummaryOf(store, store.artifacts, Isolated(decision, d))
       IN  /\ Protect("executive_summary", p, SummaryOf(result, citations, decision), canonical)
           /\ summary' = canonical
           /\ decision' = Isolated(decision, d)
  /\ UNCHANGED <<risk, approval, errors>>

\* An injected agent that raises ends the run without an answer.
Raise ==
  /\ pc \in Injected \cap required
  /\ pc' = "raised"
  /\ UNCHANGED <<request, required, store, published, accusable>>

\* protect_response.
Respond ==
  /\ pc = "response"
  /\ pc' = "done"
  /\ store' = IF result # store THEN WithFinding(store, "response") ELSE store
  /\ result' = store'
  /\ UNCHANGED <<request, required, citations, risk, decision, approval,
                 summary, errors, accusable>>

SkipNode == \E n \in Nodes : Skip(n)
Ended == pc \in {"done", "raised"} /\ UNCHANGED vars

Next ==
  \/ Planner \/ SkipNode \/ Raise
  \/ ExperimentAnalysis \/ BusinessImpact \/ RiskAssessment \/ Decision
  \/ HumanApproval \/ ExecutiveSummary \/ Respond \/ Ended

Spec == Init /\ [][Next]_vars

-----------------------------------------------------------------------------
\* Type invariant: a result has one of the six execution statuses, a finding
\* names a consumer or the response, no section has a forged value.
TypeOK ==
  /\ request \in Requests
  /\ pc \in Nodes \cup {"planner", "response", "done", "raised"}
  /\ required \in SUBSET Nodes
  /\ store \in Envelopes \cup {NoResult} /\ result \in Envelopes \cup {NoResult}
  /\ citations \in SUBSET Kinds
  /\ risk \in [status : {"not_required", "partial_assessment"},
               sources : SUBSET {"refusal", "evidence", "business"}]
  /\ decision \in [status : {"not_required", "needs_more_data", "blocked"},
                   recommendation : {"unknown", "needs_more_data"},
                   approvalRequired : BOOLEAN]
  /\ approval \in [status : {"not_requested", "skipped", "pending"} \cup Verdicts,
                   required : BOOLEAN]
  /\ summary \in [status : {"not_required", "generated", "insufficient_data"},
                  shows : [status : Statuses \cup {"none"}, evidence : BOOLEAN,
                           business : Scenarios \cup {"none"}, artifacts : SUBSET Kinds],
                  citations : SUBSET Kinds,
                  rationale : {"not_required", "needs_more_data", "blocked"}]
  /\ errors \in SUBSET {"human_approval"}
  /\ accusable \in SUBSET Consumers

\* What the shared state carries as the result and cites is at every step
\* what the service holds: its scenario and every finding recorded so far.
PublishedIsStored == result = store /\ citations = store.artifacts

\* The findings accuse exactly the nodes whose agent departed from what it
\* saw: an agent that repeats or omits is never accused, whatever happened
\* upstream, and one that adds, rewrites or removes never gets away.
FindingsAreJust == store.findings = accusable

\* The sections of the answer speak of the result the answer carries, whatever
\* came between them: no scenario, artifact or decision was added after a
\* section was written, and none that a section shows was taken back.
SectionsAgree ==
  /\ risk # NoRisk => risk.sources = Sources(result)
  /\ decision.status # "not_required" =>
       (decision.status = "blocked" <=> ~Eligible(result))
  /\ summary # NoSummary =>
       /\ summary.shows = Shown(result) /\ summary.citations = citations
       /\ summary.rationale = decision.status
       /\ summary.status = "generated" <=> Eligible(result)

\* No structured analysis authorizes anything: neither an approval that came
\* with the question nor an agent that rewrites what it was handed makes the
\* decision an action or records a consent.
NothingIsAuthorized ==
  /\ decision.recommendation \in {"unknown", "needs_more_data"}
  /\ ~decision.approvalRequired /\ ~approval.required
  /\ approval.status \in {"not_requested", "skipped"}

\* Evidence is written once: later steps add a scenario, once, and findings,
\* and revise neither the status nor what was recorded before.
EvidenceIsFinal ==
  [][store # NoResult =>
       /\ store'.status = store.status /\ store'.evidence = store.evidence
       /\ store.artifacts \subseteq store'.artifacts
       /\ store.findings \subseteq store'.findings
       /\ store.business # "none" => store'.business = store.business]_vars

\* The answer as a report on the published evidence.
Answer == INSTANCE AuthoritativeReport WITH
  evidence <- result.status,
  scenario <- result.business,
  verdict  <- decision.status,
  report   <- [evidence |-> summary.shows.status, scenario |-> summary.shows.business,
               verdict |-> summary.rationale, complete |-> summary.status = "generated"]

\* Whatever the injected agents return, what a reader sees is an authoritative
\* report: it does not depend on them.
ImplementsReport == Answer!Spec
=============================================================================
