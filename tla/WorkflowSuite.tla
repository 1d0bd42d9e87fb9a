---------------------------- MODULE WorkflowSuite ----------------------------
(***************************************************************************)
(* The workflow evaluation of the statistical baseline                     *)
(* (packages/evals/statistical/workflow, agent_analysis_cases.py): golden  *)
(* cases are sent through the real request, state and API boundaries and   *)
(* what comes back is compared with the answer of the native analyzer;     *)
(* corruptions are injected at the API boundary and must be noticed; the   *)
(* old surfaces are executed beside them.                                  *)
(*                                                                         *)
(* What the program answers is a run:                                      *)
(*   answer   the analysis in the response, or None when there is none     *)
(*   state    the analysis the workflow's state held                       *)
(*   code, reasons   HTTP status, failures besides the analysis checks     *)
(*   calls    how often the audited estimators were called                 *)
(*   spans, roots, leaves, dropped   what a recording provider saw, and    *)
(*            how many exports failed                                      *)
(* or None when evaluating the case raised.  A payload is a function from  *)
(* paths to values; a value is a tuple that begins with its kind.          *)
(***************************************************************************)
EXTENDS Integers, Sequences, FiniteSets, SequencesExt

CONSTANT None

Number(n) == <<"number", n>>
NaN == <<"nan">>
Estimate(point, interval) == <<"estimate", point, interval>>
Listed(elements) == <<"list", elements>>
Truthy(o) == o # None /\ o # Listed({})

PathValue(payload, path) ==
  IF payload = None \/ path \notin DOMAIN payload THEN None ELSE payload[path]

\* checks[x] = g[x] for every x of g: one there is replaced, a new one added.
Updated(f, g) == [x \in DOMAIN f \cup DOMAIN g |-> IF x \in DOMAIN g THEN g[x] ELSE f[x]]

(***************************************************************************)
(* The cases.  package is the optional package of the method or None,      *)
(* control the controlled state of that package; reference is the evidence *)
(* of the native analyzer; a request that is refused has a refusal instead.*)
(***************************************************************************)
AnalysisCodes ==
  {"routing", "execution_status", "adapter_identity", "result_integrity",
   "uncertainty_preserved", "assumptions_preserved", "diagnostics_preserved",
   "provenance_preserved", "estimand_preserved", "limitations_preserved",
   "abstention_preserved", "downstream_gating", "business_provenance", "prose_grounding",
   "object_privacy"}
ExtraCodes ==
  {"reference_accuracy", "finite_outputs", "required_fields", "state_preserved",
   "api_contract", "trace_linkage", "telemetry_privacy", "artifact_privacy", "determinism"}
SpecialCodes == {"dependency", "injection_detection", "compatibility", "provider_isolation"}
CheckCodes == AnalysisCodes \cup ExtraCodes \cup SpecialCodes

EvidenceField ==
  [uncertainty_preserved |-> "test_result", assumptions_preserved |-> "assumptions",
   diagnostics_preserved |-> "diagnostics", provenance_preserved |-> "provenance",
   estimand_preserved |-> "estimand", limitations_preserved |-> "evidence_limitations"]

\* A request that is refused has no evidence to preserve.
Applicability(case) ==
  [code \in AnalysisCodes |->
     case.refusal = None \/ code \notin (DOMAIN EvidenceField \ {"diagnostics_preserved"})]

Check(code, passed, applicable) ==
  [code |-> code, rule |-> code, applicable |-> applicable,
   status |-> IF ~applicable THEN "skipped" ELSE IF passed THEN "pass" ELSE "fail"]

\* What the installed packages make of a case before it is run.
CaseDependency(case, packages) ==
  IF case.package = None THEN "not_required"
  ELSE IF case.control # None THEN "controlled"
  ELSE packages[case.package].state
EffectiveCase(case, packages) ==
  IF CaseDependency(case, packages) = "unavailable"
  THEN [case EXCEPT !.status = "unavailable", !.numerical = {}, !.required = {},
                    !.forbidden = {}, !.calls = {}]
  ELSE case

(***************************************************************************)
(* The checks of one answer against the reference.                         *)
(***************************************************************************)
BusinessMatches(case, impact) ==
  IF case.business = None THEN impact = None
  ELSE /\ impact # None
       /\ IF case.business.refused
          THEN impact.status = "abstained" /\ impact.diagnostics = case.business.diagnostics
          ELSE case.reference # None /\ impact = case.business.expected

ResponseVerdicts(case, answer) ==
  [code \in AnalysisCodes |->
     CASE code \in {"routing", "adapter_identity"} -> answer.method = case.method
       [] code = "execution_status" -> answer.status = case.status
       [] code = "result_integrity" -> answer.evidence = case.reference
       [] code = "abstention_preserved" ->
            IF case.reference = None
            THEN case.refusal # None /\ answer.abstention = case.refusal.abstention
            ELSE (answer.abstention # None)
                 <=> \/ case.status \in {"abstained", "invalid", "unavailable"}
                     \/ PathValue(case.reference, "abstention_reason") # None
       [] code = "diagnostics_preserved" /\ case.reference = None ->
            case.refusal # None /\ answer.diagnostics = case.refusal.diagnostics
       [] code \in DOMAIN EvidenceField /\ case.reference # None ->
            PathValue(answer.evidence, EvidenceField[code])
              = PathValue(case.reference, EvidenceField[code])
       [] code = "downstream_gating" ->
            \/ answer.status \in {"completed", "inconclusive"}
            \/ answer.business = None
            \/ answer.business.status \in {"abstained", "failed"}
       [] code = "business_provenance" -> BusinessMatches(case, answer.business)
       [] code = "prose_grounding" -> answer.grounded
       [] code = "object_privacy" ->
            \A leaf \in answer.leaves : leaf[1] # "rows" \/ leaf[2] \notin {"array", "object"}
       [] OTHER -> TRUE]

\* Evidence cannot be preserved where there is none: such a check is skipped.
AnalysisChecks(case, answer) ==
  [code \in AnalysisCodes |->
     IF answer = None THEN Check(code, FALSE, TRUE)
     ELSE Check(code, ResponseVerdicts(case, answer)[code],
                ~( /\ case.reference = None
                   /\ code \in (DOMAIN EvidenceField \ {"diagnostics_preserved"})))]

(***************************************************************************)
(* The checks of the evidence alone, which the policy repeats on the       *)
(* report.                                                                 *)
(***************************************************************************)
IntervalPath ==
  [randomized_fixed_horizon |-> "test_result", cuped |-> "adjusted_result",
   bayesian_ab |-> "effect", sequential |-> "looks", did |-> "test_result",
   ipw_ate |-> "test_result", ipw_att |-> "test_result", dml |-> "test_result",
   hte |-> "subgroup_results", econml_dml |-> "inference", econml_hte |-> "subgroup_results"]

IntervalKind(method) == IF method = "bayesian_ab" THEN "credible_interval"
                        ELSE "confidence_interval"
ValidInterval(interval, kind) ==
  /\ interval # None
  /\ interval.lower # NaN /\ interval.upper # NaN
  /\ interval.lower[2] <= interval.upper[2]
  /\ interval.level \in 1..999
  /\ interval.kind = kind

FinitePayload(payload) ==
  payload = None \/ \A path \in DOMAIN payload :
    LET o == payload[path]
    IN /\ o # NaN
       /\ o # None /\ o[1] = "estimate" =>
            /\ o[2] # NaN
            /\ o[3] # None => o[3].lower # NaN /\ o[3].upper # NaN

\* check_expected_value: a number there, finite and within its tolerance.
WithinTolerance(payload, expected) ==
  LET o == PathValue(payload, expected.path)
      n == IF o # None /\ o[1] = "estimate" THEN o[2] ELSE o
  IN n # None /\ n # NaN /\ (n[2] - expected.value) \in -expected.tolerance..expected.tolerance

Successful(case) == case.status \in {"completed", "inconclusive"}

EvidenceChecks(case, payload) ==
  LET hasInterval == case.method # None /\ case.method \in DOMAIN IntervalPath
      shown == IF hasInterval THEN PathValue(payload, IntervalPath[case.method]) ELSE None
      verdict ==
        [uncertainty_preserved |->
           shown # None /\ shown[1] = "estimate"
             /\ ValidInterval(shown[3], IntervalKind(case.method)),
         assumptions_preserved |-> Truthy(PathValue(payload, "assumptions")),
         provenance_preserved |-> Truthy(PathValue(payload, "provenance")),
         reference_accuracy |-> \A v \in case.numerical : WithinTolerance(payload, v),
         finite_outputs |-> FinitePayload(payload),
         required_fields |->
           /\ \A p \in case.required : PathValue(payload, p) # None
           /\ \A p \in case.forbidden : PathValue(payload, p) = None]
      applicable ==
        [code \in DOMAIN verdict |->
           CASE code = "uncertainty_preserved" -> Successful(case) /\ hasInterval
             [] code \in {"assumptions_preserved", "provenance_preserved"} -> Successful(case)
             [] code = "reference_accuracy" -> case.numerical # {}
             [] OTHER -> TRUE]
  IN [code \in DOMAIN verdict |-> Check(code, verdict[code], applicable[code])]

\* A supplement that is skipped cannot erase a check that failed.
MergeChecks(existing, additional) ==
  [code \in DOMAIN existing \cup DOMAIN additional |->
     IF code \notin DOMAIN additional THEN existing[code]
     ELSE IF /\ code \in DOMAIN existing
             /\ existing[code].status = "fail" \/ additional[code].status = "skipped"
          THEN existing[code]
     ELSE additional[code]]

(***************************************************************************)
(* Telemetry: the span tree hangs together, and nothing private is in it.  *)
(* A leaf of a payload is its key and the kind of its value.               *)
(***************************************************************************)
PrivateKeys == {"rows", "unit_ids", "ask_payload"}

ViolationOf == [private |-> "private_value", array |-> "raw_numeric_array",
                nan |-> "nonfinite_value", object |-> "foreign_object"]
PrivacyViolations(leaves) ==
  {"private_field" : l \in {k \in leaves : k[1] \in PrivateKeys /\ k # <<"rows", "count">>}}
    \cup {ViolationOf[l[2]] : l \in {k \in leaves : k[2] \in DOMAIN ViolationOf}}

\* The spans below those of a set, and the ones a walk from the root meets.
Below(spans, set) == UNION {ToSet(spans[s].children) : s \in set}
Reached(spans, root) ==
  LET within[n \in 0..Cardinality(DOMAIN spans)] ==
        IF n = 0 THEN {root} ELSE within[n - 1] \cup Below(spans, within[n - 1])
  IN within[Cardinality(DOMAIN spans)]

RequiredEdges(case) ==
  {<<"workflow", "ask_request">>, <<"analysis", "workflow">>, <<"validation", "analysis">>,
   <<"response_serialization", "ask_request">>}
    \cup (IF case.refusal # None THEN {} ELSE {<<"estimator", "analysis">>})
    \cup (IF case.business = None THEN {} ELSE {<<"analysis.business_impact", "workflow">>})

LinkageViolations(case, spans, roots) ==
  IF Len(roots) # 1 \/ spans[roots[1]].name # "ask_request" THEN {"request_root_missing"}
  ELSE
    LET root == roots[1]
        met == Reached(spans, root)
        named(name) == {s \in met : spans[s].name = name}
        holds ==
          [invalid_request_root |-> spans[root].trace = None \/ spans[root].parent # None,
           duplicate_span |->
             \E s \in met : Cardinality(UNION {{<<p, i>> : i \in {n \in DOMAIN spans[p].children :
                                                                spans[p].children[n] = s}} :
                                             p \in met}) > 1,
           broken_span_link |->
             \E p \in met : \E s \in ToSet(spans[p].children) :
               spans[s].parent # p \/ spans[s].trace # spans[root].trace,
           unfinished_span |-> \E s \in met : ~spans[s].ended,
           required_boundary_unlinked |->
             \E e \in RequiredEdges(case) :
               \/ Cardinality(named(e[1])) # 1
               \/ \E s \in named(e[1]) :
                    spans[s].parent = None \/ spans[spans[s].parent].name # e[2],
           method_uncorrelated |->
             case.refusal = None /\ ~\E s \in named("estimator") : spans[s].method = case.method]
    IN {v \in DOMAIN holds : holds[v]}

(***************************************************************************)
(* One case: the checks of its run, and whether a replay says the same.    *)
(***************************************************************************)
ForbiddenCalls(case) ==
  case.calls \cup CASE case.id = "dml-post-treatment" -> {"dml"}
                    [] case.id = "ipw-ate-no-overlap" -> {"ipw"}
                    [] case.id \in {"insufficient", "missing-business-provenance"} ->
                         {"business"}
                    [] OTHER -> {}

\* An installed package whose method cannot be used counts as broken.
ObservedDependency(case, packages, public) ==
  LET declared == CaseDependency(case, packages)
  IN IF declared = "installed" /\ public.status \in {"unavailable", "failed"}
     THEN "broken" ELSE declared

\* What is read of the answer when the response has no analysis in it.
NoAnalysis == [method |-> None, status |-> "failed", evidence |-> None, leaves |-> {},
               business |-> None]
Public(run) == IF run.answer = None THEN NoAnalysis ELSE run.answer

DependencyCheck(dependency) ==
  IF dependency = "unavailable"
  THEN [Check("dependency", TRUE, TRUE) EXCEPT !.status = "warning"]
  ELSE Check("dependency", dependency # "broken", TRUE)

ChecksOf(declared, packages, run, case, merged) ==
  LET public == Public(run)
      forbidden == ForbiddenCalls(case)
      dependency == ObservedDependency(declared, packages, public)
      boundary ==
        [trace_linkage |-> Check("trace_linkage",
                                 LinkageViolations(case, run.spans, run.roots) = {}, TRUE),
         telemetry_privacy |-> Check("telemetry_privacy",
                                     PrivacyViolations(run.leaves) = {}, TRUE),
         artifact_privacy |-> Check("artifact_privacy",
                                    PrivacyViolations(public.leaves) = {}, TRUE),
         state_preserved |-> Check("state_preserved", run.answer # None /\ run.state = run.answer,
                                  TRUE),
         api_contract |-> Check("api_contract", run.code = 200 /\ run.reasons = {}, TRUE)]
      gating ==
        IF forbidden = {} THEN <<>>
        ELSE [code \in {"downstream_gating"} |->
                Check(code, /\ merged[code].status # "fail"
                            /\ \A name \in forbidden : run.calls[name] = 0, TRUE)]
      own ==
        IF dependency = "not_required" THEN merged
        ELSE Updated(merged, [code \in {"dependency"} |-> DependencyCheck(dependency)])
  IN Updated(Updated(own, boundary), gating)

CaseChecks(declared, packages, run) ==
  LET case == EffectiveCase(declared, packages)
  IN ChecksOf(declared, packages, run, case,
              MergeChecks(AnalysisChecks(case, run.answer),
                          EvidenceChecks(case, Public(run).evidence)))

CaseResult(declared, packages, run) ==
  LET public == Public(run)
      dependency == ObservedDependency(declared, packages, public)
  IN [id |-> <<"case", declared.id>>, family |-> declared.family, identity |-> declared.identity,
      method |-> public.method, status |-> public.status,
      dependency_state |-> dependency,
      versioned |-> declared.package # None /\ dependency # "controlled"
                      /\ packages[declared.package].versioned,
      execution_kind |-> IF dependency = "controlled" THEN "controlled" ELSE "real",
      calls |-> run.calls, provider_failures |-> run.dropped,
      detected |-> {}, injection_detected |-> FALSE,
      evidence |-> public.evidence, business |-> public.business,
      checks |-> CaseChecks(declared, packages, run)]

SameOutcome(a, b) == /\ a.evidence = b.evidence /\ a.business = b.business
                     /\ a.status = b.status /\ a.method = b.method

Repeated(result, again) ==
  [result EXCEPT !.checks =
     Updated(@, [code \in {"determinism"} |-> Check(code, SameOutcome(result, again), TRUE)])]

\* None: evaluating the case, or evaluating it again, raised.
WorkflowCase(case, packages, runs) ==
  IF runs[1] = None \/ runs[2] = None THEN None
  ELSE Repeated(CaseResult(case, packages, runs[1]), CaseResult(case, packages, runs[2]))

(***************************************************************************)
(* Corruptions.  An injection changes one part of the analysis on its way  *)
(* to the client, or makes the native estimator raise; the failures it     *)
(* must cause are its rules.                                               *)
(***************************************************************************)
InjectionRules(spec) ==
  CASE spec.part \in {"status", "native"} -> {"execution_status"}
    [] spec.part = "method" -> {"routing"}
    [] spec.part = "evidence" -> {"result_integrity"}
    [] OTHER -> {"business_provenance"}

InjectionDetected(expected, detected) == expected # {} /\ expected \subseteq detected

Corrupt(answer, spec) ==
  CASE spec.part = "status" -> [answer EXCEPT !.status = spec.value]
    [] spec.part = "method" -> [answer EXCEPT !.method = spec.value]
    [] spec.part = "evidence" -> [answer EXCEPT !.evidence[spec.path] = spec.value]
    [] OTHER -> [answer EXCEPT !.business.status = spec.value]

\* A change that changes nothing is an error of the evaluation; the state
\* the workflow held is not touched.
Injected(run, spec) ==
  IF run = None \/ run.answer = None \/ Corrupt(run.answer, spec) = run.answer THEN None
  ELSE [run EXCEPT !.answer = Corrupt(run.answer, spec)]

FailedRules(result) == {result.checks[c].rule : c \in {k \in DOMAIN result.checks :
                                                  result.checks[k].status = "fail"}}

InjectionResult(spec, result) ==
  LET detected == FailedRules(result)
      success == /\ InjectionDetected(InjectionRules(spec), detected)
                 /\ spec.part = "native" => /\ result.status = "failed"
                                            /\ result.checks["api_contract"].status = "pass"
  IN IF result = None THEN None
     ELSE [result EXCEPT !.id = <<"injection", spec.id>>, !.family = "injection", !.execution_kind = "controlled",
             !.detected = detected, !.injection_detected = success,
             !.evidence = None, !.business = None,
             !.checks = [code \in {"injection_detection"} |-> Check(code, success, TRUE)]]

InjectionCase(spec, case, packages, runs) ==
  InjectionResult(spec,
    WorkflowCase(case, packages,
                 IF spec.part = "native" THEN runs ELSE [i \in 1..2 |-> Injected(runs[i], spec)]))

\* Every export fails: the answer must not.
ProviderResult(case, result) ==
  LET valid == /\ result.status = case.status /\ result.provider_failures > 0
               /\ result.checks["result_integrity"].status = "pass"
  IN IF result = None THEN None
     ELSE [result EXCEPT !.id = <<"provider", "export-failure">>, !.family = "provider",
             !.execution_kind = "controlled",
             !.checks = [code \in {"provider_isolation"} |-> Check(code, valid, TRUE)]]

ProviderCase(case, packages, runs) == ProviderResult(case, WorkflowCase(case, packages, runs))

(***************************************************************************)
(* The old surfaces.  The ones that need a service outside are skipped; a  *)
(* registry that is invalid or a policy without its guards raises, and     *)
(* then no surface is reported.                                            *)
(***************************************************************************)
ExternalSurfaces == {"database", "langsmith", "phoenix", "otel_sdk"}
Surfaces == ExternalSurfaces \cup {"legacy_rag_api", "agent_workflow", "old_ask_api", "prompts",
                                   "phase3_policy", "factuality", "internal_traces"}

SurfacePassed(surface, old) ==
  CASE surface = "legacy_rag_api" ->
         old.legacy.passed /\ old.retrievals = 1 /\ ~old.legacy.analysis
    [] surface = "agent_workflow" -> old.samples > 0 /\ old.failed = 0
    [] surface = "old_ask_api" -> old.ask.passed /\ ~old.ask.analysis
    [] surface = "internal_traces" -> old.ask.traced
    [] surface = "factuality" -> "fabricated_revenue_or_roi" \in old.findings
    [] OTHER -> TRUE

NoCalls == [dml |-> None, ipw |-> None, business |-> None]

CompatibilityCases(old) ==
  IF ~old.registry_valid \/ ~old.guarded THEN None
  ELSE {[id |-> <<"compatibility", s>>, family |-> "compatibility", identity |-> None,
         method |-> None,
         status |-> IF s \in ExternalSurfaces THEN "not_executed" ELSE "completed",
         dependency_state |-> "not_required", versioned |-> FALSE,
         execution_kind |-> IF s \in ExternalSurfaces THEN "external" ELSE "real",
         calls |-> NoCalls, provider_failures |-> 0, detected |-> {}, injection_detected |-> FALSE,
         evidence |-> None, business |-> None,
         checks |-> [code \in {"compatibility"} |->
                       Check(code, SurfacePassed(s, old), s \notin ExternalSurfaces)]] :
        s \in Surfaces}

(***************************************************************************)
(* The suite: the results there are, and the executions that raised.  A    *)
(* package that must be there turns the warning of its absence into a      *)
(* failure.                                                                *)
(***************************************************************************)
PackageOf == [econml_dml |-> "econml", econml_hte |-> "econml", dowhy |-> "dowhy"]

Enforce(result, required) ==
  IF /\ result.dependency_state = "unavailable"
     /\ result.method \in DOMAIN PackageOf /\ PackageOf[result.method] \in required
  THEN [result EXCEPT !.checks["dependency"].status = "fail"]
  ELSE result

\* suite gives the cases, the injections with their cases, and the runs;
\* an execution is its name and its result.
Executions(suite, scope) ==
  {<<<<"case", c.id>>, WorkflowCase(c, suite.packages, suite.runs[c.id])>> : c \in suite.cases}
    \cup IF scope # "complete" THEN {}
         ELSE {<<<<"injection", s.id>>, InjectionCase(s, s.case, suite.packages, suite.runs[s.id])>> :
                 s \in suite.injections}
              \cup {<<<<"provider", "export-failure">>,
                      ProviderCase(suite.provider, suite.packages,
                                   suite.runs["export-failure"])>>}

\* evaluate_workflow_suite: no case runs twice, so results form a set.
Completed(done, old, required) ==
  [results |-> {Enforce(e[2], required) : e \in {x \in done : x[2] # None}}
                 \cup (IF old = None THEN {} ELSE old),
   errors |-> {e[1] : e \in {x \in done : x[2] = None}}
                \cup (IF old = None THEN {<<"compatibility", "all">>} ELSE {})]

WorkflowSuiteOf(suite, scope, required) ==
  Completed(Executions(suite, scope),
            IF scope = "complete" THEN CompatibilityCases(suite.old) ELSE {}, required)
=============================================================================
