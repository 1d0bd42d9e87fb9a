---------------------------- MODULE ReportMetrics ----------------------------
(***************************************************************************)
(* What the quality policy reads out of the reports of the evaluations     *)
(* (packages/evals/policy/adapters.py), the recomputation of the           *)
(* statistical report (statistical/native_integrity.py) and of its         *)
(* workflow results (statistical/workflow/policy.py).                      *)
(*                                                                         *)
(* A metric has a tuple for its name and a value in thousandths; an        *)
(* adapter returns the function of its metrics, or None when it raises.    *)
(* A report holds what the evaluation wrote, one entry per case.           *)
(***************************************************************************)
EXTENDS WorkflowSuite

CONSTANTS
  Fixtures,       \* the reference cases the repository pins
  Contracts,      \* per reference case the checks it must be judged by
  WorkflowCases,  \* the golden workflow cases
  InjectionSpecs, \* the corruptions that must be noticed
  Broken          \* a report whose writing was cut short

Count(n) == Number(1000 * n)
Rate(part, whole) == IF whole = 0 THEN Number(0) ELSE Number((1000 * part) \div whole)
Text(t) == <<"text", t>>

Read(value) == [value |-> value, status |-> "pass"]
Unread == [value |-> None, status |-> "skipped"]

\* Metrics named by a prefix and a key.
Prefixed(prefix, values) ==
  [name \in {prefix \o <<k>> : k \in DOMAIN values} |-> Read(values[Last(name)])]

(***************************************************************************)
(* Judged evaluations, prompts and facts.                                  *)
(***************************************************************************)
\* report: name, status and average per metric.
RagasMetrics(report) ==
  IF \E m \in report.metric_results : m.status # "skipped" /\ m.average = None THEN None
  ELSE [name \in {<<"ragas", m.name>> : m \in report.metric_results} |->
          LET m == CHOOSE x \in report.metric_results : x.name = name[2]
          IN IF m.status = "skipped" THEN Unread ELSE Read(m.average)]

\* The scores of a metric are averaged; it is skipped only when it has none.
DeepevalMetrics(report) ==
  LET scored == {r \in report.metric_results : ~r.skipped /\ r.score # None}
      average(name) ==
        LET own == {r \in scored : r.metric = name}
        IN Number(SumFunction([r \in own |-> r.score]) \div Cardinality(own))
  IN [name \in {<<"deepeval", r.metric, "average_score">> :
                  r \in {x \in report.metric_results : x.skipped \/ x.score # None}} |->
        IF \E r \in scored : r.metric = name[2] THEN Read(average(name[2])) ELSE Unread]

PromptRegressionMetrics(report) ==
  LET s == report.summary
      sides == {"baseline", "candidate", "delta"}
  IN Updated(
       Prefixed(<<"prompt_regression", "summary">>,
                [pass_rate |-> Rate(s.cases_run - s.regressions - s.failures, s.cases_run),
                 regressions |-> Count(s.regressions), failures |-> Count(s.failures),
                 passed |-> Count(IF s.passed THEN 1 ELSE 0)]),
       [name \in {<<"prompt_regression", "metric", m.name, side>> :
                    m \in report.metrics, side \in sides} |->
          LET m == CHOOSE x \in report.metrics : x.name = name[3]
          IN IF m[name[4]] = None THEN Unread ELSE Read(m[name[4]])])

FactualityCategories ==
  {"unsupported_factual_claim", "unsupported_numerical_claim", "fabricated_revenue_or_roi",
   "fabricated_statistical_significance", "fabricated_experiment_result", "citation_missing",
   "citation_does_not_support_claim", "contradiction_with_retrieved_context",
   "contradiction_with_structured_experiment_data",
   "overconfident_answer_with_insufficient_evidence",
   "answer_generated_when_abstention_was_expected"}

\* A category, severity or status that is not counted counts nothing.
Counted(prefix, keys, counts) ==
  Prefixed(prefix, [k \in keys |-> Count(IF k \in DOMAIN counts THEN counts[k] ELSE 0)])

FactualityMetrics(report) ==
  Updated(
    Updated(Prefixed(<<"factuality">>, [policy_status |-> Text(report.policy_status)]),
            Counted(<<"factuality", "findings">>, FactualityCategories, report.categories)),
    Updated(Counted(<<"factuality", "severity">>, {"low", "medium", "high", "critical"},
                    report.severities),
            Counted(<<"factuality", "case_status">>, {"pass", "warning", "fail", "skipped"},
                    report.statuses)))

(***************************************************************************)
(* The evaluations of the two answer paths.                                *)
(***************************************************************************)
\* Read from the text of the report.
RagMetrics(report) ==
  Prefixed(<<"rag">>,
    [questions_evaluated |-> Count(report.questions_evaluated),
     retrieval_success_rate |-> Number(report.retrieval_success_rate),
     average_citation_coverage |-> Number(report.average_citation_coverage),
     average_retrieval_latency_ms |-> Count(report.average_retrieval_latency_ms),
     average_llm_latency_ms |-> Count(report.average_llm_latency_ms)])

Alias(prefix, key) ==
  CASE key = "average_trace_completeness" -> "trace_completeness"
    [] prefix = "agent" /\ key = "sample_count" -> "samples_evaluated"
    [] prefix = "agent_e2e" /\ key = "average_latency_ms" -> "average_workflow_latency_ms"
    [] OTHER -> key

CaseNamed(id) == CHOOSE c \in WorkflowCases : c.id = id
CaseIds == {c.id : c \in WorkflowCases}

\* A check of a sample that does not count as done.
CheckFailed(identity, code, check) ==
  \/ check.status = "fail"
  \/ check.status = "skipped" /\ check.applicable
  \/ check.status # "skipped" /\ ~check.applicable
  \/ identity \in CaseIds /\ check.applicable # Applicability(CaseNamed(identity))[code]

AgentMetrics(report, prefix) ==
  LET samples == report.samples
      checked == {i \in DOMAIN samples : \/ samples[i].identity # None
                                         \/ DOMAIN samples[i].checks # {}}
      failures(code) ==
        Cardinality({i \in checked :
          \/ code \notin DOMAIN samples[i].checks
          \/ CheckFailed(samples[i].identity, code, samples[i].checks[code])})
      stray ==
        {i \in checked : \/ samples[i].identity \notin CaseIds
                         \/ \E j \in 1..i - 1 : samples[j].identity = samples[i].identity}
      missing == CaseIds \ {samples[i].identity : i \in DOMAIN samples}
      summary == [name \in {<<prefix, Alias(prefix, k)>> : k \in DOMAIN report.summary} |->
                    Read(report.summary[CHOOSE k \in DOMAIN report.summary :
                                          Alias(prefix, k) = name[2]])]
  IN IF \E i \in DOMAIN samples : \E code \in DOMAIN samples[i].checks :
          \/ code \notin AnalysisCodes
          \/ samples[i].checks[code].status \notin {"pass", "warning", "fail", "skipped"}
     THEN None
     ELSE Updated(Prefixed(<<"analysis", "failures">>,
                           [code \in AnalysisCodes |-> Count(failures(code))])
                    @@ Prefixed(<<"analysis", "failures">>,
                                [case_inventory |->
                                   Count(Cardinality(stray) + Cardinality(missing))])
                    @@ Prefixed(<<"analysis">>, [case_count |-> Count(Cardinality(checked))]),
                  summary)

(***************************************************************************)
(* The workflow results of the statistical report.  Which checks a result  *)
(* must carry follows from what it is a result of; evidence is judged      *)
(* again, because a report may not be believed about itself.               *)
(***************************************************************************)
RequiredResults(scope) ==
  IF scope = "optional-adapters"
  THEN {<<"case", c.id>> : c \in {x \in WorkflowCases : x.package # None
                                                        \/ x.id = "optional_unavailable"}}
  ELSE {<<"case", id>> : id \in CaseIds}
         \cup {<<"injection", s.id>> : s \in InjectionSpecs}
         \cup {<<"provider", "export-failure">>}
         \cup {<<"compatibility", s>> : s \in Surfaces}

AllowedStates(package, controlled) ==
  IF controlled THEN {"controlled"}
  ELSE IF package # None THEN {"installed", "unavailable", "broken"} ELSE {"not_required"}

\* The package of the case is not installed, which is not its fault.
PackageAbsent(case, result) ==
  case.package # None /\ case.control = None /\ result.dependency_state = "unavailable"

\* The checks a result is expected to carry, and whether each applies.
ExpectedChecks(result) ==
  CASE result.id[1] = "compatibility" ->
         [code \in {"compatibility"} |-> result.id[2] \notin ExternalSurfaces]
    [] result.id[1] = "provider" -> [code \in {"provider_isolation"} |-> TRUE]
    [] result.id[1] = "injection" -> [code \in {"injection_detection"} |-> TRUE]
    [] OTHER ->
         LET case == CaseNamed(result.id[2])
         IN [code \in {"reference_accuracy"} |->
               case.numerical # {} /\ ~PackageAbsent(case, result)]
              @@ (IF case.package # None THEN [code \in {"dependency"} |-> TRUE] ELSE <<>>)
              @@ Applicability(case) @@ [code \in ExtraCodes |-> TRUE]

CheckMissing(result, code, applicable) ==
  \/ code \notin DOMAIN result.checks
  \/ LET c == result.checks[code]
     IN \/ c.code # code \/ c.rule # code
        \/ c.status = "fail"
        \/ c.applicable # applicable
        \/ (c.status = "skipped") = applicable

GatedCalls(id) ==
  CASE id = "dml-post-treatment" -> {"dml"}
    [] id = "ipw-ate-no-overlap" -> {"ipw"}
    [] id \in {"missing-business-provenance", "insufficient"} -> {"business"}
    [] OTHER -> {}

\* What a result of a golden case shows beside its checks.
CaseFaults(result) ==
  LET case == CaseNamed(result.id[2])
      absent == PackageAbsent(case, result)
      faults ==
        [state |-> \/ result.dependency_state
                        \notin AllowedStates(case.package, case.control # None)
                   \/ result.execution_kind
                        # (IF case.control # None THEN "controlled" ELSE "real")
                   \/ absent /\ result.versioned,
         broken |-> case.package # None /\ result.dependency_state = "broken",
         routing |-> result.method # case.method,
         execution_status |-> result.status # (IF absent THEN "unavailable" ELSE case.status),
         downstream_gating |-> \E name \in GatedCalls(case.id) : result.calls[name] # 0]
      shown == EvidenceChecks(case, result.evidence)
      kind(f) == IF f \in {"state", "broken"} THEN "dependency" ELSE f
  IN {<<f, kind(f)>> : f \in {g \in DOMAIN faults : faults[g]}}
       \cup IF absent THEN {} ELSE {<<"evidence", code>> :
                                      code \in {c \in DOMAIN shown : shown[c].status = "fail"}}

ResultFaults(result) ==
  LET expected == ExpectedChecks(result)
  IN {<<"check", code>> :
        code \in {c \in DOMAIN expected : CheckMissing(result, c, expected[c])}}
       \cup CASE result.id[1] = "provider" ->
                   IF result.provider_failures < 1
                   THEN {<<"exports", "provider_isolation">>} ELSE {}
              [] result.id[1] = "injection" ->
                   LET spec == CHOOSE s \in InjectionSpecs : s.id = result.id[2]
                   IN IF ~result.injection_detected
                           \/ ~InjectionDetected(InjectionRules(spec), result.detected)
                      THEN {<<"escaped", "injection_detection">>} ELSE {}
              [] result.id[1] = "case" -> CaseFaults(result)
              [] OTHER -> {}

\* What a case says of itself must be what the repository says of it.
Misdescribed(result) ==
  /\ result.id[1] = "case"
  /\ LET case == CaseNamed(result.id[2])
     IN <<result.identity, result.family>> # <<case.identity, case.family>>

\* Anything else is counted as a stray and not looked at.
Judged(result, inventory) ==
  CASE result.id[1] = "case" -> result.id[2] \in CaseIds
    [] result.id[1] = "injection" -> \E s \in InjectionSpecs : s.id = result.id[2]
    [] result.id[1] = "provider" -> TRUE
    [] OTHER -> result.id \in inventory

WorkflowMetrics(report) ==
  LET inventory == RequiredResults(report.scope)
      known == {r \in report.workflow : Judged(r, inventory)}
      seen == {r.id : r \in report.workflow}
      failures(code) ==
        MapThenSumSet(LAMBDA r : Cardinality({f \in ResultFaults(r) : f[2] = code}), known)
      strays == (Cardinality(report.workflow) - Cardinality(seen))
                  + Cardinality(seen \ inventory)
                  + Cardinality({r \in known : Misdescribed(r)})
                  + Cardinality(inventory \ seen)
                  + (IF report.workflow_case_count = Cardinality(report.workflow) THEN 0 ELSE 1)
  IN IF \E r \in known : ~(DOMAIN r.checks \subseteq CheckCodes) THEN None
     ELSE Prefixed(<<"analysis", "failures">>,
                   [code \in CheckCodes |-> Count(failures(code))])
            @@ Prefixed(<<"analysis", "failures">>, [case_inventory |-> Count(strays)])
            @@ Prefixed(<<"analysis">>, [scope |-> Text(report.scope),
                                         case_count |-> Count(Cardinality(report.workflow))])

(***************************************************************************)
(* The case results of the statistical report: counters are counted again, *)
(* statuses derived again, and cases and checks bound to the fixtures.     *)
(***************************************************************************)
DerivedStatus(result) ==
  LET some(s) == \E c \in result.checks : c.status = s
  IN IF some("fail") THEN "fail"
     ELSE IF result.category = "skipped" THEN "skipped"
     ELSE IF some("advisory") THEN "advisory"
     ELSE IF result.checks # {} /\ \A c \in result.checks : c.status = "skipped"
     THEN "skipped" ELSE "pass"

FixtureNamed(id) == CHOOSE f \in Fixtures : f.id = id
FixtureIds == {f.id : f \in Fixtures}

Signature(result) ==
  {<<c.id, c.dimension, c.rule, c.status = "skipped">> : c \in result.checks}

\* The contract for this scope and for whether the package was there.
Contract(id, scope, variant) ==
  LET own == Contracts[id]
  IN IF <<scope, variant>> \in DOMAIN own THEN own[<<scope, variant>>] ELSE own[<<variant>>]

Controlled(fixture) == fixture.advanced # None /\ fixture.advanced.controlled
Uninstalled(fixture, result) ==
  /\ fixture.advanced # None /\ result.advanced # None
  /\ fixture.advanced.package # None /\ ~Controlled(fixture)
  /\ result.advanced.state = "unavailable"

\* What is wrong with one case result, however it came about.
NativeFaults(result, scope) ==
  LET fixture == FixtureNamed(result.id)
      status == DerivedStatus(result)
      own == fixture.advanced
      told == result.advanced
      both == own # None /\ told # None
      bound ==
        [fixture |-> <<result.capability, result.category, result.declared, result.expected_status>>
                       # <<fixture.capability, fixture.category, fixture.declared,
                           fixture.expected_status>>,
         advanced |-> (told = None) # (own = None),
         state |-> both /\ told.state \notin AllowedStates(own.package, own.controlled),
         capability |-> both /\ told.capability # own.capability,
         package |-> both /\ told.package # own.package,
         version |-> Uninstalled(fixture, result) /\ told.versioned,
         broken |-> both /\ told.state = "broken",
         contract |-> Signature(result)
                        # Contract(result.id, scope,
                                   IF Uninstalled(fixture, result) THEN "unavailable"
                                   ELSE "available")]
      derived == [status |-> result.evaluation_status # status,
                  passed |-> result.passed # (status \in {"pass", "advisory"})]
  IN {f \in DOMAIN derived : derived[f]}
       \cup IF result.id \notin FixtureIds THEN {} ELSE {f \in DOMAIN bound : bound[f]}

RequiredFixtures(scope) ==
  {f.id : f \in {x \in Fixtures :
                     scope = "complete" \/ (x.advanced # None /\ x.advanced.package # None)}}

Recounted(results) ==
  LET having(s) == Cardinality({r \in results : DerivedStatus(r) = s})
  IN [dataset_size |-> Cardinality(results), cases_passed |-> having("pass"),
      cases_failed |-> having("fail"), cases_advisory |-> having("advisory"),
      cases_skipped |-> having("skipped"),
      cases_invalid |-> Cardinality({r \in results : r.category = "invalid_input"}),
      cases_abstained |-> Cardinality({r \in results : r.actual_status = "abstained"})]

CapabilityCounts(results, capability) ==
  LET having(s) == Cardinality({r \in results : r.capability = capability
                                                 /\ DerivedStatus(r) = s})
  IN [capability |-> capability,
      cases |-> Cardinality({r \in results : r.capability = capability}),
      passed |-> having("pass"), failed |-> having("fail"), advisory |-> having("advisory")]

\* The capabilities a report summarizes wrongly, or not at all.
SummaryFaults(report) ==
  LET counted == {r.capability : r \in report.results}
      told == {s.capability : s \in report.capabilities}
  IN Cardinality({c \in counted \cap told :
                    CapabilityCounts(report.results, c) \notin report.capabilities})
       + (IF counted = told THEN 0 ELSE 1)
       + (IF Cardinality(told) = Cardinality(report.capabilities) THEN 0 ELSE 1)

NativeMetrics(report) ==
  LET seen == {r.id : r \in report.results}
      values == Recounted(report.results)
      failures ==
        Cardinality(RequiredFixtures(report.scope) \ seen)
          + Cardinality(seen \ RequiredFixtures(report.scope))
          + (Cardinality(report.results) - Cardinality(seen))
          + MapThenSumSet(LAMBDA r : Cardinality(NativeFaults(r, report.scope)), report.results)
          + Cardinality({k \in DOMAIN values : report.counts[k] # values[k]})
          + SummaryFaults(report)
  IN Prefixed(<<"statistics">>, [k \in DOMAIN values |-> Count(values[k])])
       @@ Prefixed(<<"statistics", "failures">>, [case_inventory |-> Count(failures)])

StatisticsDimensions ==
  {"interface_leakage", "exception_normalization", "unsupported_inference", "data_leakage",
   "dependency", "reference_accuracy", "abstention", "assumptions", "bayesian_semantics",
   "diagnostics", "estimand", "heterogeneity_safety", "identification", "provenance",
   "uncertainty", "determinism", "plan_integrity", "status", "telemetry_privacy"}

\* What counts against a dimension, in a report of either schema.
FailedChecks(report, dimension) ==
  MapThenSumSet(LAMBDA r : Cardinality({c \in r.checks : c.status = "fail"
                                                        /\ c.dimension = dimension}),
                report.results)

Nonfinite(report) ==
  MapThenSumSet(LAMBDA r : Cardinality({c \in r.checks : c.status = "fail"
                                            /\ c.rule = <<"statistics.reference.nonfinite">>}),
                report.results)

StatusCount(report, status) ==
  Cardinality({r \in report.results : r.evaluation_status = status})

FewestCases(report) ==
  LET cases(c) == Cardinality({r \in report.results : r.capability = c})
  IN IF report.results = {} THEN 0
     ELSE Min({cases(r.capability) : r \in report.results})

ReportedMetrics(report) ==
  Prefixed(<<"statistics">>,
           [k \in DOMAIN report.counts |-> Count(report.counts[k])]
             @@ [overall_status |-> Text(report.overall_status),
                 minimum_cases_per_capability |-> Count(FewestCases(report))])
    @@ Prefixed(<<"statistics", "failures">>,
                [d \in StatisticsDimensions |-> Count(FailedChecks(report, d))]
                  @@ [nonfinite |-> Count(Nonfinite(report))])
    @@ Prefixed(<<"statistics", "performance">>,
                [advisory_findings |-> Count(StatusCount(report, "advisory"))])

\* The recomputed counters replace the reported ones.
AllMetrics(report, workflow) ==
  IF workflow = None THEN None
  ELSE NativeMetrics(report) @@ workflow @@ ReportedMetrics(report)

StatisticalMetrics(report) ==
  IF report.schema \notin {"1", "2"} \/ report.run_status = "infrastructure_fail" THEN None
  ELSE IF report.schema = "1" THEN ReportedMetrics(report)
  ELSE AllMetrics(report, WorkflowMetrics(report))

(***************************************************************************)
(* A report by its format.                                                 *)
(***************************************************************************)
Adapted(format, report) ==
  CASE format = "rag_markdown" -> RagMetrics(report)
    [] format = "agent_json" -> AgentMetrics(report, "agent")
    [] format = "agent_e2e_json" -> AgentMetrics(report, "agent_e2e")
    [] format = "ragas_json" -> RagasMetrics(report)
    [] format = "deepeval_json" -> DeepevalMetrics(report)
    [] format = "prompt_regression_json" -> PromptRegressionMetrics(report)
    [] format = "factuality_json" -> FactualityMetrics(report)
    [] format = "statistical_baseline_json" -> StatisticalMetrics(report)

-----------------------------------------------------------------------------
(***************************************************************************)
(* The quality policy: what its file may say (policy/config.py), how its   *)
(* rules are applied to the reports there are (policy/evaluator.py), and   *)
(* what the command makes of the result (run_quality_policy.py).           *)
(*                                                                         *)
(* files is a function from the path of a report to what the file holds:   *)
(* None when there is no file, Broken when its writing was cut short.      *)
(***************************************************************************)
Formats == {"agent_json", "agent_e2e_json", "rag_markdown", "agent_markdown",
            "agent_e2e_markdown", "ragas_json", "deepeval_json", "prompt_regression_json",
            "factuality_json", "statistical_baseline_json"}
Operators == {"gte", "lte", "eq"}
Severities == {"warning", "fail", "critical"}

\* load_quality_policy: what makes a policy that can be used.
PolicyOK(policy) ==
  /\ policy # None
  /\ DOMAIN policy.sources # {}
  /\ \A s \in DOMAIN policy.sources :
       policy.sources[s].path # None /\ policy.sources[s].format \in Formats
  /\ policy.metrics # <<>>
  /\ \A i \in DOMAIN policy.metrics :
       LET m == policy.metrics[i]
       IN /\ m.id # <<>> /\ m.source \in DOMAIN policy.sources
          /\ m.operator \in Operators /\ m.severity \in Severities

(***************************************************************************)
(* The rules a policy must keep: the last rule of a name speaks for it.    *)
(* Its tolerance and its source are not looked at.                         *)
(***************************************************************************)
Guarded == {<<"factuality", "findings", c>> :
              c \in {"fabricated_revenue_or_roi", "fabricated_statistical_significance",
                     "fabricated_experiment_result",
                     "contradiction_with_structured_experiment_data"}}

KeepsInvariants(policy) ==
  \A id \in Guarded :
    LET own == {i \in DOMAIN policy.metrics : policy.metrics[i].id = id}
    IN \E i \in own :
         LET m == policy.metrics[i]
         IN /\ \A j \in own : j <= i
            /\ m.operator = "lte" /\ m.value = Count(0)
            /\ m.severity = "critical" /\ m.required

(***************************************************************************)
(* Applying the rules.                                                     *)
(***************************************************************************)
OrBroken(metrics) == IF metrics = None THEN Broken ELSE metrics

\* load_source: None is a file that is not there, Broken one that is refused.
LoadSource(source, files) ==
  IF files[source.path] \in {None, Broken} THEN files[source.path]
  ELSE OrBroken(Adapted(source.format, files[source.path]))

Compare(observed, rule) ==
  LET numbers == observed[1] = "number" /\ rule.value[1] = "number"
  IN CASE rule.operator = "eq" ->
            IF numbers THEN (observed[2] - rule.value[2]) \in -rule.tolerance..rule.tolerance
            ELSE observed = rule.value
       [] rule.operator = "gte" -> numbers /\ observed[2] >= rule.value[2] - rule.tolerance
       [] OTHER -> numbers /\ observed[2] <= rule.value[2] + rule.tolerance

\* A rule without an observation fails when it is required, else is skipped.
RuleStatus(rule, metrics) ==
  IF metrics = None \/ rule.id \notin DOMAIN metrics \/ metrics[rule.id].status = "skipped"
  THEN IF rule.required THEN "fail" ELSE "skipped"
  ELSE IF Compare(metrics[rule.id].value, rule) THEN "pass"
  ELSE IF rule.severity = "warning" THEN "warning" ELSE "fail"

\* The worst of some statuses; skipped when there is nothing else.
Rollup(statuses) ==
  IF "fail" \in statuses THEN "fail"
  ELSE IF "warning" \in statuses THEN "warning"
  ELSE IF statuses \subseteq {"skipped"} THEN "skipped" ELSE "pass"

\* A rule, by its place, with its status; loaded pairs a source with its
\* metrics.
RuleResults(rules, loaded) ==
  {<<i, RuleStatus(rules[i], (CHOOSE l \in loaded : l[1] = rules[i].source)[2])>> :
     i \in DOMAIN rules}

PolicyResult(rules, judged, sources) ==
  LET told(status) == {rules[j[1]].id : j \in {k \in judged : k[2] = status}}
      categories ==
        [c \in {rules[i].category : i \in DOMAIN rules} |->
           Rollup({j[2] : j \in {k \in judged : rules[k[1]].category = c}})]
  IN [overall_status |-> Rollup({categories[c] : c \in DOMAIN categories}),
      categories |-> categories,
      violations |-> told("fail"), warnings |-> told("warning"), skipped |-> told("skipped"),
      loaded_sources |-> sources]

Applied(rules, loaded) ==
  IF \E l \in loaded : l[2] = Broken THEN None
  ELSE PolicyResult(rules, RuleResults(rules, loaded),
                    {l[1] : l \in {k \in loaded : k[2] # None}})

\* Every source is loaded once.
EvaluatePolicy(policy, files) ==
  Applied(policy.metrics,
          {<<s, LoadSource(policy.sources[s], files)>> : s \in DOMAIN policy.sources})

(***************************************************************************)
(* The command.  It writes its reports before it decides how it exits, and *)
(* none when evaluating raised.                                            *)
(***************************************************************************)
Arguments == [warning_policy : {"allow", "fail"}, warn_only : BOOLEAN]

PolicyExit(result, arguments) ==
  IF result = None THEN 2
  ELSE IF arguments.warn_only THEN 0
  ELSE IF \/ result.overall_status = "fail"
          \/ result.overall_status = "warning" /\ arguments.warning_policy = "fail"
  THEN 1 ELSE 0

PolicyOutcomeOf(result, arguments) ==
  [report |-> result, exit |-> PolicyExit(result, arguments)]

PolicyCommand(policy, files, arguments) ==
  PolicyOutcomeOf(IF PolicyOK(policy) THEN EvaluatePolicy(policy, files) ELSE None, arguments)
==============================================================================
