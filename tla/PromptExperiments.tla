-------------------------- MODULE PromptExperiments --------------------------
(***************************************************************************)
(* Offline experiments with the versions of a prompt                       *)
(* (packages/evals/prompt_experiments): which definitions are accepted,    *)
(* which variant a key is assigned, and what is recommended from the       *)
(* answers each version gave to the same recorded retrievals.              *)
(*                                                                         *)
(* Weights and rates are in thousandths.  The versions of a prompt are a   *)
(* function from version to status; a sample has, per version, the output  *)
(* of the model or None, and the output carries its factuality case.       *)
(***************************************************************************)
EXTENDS FactualityChecks

PrimaryMetrics ==
  {"answer_completeness", "citation_coverage", "deterministic_expected_answer_checks",
   "factuality_pass_rate", "latency_ms", "prompt_rendering_success", "regression_pass_rate",
   "required_output_validity", "response_availability", "unsupported_claim_rate"}

GuardrailMetrics ==
  {"citation_coverage_non_regression", "critical_factuality_violations",
   "fabricated_revenue_or_roi", "fabricated_significance", "failure_rate_tolerance",
   "latency_tolerance", "structured_output_validity_non_regression"}

TreatmentLimit == 3

\* The variants of a definition; the control first.
Variants(definition) ==
  {<<"control", definition.control>>} \cup
    {<<"treatment", v>> : v \in ToSet(definition.treatments)}

\* The allocation is a sequence of <<variant, weight>>.
Weights(allocation) == [i \in DOMAIN allocation |-> allocation[i][2]]
WeightUpTo(allocation, n) ==
  FoldSeq(LAMBDA w, sum : w + sum, 0, SubSeq(Weights(allocation), 1, n))

Usable(definition, versions, v) ==
  v \in DOMAIN versions /\ (versions[v] = "deprecated" => definition.deprecated)

ValidDefinition(definition, versions, datasets) ==
  /\ definition.prompt = "rag.answer"
  /\ definition.primary \in PrimaryMetrics
  /\ definition.dataset \in datasets
  /\ definition.unit \in {"dataset_case", "explicit_runtime_key"}
  /\ definition.seed # ""
  /\ Len(definition.treatments) \in 1..TreatmentLimit
  /\ IsInjective(definition.treatments)
  /\ definition.control \notin ToSet(definition.treatments)
  /\ {a[1] : a \in ToSet(definition.allocation)} = Variants(definition)
  /\ \A a \in ToSet(definition.allocation) : a[2] > 0
  /\ WeightUpTo(definition.allocation, Len(definition.allocation)) = 1000
  /\ definition.guardrails \subseteq GuardrailMetrics
  /\ \A v \in {definition.control} \cup ToSet(definition.treatments) :
       Usable(definition, versions, v)

(***************************************************************************)
(* Assignment: bucket is where the hash of experiment, seed and key falls. *)
(***************************************************************************)
Heaviest(allocation) ==
  LET most == {a \in ToSet(allocation) : \A b \in ToSet(allocation) : b[2] <= a[2]}
  IN IF \E a \in most : a[1][1] = "control" THEN CHOOSE a \in most : a[1][1] = "control"
     ELSE allocation[CHOOSE i \in DOMAIN allocation :
                       /\ allocation[i] \in most
                       /\ \A j \in 1..i - 1 : allocation[j] \notin most]

SelectVariant(definition, bucket) ==
  LET allocation == definition.allocation
      reached == {i \in DOMAIN allocation : bucket <= WeightUpTo(allocation, i)}
  IN IF definition.strategy = "fixed" THEN Heaviest(allocation)[1]
     ELSE IF reached = {} THEN Last(allocation)[1]
     ELSE allocation[CHOOSE i \in reached : \A j \in reached : i <= j][1]

\* An exposure is recorded once per variant, key and trace.
RecordOnce(exposures, exposure) ==
  IF exposure \in ToSet(exposures) THEN exposures ELSE Append(exposures, exposure)

\* An explicit version wins over the experiment's, which wins over the active one.
ResolveVersion(versions, explicit, assigned) ==
  LET wanted == IF explicit # None THEN {explicit}
                ELSE IF assigned # None THEN {assigned}
                ELSE {v \in DOMAIN versions : versions[v] = "active"}
  IN IF wanted # {} /\ wanted \subseteq DOMAIN versions THEN CHOOSE v \in wanted : TRUE ELSE None

(***************************************************************************)
(* The runs: the control first, whose retrievals the treatments replay.    *)
(***************************************************************************)
VersionOutput(sample, version) == IF sample.retrieved THEN sample.outputs[version] ELSE None

VersionRun(samples, version) ==
  [i \in DOMAIN samples |->
     [question |-> samples[i].question, response |-> VersionOutput(samples[i], version)]]

FactualityOf(run) ==
  FactualityReport(
    [i \in DOMAIN run |->
       [answer |-> IF run[i].response = None THEN None ELSE run[i].response.case]],
    [critical |-> 0, numerical |-> 0, financial |-> 0, statistical |-> 0, coverage |-> 1000,
     medium |-> 0, thresholds |-> <<>>], {})

RegressionOf(samples, control, version) ==
  PromptRegressionReport(
    [i \in DOMAIN samples |->
       [question |-> samples[i].question, ask |-> samples[i].ask,
        retrieved |-> samples[i].retrieved,
        baseline |-> samples[i].outputs[control], candidate |-> samples[i].outputs[version]]])

\* Regressions and failures are both taken off, so a case may count twice.
RegressionPassRate(report) ==
  LET s == report.summary
      passed == s.cases_run - s.regressions - s.failures
  IN IF s.cases_run = 0 THEN 1000 ELSE IF passed < 0 THEN 0 ELSE Share(passed, s.cases_run)

CountOf(counts, key) == IF key \in DOMAIN counts THEN counts[key] ELSE 0

\* The control is not compared with itself: its pass rate is full.
VariantMetrics(samples, definition, version, run, facts) ==
  LET answered == Answered(run)
      size == Cardinality(DOMAIN run)
  IN [sample_size |-> size,
      metrics |->
        [citation_coverage |->
           Average([i \in answered |-> CitationCoverage(run[i].question, run[i].response)]),
         factuality_pass_rate |-> Share(CountOf(facts.statuses, "pass"), size),
         latency_ms |-> Average([i \in answered |-> run[i].response.latency_ms]),
         prompt_rendering_success |-> Share(Cardinality(answered), size),
         regression_pass_rate |->
           IF version = definition.control THEN 1000
           ELSE RegressionPassRate(RegressionOf(samples, definition.control, version)),
         response_availability |->
           Share(Cardinality({i \in answered : run[i].response.text}), size)],
      critical |-> CountOf(facts.severities, "critical"),
      financial |-> CountOf(facts.categories, "fabricated_revenue_or_roi"),
      significance |-> CountOf(facts.categories, "fabricated_statistical_significance")]

VariantOf(samples, definition, version, run) ==
  VariantMetrics(samples, definition, version, run, FactualityOf(run))

VariantResult(samples, definition, version) ==
  VariantOf(samples, definition, version,
            VersionRun(SelectSeq(samples, LAMBDA s : ~s.ask), version))

(***************************************************************************)
(* The recommendation.  The same guardrails are applied whichever the      *)
(* definition names, and a metric nobody measures is unchanged.            *)
(***************************************************************************)
GuardrailBroken(control, treatment) ==
  \/ treatment.critical > 0 \/ treatment.financial > 0 \/ treatment.significance > 0
  \/ treatment.metrics.citation_coverage < control.metrics.citation_coverage
  \/ treatment.metrics.response_availability < control.metrics.response_availability

Measured(result, metric) == IF metric \in DOMAIN result.metrics THEN result.metrics[metric] ELSE 0

RecommendVariant(definition, control, treatment) ==
  LET delta == Measured(treatment, definition.primary) - Measured(control, definition.primary)
  IN IF GuardrailBroken(control, treatment) THEN "retain_control"
     ELSE IF treatment.sample_size < 1 \/ control.sample_size < 1 THEN "invalid_experiment"
     ELSE IF delta > 0 THEN "recommend_treatment"
     ELSE IF delta < 0 THEN "retain_control" ELSE "inconclusive"

\* The first treatment that is recommended, else a reason to keep the control.
SelectRecommendation(outcomes) ==
  IF \E i \in DOMAIN outcomes : outcomes[i] = "recommend_treatment" THEN "recommend_treatment"
  ELSE IF \E i \in DOMAIN outcomes : outcomes[i] = "retain_control" THEN "retain_control"
  ELSE outcomes[1]

\* None when the definition is refused: nothing is evaluated or written then.
ExperimentOf(definition, control, treatments) ==
  [control |-> control, treatments |-> treatments,
   outcome |-> SelectRecommendation([i \in DOMAIN treatments |->
                                       RecommendVariant(definition, control, treatments[i])])]

ExperimentReport(definition, versions, datasets, samples) ==
  IF ~ValidDefinition(definition, versions, datasets) THEN None
  ELSE ExperimentOf(definition, VariantResult(samples, definition, definition.control),
                [i \in DOMAIN definition.treatments |->
                   VariantResult(samples, definition, definition.treatments[i])])
=============================================================================
