---------------------------- MODULE ReferenceCases ----------------------------
(***************************************************************************)
(* The statistical baseline (packages/evals/statistical): every reference  *)
(* case is executed, executed again and executed on reordered rows, and    *)
(* what comes back is checked against the reference the repository pins.   *)
(*                                                                         *)
(* What an execution returns is an outcome:                                *)
(*   status, method, reason     as the payload of the method states them   *)
(*   diagnostics, warnings      sequences of [code, status], and of codes  *)
(*   assumptions                [code, status]                             *)
(*   values                     numbers by path, the interval among them   *)
(*   parts                      the other parts of the payload there are,  *)
(*                              each by the name of the check that looks   *)
(*                              for it                                     *)
(*   telemetry                  the forbidden keys its telemetry carries   *)
(***************************************************************************)
EXTENDS WorkflowSuite

Observational == {"ipw_ate", "ipw_att", "causal_identification", "propensity_score",
                  "observational_coverage"}
ObservationalEffects == {"difference_in_differences", "ipw_ate", "ipw_att"}
Bayesian == {"bayesian_binary", "bayesian_continuous"}
Randomized == {"randomized_binary", "randomized_continuous"}
MethodChecked == {"cuped", "difference_in_differences", "sequential"} \cup Bayesian
                   \cup {"ipw_ate", "ipw_att", "causal_identification", "propensity_score"}

\* A check of a case: what it is called, the dimension it counts in, its rule.
CheckAt(id, dimension, status) ==
  [id |-> id, dimension |-> dimension, rule |-> id, status |-> status]
ExactAt(id, dimension, passed) == CheckAt(id, dimension, IF passed THEN "pass" ELSE "fail")
Exact(name, dimension, passed) == ExactAt(<<name>>, dimension, passed)
ExactAll(dimension, verdict) ==
  {Exact(name, dimension, verdict[name]) : name \in DOMAIN verdict}
Advisory(name, dimension) == CheckAt(<<name>>, dimension, "advisory")

CodesOf(items) == [i \in DOMAIN items |-> items[i].code]
Finite(o) == o # None /\ o # NaN
ValueAt(outcome, path) == PathValue(outcome.values, path)

(***************************************************************************)
(* Expected values: present, a number, finite and within the tolerance; a  *)
(* value without a tolerance must be exactly the expected one.             *)
(***************************************************************************)
ExpectedValueCheck(outcome, expected) ==
  LET o == ValueAt(outcome, expected.path)
      verdict ==
        IF o = None THEN <<"missing_field", FALSE>>
        ELSE IF expected.tolerance = None THEN <<"exact", o = expected.value>>
        ELSE IF o[1] = "text" THEN <<"numeric_type", FALSE>>
        ELSE IF o = NaN THEN <<"statistics.reference.nonfinite", FALSE>>
        ELSE <<"numeric_tolerance",
               (o[2] - expected.value[2]) \in -expected.tolerance..expected.tolerance>>
  IN [Exact(expected.path, "reference_accuracy", verdict[2]) EXCEPT !.rule = <<verdict[1]>>]

(***************************************************************************)
(* Diagnostics.  Some reasons to abstain count as diagnostics, some states *)
(* of a covariate adjustment as warnings.                                  *)
(***************************************************************************)
ReasonAlias == [continuous_arm_inadequate |-> "inadequate_continuous_evidence",
                missingness_exceeds_threshold |-> "excessive_covariate_missingness",
                post_treatment_leakage |-> "post_treatment_covariate"]

ActualDiagnostics(outcome) ==
  outcome.diagnostics \o (IF outcome.reason \in DOMAIN ReasonAlias
                          THEN <<[code |-> ReasonAlias[outcome.reason], status |-> None]>>
                          ELSE <<>>)

ActualWarnings(case, outcome) ==
  LET alias(test, code) == IF case.capability = "cuped" /\ test THEN <<code>> ELSE <<>>
  IN outcome.warnings
       \o alias(outcome.status = "degraded_precision", "negative_variance_reduction")
       \o alias(outcome.status = "no_improvement", "weak_outcome_covariate_correlation")
       \o alias("rows_removed" \in outcome.parts, "sample_rows_removed")

\* Codes are compared as wholes unless the method may add some of its own.
CodesMatch(expected, actual, additional) ==
  \/ additional /\ expected \subseteq ToSet(actual)
  \/ ~additional /\ expected = ToSet(actual) /\ Len(actual) = Cardinality(expected)

\* A repetition without diagnostics is compared with the first execution
\* itself: only the fingerprints tell the two apart.
DiagnosticChecks(case, outcome, repeated) ==
  LET own == ActualDiagnostics(outcome)
      again == ActualDiagnostics(repeated)
      warnings == ActualWarnings(case, outcome)
      additional == case.capability \in {"cuped", "difference_in_differences", "sequential"}
                                          \cup Bayesian \cup Observational
  IN ExactAll("diagnostics",
       [diagnostic_codes |-> CodesMatch(case.diagnostics, CodesOf(own), additional),
        advisory_codes |-> CodesMatch(case.advisories, warnings, additional),
        diagnostic_ordering |->
          CodesOf(own) = CodesOf(IF again = <<>> THEN own ELSE again),
        diagnostic_contradiction |->
          ~\E i, j \in DOMAIN own : own[i].code = own[j].code /\ own[i].status # own[j].status])

(***************************************************************************)
(* Abstention: an outcome that abstains says why and shows no number.      *)
(***************************************************************************)
ActualStatus(case, outcome) ==
  IF case.capability = "descriptive_statistics" THEN "completed"
  ELSE IF case.capability = "sequential" /\ outcome.status = "abstain" THEN "abstained"
  ELSE outcome.status

StatedReason(case, outcome) ==
  IF /\ outcome.reason \in DOMAIN ReasonAlias
     /\ case.capability \in {"cuped", "ipw_ate", "ipw_att", "sequential"} \cup Bayesian
  THEN ReasonAlias[outcome.reason] ELSE outcome.reason

AbstentionChecks(case, outcome) ==
  LET status == ActualStatus(case, outcome)
      bayes == case.capability \in Bayesian
  IN ExactAll("abstention",
       IF ~case.abstains THEN [abstention_state |-> status # "abstained"]
       ELSE [abstention_state |-> status # "completed",
             abstention_reason |-> StatedReason(case, outcome) = case.reason,
             abstention_point_estimate |-> ValueAt(outcome, "point") = None,
             abstention_p_value |-> bayes \/ ValueAt(outcome, "p_value") = None,
             abstention_interval |-> bayes \/ ValueAt(outcome, "interval") = None,
             abstention_posterior_probability |->
               ~bayes \/ ValueAt(outcome, "superiority") = None])

(***************************************************************************)
(* What a successful outcome must show of its uncertainty and assumptions. *)
(***************************************************************************)
SuccessOf(capability) ==
  CASE capability = "cuped" -> {"completed", "no_improvement", "degraded_precision"}
    [] capability = "sequential" -> {"continue", "efficacy", "no_rejection"}
    [] capability \in ObservationalEffects \cup Bayesian -> {"completed"}
    [] OTHER -> {}

FiniteInterval(outcome) ==
  LET i == ValueAt(outcome, "interval")
  IN i # None /\ Finite(i.lower) /\ Finite(i.upper) /\ i.lower[2] <= i.upper[2]

\* Numbers are looked for among the values, the rest among the parts.
RequiredNumbers(capability) ==
  {"point"}
    \cup (IF capability = "sequential" THEN {} ELSE {"standard_error"})
    \cup (IF capability \in Randomized \cup ObservationalEffects THEN {"p_value"} ELSE {})
RequiredParts(capability) ==
  CASE capability = "cuped" -> {"comparable_unadjusted", "variance_reduction"}
    [] capability = "difference_in_differences" -> {"did_cluster_count"}
    [] capability = "sequential" -> {"sequential_boundary", "cumulative_alpha", "look_metadata"}
    [] capability \in {"ipw_ate", "ipw_att"} ->
         {"ipw_variance_method", "ipw_finite_sample_correction"}
    [] capability \in Bayesian -> {"treatment_prior", "control_prior", "treatment_posterior",
                                   "control_posterior", "posterior_method"}
    [] OTHER -> {"method", "estimand", "treatment_count", "control_count"}

UncertaintyChecks(case, outcome) ==
  LET successful == IF case.capability \in Randomized THEN {"completed"}
                    ELSE SuccessOf(case.capability)
      interval == ValueAt(outcome, "interval")
  IN IF ActualStatus(case, outcome) \notin successful THEN {}
     ELSE {Exact(n, "uncertainty", ValueAt(outcome, n) # None) :
             n \in RequiredNumbers(case.capability)}
            \cup {Exact(p, "uncertainty", p \in outcome.parts) :
                    p \in RequiredParts(case.capability)}
            \cup ExactAll("uncertainty",
                   [interval |-> FiniteInterval(outcome),
                    level |-> /\ interval # None /\ interval.level # None
                              /\ case.capability \in Randomized =>
                                   interval.level \in 1..999
                                     /\ Number(interval.level) = ValueAt(outcome, "level")])

RequiredAssumptions(case) ==
  case.assumptions \cup
    CASE case.capability = "cuped" ->
           {"random_assignment", "covariate_pre_treatment", "estimand_preserved"}
      [] case.capability = "difference_in_differences" ->
           {"no_anticipation", "parallel_trends", "stable_unit_population"}
      [] case.capability = "sequential" -> {"plan_preregistered", "plan_immutable"}
      [] case.capability \in Bayesian -> {"prior_family", "likelihood_family"}
      [] OTHER -> {}

AssumptionChecks(case, outcome) ==
  IF \/ ActualStatus(case, outcome) \notin
          {"completed", "no_improvement", "degraded_precision", "continue", "efficacy",
           "no_rejection"}
     \/ RequiredAssumptions(case) = {}
  THEN {}
  ELSE {Exact("required_assumption_codes", "assumptions",
              RequiredAssumptions(case) \subseteq {a.code : a \in outcome.assumptions})}

(***************************************************************************)
(* Observational methods: the declarations an estimate rests on, that it   *)
(* is an estimate of what was declared, and that nothing was done to its   *)
(* weights unsaid.                                                         *)
(***************************************************************************)
Declarations == {"estimand", "target_population", "treatment", "outcome", "population",
                 "adjustment_set", "timing_information", "identification_status",
                 "evidence_limitations"}

ObservationalChecks(case, outcome) ==
  IF case.capability \notin ObservationalEffects \/ outcome.status # "completed" THEN {}
  ELSE {ExactAt(<<"identification", d>>, "identification", d \in outcome.parts) :
          d \in Declarations}
         \cup {ExactAt(<<"identification", "causal_assumptions">>, "identification",
                     outcome.assumptions # {}),
               ExactAt(<<"identification", "not_auto_verified">>, "identification",
                     ~\E a \in outcome.assumptions : a.status = "verified"),
               Exact("observational_estimand", "estimand", outcome.estimand = case.estimand),
               Exact("observational_target_population", "estimand",
                     outcome.population = case.population)}
         \cup (IF case.capability = "difference_in_differences" THEN {}
               ELSE {Exact("observational_weighting_formula", "estimand",
                           outcome.formula = case.estimand)})
         \cup {ExactAt(<<"provenance", t>>, "provenance",
                     (t \in outcome.configured) <=> (t \in outcome.recorded)) :
                 t \in {x \in {"stabilization", "clipping"} : outcome.weighted}}

PropensityChecks(case, outcome) ==
  IF case.capability # "propensity_score" \/ outcome.status # "completed" THEN {}
  ELSE {ExactAt(<<"provenance", t>>, "provenance",
              (t \in outcome.configured) <=> (t \in outcome.recorded)) :
          t \in {"trimming", "weight_capping"}}

SequentialChecks(case, outcome) ==
  IF case.capability # "sequential" THEN {}
  ELSE {Exact("sequential_plan_integrity", "plan_integrity",
              outcome.plan_integrity = (IF outcome.status = "invalid" THEN "invalid"
                                        ELSE "valid"))}

BayesianChecks(case, outcome) ==
  IF case.capability \notin Bayesian \/ outcome.status # "completed" THEN {}
  ELSE ExactAll("bayesian_semantics",
         [likelihood_recorded |-> "likelihood" \in outcome.parts,
          prior_provenance_recorded |-> "prior_provenance" \in outcome.parts,
          no_p_value |-> ValueAt(outcome, "p_value") = None,
          no_confidence_interval |-> "confidence_interval" \notin outcome.parts,
          rope_declaration_consistent |->
            "rope_probability" \in outcome.parts => "rope" \in outcome.parts])

MethodAdvisories(case, outcome) ==
  IF case.category \in {"invalid_input", "abstention"} THEN {}
  ELSE {CheckAt(<<"advisory", c>>, "statistical_performance", "advisory") :
          c \in ToSet(ActualWarnings(case, outcome))}

TelemetryChecks(case, outcome) ==
  IF case.category = "skipped" THEN {}
  ELSE {Exact("telemetry_privacy", "telemetry_privacy", outcome.telemetry = {})}

CoverageChecks(case, outcome) ==
  IF case.capability # "observational_coverage" \/ case.coverage = None THEN {}
  ELSE LET o == ValueAt(outcome, "interval_coverage")
       IN {IF Finite(o) /\ o[2] \in case.coverage[1]..case.coverage[2]
           THEN Exact("observational_interval_coverage", "coverage", TRUE)
           ELSE Advisory("observational_interval_coverage", "coverage")}

(***************************************************************************)
(* One case.  executions: the first, the repetition and the one on         *)
(* reordered rows.                                                         *)
(***************************************************************************)
NativeChecks(case, executions) ==
  LET first == executions[1]
      status == ActualStatus(case, first)
  IN {Exact("status", "status", status = case.expected_status)}
       \cup (IF case.method = None THEN {}
             ELSE {Exact("method", "reference_accuracy", first.method = case.method)})
       \cup {ExpectedValueCheck(first, v) : v \in case.expected}
       \cup DiagnosticChecks(case, first, executions[2])
       \cup AbstentionChecks(case, first)
       \cup UncertaintyChecks(case, first)
       \cup (IF case.capability \notin MethodChecked THEN {}
             ELSE AssumptionChecks(case, first) \cup ObservationalChecks(case, first)
                    \cup PropensityChecks(case, first) \cup SequentialChecks(case, first)
                    \cup BayesianChecks(case, first) \cup TelemetryChecks(case, first)
                    \cup MethodAdvisories(case, first))
       \cup ExactAll("determinism", [repeatability |-> executions[2] = first,
                                     row_order_invariance |-> executions[3] = first])
       \cup CoverageChecks(case, first)

\* The verdict of a case; one that is skipped on purpose can still fail.
CaseVerdict(category, checks) ==
  LET some(s) == \E c \in checks : c.status = s
  IN IF some("fail") THEN "fail"
     ELSE IF category = "skipped" THEN "skipped"
     ELSE IF some("advisory") THEN "advisory"
     ELSE IF checks # {} /\ \A c \in checks : c.status = "skipped" THEN "skipped"
     ELSE "pass"

EvaluateNativeCase(case, executions) ==
  LET checks == NativeChecks(case, executions)
      verdict == CaseVerdict(case.category, checks)
  IN [id |-> case.id, capability |-> case.capability, category |-> case.category,
      declared |-> case.declared, expected_status |-> case.expected_status,
      actual_status |-> ActualStatus(case, executions[1]),
      evaluation_status |-> verdict, passed |-> verdict \in {"pass", "advisory"},
      checks |-> checks, advanced |-> None]
=============================================================================
