----------------------------- MODULE AdvancedCases -----------------------------
(***************************************************************************)
(* The advanced causal cases of the statistical baseline                   *)
(* (packages/evals/statistical/advanced): every adapter is executed twice  *)
(* on a known fixture; what it returns is checked against the case, what   *)
(* it was seen to do against what it says it did, and the estimates of two *)
(* implementations against each other where they estimate the same thing.  *)
(*                                                                         *)
(* A case names a capability [id, adapter, method, package], a scenario, a *)
(* seed, and whether the package is a controlled double of the real one.   *)
(* An execution is [result, calls, records]: the result of the adapter,    *)
(* the rows its nuisance models were seen to fit and to score, and what    *)
(* its telemetry carried; None when it raised.                             *)
(***************************************************************************)
EXTENDS ReferenceCases

Dowhy(capability) == capability.package = "dowhy"
Heterogeneous(capability) ==
  capability.id \in {"repository_hte", "econml_hte"}
Refuters == {"dowhy_placebo", "dowhy_common_cause", "dowhy_subset"}

Skipped(name, dimension) == CheckAt(<<name>>, dimension, "skipped")

(***************************************************************************)
(* What a result must show.                                                *)
(***************************************************************************)
CommonChecks(case, result) ==
  {Exact("contract", "status", result.valid),
   Exact("status", "status", result.status = case.expected_status),
   Exact("diagnostics", "diagnostics", case.diagnostics \subseteq result.codes),
   Exact("provenance", "provenance", result.provenance),
   Exact("unsupported_inference", "unsupported_inference",
         ~( /\ result.status = "completed"
            /\ \/ "UNSUPPORTED_INFERENCE" \in result.codes
               \/ case.advanced.scenario = "unsupported_inference"))}

\* A refusal gives its reason and no effect, of a subgroup neither.
RefusalChecks(case, result) ==
  {Exact("abstention_reason", "abstention", result.reason = case.reason),
   Exact("abstention", "abstention",
         /\ result.point = None /\ result.inference = None
         /\ \A g \in result.groups :
              g.status = "completed" \/ (g.point = None /\ g.interval = None /\ g.reason # None)
         /\ result.reason # None /\ result.codes # {}),
   Skipped("uncertainty", "uncertainty")}

ValidUncertainty(estimate) ==
  LET i == estimate.interval
  IN /\ Finite(estimate.point) /\ Finite(estimate.standard_error)
     /\ estimate.standard_error[2] >= 0
     /\ i # None /\ Finite(i.lower) /\ Finite(i.upper)
     /\ i.lower[2] <= estimate.point[2] /\ estimate.point[2] <= i.upper[2]
     /\ i.level \in 1..999

IdentificationChecks(case, result) ==
  {Exact("identification", "identification", result.identified),
   Exact("estimand", "estimand", result.estimand = case.estimand),
   Exact("invalid_success", "status", result.reason = None)}
    \cup (IF case.advanced.capability.id \notin {"repository_dml", "repository_hte", "econml_hte"}
          THEN {}
          ELSE {Exact("target_population", "estimand",
                      result.population = result.estimand_population)})
    \cup (IF case.advanced.capability.package = None THEN {}
          ELSE {Exact("adapter_provenance", "provenance",
                      result.adapter = case.advanced.capability.adapter)})

\* Identification and refutation: the graph, the adjustment set, and a delta
\* that is the difference of the two estimates.
DowhyChecks(case, result) ==
  LET capability == case.advanced.capability
  IN {Exact("graph", "identification", result.evidence.conditional),
      Exact("graph_provenance", "provenance",
            result.evidence.graph = result.declared.graph),
      Exact("adjustment", "estimand",
            result.evidence.adjustment = result.declared.adjustment),
      Skipped("uncertainty", "uncertainty")}
       \cup {Exact("refuter", "reference_accuracy",
                   /\ r.method = capability.method /\ r.seed = case.advanced.seed
                   /\ Finite(r.original) /\ Finite(r.new) /\ Finite(r.delta)
                   /\ r.delta[2] = r.new[2] - r.original[2]) : r \in result.refutations}
       \cup (IF capability.id \notin Refuters THEN {}
             ELSE {Exact("refuter_present", "status", Cardinality(result.refutations) = 1)})

\* Cross-fitting: every fold is scored by models fitted on the others.
RowsOf(plan) == UNION ToSet(plan.folds)
FoldChecks(case, result) ==
  LET plan == result.plan
      fits == result.fits
  IN ExactAll("data_leakage",
       [cross_fitting |->
          /\ plan # None /\ Len(plan.folds) >= 2 /\ Len(fits) = Len(plan.folds)
          /\ \A k \in DOMAIN fits :
               fits[k].train + fits[k].score = Cardinality(RowsOf(plan))])
       \cup ExactAll("provenance",
              [fold_seed |-> plan # None /\ plan.seed = case.advanced.seed,
               nuisance |-> fits # <<>> /\ \A k \in DOMAIN fits : fits[k].converged])
       \cup {Exact("method", "status", result.method = case.advanced.capability.method)}

SubgroupChecks(result) ==
  LET completed == {g \in result.groups : g.status = "completed"}
  IN {Exact("modifier", "data_leakage", result.modifier_timing = "pre_treatment"),
      Exact("group_assignment", "provenance", result.assignment # None),
      Exact("uncertainty", "uncertainty",
            completed # {} /\ \A g \in completed : ValidUncertainty(g)),
      Exact("multiplicity", "heterogeneity_safety",
            /\ result.correction = "holm"
            /\ \A g \in completed : g.adjusted # None /\ g.adjusted >= g.p_value)}

AverageEffectChecks(case, result) ==
  {Exact("uncertainty", "uncertainty",
         result.inference # None
           /\ ValidUncertainty([result.inference EXCEPT !.point = result.point])),
   Exact("overlap", "data_leakage", result.overlap \notin {None, "severe", "unavailable"})}
    \cup (IF case.advanced.capability.package # None THEN {}
          ELSE {Exact("residuals", "reference_accuracy", result.residuals)})

\* quality is None for the one capability that has no assessment of its own.
QualityChecks(quality) ==
  IF quality = None THEN {}
  ELSE {Exact("capability_quality", "status", quality.blocking = {})}
         \cup (IF quality.advisory = {} THEN {} ELSE {Advisory("limited_evidence", "evidence")})

PlausibilityChecks(case, result) ==
  {[Exact(v.path, "reference_accuracy",
          LET o == PathValue(result.values, v.path)
          IN Finite(o) /\ (o[2] - v.value[2]) \in -v.tolerance..v.tolerance)
      EXCEPT !.rule = <<"plausibility">>] : v \in case.expected}

ResultChecks(case, result) ==
  IF result.boundary # {} THEN {Exact("interface", "interface_leakage", FALSE)}
  ELSE {Exact("interface", "interface_leakage", TRUE)} \cup CommonChecks(case, result)
    \cup IF result.status # "completed" THEN RefusalChecks(case, result)
         ELSE IdentificationChecks(case, result) \cup QualityChecks(result.quality)
                \cup PlausibilityChecks(case, result)
                \cup (IF Dowhy(case.advanced.capability) THEN DowhyChecks(case, result)
                      ELSE FoldChecks(case, result)
                             \cup (IF Heterogeneous(case.advanced.capability)
                                   THEN SubgroupChecks(result)
                                   ELSE AverageEffectChecks(case, result)))

(***************************************************************************)
(* What an execution was seen to do: the rows every nuisance model was     *)
(* fitted on and scored are exactly those of its fold.                     *)
(***************************************************************************)
Roles == {"outcome", "treatment"}

CallKeepsFold(call, fold, universe) ==
  /\ IsInjective(call.train) /\ IsInjective(call.score)
  /\ ToSet(call.score) = fold
  /\ ToSet(call.train) = universe \ fold
  /\ ToSet(call.train) \cap ToSet(call.score) = {}

ObservedCrossFitting(calls, plan) ==
  \A role \in Roles :
    /\ Len(calls[role]) = Len(plan.folds)
    /\ \A k \in DOMAIN plan.folds :
         CallKeepsFold(calls[role][k], plan.folds[k], RowsOf(plan))

AuditExecution(case, execution) ==
  LET result == execution.result
      capability == case.advanced.capability
      plan == result.plan
      counts(k) == <<Cardinality(RowsOf(plan) \ plan.folds[k]), Cardinality(plan.folds[k])>>
  IN {Exact("request_integrity", "identification", result.request = case.request)}
       \cup IF result.status # "completed" THEN {}
            ELSE (IF capability.id \notin {"repository_dml", "repository_hte", "econml_hte"}
                  THEN {}
                  ELSE {Exact("executed_estimand", "estimand",
                              result.estimand = case.source_estimand)})
              \cup (IF Dowhy(capability) THEN {}
                    ELSE {Exact("fold_audit", "data_leakage",
                            /\ plan.sound /\ Len(result.fits) = Len(plan.folds)
                            /\ \A k \in DOMAIN result.fits :
                                 <<result.fits[k].train, result.fits[k].score>> = counts(k))})
              \cup (IF capability.package # None THEN {}
                    ELSE {Exact("observed_cross_fitting", "data_leakage",
                                ObservedCrossFitting(execution.calls, plan))})
              \cup (IF ~Heterogeneous(capability) THEN {}
                    ELSE {Exact("group_audit", "heterogeneity_safety",
                                <<result.assignment, result.group_counts>>
                                  = <<case.assignment, case.group_counts>>)})

Replayed(checks) == {[c EXCEPT !.id = Append(c.id, "replay")] : c \in checks}

(***************************************************************************)
(* One advanced case.                                                      *)
(***************************************************************************)
\* The scenarios that need the real package to be what they are.
RealScenarios == {"success", "homogeneous", "null", "inference_failure", "malformed",
                  "nonfinite"}
KnownCodes == {"ESTIMATION_FAILURE", "ESTIMATOR_FIT_FAILURE", "IDENTIFICATION_UNAVAILABLE",
               "INFERENCE_FAILURE", "INVALID_GRAPH", "MALFORMED_DOWHY_RESULT",
               "MODEL_CONSTRUCTION_FAILURE", "NONFINITE_ESTIMATE",
               "OPTIONAL_DEPENDENCY_UNAVAILABLE", "REFUTER_FAILURE", "UNSUPPORTED_INFERENCE",
               "INCOMPATIBLE_DEPENDENCY_RUNTIME", "assumption.unverified",
               "dml.crossfit.complete", "dml.degenerate_treatment_residual",
               "dml.identification.invalid", "dml.nuisance.fit_failure", "dml.overlap.severe",
               "hte.modifier.post_treatment", "hte.overlap.global_severe",
               "hte.subgroup.sparse_total"}

PackageState(capability, packages) ==
  IF capability.package = None THEN "not_required" ELSE packages[capability.package].state

Absent(case, result, packages) ==
  /\ PackageState(case.advanced.capability, packages) = "unavailable"
  /\ "OPTIONAL_DEPENDENCY_UNAVAILABLE" \in result.codes
  /\ ~case.advanced.controlled
  /\ case.advanced.scenario \in RealScenarios

\* Without the package the case is expected to refuse; whether that is enough
\* depends on whether the package was asked for.
AbsentChecks(case, result, required) ==
  LET expected == [case EXCEPT !.expected_status = "abstained",
                     !.reason = "OPTIONAL_DEPENDENCY_UNAVAILABLE",
                     !.diagnostics = {"OPTIONAL_DEPENDENCY_UNAVAILABLE"}]
  IN ResultChecks(expected, result)
       \cup {IF case.advanced.capability.package \in required
             THEN Exact("optional_dependency", "dependency", FALSE)
             ELSE Advisory("optional_dependency", "dependency"),
             Exact("absent_estimate", "abstention",
                   result.reason # None /\ result.point = None)}

ExecutedChecks(case, first, second, packages, required) ==
  LET result == first.result
      known == result.codes \cap KnownCodes
  IN {Exact("diagnostic_projection", "telemetry_privacy", known = result.codes),
      Exact("repeatability", "determinism", first.result = second.result),
      Exact("configuration_recorded", "provenance", result.configuration = case.configuration),
      Exact("privacy", "telemetry_privacy",
            \A e \in {first, second} : e.records # None /\ e.records = {})}
       \cup (IF Absent(case, result, packages) THEN AbsentChecks(case, result, required)
             ELSE ResultChecks(case, result) \cup AuditExecution(case, first)
                    \cup Replayed(AuditExecution(case, second)))
       \cup (IF "INCOMPATIBLE_DEPENDENCY_RUNTIME" \in known /\ ~case.advanced.controlled
             THEN {Exact("installed_runtime", "dependency", FALSE)} ELSE {})

\* An exception that crosses the boundary is a finding, and the only one.
AdvancedChecks(case, executions, packages, required) ==
  IF \E i \in 1..2 : executions[i] = None
  THEN {Exact("configuration", "provenance", case.seed_matters),
        Exact("failure_normalization", "exception_normalization", FALSE)}
  ELSE {Exact("configuration", "provenance", case.seed_matters),
        Exact("failure_normalization", "exception_normalization", TRUE)}
       \cup IF \E i \in 1..2 : executions[i].result.boundary # {}
            THEN {Exact("interface", "interface_leakage", FALSE)}
            ELSE ExecutedChecks(case, executions[1], executions[2], packages, required)

\* An advanced case is never skipped as a whole.
AdvancedVerdict(checks) ==
  IF \E c \in checks : c.status = "fail" THEN "fail"
  ELSE IF \E c \in checks : c.status = "advisory" THEN "advisory" ELSE "pass"

RuntimeBroken(checks) == \E c \in checks : c.id = <<"installed_runtime">>

EvaluateAdvancedCase(case, executions, packages, required) ==
  LET checks == AdvancedChecks(case, executions, packages, required)
      capability == case.advanced.capability
      verdict == AdvancedVerdict(checks)
      reached == \A i \in 1..2 : executions[i] # None /\ executions[i].result.boundary = {}
  IN [id |-> case.id, capability |-> case.capability, category |-> case.category,
      declared |-> case.declared, expected_status |-> case.expected_status,
      actual_status |-> IF reached THEN executions[1].result.status ELSE "error",
      evaluation_status |-> verdict, passed |-> verdict # "fail", checks |-> checks,
      advanced |->
        [capability |-> capability.id, package |-> capability.package,
         state |-> IF case.advanced.controlled THEN "controlled"
                   ELSE IF RuntimeBroken(checks) THEN "broken"
                   ELSE PackageState(capability, packages),
         versioned |-> capability.package # None /\ packages[capability.package].versioned]]

(***************************************************************************)
(* Two implementations of one estimate are compared only when both have    *)
(* one and their cases mean the same; a difference is advice.              *)
(***************************************************************************)
ComparedWith == [econml_dml |-> "repository_dml", econml_hte |-> "repository_hte"]
ComparisonTolerance == 250

Comparison(status) == [Skipped("comparison", "comparison") EXCEPT !.status = status]

Compared(case, baselineCase, result, baseline, executions) ==
  IF \/ baseline = None \/ result.actual_status # "completed"
     \/ baseline.actual_status # "completed"
  THEN {Comparison("skipped")}
  ELSE {LET left == PathValue(executions[baselineCase.id][1].result.values, v.path)
            right == PathValue(executions[case.id][1].result.values, v.path)
        IN IF ~Finite(left) \/ ~Finite(right) \/ case.signature # baselineCase.signature
           THEN Comparison("skipped")
           ELSE IF (left[2] - right[2]) \in -ComparisonTolerance..ComparisonTolerance
           THEN Comparison("pass") ELSE Comparison("advisory") : v \in case.expected}

AttachComparison(case, cases, result, results, executions) ==
  IF \/ case.advanced = None
     \/ case.advanced.capability.id \notin DOMAIN ComparedWith
     \/ case.advanced.scenario # "success"
  THEN result
  ELSE
    LET other == {c \in cases : /\ c.advanced # None
                                /\ c.advanced.capability.id
                                     = ComparedWith[case.advanced.capability.id]
                                /\ c.advanced.scenario = "success"}
        base == IF other = {} THEN None ELSE CHOOSE c \in other : TRUE
        told == Compared(case, base, result, IF base = None THEN None ELSE results[base.id],
                         executions)
    IN [result EXCEPT !.checks = @ \cup told,
          !.evaluation_status =
             IF @ = "pass" /\ Comparison("advisory") \in told THEN "advisory" ELSE @]
=============================================================================
