------------------------ MODULE RandomizedEstimators ------------------------
(***************************************************************************)
(* The services that analyse a randomized experiment                       *)
(* (packages/experiments/analysis/randomized): the fixed-horizon tests,    *)
(* CUPED, which adjusts what the former has accepted, and the Bayesian     *)
(* posteriors.  Each asks for the eligibility of the request and goes      *)
(* through its own guards in the order of the code.                        *)
(*                                                                         *)
(* Numbers are exact here and floats there.  Where rounding, overflow or   *)
(* the size of a p-value decides, a service has several results; they are  *)
(* the elements of a set.                                                  *)
(***************************************************************************)
EXTENDS Eligibility, Functions

CONSTANT SparseCell   \* RandomizedAnalysisConfig.sparse_cell_threshold

ASSUME SparseCellAssumption == SparseCell \in Nat \ {0}

\* What a result says: its status, the code of its reason, the rows that
\* entered an estimate, the estimates it carries and its conclusion.
Withheld(status, reason) ==
  [status |-> status, reason |-> reason, rows |-> {}, estimates |-> {},
   conclusion |-> IF status = "unsupported" THEN "unsupported"
                  ELSE IF status = "invalid" THEN "invalid" ELSE "inconclusive"]

Estimated(status, rows, estimates, conclusion) ==
  [status |-> status, reason |-> NoReason, rows |-> rows, estimates |-> estimates,
   conclusion |-> conclusion]

\* No result: the service raised.
Interrupted == Withheld("raised", NoReason)

Verdict == {"significant", "not_significant"}
Tested(rows) == {Estimated("completed", rows, {"effect"}, v) : v \in Verdict}

(***************************************************************************)
(* The tests.  V is a function from the rows to their values.              *)
(***************************************************************************)
Total(rows, V) == MapThenSumSet(LAMBDA i : V[i], rows)
Constant(rows, V) == \A i, j \in rows : V[i] = V[j]

\* An arm of equal floats may have a mean that is not one of them, and a
\* variance that is not zero: two constant arms are not sure to be noticed.
Welch(treatment, control, V) ==
  LET sizes == {Cardinality(treatment), Cardinality(control)}
      tested == Tested(treatment \cup control)
  IN  IF \E n \in sizes : n < 2
      THEN {Withheld("abstained", IF 1 \in sizes THEN "one_observation_arm"
                                  ELSE "insufficient_observations")}
      ELSE IF Constant(treatment, V) /\ Constant(control, V)
      THEN {Withheld("abstained", "zero_standard_error")} \cup tested
      ELSE {Withheld("abstained", "continuous_computation_error"),
            Withheld("abstained", "nonfinite_relative_effect")} \cup tested

\* The smallest expected cell of the pooled rate, times the rows of both arms.
SmallestCell(treatment, control, successes) ==
  LET rows == Cardinality(treatment \cup control)
  IN  Min({Cardinality(arm) * hits : arm \in {treatment, control},
                                     hits \in {successes, rows - successes}})

TwoProportions(treatment, control, V, floats) ==
  LET rows == treatment \cup control
      successes == Total(rows, V)
  IN  IF Cardinality(treatment) < 2 \/ Cardinality(control) < 2
      THEN {Withheld("abstained", "minimum_observations_not_met")}
      ELSE IF floats THEN {Withheld("abstained", "invalid_binary_outcome")}
      ELSE IF successes \in {0, Cardinality(rows)}
      THEN {Withheld("abstained", "zero_standard_error")}
      ELSE IF SmallestCell(treatment, control, successes) < SparseCell * Cardinality(rows)
      THEN {Withheld("abstained", "sparse_cell")}
      ELSE Tested(rows)

(***************************************************************************)
(* RandomizedAnalysisService                                               *)
(***************************************************************************)
FixedHorizon == {<<"randomized", "fixed_horizon_ab">>}

\* _unsupported_request_reason
Analysable ==
  [continuous |-> {"average_treatment_effect", "difference_in_means", "intention_to_treat"},
   binary |-> {"average_treatment_effect", "difference_in_proportions", "intention_to_treat"}]

UnsupportedReason(q, b) ==
  IF q.outcome \notin DOMAIN Analysable THEN "unsupported_outcome_type"
  ELSE IF q.estimand \notin Analysable[q.outcome] THEN "incompatible_estimand"
  ELSE IF Len(b.outcome.columns) # 1 THEN "unsupported_outcome_binding" ELSE NoReason

\* The service never drops a row on its own.
Complete(c) == ValidRows(c) = Population(c)

FixedHorizonOf(c, e) ==
  LET unsupported == UnsupportedReason(c.req, c.bind)
      value == [i \in ValidRows(c) |-> c.rows[i].outcome]
      Rows(arm) == ValidRowsOf(c, arm)
  IN  IF c.req.uncertainty # "confidence"
      THEN {Withheld("unsupported", "unsupported_uncertainty")}
      ELSE IF c.req.alternative # "two_sided"
      THEN {Withheld("unsupported", "unsupported_alternative_hypothesis")}
      ELSE IF e.status \notin EligibleStatuses THEN {Withheld("abstained", e.primary)}
      ELSE IF unsupported # NoReason THEN {Withheld("unsupported", unsupported)}
      ELSE IF ~Complete(c) THEN {Withheld("abstained", "incomplete_outcome_data")}
      ELSE IF c.req.outcome = "continuous"
      THEN Welch(Rows("treatment"), Rows("control"), value)
      ELSE TwoProportions(Rows("treatment"), Rows("control"), value, c.floats)

FixedHorizonResults(c) == FixedHorizonOf(c, Eligibility(c, FixedHorizon))

(***************************************************************************)
(* CupedAnalysisService                                                    *)
(***************************************************************************)
Cuped == {<<"randomized", "cuped">>}

\* The same request without its covariates, as a fixed-horizon one.
Unadjusted(c) ==
  [c EXCEPT !.req.method = "fixed_horizon_ab", !.req.covariates = <<>>,
            !.bind.covariates = <<>>]

\* What the request lacks, in the order in which CUPED looks.
CupedUnsupported(q) ==
  IF q.alternative # "two_sided" THEN "unsupported_alternative_hypothesis"
  ELSE IF q.uncertainty # "confidence" THEN "unsupported_uncertainty"
  ELSE IF q.outcome # "continuous" THEN "unsupported_outcome_type"
  ELSE IF Len(q.covariates) # 1 THEN "single_cuped_covariate_required"
  ELSE IF q.covariates[1].role # "cuped" THEN "cuped_covariate_required" ELSE NoReason

\* What the binding says of the covariate, once if it can be used.
CovariateBindings(c) ==
  {i \in DOMAIN c.bind.covariates : c.bind.covariates[i].metric = c.req.covariates[1].metric}
CovariateColumn(c) == c.bind.covariates[CHOOSE i \in CovariateBindings(c) : TRUE].column

Readable(c) ==
  /\ Cardinality(CovariateBindings(c)) = 1
  /\ Has(c, CovariateColumn(c))
  /\ Len(c.bind.outcome.columns) = 1

\* The adjusted test on the rows that are left, against the unadjusted one on
\* the same rows: more precise, as precise, less, or with nothing to compare
\* with.  Rounding hides a constant covariate, too.
Precisions == {"completed", "no_improvement", "degraded_precision", "inconclusive"}

\* A share of the variance too large for a percentage raises.
AdjustedResults(rows, X) ==
  {Interrupted} \cup
  (IF Constant(rows, X) THEN {Withheld("abstained", "constant_or_near_zero_covariate")} ELSE {})
  \cup {Withheld("abstained", "cuped_computation_error"),
        Withheld("abstained", "adjusted_inference_unavailable")}
  \cup {Estimated(status, rows, {"effect", "adjusted"}, v) : status \in Precisions, v \in Verdict}

\* Rows whose covariate is there; one that cannot be read invalidates all.
CupedOf(c, e, baseline) ==
  LET v == c.req.covariates[1]
      column == CovariateColumn(c)
      Kept(arm) == {i \in ArmRows(c, arm) : c.rows[i][column] # None}
      kept == Kept("treatment") \cup Kept("control")
      x == [i \in kept |-> c.rows[i][column]]
  IN  IF CupedUnsupported(c.req) # NoReason
      THEN {Withheld("unsupported", CupedUnsupported(c.req))}
      ELSE IF baseline.status = "unsupported" THEN {Withheld("unsupported", baseline.reason)}
      ELSE IF baseline.status # "completed"
      THEN {Withheld("abstained", "randomized_baseline_unavailable")}
      ELSE IF ~Readable(c) THEN {Withheld("invalid", "cuped_covariate_binding_unavailable")}
      ELSE IF \E i \in kept : x[i] \in {Text, Infinite}
      THEN {Withheld("invalid", "invalid_covariate_value")}
      ELSE IF e.status \notin EligibleStatuses THEN {Withheld("abstained", e.primary)}
      ELSE IF v.timing # "pre_treatment"
      THEN {Withheld("abstained", "covariate_not_pre_treatment")}
      ELSE IF v.relationship # "none_known"
      THEN {Withheld("abstained", "covariate_treatment_relationship_conflict")}
      ELSE IF \/ Cardinality(kept) < Threshold(c).minimumTotal
              \/ \E arm \in Arms : Cardinality(Kept(arm)) < Threshold(c).minimumPerArm
      THEN {Withheld("abstained", "insufficient_retained_sample")}
      ELSE AdjustedResults(kept, x)

\* Every result carries the baseline, whatever became of the adjustment.
CupedResults(c) ==
  UNION {CupedOf(c, Eligibility(c, Cuped), baseline) :
           baseline \in FixedHorizonResults(Unadjusted(c))}

(***************************************************************************)
(* BayesianAnalysisService                                                 *)
(***************************************************************************)
Bayesian == {<<"randomized", "bayesian_ab">>}

\* A posterior exists for outcomes that do not vary.
CompatibleBlockers == {"outcome.zero_variance"}

LikelihoodOf == [bernoulli |-> "binary", normal |-> "continuous"]

\* What keeps the service from computing: the status of an eligibility says
\* needs_more_data only when nothing blocks.
Refuses(e) ==
  \/ \E code \in e.codes \ CompatibleBlockers : Blocks(code)
  \/ e.status = "needs_more_data"

\* The service catches its own errors, not those of the root finder.
BayesianOf(c, e) ==
  LET rows == ValidRows(c)
      Few(n) == \E arm \in Arms : Cardinality(ValidRowsOf(c, arm)) < n
  IN  IF LikelihoodOf[c.req.likelihood] # c.req.outcome
      THEN {Withheld("unsupported", "likelihood_outcome_mismatch")}
      ELSE IF Refuses(e) THEN {Withheld("abstained", e.primary)}
      ELSE IF ~Complete(c) THEN {Withheld("abstained", "incomplete_outcome_data")}
      ELSE IF Few(1) THEN {Withheld("abstained", "empty_arm")}
      ELSE IF c.req.likelihood = "normal" /\ Few(2)
      THEN {Withheld("abstained", "continuous_arm_inadequate")}
      ELSE {Interrupted, Withheld("invalid", "posterior_computation_invalid"),
            Estimated("completed", rows, {"posterior"}, None)}

BayesianResults(c) == BayesianOf(c, Eligibility(c, Bayesian))

RandomizedMethods == {"fixed_horizon_ab", "cuped", "bayesian_ab"}

Results(c) ==
  CASE c.req.method = "fixed_horizon_ab" -> FixedHorizonResults(c)
    [] c.req.method = "cuped" -> CupedResults(c)
    [] c.req.method = "bayesian_ab" -> BayesianResults(c)
=============================================================================
