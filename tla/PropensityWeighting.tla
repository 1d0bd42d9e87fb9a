-------------------------- MODULE PropensityWeighting --------------------------
(***************************************************************************)
(* DeterministicLogisticPropensityEstimator (causal/propensity) and        *)
(* IPWTreatmentEffectEstimator (causal/ipw) as the workflow calls them:    *)
(* identification, scores of the units, whether the arms overlap, and the  *)
(* weighted comparison of the units whose score is not trimmed away.       *)
(*                                                                         *)
(* A row has a unit, an exposure, an outcome and covariates.  The model    *)
(* may score the covariates in any way: a score is a percentage that rows  *)
(* with the same covariates share.  Whether weights are too uneven or      *)
(* covariates out of balance is open, whether the scores of the two arms   *)
(* overlap is not.                                                         *)
(***************************************************************************)
EXTENDS Identification

CONSTANTS
  ScoreValues,   \* the percentages scores are taken from
  SevereWidth    \* common support this narrow is severe

ASSUME ScoreValuesAssumption == ScoreValues \subseteq 0..100 /\ SevereWidth \in 0..100

WeightingMethods == {"propensity_diagnostics", "ipw_ate", "ipw_att"}
MethodOf == [ate |-> "ipw_ate", att |-> "ipw_att"]

\* Columns with a role of their own: validate_unique_roles.
CovariateColumns(c) == {b.column : b \in SetOf(c.weight.covariates)}
RoleColumns(c) == {"unit", "exposure"} \cup CovariateColumns(c)
WeightingOK(c) ==
  /\ IdentificationOK(c.ident) /\ IsList(c.weight.covariates)
  /\ \A i \in DOMAIN c.rows : Numeric(c.rows[i].unit)
  /\ c.req.method \in WeightingMethods
  /\ c.req.method # "propensity_diagnostics" =>
       /\ c.ident.estimand # None /\ c.ident.estimand.kind \in DOMAIN MethodOf
       /\ c.req.method = MethodOf[c.ident.estimand.kind]
  /\ c.weight.covariates # <<>>
  /\ ~Duplicated([i \in DOMAIN c.weight.covariates |-> c.weight.covariates[i].id])
  /\ ~Duplicated([i \in DOMAIN c.weight.covariates |-> c.weight.covariates[i].column])
  /\ \A b \in SetOf(c.weight.covariates) :
       b.column \notin {"unit", "exposure"} /\ b.kind \in {"numeric", "categorical"}
  /\ c.weight.trimming # None => c.weight.trimming.lower < c.weight.trimming.upper

Scored(scores, estimates) ==
  [status |-> "completed", reason |-> NoReason, rows |-> DOMAIN scores, estimates |-> estimates,
   conclusion |-> None, scores |-> scores]

(***************************************************************************)
(* Validation (propensity/validation.py).                                  *)
(***************************************************************************)
DeclarationRefusal(c, identified) ==
  IF \/ c.ident.design \notin {"generic_observational", "propensity_weighting"}
     \/ c.ident.estimand.kind \notin {"ate", "att"}
  THEN Refused("unsupported", "propensity.unsupported_request")
  ELSE IF ~identified.adjusts THEN Refused("invalid", "propensity.invalid_adjustment_set")
  ELSE IF {b.id : b \in SetOf(c.weight.covariates)} # SetOf(c.ident.adjustment.variables)
  THEN Refused("invalid", "propensity.adjustment_binding_mismatch")
  ELSE IF ~(RoleColumns(c) \subseteq SetOf(c.columns))
  THEN Refused("invalid", "propensity.missing_column") ELSE NotRefused

\* A row that takes part in no comparison is not looked at further.
Compared(c, i) == c.rows[i].exposure \in Exposures
SeenUnit(c, i) == \E j \in 1..i - 1 : Compared(c, j) /\ c.rows[j].unit = c.rows[i].unit

MissingCovariate(c, i) == \E column \in CovariateColumns(c) : c.rows[i][column] = None

Improper(c, i, b) ==
  c.rows[i][b.column] \in (IF b.kind = "numeric" THEN {Text, Infinite} ELSE {Infinite})
CovariateFault(c, i) ==
  LET improper == {k \in DOMAIN c.weight.covariates : Improper(c, i, c.weight.covariates[k])}
  IN  IF improper = {} THEN NoReason
      ELSE IF c.weight.covariates[Min(improper)].kind = "numeric"
      THEN "propensity.invalid_numeric_covariate" ELSE "propensity.invalid_categorical_covariate"

\* What is wrong with a row; a missing covariate only leaves it out.
RowFault(c, i) ==
  IF ~Compared(c, i) THEN "propensity.invalid_treatment_value"
  ELSE IF c.rows[i].unit \in {None, Text, Infinite} \/ SeenUnit(c, i)
  THEN "propensity.invalid_unit"
  ELSE IF MissingCovariate(c, i) THEN NoReason ELSE CovariateFault(c, i)

ModelRows(c) == {i \in DOMAIN c.rows : ~MissingCovariate(c, i)}

RowRefusal(c) ==
  LET faulty == {i \in DOMAIN c.rows : RowFault(c, i) # NoReason}
  IN  IF faulty # {} THEN Refused("invalid", RowFault(c, Min(faulty)))
      ELSE IF \E exposure \in Exposures : ArmOf(c, ModelRows(c), exposure) = {}
      THEN Refused("abstained", "propensity.missing_model_arm") ELSE NotRefused

(***************************************************************************)
(* Scores and overlap (propensity/service.py, propensity/numerics.py).     *)
(***************************************************************************)
Features(c, i) == [column \in CovariateColumns(c) |-> c.rows[i][column]]

ScoresOf(c, rows) ==
  {[i \in rows |-> model[Features(c, i)]] :
     model \in [{Features(c, i) : i \in rows} -> ScoreValues]}

\* compute_weight_values: 1/e and 1/(1-e), or 1 and e/(1-e) for the treated.
Unweightable(c, kind, scores) ==
  \/ kind = "ate" /\ \E i \in ArmOf(c, DOMAIN scores, 1) : scores[i] = 0
  \/ \E i \in ArmOf(c, DOMAIN scores, 0) : scores[i] = 100

\* The weights of the controls of an effect on the treated may all be zero.
Weightless(c, kind, scores) ==
  kind = "att" /\ \A i \in ArmOf(c, DOMAIN scores, 0) : scores[i] = 0

\* common_support_diagnostic: from the higher minimum to the lower maximum of
\* the arms.
SupportWidth(c, scores) ==
  LET Of(exposure) == {scores[i] : i \in ArmOf(c, DOMAIN scores, exposure)}
  IN  Min({Max(Of(exposure)) : exposure \in Exposures})
      - Max({Min(Of(exposure)) : exposure \in Exposures})
Narrow(c, scores) == SupportWidth(c, scores) <= SevereWidth

\* assess_overlap: extreme scores, separation, uneven weights and units
\* outside the common support are severe in their own right.
ScoredResults(c, kind, scores) ==
  IF Unweightable(c, kind, scores) \/ Weightless(c, kind, scores)
  THEN {Refused("abstained", "weight.impossible")}
  ELSE {Refused("abstained", "overlap.severe")}
       \cup (IF Narrow(c, scores) THEN {} ELSE {Scored(scores, {"scores"})})

\* The fit may fail or not converge, and the arithmetic before and after it
\* overflow, which nobody catches.
FittedResults(c) ==
  {Raised, Refused("abstained", "model.not_converged")}
  \cup UNION {ScoredResults(c, c.ident.estimand.kind, scores) : scores \in ScoresOf(c, ModelRows(c))}

ValidatedResults(c, refusal) == IF refusal # NotRefused THEN {refusal} ELSE FittedResults(c)

PropensityResults(c, declared) ==
  ValidatedResults(c, IF declared # NotRefused THEN declared ELSE RowRefusal(c))

(***************************************************************************)
(* The weighted comparison (ipw/validation.py, ipw/service.py).            *)
(***************************************************************************)
Selected(c, scores) ==
  {i \in DOMAIN scores :
     c.weight.trimming # None =>
       c.weight.trimming.lower <= scores[i] /\ scores[i] <= c.weight.trimming.upper}
Kept(scores, rows) == [i \in rows |-> scores[i]]

ScaleFits(q) ==
  \/ q.outcome.type = "binary" /\ q.estimand.scale = "risk_difference"
  \/ q.outcome.type = "continuous" /\ q.estimand.scale = "mean_difference"

\* _align_rows: every selected unit has its one row, and an outcome in it.
Aligned(c, rows) ==
  /\ c.weight.outcome \in SetOf(c.columns)
  /\ \A i \in rows :
       /\ c.rows[i][c.weight.outcome] \in Int
       /\ c.ident.outcome.type = "binary" => c.rows[i][c.weight.outcome] \in {0, 1}

\* The gates behind the overlap of the selected units.
ComparedResults(c, rows, scores) ==
  IF ~ScaleFits(c.ident) THEN {Refused("unsupported", "outcome.unsupported")}
  ELSE IF ~Aligned(c, rows) THEN {Refused("invalid", "outcome.invalid_alignment")}
  ELSE {Refused("abstained", "balance.severe_residual_imbalance"),
        Refused("abstained", "inference.unavailable")}
       \cup (IF \E exposure \in Exposures : Cardinality(ArmOf(c, rows, exposure)) < 2 THEN {}
             ELSE {Scored(scores, {"effect"})})

\* Trimming may take all units of an arm, or all that weigh anything: what is
\* computed of the rest raises, before any of the gates refuses it; so does an
\* overflow in a diagnostic.
SelectedResults(c, kind, scores) ==
  IF \/ \E exposure \in Exposures : ArmOf(c, DOMAIN scores, exposure) = {}
     \/ Weightless(c, kind, scores)
  THEN {Raised}
  ELSE {Raised, Refused("abstained", "weight.selected_ess_collapsed"),
        Refused("abstained", "overlap.selected_fatal")}
       \cup (IF Narrow(c, scores) THEN {} ELSE ComparedResults(c, DOMAIN scores, scores))

WeightedResults(c, scores) ==
  IF c.weight.outcome \in RoleColumns(c) THEN {Refused("invalid", "binding.outcome_role_conflict")}
  ELSE SelectedResults(c, c.ident.estimand.kind, Kept(scores, Selected(c, scores)))

\* dispatch_ipw: a propensity result that is not completed is returned as it is.
EstimatedResults(c, propensity) ==
  IF c.req.method = "propensity_diagnostics" THEN propensity
  ELSE UNION {IF p.status # "completed" THEN {p} ELSE WeightedResults(c, p.scores) : p \in propensity}

WeightingResults(c, identified) ==
  EstimatedResults(c, PropensityResults(c, DeclarationRefusal(c, identified)))
=============================================================================
