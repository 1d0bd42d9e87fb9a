----------------------------- MODULE CrossFitting -----------------------------
(***************************************************************************)
(* DoubleMachineLearningEstimator (causal/dml): validation, the split of   *)
(* the units into folds, and cross-fitting: the models that predict for a  *)
(* fold are trained on the others.  EconMLDMLAdapter (causal/econml) has   *)
(* the first two in common, and leaves the third to an optional library.   *)
(*                                                                         *)
(* A row has a unit, an exposure, an outcome and covariates.  The split    *)
(* names the folds, their minimum sizes and the rank of a unit, the order  *)
(* of the digests of the seed and the units' identifiers.  What the models *)
(* predict, and with it overlap and inference, is open.                    *)
(***************************************************************************)
EXTENDS Identification

DmlColumns(c) == {"unit", "exposure", "outcome"} \cup {b.column : b \in SetOf(c.split.covariates)}

\* Rows are bound to variables: treatment, outcome, covariates, all different.
BoundIds(c) == [i \in DOMAIN c.split.covariates |-> c.split.covariates[i].id]
BoundVariables(c) == <<c.split.treatment, c.split.outcome>> \o BoundIds(c)

\* The ranks that order units are numbers, and no two of the given units share one.
Ranked(c, units) ==
  \A unit \in units : /\ c.split.rank[unit] \in Nat
                      /\ \A other \in units \ {unit} : c.split.rank[other] # c.split.rank[unit]

CrossFittingOK(c) ==
  /\ {"req", "ident", "columns", "rows", "split"} \subseteq DOMAIN c
  /\ c.req.method \in {"econml_dml", "econml_hte"} => "adapter" \in DOMAIN c
  /\ IdentificationOK(c.ident) /\ IsList(c.split.covariates)
  /\ \A i \in DOMAIN c.rows, column \in DmlColumns(c) : Numeric(c.rows[i][column])
  /\ Ranked(c, {c.rows[i].unit : i \in DOMAIN c.rows} \ {None, Text, Infinite})
  /\ {c.split.folds, c.split.minimumTraining, c.split.minimumScoring} \subseteq Nat
  /\ c.split.folds >= 2 /\ c.split.minimumTraining >= 1 /\ c.split.minimumScoring >= 1
  /\ c.split.covariates # <<>> /\ ~Duplicated(BoundVariables(c))
  /\ Cardinality(DmlColumns(c)) = 3 + Len(c.split.covariates)

(***************************************************************************)
(* Validation (dml/validation.py), in the order of the code.               *)
(***************************************************************************)
CrossFitAssumptions ==
  {"consistency", "interference_limitation", "exchangeability", "positivity",
   "temporal_ordering"}

\* What identification leaves open: an assumption that holds and is not required.
Optionally(q) ==
  \E a \in SetOf(q.assumptions) : a.code \in CrossFitAssumptions /\ ~a.required

Measurable(q, id) ==
  HasRole(q, id, "adjustment") /\ Variable(q, id).timing \in {"pre_treatment", "time_invariant"}

DmlDeclarationRefusal(c, q, identified) ==
  IF q.design # "double_machine_learning" THEN Refused("unsupported", "dml.design.unsupported")
  ELSE IF c.split.score # "partialling_out_dml"
  THEN Refused("unsupported", "dml.score.unsupported")
  ELSE IF Optionally(q) THEN Refused("invalid", "dml.assumption.insufficient")
  ELSE IF q.estimand.kind # "ate" \/ q.estimand.scale # "mean_difference"
  THEN Refused("unsupported", "dml.estimand.unsupported")
  ELSE IF q.outcome.type # "continuous" THEN Refused("unsupported", "dml.outcome.unsupported")
  ELSE IF c.split.treatment # q.treatment THEN Refused("invalid", "dml.binding.treatment_mismatch")
  ELSE IF c.split.outcome # q.outcome.id THEN Refused("invalid", "dml.binding.outcome_mismatch")
  ELSE IF ~identified.adjusts \/ q.adjustment.variables = <<>>
  THEN Refused("invalid", "dml.adjustment.invalid")
  ELSE IF q.adjustment.variables # BoundIds(c)
  THEN Refused("invalid", "dml.binding.covariate_mismatch")
  ELSE IF \E id \in SetOf(q.adjustment.variables) : ~Measurable(q, id)
  THEN Refused("invalid", "dml.covariate.ineligible")
  ELSE IF ~(DmlColumns(c) \subseteq SetOf(c.columns))
  THEN Refused("invalid", "dml.binding.missing_column") ELSE NotRefused

IdentityFault(c, i) ==
  IF c.rows[i].unit \in {None, Text, Infinite} THEN "dml.sample.invalid_observation_id"
  ELSE IF \E j \in 1..i - 1 : c.rows[j].unit = c.rows[i].unit
  THEN "dml.sample.duplicate_observation_id" ELSE NoReason

Incomplete(c, i) == \E column \in DmlColumns(c) : c.rows[i][column] = None

ValueFault(c, i) ==
  IF c.rows[i].exposure \notin Exposures THEN "dml.treatment.invalid"
  ELSE IF c.rows[i].outcome \in {Text, Infinite} THEN "dml.outcome.invalid"
  ELSE IF \E column \in DmlColumns(c) : c.rows[i][column] \in {Text, Infinite}
  THEN "dml.covariate.invalid" ELSE NoReason

\* The first fault of the first row with one ends the validation.
DmlRowFault(c, i) ==
  IF IdentityFault(c, i) # NoReason THEN IdentityFault(c, i)
  ELSE IF Incomplete(c, i) THEN NoReason ELSE ValueFault(c, i)

CompleteRows(c) == {i \in DOMAIN c.rows : ~Incomplete(c, i)}

(***************************************************************************)
(* Folds (dml/folds.py, dml/crossfit.py).                                  *)
(***************************************************************************)
\* The units of an arm are dealt out by rank.
FoldOf(c, rows, i) ==
  Cardinality({j \in ArmOf(c, rows, c.rows[i].exposure) :
                 c.split.rank[c.rows[j].unit] < c.split.rank[c.rows[i].unit]}) % c.split.folds

Folds(c, rows) == [i \in rows |-> FoldOf(c, rows, i)]

EveryRow(folds, i) == DOMAIN folds  \* mutant: models are trained once, on all rows

\* The rows that the models that predict for a row are trained on.
Complement(folds, i) == {j \in DOMAIN folds : folds[j] # folds[i]}

\* The classes of a fold are never empty when each arm has a unit for it.
PlanFails(c, folds) ==
  \E fold \in 0..c.split.folds - 1 :
    LET scoring == {i \in DOMAIN folds : folds[i] = fold}
    IN  \/ Cardinality(scoring) < c.split.minimumScoring
        \/ Cardinality(DOMAIN folds \ scoring) < c.split.minimumTraining

\* The treatment model wants this many rows of its own.
MinimumTrainingRows == 4

HeldOutEstimate(folds) ==
  [status |-> "completed", reason |-> NoReason, rows |-> DOMAIN folds,
   estimates |-> {"effect"}, conclusion |-> None,
   trained |-> [i \in DOMAIN folds |-> Complement(folds, i)]]

\* Outcomes that are too far apart overflow in the diagnostics, which raises.
CrossFitted(c, folds) ==
  IF PlanFails(c, folds) THEN {Refused("abstained", "dml.fold.invalid_plan")}
  ELSE IF \E i \in DOMAIN folds : Cardinality(Complement(folds, i)) < MinimumTrainingRows
  THEN {Refused("abstained", "dml.fold.adapter_minimum_training_rows")}
  ELSE {Refused("abstained", reason) :
          reason \in {"dml.nuisance.fit_failure", "dml.overlap.severe",
                      "dml.inference.nonfinite_estimate"}}
       \cup {Raised, HeldOutEstimate(folds)}

(***************************************************************************)
(* The adapter (econml/dml.py, econml/common.py).  Whether the library is  *)
(* there, in the version the adapter was written for, is open; so is which *)
(* of its steps fails.                                                     *)
(***************************************************************************)
NoBackend ==
  {Refused("abstained", reason) :
     reason \in {"OPTIONAL_DEPENDENCY_UNAVAILABLE", "INCOMPATIBLE_DEPENDENCY_RUNTIME"}}

\* What the library does wrong has codes of the adapter's own: its models are
\* asked again what they predict for the fold they have not seen, and its
\* inference must be made of finite numbers that belong together.
NuisanceFailures ==
  {"ESTIMATOR_FIT_FAILURE", "NUISANCE_DIAGNOSTICS_UNAVAILABLE", "INVALID_DATA_SHAPE"}
InferenceFailures ==
  {"INVALID_DATA_SHAPE", "NONFINITE_ESTIMATE", "NONFINITE_UNCERTAINTY", "INFERENCE_FAILURE"}
BackendFailures ==
  {Refused("abstained", reason) : reason \in NuisanceFailures \cup InferenceFailures}

MalformedEscapes == Raised  \* mutant: the adapter catches only its own errors

\* What anything else raises is blamed on the data, a plan that cannot be made
\* and a diagnostic that cannot be computed included.
Malformed == Refused("invalid", "INVALID_DATA_SHAPE")

AdapterRefusal(c) ==
  IF c.adapter.inference # "statsmodels_hc1"
  THEN Refused("unsupported", "UNSUPPORTED_INFERENCE")
  ELSE IF ~c.adapter.constant THEN Refused("unsupported", "UNSUPPORTED_ESTIMAND") ELSE NotRefused

\* No minimum of rows but the plan's.
LinearDml(c, folds) ==
  {Malformed}
  \cup IF PlanFails(c, folds) THEN {}
       ELSE BackendFailures
            \cup {Refused("abstained", reason) :
                    reason \in {"dml.overlap.severe", "dml.degenerate_treatment_residual",
                                "dml.degenerate_outcome_residual"}}
            \cup {HeldOutEstimate(folds)}

EconmlDml(c, folds) ==
  IF AdapterRefusal(c) # NotRefused THEN {AdapterRefusal(c)} ELSE NoBackend \cup LinearDml(c, folds)

DmlFolded(c, folds) ==
  IF c.req.method = "econml_dml" THEN EconmlDml(c, folds) ELSE CrossFitted(c, folds)

DmlSplit(c, rows) ==
  IF \E exposure \in Exposures : Cardinality(ArmOf(c, rows, exposure)) < c.split.folds
  THEN {Refused("abstained", "dml.fold.inadequate_class_count")}
  ELSE DmlFolded(c, Folds(c, rows))

DmlRows(c, faulty) ==
  IF faulty # {} THEN {Refused("invalid", DmlRowFault(c, Min(faulty)))}
  ELSE DmlSplit(c, CompleteRows(c))

DmlDeclared(c, refusal) ==
  IF refusal # NotRefused THEN {refusal}
  ELSE DmlRows(c, {i \in DOMAIN c.rows : DmlRowFault(c, i) # NoReason})

DmlResults(c, identified) == DmlDeclared(c, DmlDeclarationRefusal(c, c.ident, identified))

-----------------------------------------------------------------------------
(***************************************************************************)
(* HeterogeneousEffectEstimator (causal/hte): an effect per registered     *)
(* subgroup of a modifier, from one cross-fit of all units, and whether    *)
(* the subgroups differ.  A subgroup is estimated, or refused with a       *)
(* reason of its own; only if none is refused is the result completed.     *)
(*                                                                         *)
(* A row has, beside what cross-fitting reads of it, a value of the        *)
(* modifier.  What the models predict, and with it overlap and inference,  *)
(* is open.                                                                *)
(***************************************************************************)
HteColumns(c) == DmlColumns(c) \cup {c.effect.bound.column}
GroupIds(c) == {g.id : g \in SetOf(c.effect.subgroups)}
ModifierOf(c, i) == c.rows[i][c.effect.bound.column]

\* The bins of a continuous modifier are contiguous and exhaust the line.
Binned(bins) ==
  /\ bins[1].lower = None /\ Last(bins).upper = None
  /\ \A i \in DOMAIN bins :
       /\ {bins[i].lower, bins[i].upper} \subseteq Int \cup {None}
       /\ None \notin {bins[i].lower, bins[i].upper} => bins[i].lower < bins[i].upper
       /\ i > 1 => bins[i - 1].upper = bins[i].lower /\ bins[i].lower # None

HeterogeneityOK(c) ==
  /\ CrossFittingOK(c) /\ "effect" \in DOMAIN c /\ IsList(c.effect.subgroups)
  /\ "heterogeneity" \notin GroupIds(c)
  /\ c.effect.bound.column \notin DmlColumns(c)
  /\ c.effect.bound.id \notin SetOf(BoundVariables(c))
  /\ Len(c.effect.subgroups) >= 2 /\ Cardinality(GroupIds(c)) = Len(c.effect.subgroups)
  /\ IF c.effect.kind = "binned"
     THEN Binned(c.effect.subgroups) /\ \A i \in DOMAIN c.rows : Numeric(ModifierOf(c, i))
     ELSE /\ \A g \in SetOf(c.effect.subgroups) : g.value \notin {None, Infinite}
          /\ ~Duplicated([i \in DOMAIN c.effect.subgroups |-> c.effect.subgroups[i].value])
          /\ c.effect.kind = "binary" => Len(c.effect.subgroups) = 2
  /\ c.effect.minimum \in [{"retained", "treated", "control"} -> Nat]
  /\ \A arm \in {"treated", "control"} : c.effect.minimum[arm] >= 1
  /\ c.effect.minimum.treated + c.effect.minimum.control <= c.effect.minimum.retained

(***************************************************************************)
(* Declarations (hte/validation.py), in the order of the code.             *)
(***************************************************************************)
DerivationCodes ==
  [outcome_derived |-> "hte.modifier.outcome_derived",
   treatment_derived |-> "hte.modifier.treatment_derived",
   data_mined |-> "hte.modifier.data_mined"]

ModifierRefusal(c, q) ==
  LET e == c.effect
  IN  IF e.timing = "post_treatment" THEN Refused("invalid", "hte.modifier.post_treatment")
      ELSE IF e.timing # "pre_treatment" THEN Refused("invalid", "hte.modifier.unknown_timing")
      ELSE IF e.derivation \in DOMAIN DerivationCodes
      THEN Refused("abstained", DerivationCodes[e.derivation])
      ELSE IF ~e.confirmatory THEN Refused("abstained", "hte.modifier.exploratory")
      ELSE IF \/ q.modifiers # <<e.modifier>> \/ q.estimand.modifiers # <<e.modifier>>
              \/ e.bound # [id |-> e.modifier, column |-> e.column]
      THEN Refused("invalid", "hte.modifier.binding_mismatch")
      ELSE IF \/ ~HasRole(q, e.modifier, "effect_modifier")
              \/ Variable(q, e.modifier).timing # "pre_treatment"
      THEN Refused("invalid", "hte.modifier.ineligible") ELSE NotRefused

BindingRefusal(c, q, identified) ==
  IF q.outcome.type # "continuous" THEN Refused("unsupported", "hte.outcome.unsupported")
  ELSE IF c.split.outcome # q.outcome.id \/ c.split.treatment # q.treatment
  THEN Refused("invalid", "hte.binding.role_mismatch")
  ELSE IF ~identified.adjusts \/ q.adjustment.variables # BoundIds(c)
  THEN Refused("invalid", "hte.adjustment.invalid")
  ELSE IF ~(HteColumns(c) \subseteq SetOf(c.columns))
  THEN Refused("invalid", "hte.binding.missing_column") ELSE NotRefused

\* The design an estimator supports, by its name.
SupportedMethod(c) ==
  IF c.req.method = "econml_hte" THEN "doubly_robust_subgroup_effects"
  ELSE "partialling_out_dml_subgroup_interactions"

HteDeclarationRefusal(c, q, identified) ==
  IF q.design # "heterogeneous_effects" \/ c.effect.method # SupportedMethod(c)
  THEN Refused("unsupported", "hte.design.unsupported")
  ELSE IF q.estimand.kind # "cate" \/ q.estimand.scale # "mean_difference"
  THEN Refused("unsupported", "hte.estimand.unsupported")
  ELSE IF ModifierRefusal(c, q) # NotRefused THEN ModifierRefusal(c, q)
  ELSE BindingRefusal(c, q, identified)

(***************************************************************************)
(* Subgroups of the rows (hte/assignment.py).                              *)
(***************************************************************************)
WithinGroup(c, g, value) ==
  IF c.effect.kind # "binned" THEN value = g.value
  ELSE /\ g.lower = None \/ g.lower <= value
       /\ g.upper = None \/ value < g.upper

\* The first subgroup a value is in.
GroupAt(c, value) ==
  LET matching == {k \in DOMAIN c.effect.subgroups :
                     WithinGroup(c, c.effect.subgroups[k], value)}
  IN  IF matching = {} THEN None ELSE c.effect.subgroups[Min(matching)].id

\* A row without a modifier belongs to no subgroup; an identity or a value that
\* is not registered ends the assignment.
AssignmentFault(c, i) ==
  IF c.rows[i].unit \in {None, Text, Infinite} THEN "hte.sample.invalid_observation_id"
  ELSE IF \E j \in 1..i - 1 : c.rows[j].unit = c.rows[i].unit
  THEN "hte.sample.duplicate_observation_id"
  ELSE IF ModifierOf(c, i) = None THEN NoReason
  ELSE IF c.effect.kind = "binned" /\ ModifierOf(c, i) \in {Text, Infinite}
  THEN "hte.modifier.invalid_value"
  ELSE IF GroupAt(c, ModifierOf(c, i)) = None THEN "hte.modifier.unregistered_value" ELSE NoReason

Retained(c) == {i \in DOMAIN c.rows : \A column \in HteColumns(c) : c.rows[i][column] # None}
RetainedFault(c, i) ==
  IF c.rows[i].exposure \notin Exposures THEN "hte.treatment.invalid"
  ELSE IF \E column \in DmlColumns(c) : c.rows[i][column] \in {Text, Infinite}
  THEN "hte.sample.invalid_value" ELSE NoReason

\* The rows of a subgroup.
Members(c, rows, g) == {i \in rows : GroupAt(c, ModifierOf(c, i)) = g}

\* _sparse_reason
Sparse(c, rows) ==
  IF Cardinality(rows) < c.effect.minimum.retained THEN "hte.subgroup.sparse_total"
  ELSE IF Cardinality(ArmOf(c, rows, 1)) < c.effect.minimum.treated
  THEN "hte.subgroup.sparse_treated"
  ELSE IF Cardinality(ArmOf(c, rows, 0)) < c.effect.minimum.control
  THEN "hte.subgroup.sparse_control" ELSE NoReason

(***************************************************************************)
(* From the cross-fit to the subgroups (hte/service.py).                   *)
(***************************************************************************)
\* The first subgroup without an estimate gives its reason to the whole.
FirstReason(c, rows, supported) ==
  LET first == c.effect.subgroups[Min({k \in DOMAIN c.effect.subgroups :
                                         c.effect.subgroups[k].id \notin supported})].id
      sparse == Sparse(c, Members(c, rows, first))
  IN  IF sparse # NoReason THEN sparse ELSE "hte.subgroup.overlap_severe"

Reason(c, rows, supported, otherwise) ==
  IF supported = GroupIds(c) THEN otherwise ELSE FirstReason(c, rows, supported)

\* Two subgroups can be compared; one stands for itself.
EstimatedGroups(c, rows, folds, supported) ==
  LET within == UNION {Members(c, rows, g) : g \in supported}
  IN  [status |-> IF supported = GroupIds(c) THEN "completed" ELSE "abstained",
       reason |-> Reason(c, rows, supported, NoReason),
       rows |-> within,
       estimates |-> supported \cup (IF Cardinality(supported) >= 2 THEN {"heterogeneity"} ELSE {}),
       conclusion |-> None,
       trained |-> [i \in within |-> Complement(folds, i)]]

\* Those that are not sparse may lack overlap.  The comparison may fail, and
\* then nobody has an estimate.
SubgroupResults(c, rows, folds) ==
  LET dense == {g \in GroupIds(c) : Sparse(c, Members(c, rows, g)) = NoReason}
  IN  {Refused("abstained", Reason(c, rows, supported, "hte.inference.unavailable")) :
         supported \in SUBSET dense}
      \cup {EstimatedGroups(c, rows, folds, supported) : supported \in (SUBSET dense) \ {{}}}

\* Some errors of the numbers are failures of the cross-fit, an overflow raises.
HteCrossFitted(c, rows, folds) ==
  IF PlanFails(c, folds) THEN {Refused("abstained", "hte.crossfit.failure")}
  ELSE IF \E i \in rows : Cardinality(Complement(folds, i)) < MinimumTrainingRows
  THEN {Refused("abstained", "dml.fold.adapter_minimum_training_rows")}
  ELSE {Refused("abstained", reason) :
          reason \in {"dml.nuisance.fit_failure", "hte.crossfit.failure",
                      "hte.overlap.global_severe"}}
       \cup {Raised} \cup SubgroupResults(c, rows, folds)

(***************************************************************************)
(* The adapter (econml/hte.py).                                            *)
(***************************************************************************)
LinearDrRefusal(c, rows) ==
  IF c.effect.version # "hte-dr-v1"
  THEN Refused("unsupported", "hte.configuration.version_mismatch")
  ELSE IF c.effect.kind # "binary" THEN Refused("unsupported", "INVALID_EFFECT_MODIFIER")
  ELSE IF c.adapter.inference # "statsmodels_hc1"
  THEN Refused("unsupported", "UNSUPPORTED_INFERENCE")
  ELSE IF \E g \in GroupIds(c) : Sparse(c, Members(c, rows, g)) # NoReason
  THEN Refused("abstained", "hte.subgroup.insufficient_support") ELSE NotRefused

LinearDr(c, rows, folds) ==
  {Malformed}
  \cup IF PlanFails(c, folds) THEN {}
       ELSE BackendFailures \cup {Refused("abstained", "hte.overlap.severe"),
                                  EstimatedGroups(c, rows, folds, GroupIds(c))}

EconmlHte(c, rows, folds) ==
  IF LinearDrRefusal(c, rows) # NotRefused THEN {LinearDrRefusal(c, rows)}
  ELSE NoBackend \cup LinearDr(c, rows, folds)

HteFolded(c, rows, folds) ==
  IF c.req.method = "econml_hte" THEN EconmlHte(c, rows, folds)
  ELSE HteCrossFitted(c, rows, folds)

HteRetained(c, rows, faulty) ==
  IF faulty # {}
  THEN {Refused("invalid", RetainedFault(c, i)) :
          i \in {j \in faulty : \A k \in faulty : c.rows[j].unit <= c.rows[k].unit}}
  ELSE IF \E exposure \in Exposures : Cardinality(ArmOf(c, rows, exposure)) < c.split.folds
  THEN {Refused("abstained", "hte.fold.inadequate_class_count")}
  ELSE HteFolded(c, rows, Folds(c, rows))

HteAssigned(c, faulty) ==
  IF faulty # {} THEN {Refused("invalid", AssignmentFault(c, Min(faulty)))}
  ELSE HteRetained(c, Retained(c), {i \in Retained(c) : RetainedFault(c, i) # NoReason})

HteDeclared(c, refusal) ==
  IF refusal # NotRefused THEN {refusal}
  ELSE HteAssigned(c, {i \in DOMAIN c.rows : AssignmentFault(c, i) # NoReason})

HteResults(c, identified) == HteDeclared(c, HteDeclarationRefusal(c, c.ident, identified))
==============================================================================
