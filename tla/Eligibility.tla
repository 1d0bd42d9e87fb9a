----------------------------- MODULE Eligibility -----------------------------
(***************************************************************************)
(* AnalysisEligibilityService.validate (packages/experiments/analysis/     *)
(* validation): the rules about the request, about the table and about the *)
(* design of the study, in a fixed order; the status their codes add up    *)
(* to; and the reason that is given for an abstention.  Each estimator     *)
(* asks with a registry of the methods it implements itself.               *)
(*                                                                         *)
(* A rule returns its codes in the order in which the code reports them;   *)
(* one that is reported for several objects in a row is told once.         *)
(***************************************************************************)
EXTENDS AnalysisTable

(***************************************************************************)
(* Whether the parts of a request and its binding fit together             *)
(* (request_rules.py).  Every code of these rules blocks.                  *)
(***************************************************************************)
MetricEstimandCodes(q) ==
  Told(/\ q.estimand = "difference_in_proportions"
       /\ q.outcome \notin {"binary", "proportion"},
       "request.metric_estimand_incompatible")

IsCate(q) == q.estimand = "conditional_average_treatment_effect"

CateCodes(q) ==
  Told(IsCate(q) /\ q.segment # q.conditioning, "request.cate_segment_mismatch")

MethodCodes(q, b) ==
  Told((q.method = "heterogeneous_treatment_effect") # IsCate(q),
       "method.estimand_incompatible")
  \o Told(/\ q.design = "randomized" /\ q.method = "cuped"
          /\ q.preMetrics = <<>>
          /\ \A i \in DOMAIN q.covariates : q.covariates[i].role # "cuped",
          "method.pre_treatment_input_required")
  \o Told(/\ q.method = "sequential_ab" \/ q.design = "quasi"
          /\ b.time = None,
          "method.timestamp_required")
  \o Told(q.design = "observational" /\ q.covariates = <<>>, "method.covariate_required")

(***************************************************************************)
(* Bindings of metrics.                                                    *)
(***************************************************************************)
Metrics(items) == [i \in DOMAIN items |-> items[i].metric]
BoundMetrics(items) == SetOf(Metrics(items))

\* The items whose metric is bound once.
BoundOnce(items) ==
  {i \in DOMAIN items : \A j \in DOMAIN items :
                          items[j].metric = items[i].metric => j = i}

Misshapen(type, columns) == (type = "ratio") # (Len(columns) = 2)
ShapeCodes(type, columns) ==
  Told(Misshapen(type, columns), "request.metric_binding_shape_incompatible")

PreMetricCodes(pre, bound) ==
  IF pre.metric \notin BoundMetrics(bound) THEN <<"request.metric_binding_missing">>
  ELSE Told(\E i \in BoundOnce(bound) :
              bound[i].metric = pre.metric /\ Misshapen(pre.type, bound[i].columns),
            "request.metric_binding_shape_incompatible")

\* The columns of roles that no metric may reuse.
Protected(b) == {b.arm, b.unit} \cup SetOf(b.outcome.columns) \cup BoundTo(b)

\* A column of a pre-treatment metric against the columns of other metrics.
Claimed(b, column, metric) ==
  \/ \E i \in DOMAIN b.covariates :
       b.covariates[i].column = column /\ b.covariates[i].metric # metric
  \/ \E i \in BoundOnce(b.preMetrics) :
       b.preMetrics[i].metric # metric /\ column \in SetOf(b.preMetrics[i].columns)

ColumnCodes(b) ==
  LET once == BoundOnce(b.preMetrics)
      Of(m) == Each(m.columns, LAMBDA column :
                 IF column \in Protected(b) THEN <<"request.metric_binding_role_conflict">>
                 ELSE Told(Claimed(b, column, m.metric), "request.metric_binding_conflict"))
  IN  FlattenSeq([i \in DOMAIN b.preMetrics |->
                    IF i \in once THEN Of(b.preMetrics[i]) ELSE <<>>])

AdjustmentRoles == {"adjustment", "confounder", "cuped", "precision"}

BindingCodes(q, b) ==
  ShapeCodes(q.outcome, b.outcome.columns)
  \o Told(~(BoundMetrics(b.covariates) \subseteq BoundMetrics(q.covariates)),
          "request.metric_binding_undeclared")
  \o Told(Duplicated(Metrics(b.preMetrics)), "request.metric_binding_duplicate")
  \o Each(q.preMetrics, LAMBDA pre : PreMetricCodes(pre, b.preMetrics))
  \o Told(~(BoundMetrics(b.preMetrics) \subseteq BoundMetrics(q.preMetrics)),
          "request.metric_binding_undeclared")
  \o Told(BoundMetrics(b.covariates) \cap BoundMetrics(b.preMetrics) # {},
          "request.metric_binding_conflict")
  \o ColumnCodes(b)
  \o Told(/\ q.segment # None
          /\ \E i \in DOMAIN q.covariates, j \in DOMAIN b.covariates :
               /\ q.covariates[i].metric = b.covariates[j].metric
               /\ q.covariates[i].role \in AdjustmentRoles
               /\ b.covariates[j].column = q.segment.attribute,
          "request.segment_covariate_binding_conflict")

DuplicateCodes(q) ==
  Told(Duplicated(Metrics(q.covariates)), "request.duplicate_covariate")
  \o Told(Duplicated(Metrics(q.preMetrics)), "request.duplicate_pre_treatment_metric")

\* The identifier of the outcome's metric is "outcome".
RoleCodes(q, b) ==
  Told(\E i \in DOMAIN q.covariates :
         \/ q.covariates[i].metric = "outcome"
         \/ q.covariates[i].role \in {"treatment_indicator", "treatment_proxy"},
       "request.covariate_role_conflict")
  \o Told(/\ q.segment # None
          /\ q.segment.attribute \in {b.arm, b.unit} \cup SetOf(b.outcome.columns)
                                     \cup ({b.assigned, b.cluster} \ {None}),
          "request.segment_role_conflict")

(***************************************************************************)
(* Covariates in time, and their relationship to the treatment.            *)
(***************************************************************************)
TimingCodes(q, v) ==
  IF v.timing = "post_treatment" THEN <<"covariate.post_treatment_leakage">>
  ELSE IF v.timing = "unknown" THEN <<"covariate.timing_unknown">>
  ELSE Told(/\ v.timing = "pre_treatment"
            /\ q.design # "observational" /\ v.period.end > q.post.start,
            "covariate.measurement_after_treatment")

RelationshipCodes(v) ==
  Told(v.relationship \in {"assignment_derived", "proxy"},
       "covariate.treatment_relationship_conflict")
  \o Told(v.relationship = "unknown", "covariate.relationship_unknown")

CovariateCodes(q) ==
  Each(q.covariates, LAMBDA v : TimingCodes(q, v) \o RelationshipCodes(v))

(***************************************************************************)
(* Units: of assignment, of analysis and of clustering.                    *)
(***************************************************************************)
RandomizationCodes(q, b) ==
  (IF q.assignmentUnit = q.unit THEN <<>>
   ELSE IF q.clustering = None THEN <<"unit.cluster_required">>
   ELSE Told(q.clustering # q.assignmentUnit, "unit.cluster_mismatch"))
  \o Told(b.assigned = None, "unit.randomization_identifier_required")
  \o Told(/\ q.assignmentUnit = q.unit
          /\ b.assigned # None /\ b.assigned # b.unit, "unit.binding_mismatch")
  \o Told(/\ q.clustering = q.assignmentUnit
          /\ b.assigned # None /\ b.cluster # None /\ b.assigned # b.cluster,
          "unit.binding_mismatch")

UnitCodes(q, b) ==
  (IF q.design = "randomized" THEN RandomizationCodes(q, b) ELSE <<>>)
  \o (IF q.clustering = None THEN <<>>
      ELSE IF b.cluster = None THEN <<"unit.cluster_identifier_required">>
      ELSE Told(q.clustering = q.unit /\ b.cluster # b.unit, "unit.binding_mismatch"))

RequestCodes(q, b) ==
  MetricEstimandCodes(q) \o CateCodes(q) \o MethodCodes(q, b) \o BindingCodes(q, b)
  \o DuplicateCodes(q) \o RoleCodes(q, b) \o CovariateCodes(q) \o UnitCodes(q, b)

(***************************************************************************)
(* What the rows of a table are checked for (data_rules.py and             *)
(* design_rules.py).  The rules that return early hide what the rules      *)
(* behind them would have said: a table that cannot be indexed is not      *)
(* examined, a population without rows is not either.                      *)
(***************************************************************************)
(***************************************************************************)
(* Data rules.                                                             *)
(***************************************************************************)
RequiredColumns(c) ==
  Protected(c.bind)
  \cup {c.bind.covariates[i].column : i \in DOMAIN c.bind.covariates}
  \cup (UNION {SetOf(c.bind.preMetrics[i].columns) : i \in DOMAIN c.bind.preMetrics})
  \cup (IF c.req.population = None THEN {} ELSE {"region"})

CovariateBindingCodes(c) ==
  Told(~(BoundMetrics(c.req.covariates) \subseteq BoundMetrics(c.bind.covariates)),
       "request.metric_binding_missing")

Declared(c) == UNION {ArmRows(c, arm) : arm \in Arms}

AssignmentCodes(c) ==
  Told(Empty(c, "arm"), "treatment.assignment_missing")
  \o Told(Values(c, "arm") \ Arms # {}, "treatment.unexpected_value")
  \o Told(\E arm \in Arms : ArmRows(c, arm) = {}, "treatment.arm_missing")

OutcomeReading(c, i) == Reading(c.req.outcome, c.bind.outcome, c.rows[i])

\* The rows the estimators may use: in a declared arm, with a valid outcome.
ValidRows(c) == {i \in Declared(c) : OutcomeReading(c, i) = "valid"}
ValidRowsOf(c, arm) == ValidRows(c) \cap ArmRows(c, arm)

\* The value of an outcome as a fraction; two are equal when they cross-multiply.
SameOutcome(c, i, j) ==
  LET ratio == Len(c.bind.outcome.columns) = 2
  IN  IF ratio THEN c.rows[i].outcome * c.rows[j].denominator
                    = c.rows[j].outcome * c.rows[i].denominator
      ELSE c.rows[i].outcome = c.rows[j].outcome

OutcomeCode ==
  [not_numeric |-> "schema.outcome_not_numeric", non_finite |-> "outcome.non_finite",
   invalid_binary |-> "outcome.invalid_binary", negative |-> "outcome.negative",
   out_of_bounds |-> "outcome.out_of_bounds", denominator_zero |-> "outcome.denominator_zero",
   denominator_invalid_sign |-> "outcome.denominator_invalid_sign"]

OutcomeCodes(c) ==
  LET seen == {OutcomeReading(c, i) : i \in Population(c)}
  IN  Each(ReadingOrder, LAMBDA reading : Told(reading \in seen, OutcomeCode[reading]))
      \o Told(/\ ValidRows(c) # {}
              /\ \A i, j \in ValidRows(c) : SameOutcome(c, i, j), "outcome.zero_variance")

\* Without a time column every row of the population counts for the period.
MeasuredRows(c, pre) ==
  {i \in Population(c) : c.bind.time # None => InPeriod(c.rows[i].time, pre.period)}

PreMetricCode ==
  [not_numeric |-> "pre_treatment_metric.not_numeric",
   non_finite |-> "pre_treatment_metric.non_finite",
   invalid_binary |-> "pre_treatment_metric.invalid_binary",
   negative |-> "pre_treatment_metric.negative",
   out_of_bounds |-> "pre_treatment_metric.out_of_bounds",
   denominator_zero |-> "pre_treatment_metric.denominator_zero",
   denominator_invalid_sign |-> "pre_treatment_metric.denominator_invalid_sign"]

PreMetricTableCodes(c, pre, binding) ==
  LET rows == MeasuredRows(c, pre)
      seen == {Reading(pre.type, binding, c.rows[i]) : i \in rows}
  IN  IF rows = {} THEN <<"pre_treatment_metric.period_unavailable">>
      ELSE Told("missing" \in seen, "pre_treatment_metric.missing")
           \o Each(ReadingOrder, LAMBDA reading :
                Told(reading \in seen, PreMetricCode[reading]))
           \o Told("valid" \notin seen, "pre_treatment_metric.empty_valid_population")

\* Two declarations of a metric count as the last one.
PreMetricsCodes(c) ==
  Each(c.bind.preMetrics, LAMBDA binding :
    LET declared == {i \in DOMAIN c.req.preMetrics :
                       c.req.preMetrics[i].metric = binding.metric}
    IN  IF declared = {} THEN <<>>
        ELSE PreMetricTableCodes(c, c.req.preMetrics[CHOOSE i \in declared :
                                      \A j \in declared : j <= i], binding))

SizeCodes(total, weakest, t) ==
  Told(total < t.minimumTotal, "sample.total_insufficient")
  \o Told(total >= t.minimumTotal /\ total < t.weakTotal, "sample.total_weak")
  \o Told(weakest < t.minimumPerArm, "sample.arm_insufficient")
  \o Told(weakest >= t.minimumPerArm /\ weakest < t.weakPerArm, "sample.arm_weak")

SampleCodes(c) ==
  LET Size(arm) == Cardinality(ValidRowsOf(c, arm))
  IN  SizeCodes(Size("treatment") + Size("control"),
                Min({Size("treatment"), Size("control")}), Threshold(c))

\* The observed share of the treatment against the declared one, as
\* percentages of the assigned rows.
AllocationCodes(c) ==
  LET assigned == Cardinality(Declared(c))
      gap == 100 * Cardinality(ArmRows(c, "treatment")) - c.req.treatmentShare * assigned
      deviation == IF gap < 0 THEN -gap ELSE gap
  IN  IF c.req.design # "randomized" \/ assigned = 0 THEN <<>>
      ELSE IF deviation >= AllocationBlocking * assigned
           THEN <<"allocation.deviation_blocking">>
      ELSE Told(deviation >= AllocationWarning * assigned, "allocation.deviation_warning")

\* A table without unique columns, rows or a required column.
SchemaCodes(c) ==
  IF Duplicated(c.columns) THEN <<"schema.duplicate_column">>
  ELSE IF c.rows = <<>> THEN <<"schema.empty_dataset">>
  ELSE IF ~(RequiredColumns(c) \subseteq SetOf(c.columns))
       THEN CovariateBindingCodes(c) \o <<"schema.required_column_missing">>
  ELSE <<>>

DataCodes(c) ==
  IF SchemaCodes(c) # <<>> THEN SchemaCodes(c)
  ELSE IF Population(c) = {} THEN <<"population.empty">>
  ELSE CovariateBindingCodes(c) \o AssignmentCodes(c) \o OutcomeCodes(c)
       \o PreMetricsCodes(c) \o SampleCodes(c) \o AllocationCodes(c)

(***************************************************************************)
(* Design rules.                                                           *)
(***************************************************************************)
Repeated(c, column) ==
  {v \in Values(c, column) : Cardinality(RowsWith(c, column, v)) > 1}

\* The declared arms among the rows of a unit.
ArmsOf(c, column, v) == {c.rows[i].arm : i \in RowsWith(c, column, v)} \cap Arms

RandomizationUnitCodes(c) ==
  LET column == c.bind.assigned
  IN  IF column = None THEN <<>>
      ELSE Told(Empty(c, column), "unit.randomization_identifier_missing")
           \o Told(\E v \in Values(c, column) : Cardinality(ArmsOf(c, column, v)) > 1,
                   "treatment.unit_multiple_assignments")
           \o Told(\E v \in Values(c, c.bind.unit) :
                     Cardinality({c.rows[i][column] : i \in RowsWith(c, c.bind.unit, v)}
                                 \ {None}) > 1,
                   "unit.randomization_observation_mismatch")

ClusterCodes(c) ==
  LET column == c.bind.cluster
      clusters == Cardinality(Values(c, column))
  IN  IF c.req.clustering = None \/ column = None THEN <<>>
      ELSE Told(Empty(c, column), "unit.cluster_identifier_missing")
           \o Told(clusters < Threshold(c).minimumClusters, "sample.cluster_insufficient")
           \o Told(clusters >= Threshold(c).minimumClusters /\ clusters < Threshold(c).weakClusters,
                   "sample.cluster_weak")

UnitTableCodesUntimed(c) ==  \* mutant: a timestamp excuses a unit that is observed again
  LET unit == c.bind.unit
  IN  Told(Empty(c, unit), "unit.identifier_missing")
      \o Told(Repeated(c, unit) # {} /\ c.bind.time = None, "unit.duplicate_observation")
      \o Told(\E v \in Values(c, unit) : Cardinality(ArmsOf(c, unit, v)) > 1,
              "treatment.switching")
      \o RandomizationUnitCodes(c)
      \o ClusterCodes(c)

UnitTableCodes(c) ==
  LET unit == c.bind.unit
      again == Repeated(c, unit) # {}
  IN  Told(Empty(c, unit), "unit.identifier_missing")
      \o Told(again /\ c.bind.time = None, "unit.duplicate_observation")
      \o Told(again /\ c.bind.time # None /\ c.req.clustering = None,
              "unit.repeated_without_clustering")
      \o Told(\E v \in Values(c, unit) : Cardinality(ArmsOf(c, unit, v)) > 1,
              "treatment.switching")
      \o RandomizationUnitCodes(c)
      \o ClusterCodes(c)

\* Every unit needs a row in the period, if the design declares the period.
Covered(c, period) ==
  \A v \in Values(c, c.bind.unit) :
    \E i \in RowsWith(c, c.bind.unit, v) : InPeriod(c.rows[i].time, period)

\* _treatment_time_bounds
OutOfBounds(q, instant) ==
  \/ q.design = "randomized" /\ (instant < q.post.start \/ instant >= q.post.end)
  \/ q.design = "quasi" /\ (instant < q.pre.end \/ instant > q.post.start)

TreatmentTimeCodes(c) ==
  LET cells == {c.rows[i].treated : i \in Population(c)}
      unit == IF c.req.design = "randomized" THEN c.bind.assigned ELSE c.bind.unit
  IN  IF c.bind.treated = None THEN <<>>
      ELSE Told(None \in cells, "time.treatment_timestamp_missing")
           \o Told(Text \in cells, "time.invalid_treatment_timestamp")
           \o Told(\E t \in cells : Instant(t) /\ OutOfBounds(c.req, t),
                   "time.treatment_timestamp_out_of_bounds")
           \o Told(/\ unit # None
                   /\ \E v \in Values(c, unit) :
                        Cardinality({t \in {c.rows[i].treated : i \in RowsWith(c, unit, v)} :
                                       Instant(t)}) > 1,
                   "treatment.timing_inconsistent")

TimeCodes(c) ==
  (IF c.bind.time = None THEN <<>>
   ELSE Told(Empty(c, "time"), "time.timestamp_missing")
        \o Told(Text \in Values(c, "time"), "time.invalid_timestamp")
        \o Told(\/ c.req.pre # None /\ ~Covered(c, c.req.pre)
                \/ ~Covered(c, c.req.post), "time.period_coverage_missing"))
  \o TreatmentTimeCodes(c)

\* With times, a covariate needs a value of every unit in its own period.
CovariateTableCodes(c) ==
  Each(c.req.covariates, LAMBDA v :
    LET bound == {i \in DOMAIN c.bind.covariates : c.bind.covariates[i].metric = v.metric}
    IN  IF bound = {} THEN <<"covariate.binding_missing">>
        ELSE LET column == c.bind.covariates[CHOOSE i \in bound : TRUE].column
             IN  Told(/\ c.bind.time # None
                      /\ \E u \in Values(c, c.bind.unit) :
                           \A i \in RowsWith(c, c.bind.unit, u) :
                             \/ c.rows[i][column] = None
                             \/ ~InPeriod(c.rows[i].time, v.period),
                      "covariate.period_unavailable"))

\* A criterion compares cells of its own type only.
Comparable(segment, cell) ==
  segment.op = "equal" \/ (cell # Text /\ cell # Infinite)
Selects(segment, cell) ==
  IF segment.op = "equal" THEN cell = segment.value ELSE cell >= segment.value

SegmentCodes(c) ==
  LET s == c.req.segment
      filled == {i \in Population(c) : c.rows[i][s.attribute] # None}
      fitting == {i \in filled : Comparable(s, c.rows[i][s.attribute])}
      selected == {i \in fitting : Selects(s, c.rows[i][s.attribute])}
      valid(arm) == Cardinality(selected \cap ValidRowsOf(c, arm))
  IN  IF s = None THEN <<>>
      ELSE IF ~Has(c, s.attribute) THEN <<"segment.column_missing">>
      ELSE Told(filled # Population(c), "segment.missing_assignment")
           \o Told(fitting # filled, "segment.criteria_incompatible")
           \o (IF selected = {}
               THEN Told(fitting = Population(c), "segment.value_absent")
               ELSE IF \E arm \in Arms : selected \cap ArmRows(c, arm) = {}
               THEN <<"segment.arm_missing">>
               ELSE Told(\E arm \in Arms : valid(arm) < Threshold(c).minimumPerSegmentArm,
                         "segment.insufficient_sample"))

\* Nothing is said of an empty population.
DesignCodes(c) ==
  IF Population(c) = {} THEN <<>>
  ELSE UnitTableCodes(c) \o CovariateTableCodes(c) \o TimeCodes(c) \o SegmentCodes(c)

(***************************************************************************)
(* What the codes add up to (service.py, models.py, capabilities.py).      *)
(***************************************************************************)
NeedsMoreData == {"sample.total_insufficient", "sample.arm_insufficient",
                  "sample.cluster_insufficient", "segment.value_absent",
                  "segment.arm_missing", "segment.insufficient_sample",
                  "time.period_coverage_missing"}
Warnings == {"sample.total_weak", "sample.arm_weak", "sample.cluster_weak",
             "allocation.deviation_warning"}
Informational == {"schema.dependent_rules_unavailable"}

Blocks(code) == code \notin NeedsMoreData \cup Warnings \cup Informational

CapabilityCodes(q, implemented) ==
  Told(<<q.design, q.method>> \notin implemented, "method.implementation_unavailable")

\* The design rules need a table that can be indexed.
EligibilityCodes(c, implemented) ==
  RequestCodes(c.req, c.bind) \o CapabilityCodes(c.req, implemented) \o DataCodes(c)
  \o (IF SchemaCodes(c) # <<>> THEN <<"schema.dependent_rules_unavailable">>
      ELSE DesignCodes(c))

Aggregate(codes) ==
  IF \E code \in codes : Blocks(code) THEN "ineligible"
  ELSE IF codes \cap NeedsMoreData # {} THEN "needs_more_data"
  ELSE IF codes \cap Warnings # {} THEN "eligible_with_warnings" ELSE "eligible"

EligibleStatuses == {"eligible", "eligible_with_warnings"}

\* data_is_eligible: the codes of the capability do not count.
DataEligible(codes) ==
  \A code \in codes \ {"method.implementation_unavailable"} :
    ~Blocks(code) /\ code \notin NeedsMoreData

\* The first code of the disposition that decides the status.
Primary(status, codes) ==
  IF status = "ineligible" THEN codes[SelectInSeq(codes, Blocks)]
  ELSE IF status = "needs_more_data"
  THEN codes[SelectInSeq(codes, LAMBDA code : code \in NeedsMoreData)]
  ELSE NoReason

Judged(codes, available) ==
  LET status == Aggregate(SetOf(codes))
  IN  [status |-> status, codes |-> SetOf(codes), primary |-> Primary(status, codes),
       executable |-> available /\ DataEligible(SetOf(codes)),
       available |-> available]

Eligibility(c, implemented) ==
  Judged(EligibilityCodes(c, implemented), <<c.req.design, c.req.method>> \in implemented)

\* validate_result: what the contract of an eligibility result demands.
EligibilityContract(e) ==
  /\ e.status = Aggregate(e.codes)
  /\ (e.primary # NoReason) <=> (e.status \notin EligibleStatuses)
  /\ e.executable <=> e.available /\ DataEligible(e.codes)
  /\ e.executable => e.status \in EligibleStatuses
  /\ e.available => "method.implementation_unavailable" \notin e.codes
  /\ ~e.available /\ DataEligible(e.codes) =>
       "method.implementation_unavailable" \in e.codes
==============================================================================
