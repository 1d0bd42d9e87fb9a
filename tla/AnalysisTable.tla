---------------------------- MODULE AnalysisTable ----------------------------
(***************************************************************************)
(* What an analysis is asked of (packages/experiments/analysis): a request *)
(* over a table, and a binding of the roles of the request to columns of   *)
(* the table.  Tables keep their rows.  A cell is an integer or an         *)
(* identifier, or one of three model values: None (nothing), Text (a value *)
(* of the wrong type, a timestamp that does not parse) and Infinite (a     *)
(* number that is not finite).  Times are integers.                        *)
(***************************************************************************)
EXTENDS Integers, Sequences, FiniteSets, SequencesExt

CONSTANTS
  None, Text, Infinite,
  Policy   \* the thresholds of ValidationPolicy

Thresholds == {"minimumTotal", "weakTotal", "minimumPerArm", "weakPerArm",
               "minimumPerSegmentArm", "minimumClusters", "weakClusters"}

\* validate_threshold_order.  The missingness thresholds are off by default,
\* the allocation thresholds are percentages.
ASSUME PolicyAssumption ==
  /\ Policy \in [Thresholds -> Nat \ {0}]
  /\ Policy.weakTotal >= Policy.minimumTotal
  /\ Policy.weakPerArm >= Policy.minimumPerArm
  /\ Policy.weakClusters >= Policy.minimumClusters /\ Policy.minimumClusters >= 2

ThresholdRaised(c) ==  \* mutant: the Bayesian service asks for more than the others
  IF c.req.method = "bayesian_ab"
  THEN [Policy EXCEPT !.minimumPerArm = Policy.weakPerArm] ELSE Policy

\* The Bayesian service brings a policy of its own.
Threshold(c) ==
  IF c.req.method = "bayesian_ab"
  THEN [Policy EXCEPT !.minimumTotal = 2, !.minimumPerArm = 1] ELSE Policy

AllocationWarning == 10
AllocationBlocking == 25

SetOf(seq) == {seq[i] : i \in DOMAIN seq}
IsList(seq) == seq \in Seq(SetOf(seq))

Numeric(cell) == cell \in Int \cup {None, Text, Infinite}

Columns == {"arm", "outcome", "denominator", "unit", "assigned", "cluster",
            "time", "treated", "covariate", "history", "region", "segment"}

(***************************************************************************)
(* Requests.                                                               *)
(***************************************************************************)
MethodsOf ==
  [randomized |-> {"fixed_horizon_ab", "cuped", "sequential_ab", "bayesian_ab",
                   "heterogeneous_treatment_effect"},
   quasi |-> {"difference_in_differences"},
   observational |-> {"propensity_score", "weighting", "double_machine_learning",
                      "heterogeneous_treatment_effect"}]

Estimands == {"difference_in_means", "difference_in_proportions", "absolute_lift",
              "relative_lift", "average_treatment_effect",
              "average_treatment_effect_on_treated",
              "conditional_average_treatment_effect", "intention_to_treat"}
MetricTypes == {"continuous", "binary", "count", "proportion", "rate", "ratio"}
Timings == {"pre_treatment", "at_treatment", "post_treatment", "time_varying", "unknown"}
CovariateRoles == {"adjustment", "confounder", "precision", "effect_modifier", "cuped",
                   "treatment_indicator", "treatment_proxy"}
Relationships == {"none_known", "assignment_derived", "proxy", "unknown"}
UnitNames == {"user", "session", "shop"}
IsPeriod(p) == p.start \in Nat /\ p.end \in Nat /\ p.start < p.end

IsCovariate(v) ==
  /\ v.type \in MetricTypes /\ v.timing \in Timings /\ v.role \in CovariateRoles
  /\ v.relationship \in Relationships /\ IsPeriod(v.period)
IsPreMetric(m) == m.type \in MetricTypes /\ IsPeriod(m.period)
IsSegment(s) == s.attribute \in Columns /\ s.op \in {"equal", "at_least"} /\ s.value \in Int

\* What the contract models let through, in the fields the rules read.  The
\* period of a randomized experiment or of an observation is called post.
RequestFields ==
  {"design", "method", "estimand", "conditioning", "outcome", "segment", "population",
   "unit", "assignmentUnit", "clustering", "treatmentShare", "pre", "post", "covariates",
   "preMetrics", "uncertainty", "alternative", "likelihood"}

RequestOK(q) ==
  /\ RequestFields \subseteq DOMAIN q /\ IsList(q.covariates) /\ IsList(q.preMetrics)
  /\ q.design \in DOMAIN MethodsOf /\ q.method \in MethodsOf[q.design]
  /\ q.estimand \in Estimands
  /\ (q.estimand = "conditional_average_treatment_effect") <=> (q.conditioning # None)
  /\ q.outcome \in MetricTypes
  /\ \A s \in {q.conditioning, q.segment} \ {None} : IsSegment(s)
  /\ q.population \in {None, "eu"}
  /\ q.unit \in UnitNames /\ q.assignmentUnit \in UnitNames
  /\ q.clustering \in UnitNames \cup {None}
  /\ q.treatmentShare \in 1..99
  /\ q.uncertainty \in {"confidence", "credible"} /\ q.alternative \in {"two_sided", "greater"}
  /\ q.likelihood \in {"bernoulli", "normal"}
  /\ q.method = "bayesian_ab" => q.uncertainty = "credible"
  /\ IsPeriod(q.post)
  /\ q.pre # None <=> q.design = "quasi"
  /\ q.pre # None => IsPeriod(q.pre) /\ q.pre.end <= q.post.start
  /\ \A i \in DOMAIN q.covariates : IsCovariate(q.covariates[i])
  /\ \A i \in DOMAIN q.preMetrics :
       /\ IsPreMetric(q.preMetrics[i])
       /\ q.design # "observational" => q.preMetrics[i].period.end <= q.post.start

(***************************************************************************)
(* Bindings.  A role that is not bound is None.                            *)
(***************************************************************************)
Optional == {"assigned", "cluster", "time", "treated"}
BoundTo(b) == {b[role] : role \in Optional} \ {None}

BindingFields == {"arm", "unit", "outcome", "covariates", "preMetrics"} \cup Optional

\* validate_shape and validate_roles.
BindingOK(b) ==
  /\ BindingFields \subseteq DOMAIN b
  /\ IsList(b.covariates) /\ IsList(b.preMetrics)
  /\ \A i \in DOMAIN b.preMetrics : IsList(b.preMetrics[i].columns)
  /\ b.arm = "arm" /\ b.unit \in Columns
  /\ \A role \in Optional : b[role] \in Columns \cup {None}
  /\ b.time \in {"time", None} /\ b.treated \in {"treated", None}
  /\ b.outcome.columns \in {<<"outcome">>, <<"outcome", "denominator">>}
  /\ \A i \in DOMAIN b.covariates : b.covariates[i].column \in Columns
  /\ \A i, j \in DOMAIN b.covariates :
       i # j => /\ b.covariates[i].metric # b.covariates[j].metric
                /\ b.covariates[i].column # b.covariates[j].column
  /\ b.arm \notin SetOf(b.outcome.columns)
  /\ \A i \in DOMAIN b.covariates :
       b.covariates[i].column \notin {b.arm, b.unit} \cup SetOf(b.outcome.columns) \cup BoundTo(b)

(***************************************************************************)
(* Tables.                                                                 *)
(***************************************************************************)
\* A column that is read as numbers has numbers, or what is none; one that is
\* read as times has instants, or what is none.
NumberColumns(b) ==
  SetOf(b.outcome.columns) \cup {b.covariates[i].column : i \in DOMAIN b.covariates}

TableOK(c) ==
  /\ {"req", "bind", "floats", "columns", "rows"} \subseteq DOMAIN c
  /\ IsList(c.columns) /\ IsList(c.rows)
  /\ \A i \in DOMAIN c.rows :
       /\ \A column \in NumberColumns(c.bind) : Numeric(c.rows[i][column])
       /\ c.rows[i].time \in Int \cup {None, Text}

Has(c, column) == column \in SetOf(c.columns)
Duplicated(seq) == Cardinality(SetOf(seq)) # Len(seq)

\* evaluate_criteria for the criterion of the population.
Population(c) ==
  {i \in DOMAIN c.rows : c.req.population # None => c.rows[i].region = c.req.population}

ArmRows(c, arm) == {i \in Population(c) : c.rows[i].arm = arm}
Arms == {"treatment", "control"}

\* _exact_groups: the rows of the population that share a value; an empty
\* cell belongs to no group.
Values(c, column) == {c.rows[i][column] : i \in Population(c)} \ {None}
RowsWith(c, column, value) == {i \in Population(c) : c.rows[i][column] = value}
Empty(c, column) == \E i \in Population(c) : c.rows[i][column] = None

\* _parse_timestamp and _in_period
Instant(cell) == cell \notin {None, Text}
InPeriod(cell, p) == Instant(cell) /\ p.start <= cell /\ cell < p.end

(***************************************************************************)
(* The classification of a metric's cells in a row, for outcomes and       *)
(* pre-treatment metrics alike.  Values are compared as fractions n / d.   *)
(***************************************************************************)
OutsideBounds(n, d, type, binding) ==
  \/ binding.lower # None /\ n < binding.lower * d
  \/ binding.upper # None /\ n > binding.upper * d
  \/ type = "proportion" /\ binding.lower = None /\ n < 0
  \/ type = "proportion" /\ binding.upper = None /\ n > d

Reading(type, binding, row) ==
  LET cells == [i \in DOMAIN binding.columns |-> row[binding.columns[i]]]
      n == cells[1]
      d == IF Len(cells) = 2 THEN cells[2] ELSE 1
  IN  IF None \in SetOf(cells) THEN "missing"
      ELSE IF Text \in SetOf(cells) THEN "not_numeric"
      ELSE IF Infinite \in SetOf(cells) THEN "non_finite"
      ELSE IF d = 0 THEN "denominator_zero"
      ELSE IF d < 0 THEN "denominator_invalid_sign"
      ELSE IF type = "binary" /\ n \notin {0, d} THEN "invalid_binary"
      ELSE IF (type = "count" \/ ~binding.allowNegative) /\ n < 0 THEN "negative"
      ELSE IF OutsideBounds(n, d, type, binding) THEN "out_of_bounds"
      ELSE "valid"

\* The readings in the order in which they are reported.
ReadingOrder == <<"not_numeric", "non_finite", "invalid_binary", "negative",
                  "out_of_bounds", "denominator_zero", "denominator_invalid_sign">>

(***************************************************************************)
(* Reporting.                                                              *)
(***************************************************************************)
NoReason == "none"   \* of what is not withheld, and of what has no fault
Told(condition, code) == IF condition THEN <<code>> ELSE <<>>
Each(seq, Codes(_)) == FlattenSeq([i \in DOMAIN seq |-> Codes(seq[i])])
=============================================================================
