---------------------------- MODULE ImpactScenario ----------------------------
(***************************************************************************)
(* BusinessImpactService (packages/experiments/analysis/impact): a         *)
(* scenario of what an estimated effect is worth.  The result of an        *)
(* estimator is adapted to a source, the declared business inputs are      *)
(* aligned with the source and with each other, and every quantity is      *)
(* computed four times with the bounds of its inputs.                      *)
(*                                                                         *)
(* A case that asks for a scenario has, under impact, the metric of the    *)
(* outcome, the numbers of the estimate, and the declared request q.       *)
(* Amounts are integers: exposure is counted in parts of One, and so is    *)
(* whatever is proportional to it.                                         *)
(***************************************************************************)
EXTENDS RandomizedEstimators, CausalEstimators

Observational(c) == c.req.method \in CausalMethods

(***************************************************************************)
(* Time: a number of days, or of months of DaysInMonth days.               *)
(***************************************************************************)
DaysInMonth == 4
MonthsIn == [months |-> 1, quarters |-> 3, years |-> 12]
IsBasis(b) == b.count \in Nat \ {0} /\ b.unit \in {"days"} \cup DOMAIN MonthsIn

\* end_from
Length(b) == b.count * (IF b.unit = "days" THEN 1 ELSE DaysInMonth * MonthsIn[b.unit])

\* How often a part is repeated in a whole; days and calendar periods do not
\* compare, and None is the answer for what does not divide.
Repetitions(part, whole) ==
  LET Count(b) == b.count * (IF b.unit = "days" THEN 1 ELSE MonthsIn[b.unit])
  IN  IF (part.unit = "days") # (whole.unit = "days") \/ Count(whole) % Count(part) # 0
      THEN None ELSE Count(whole) \div Count(part)

(***************************************************************************)
(* Bounds.  What depends on a central value that was not given is None.    *)
(***************************************************************************)
ASSUME AbsentAssumption == None \notin Int /\ None \notin [lower : Int, upper : Int]

Exactly(x) == [lower |-> x, upper |-> x]

Times(a, b) ==
  IF None \in {a, b} THEN None
  ELSE LET ends == {x * y : x \in {a.lower, a.upper}, y \in {b.lower, b.upper}}
       IN  [lower |-> Min(ends), upper |-> Max(ends)]
Plus(a, b) ==
  IF None \in {a, b} THEN None
  ELSE [lower |-> a.lower + b.lower, upper |-> a.upper + b.upper]
Minus(a, b) ==
  IF None \in {a, b} THEN None
  ELSE [lower |-> a.lower - b.upper, upper |-> a.upper - b.lower]

(***************************************************************************)
(* Declared inputs.  Evidence is abstracted to whether what is declared    *)
(* was measured or is assumed.                                             *)
(***************************************************************************)
One == 2
Entities == {"users", "sessions", "orders", "conversions", "events"}
Outputs == {"outcome", "gross", "net"}
CountUnit == [dimension |-> "count", scale |-> 1, currency |-> None]
OptionalInputs == {"baseline", "exposureConversion", "conversion", "costs", "persistence",
                   "repetition"}

IsMetricUnit(u) == u.scale \in Nat \ {0} /\ (u.currency # None <=> u.dimension = "currency")
IsRange(r) ==
  /\ {r.lower, r.upper} \subseteq Int /\ r.lower <= r.upper
  /\ r.central # None => r.central \in r.lower .. r.upper
Nonnegative(r) == IsRange(r) /\ r.lower >= 0
Rate(r) == Nonnegative(r) /\ r.upper <= One

\* input_evidence
Evidences(q) ==
  {q.population.evidence, q.exposure.evidence, q.horizon.evidence, q.binding.evidence}
  \cup {q[input].evidence : input \in {i \in OptionalInputs : q[i] # None}}
  \cup (IF q.costs = None THEN {} ELSE {item.evidence : item \in SetOf(q.costs.items)})

CostBases == {"implementation", "recurring", "per_exposure", "per_incremental_outcome"}
CostOK(item) ==
  /\ Nonnegative(item.value) /\ IsBasis(item.horizon) /\ item.basis \in CostBases
  /\ item.entity # None <=> item.basis = "per_exposure"
  /\ IF item.basis = "per_incremental_outcome" THEN item.metric # None /\ IsMetricUnit(item.unit)
     ELSE item.metric = None /\ item.unit = None /\ item.event = None

\* What the models let through.
ScenarioOK(q) ==
  /\ q.output \in Outputs /\ Evidences(q) \subseteq {"measured", "assumed"}
  /\ Nonnegative(q.population.value) /\ IsBasis(q.population.basis)
  /\ q.population.entity \in Entities
  /\ (q.population.group = None) <=> (q.population.rule = None)
  /\ q.group = q.population.group
  /\ Rate(q.exposure.value)
  /\ IsPeriod(q.horizon.period) /\ IsBasis(q.horizon.basis)
  /\ q.horizon.period.end = q.horizon.period.start + Length(q.horizon.basis)
  /\ IsMetricUnit(q.binding.unit)
  /\ q.binding.observed # None => IsPeriod(q.binding.observed)
  /\ q.baseline # None => Rate(q.baseline.value)
  /\ q.exposureConversion # None =>
       /\ Nonnegative(q.exposureConversion.value)
       /\ q.exposureConversion.from # q.exposureConversion.to
  /\ q.conversion # None =>
       Nonnegative(q.conversion.value) /\ q.conversion.orientation \in {"added", "avoided"}
  /\ q.persistence # None => q.persistence.evidence = "assumed" /\ IsPeriod(q.persistence.period)
  /\ q.repetition # None => q.repetition.repetitions \in Nat \ {0}
  /\ q.costs # None =>
       /\ IsList(q.costs.items)
       /\ ~Duplicated([i \in DOMAIN q.costs.items |-> q.costs.items[i].id])
       /\ \A item \in SetOf(q.costs.items) : CostOK(item)

(***************************************************************************)
(* The source: what a scenario may use of the result n of an estimator, or *)
(* the codes that keep it from using anything.                             *)
(***************************************************************************)
RandomizedScale(type) ==
  IF type = "binary" THEN "absolute_binary"
  ELSE IF type \in {"continuous", "count"} THEN "continuous" ELSE None

RandomizedTarget(estimand) ==
  IF estimand = "average_treatment_effect_on_treated" THEN "treated"
  ELSE IF estimand = "conditional_average_treatment_effect" THEN "conditioned" ELSE "full"

\* A declared ratio does not relabel the difference that was estimated.
CausalScale(q) ==
  IF None \in {q.estimand, q.outcome} THEN None
  ELSE IF q.estimand.scale = "risk_difference"
  THEN IF q.outcome.type \in {"binary", "proportion"} THEN "absolute_binary" ELSE None
  ELSE IF q.estimand.scale = "mean_difference"
  THEN IF q.outcome.type = "binary" THEN "absolute_binary" ELSE "continuous" ELSE None

\* The statuses an adapter accepts, which the envelope's do not tell apart.
AdaptedStatuses(method) ==
  {"completed"} \cup If(method = "cuped", {"no_improvement", "degraded_precision"})

\* The interval brackets the point, or it belongs to something else.
Bracketed(estimate) == estimate.lower <= estimate.point /\ estimate.point <= estimate.upper

Blocking(c, n, scale) ==
  If(n.status \notin AdaptedStatuses(c.req.method), {"native_status"})
  \cup If(scale = None, {"metric_scale_unsupported"})
  \cup If(~Bracketed(c.impact.estimate), {"interval_point_mismatch"})

\* A posterior of an outcome that does not vary carries the diagnostic that
\* the service of the method lets pass.
RandomizedBlocks(c, n, scale) ==
  Blocking(c, n, scale)
  \cup If(c.req.estimand = "relative_lift", {"relative_uncertainty_missing"})
  \cup If(/\ c.req.method = "bayesian_ab"
          /\ Eligibility(c, Bayesian).codes \cap CompatibleBlockers # {},
          {"native_diagnostic"})

\* Every assumption that nobody has assessed makes a scenario conditional; there
\* is one in every result.
RandomizedSource(c, n) ==
  LET scale == RandomizedScale(c.req.outcome)
  IN  [blocks |-> RandomizedBlocks(c, n, scale), scale |-> scale, conditional |-> TRUE,
       population |-> IF c.req.population = None THEN "everyone" ELSE c.req.population,
       unit |-> c.req.unit, observed |-> c.req.post,
       target |-> RandomizedTarget(c.req.estimand), group |-> None, rule |-> None]

\* _reidentify: the identification is asked for again, whatever the estimator
\* made of it.
Reidentify(identified) ==
  If(identified.status # "identified", {"identification_invalid"})

\* One subgroup is selected, and it has an estimate of its own.
SubgroupBlocks(c, n, group) ==
  IF group = None THEN {"subgroup_required"}
  ELSE IF group \notin GroupIds(c) THEN {"subgroup_unknown"}
  ELSE If(group \notin n.estimates, {"subgroup_status"})

\* Scores are no estimate of an effect, whatever they are called, and an
\* estimate without an interval is of no use.
CausalBlocks(c, n, scale) ==
  IF c.req.method = "propensity_diagnostics" THEN {"non_effect"}
  ELSE IF c.req.method = "dowhy" THEN {"uncertainty_missing"}
  ELSE Blocking(c, n, scale) \cup Reidentify(Identification(c.ident))
       \cup IF c.req.method \in SubgroupMethods THEN SubgroupBlocks(c, n, c.impact.q.group)
            ELSE If({"effect", "att"} \cap n.estimates = {}, {"uncertainty_missing"})

CausalSource(c, n) ==
  LET q == c.ident
      scale == CausalScale(q)
      grouped == c.req.method \in SubgroupMethods
  IN  [blocks |-> CausalBlocks(c, n, scale), scale |-> scale, conditional |-> TRUE,
       population |-> IF q.estimand = None THEN None ELSE q.estimand.population,
       unit |-> q.units, observed |-> q.post,
       target |-> IF q.estimand = None THEN None ELSE TargetOf[q.estimand.kind],
       group |-> IF grouped THEN c.impact.q.group ELSE None,
       rule |-> IF grouped THEN c.impact.q.group ELSE None]

SourceOf(c, n) ==
  IF Observational(c) THEN CausalSource(c, n) ELSE RandomizedSource(c, n)

(***************************************************************************)
(* Alignment: the codes of what does not fit, in the order of the code.    *)
(***************************************************************************)
Binary(s) == s.scale = "absolute_binary"
OutcomeUnit(s, q) == IF Binary(s) THEN CountUnit ELSE q.binding.unit

SourceMisfits(s, q, metric) ==
  LET p == q.population
      b == q.binding
  IN  Told(s.population # p.definition, "population_mismatch")
      \o Told(s.target # p.target, "target_mismatch")
      \o Told(s.group # p.group \/ s.rule # p.rule, "subgroup_mismatch")
      \o Told(s.unit # b.analysisUnit, "analysis_unit_mismatch")
      \o Told(metric.id # b.metric \/ metric.unit # b.unit, "metric_mismatch")
      \o Told((Binary(s) \/ b.unit.dimension = "count") /\ b.event = None, "event_missing")
      \o Told(~Binary(s) /\ b.event # None /\ b.unit.dimension # "count", "event_incompatible")
      \o Told(Binary(s) /\ b.unit.dimension # "proportion", "effect_scale_mismatch")
      \o Told(q.baseline # None, "unused_baseline")

ExposureMisfits(q) ==
  LET p == q.population
      rate == q.exposure.value
      converted == q.exposureConversion
      already == p.exposure = "already_exposed"
      declared == q.exposure.meaning = "already_exposed"
  IN  (IF p.entity = q.binding.entity THEN Told(converted # None, "duplicate_exposure_conversion")
       ELSE Told(\/ converted = None
                 \/ converted.from # p.entity \/ converted.to # q.binding.entity,
                 "exposure_unit_mismatch"))
      \o Told(already /\ ~(declared /\ {rate.lower, rate.central, rate.upper} = {One}),
              "double_exposure")
      \o Told(~already /\ declared, "exposure_basis_mismatch")

MultiplierOf(q) ==
  IF q.population.basis = q.horizon.basis THEN 1
  ELSE Repetitions(q.population.basis, q.horizon.basis)

\* A population of a shorter period is repeated, once, as declared.
PeriodMisfits(q) ==
  LET p == q.population
      h == q.horizon.basis
      times == q.repetition
  IN  IF p.basis = h THEN Told(times # None, "duplicate_annualization")
      ELSE Told(\/ ~p.perPeriod \/ None \in {times, MultiplierOf(q)}
                \/ times.source # p.basis \/ times.target # h
                \/ times.repetitions # MultiplierOf(q),
                "population_horizon_mismatch")

HorizonMisfits(q) ==
  FlattenSeq([i \in 1..4 |->
    LET input == q[<<"exposure", "baseline", "conversion", "exposureConversion">>[i]]
    IN  Told(input # None /\ input.horizon # q.horizon.basis, "horizon_mismatch")])

Covers(outer, inner) == outer.start <= inner.start /\ inner.end <= outer.end

\* The binding says what was observed where the source does not.
ObservedOf(s, q) == IF s.observed = None THEN q.binding.observed ELSE s.observed
Extrapolated(s, q) ==
  ObservedOf(s, q) = None \/ ~Covers(ObservedOf(s, q), q.horizon.period)

ObservationMisfits(s, q) ==
  LET declared == q.binding.observed
  IN  Told(None \notin {declared, s.observed} /\ declared # s.observed,
           "observed_period_conflict")
      \o Told(declared # None /\ s.observed = None /\ q.binding.evidence # "measured",
              "observed_period_unmeasured")
      \o Told(ObservedOf(s, q) = None, "observed_period_missing")
      \o Told(/\ Extrapolated(s, q)
              /\ q.persistence = None \/ ~Covers(q.persistence.period, q.horizon.period),
              "persistence_missing")

OwnCurrency(s, q) == IF Binary(s) THEN None ELSE q.binding.unit.currency
CurrencyOf(s, q) == IF q.conversion = None THEN OwnCurrency(s, q) ELSE q.conversion.currency

\* What an amount or a cost is per, against the outcome.
PerOutcome(s, q, item) ==
  item.metric = q.binding.metric /\ item.unit = OutcomeUnit(s, q) /\ item.event = q.binding.event

CostMisfits(s, q, item) ==
  Told(item.currency # CurrencyOf(s, q), "currency_mismatch")
  \o Told(IF item.basis = "recurring" THEN Repetitions(item.horizon, q.horizon.basis) = None
          ELSE item.horizon # q.horizon.basis, "cost_horizon_mismatch")
  \o Told(\/ item.basis = "per_exposure" /\ item.entity # q.binding.entity
          \/ item.basis = "per_incremental_outcome" /\ ~PerOutcome(s, q, item),
          "cost_unit_mismatch")

MoneyMisfits(s, q) ==
  LET paid == q.conversion
      currency == CurrencyOf(s, q)
  IN  Told(paid # None /\ OwnCurrency(s, q) # None, "double_monetization")
      \o Told(paid # None /\ ~PerOutcome(s, q, paid), "conversion_unit_mismatch")
      \o Told(q.output # "outcome" /\ currency = None, "conversion_missing")
      \o Told(q.output = "net" /\ q.costs = None, "costs_missing")
      \o Told(q.costs # None /\ currency = None, "costs_without_money")
      \o (IF q.costs = None THEN <<>>
          ELSE Each(q.costs.items, LAMBDA item : CostMisfits(s, q, item)))

Misfits(s, q, metric) ==
  SourceMisfits(s, q, metric) \o ExposureMisfits(q) \o PeriodMisfits(q) \o HorizonMisfits(q)
  \o ObservationMisfits(s, q) \o MoneyMisfits(s, q)

(***************************************************************************)
(* Calculation.  A mode says which inputs are taken with their bounds: the *)
(* effect's, the business', both or none.                                  *)
(***************************************************************************)
ValueIn(mode, range) ==
  IF mode \in {"business", "combined"} THEN [lower |-> range.lower, upper |-> range.upper]
  ELSE IF range.central = None THEN None ELSE Exactly(range.central)

ExposedIn(mode, q) ==
  Times(Times(Times(ValueIn(mode, q.population.value), ValueIn(mode, q.exposure.value)),
              Exactly(MultiplierOf(q))),
        IF q.exposureConversion = None THEN Exactly(1)
        ELSE ValueIn(mode, q.exposureConversion.value))

EffectIn(mode, s, q, estimate) ==
  Times(IF mode \in {"statistical", "combined"}
        THEN [lower |-> estimate.lower, upper |-> estimate.upper] ELSE Exactly(estimate.point),
        Exactly(IF Binary(s) THEN q.binding.unit.scale ELSE 1))

WorthIn(mode, q) ==
  IF q.conversion = None THEN Exactly(q.binding.unit.scale)
  ELSE Times(ValueIn(mode, q.conversion.value),
             Exactly(IF q.conversion.orientation = "added" THEN 1 ELSE -1))

Occurrences(q, item) ==
  IF item.basis = "recurring" THEN Repetitions(item.horizon, q.horizon.basis) ELSE 1

\* What the items that have a basis come to, in money or per entity or outcome.
CostIn(mode, q, bases, item) ==
  IF item.basis \in bases THEN Times(ValueIn(mode, item.value), Exactly(Occurrences(q, item)))
  ELSE Exactly(0)
CostsIn(mode, q, bases) ==
  LET costs == [i \in DOMAIN q.costs.items |-> CostIn(mode, q, bases, q.costs.items[i])]
  IN  IF \E i \in DOMAIN costs : costs[i] = None THEN None
      ELSE [lower |-> SumFunction([i \in DOMAIN costs |-> costs[i].lower]),
            upper |-> SumFunction([i \in DOMAIN costs |-> costs[i].upper])]
OnceOrRecurring == {"implementation", "recurring"}

ItemIn(mode, q, a, e, item) ==
  Times(ValueIn(mode, item.value),
        IF item.basis = "per_exposure" THEN a
        ELSE IF item.basis = "per_incremental_outcome" THEN Times(a, e)
        ELSE Exactly(One * Occurrences(q, item)))
DeclaredIn(mode, q, a, e) ==
  Plus(Times(Exactly(One), CostsIn(mode, q, OnceOrRecurring)),
       Times(a, Plus(CostsIn(mode, q, {"per_exposure"}),
                     Times(e, CostsIn(mode, q, {"per_incremental_outcome"})))))

NetSubtracted(mode, q, a, e) ==  \* mutant: what has a range twice is subtracted from itself
  Minus(Times(Times(a, e), WorthIn(mode, q)), DeclaredIn(mode, q, a, e))

\* Exposure and effect are taken once, which is tighter than a subtraction.
NetIn(mode, q, a, e) ==
  Minus(Times(a, Minus(Times(e, Minus(WorthIn(mode, q),
                                      CostsIn(mode, q, {"per_incremental_outcome"}))),
                       CostsIn(mode, q, {"per_exposure"}))),
        Times(Exactly(One), CostsIn(mode, q, OnceOrRecurring)))

ItemIds(q) == IF q.costs = None THEN {} ELSE {item.id : item \in SetOf(q.costs.items)}
Item(q, id) == CHOOSE item \in SetOf(q.costs.items) : item.id = id

Quantities(q) ==
  {"exposed_population", "gross_incremental_outcome"}
  \cup If(q.output # "outcome", {"gross_monetary_impact"})
  \cup If(q.output = "net", {"declared_costs", "net_monetary_impact"} \cup ItemIds(q))

BoundsIn(mode, s, q, estimate, field) ==
  LET a == ExposedIn(mode, q)
      e == EffectIn(mode, s, q, estimate)
  IN  CASE field = "exposed_population" -> a
        [] field = "gross_incremental_outcome" -> Times(a, e)
        [] field = "gross_monetary_impact" -> Times(Times(a, e), WorthIn(mode, q))
        [] field = "declared_costs" -> DeclaredIn(mode, q, a, e)
        [] field = "net_monetary_impact" -> NetIn(mode, q, a, e)
        [] OTHER -> ItemIn(mode, q, a, e, Item(q, field))

\* What does not depend on the effect has no statistical interval.
DependsOnEffect(q, field) ==
  CASE field = "exposed_population" -> FALSE
    [] field = "declared_costs" ->
         \E item \in SetOf(q.costs.items) : item.basis = "per_incremental_outcome"
    [] field \in ItemIds(q) -> Item(q, field).basis = "per_incremental_outcome"
    [] OTHER -> TRUE

Quantity(s, q, estimate, field) ==
  LET In(mode) == BoundsIn(mode, s, q, estimate, field)
  IN  [central |-> IF In("central") = None THEN None ELSE In("central").lower,
       statistical |-> IF DependsOnEffect(q, field) THEN In("statistical") ELSE None,
       business |-> In("business"), combined |-> In("combined")]

(***************************************************************************)
(* Results.                                                                *)
(***************************************************************************)
NoNumbers == [field \in {} |-> None]
Abstention(reason) == [status |-> "abstained", reason |-> reason, numbers |-> NoNumbers]
Failed == [status |-> "failed", reason |-> "failure", numbers |-> NoNumbers]

Conditional(s, q) == s.conditional \/ Extrapolated(s, q) \/ "assumed" \in Evidences(q)

ScenarioOf(s, q, estimate) ==
  [status |-> IF Conditional(s, q) THEN "inconclusive" ELSE "completed", reason |-> NoReason,
   numbers |-> [field \in Quantities(q) |-> Quantity(s, q, estimate, field)]]

\* disposition, uncertainty_shape: what the models of a result insist on.
Disposed(s, q, result_) ==
  LET numbers == result_.numbers
  IN  /\ result_.status = "completed" => ~Conditional(s, q)
      /\ {"exposed_population", "gross_incremental_outcome"} \subseteq DOMAIN numbers
      /\ "gross_monetary_impact" \in DOMAIN numbers <=> q.output # "outcome"
      /\ IF q.output = "net"
         THEN {"declared_costs", "net_monetary_impact"} \cup ItemIds(q) \subseteq DOMAIN numbers
         ELSE DOMAIN numbers \subseteq {"exposed_population", "gross_incremental_outcome",
                                       "gross_monetary_impact"}

\* Floats may overflow where integers do not.
Computed(s, q, estimate) ==
  LET scenario_ == ScenarioOf(s, q, estimate)
  IN  {Abstention("nonfinite_arithmetic"),
       IF Disposed(s, q, scenario_) THEN scenario_ ELSE Failed}

Calculated(s, q, estimate, misfits) ==
  IF misfits # <<>> THEN {Abstention(Head(misfits))} ELSE Computed(s, q, estimate)

\* analyze_business and analyze, for an envelope with a status.
ImpactResults(c, n, status) ==
  LET s == SourceOf(c, n)
      i == c.impact
  IN  IF status \notin {"completed", "inconclusive"} THEN {Abstention("upstream_ineligible")}
      ELSE IF s.blocks # {} THEN {Abstention("source_ineligible")}
      ELSE Calculated(s, i.q, i.estimate, Misfits(s, i.q, i.metric))

-----------------------------------------------------------------------------
(* What a scenario is: a number for every choice of the inputs in their    *)
(* ranges, said without bounds, repetitions or adapters.                   *)

\* A central value that was not given could be any.
ChoicesOf(mode, range) ==
  IF mode \in {"business", "combined"} THEN range.lower .. range.upper
  ELSE IF range.central = None THEN {range.lower, range.upper} ELSE {range.central}

CostChoices(mode, q) ==
  LET items == IF q.costs = None THEN <<>> ELSE q.costs.items
      values == [i \in DOMAIN items |-> ChoicesOf(mode, items[i].value)]
  IN  {f \in [DOMAIN items -> UNION {values[i] : i \in DOMAIN items}] :
         \A i \in DOMAIN items : f[i] \in values[i]}

\* What is money already has no other worth.
Draws(mode, q, estimate) ==
  [population : ChoicesOf(mode, q.population.value), exposure : ChoicesOf(mode, q.exposure.value),
   ratio : IF q.exposureConversion = None THEN {1} ELSE ChoicesOf(mode, q.exposureConversion.value),
   worth : IF q.conversion = None \/ q.binding.unit.currency # None THEN {q.binding.unit.scale}
           ELSE ChoicesOf(mode, q.conversion.value),
   effect : IF mode \in {"statistical", "combined"} THEN estimate.lower .. estimate.upper
            ELSE {estimate.point},
   cost : CostChoices(mode, q)]

\* A difference of shares is counted; any other is in the unit of the metric.
IsShare(c) ==
  IF Observational(c) THEN \/ c.ident.estimand.scale = "risk_difference"
                           \/ c.ident.outcome.type = "binary"
  ELSE c.req.outcome = "binary"

Share(q, x) ==
  IF q.population.exposure = "already_exposed" THEN One ELSE x.exposure
Exposure(q, x) ==
  (x.population * Share(q, x) * x.ratio * Length(q.horizon.basis)) \div Length(q.population.basis)
Events(c, q, x) ==
  Exposure(q, x) * x.effect * (IF IsShare(c) THEN q.binding.unit.scale ELSE 1)
Money(c, q, x) ==
  Events(c, q, x) * x.worth
    * (IF q.conversion # None /\ q.conversion.orientation = "avoided" THEN -1 ELSE 1)
Charge(c, q, x, i) ==
  LET item == q.costs.items[i]
  IN  x.cost[i] *
      CASE item.basis = "per_exposure" -> Exposure(q, x)
        [] item.basis = "per_incremental_outcome" -> Events(c, q, x)
        [] item.basis = "recurring" ->
             (One * Length(q.horizon.basis)) \div Length(item.horizon)
        [] item.basis = "implementation" -> One
Charges(c, q, x) == SumFunction([i \in DOMAIN q.costs.items |-> Charge(c, q, x, i)])

Amount(c, q, x, field) ==
  CASE field = "exposed_population" -> Exposure(q, x)
    [] field = "gross_incremental_outcome" -> Events(c, q, x)
    [] field = "gross_monetary_impact" -> Money(c, q, x)
    [] field = "declared_costs" -> Charges(c, q, x)
    [] field = "net_monetary_impact" -> Money(c, q, x) - Charges(c, q, x)
    [] OTHER -> Charge(c, q, x, CHOOSE i \in DOMAIN q.costs.items : q.costs.items[i].id = field)

\* The band is the smallest that holds every choice.
Tight(c, q, mode, field, band) ==
  LET amounts == {Amount(c, q, x, field) : x \in Draws(mode, q, c.impact.estimate)}
  IN  band = [lower |-> Min(amounts), upper |-> Max(amounts)]

Centrals(q) ==
  {q[input].value.central : input \in {"population", "exposure"}}
  \cup {q[input].value.central :
          input \in {i \in {"exposureConversion", "conversion"} : q[i] # None}}
  \cup (IF q.costs = None THEN {} ELSE {item.value.central : item \in SetOf(q.costs.items)})

\* Nothing is worth anything at a time for which the effect is neither observed
\* nor said to last.
Accounted(c, q) ==
  LET observed == IF Observational(c) THEN c.ident.post ELSE c.req.post
      known == {p \in {observed, q.binding.observed} :
                  p # None /\ (p = observed \/ observed = None)}
  IN  \A day \in q.horizon.period.start .. (q.horizon.period.end - 1) :
        \/ \E p \in known : day \in p.start .. (p.end - 1)
        \/ /\ q.persistence # None
           /\ day \in q.persistence.period.start .. (q.persistence.period.end - 1)

\* There is an effect of the units the scenario is about, and it is identified.
Rests(c, n) ==
  IF ~Observational(c) THEN {"effect", "adjusted", "posterior"} \cap n.estimates # {}
  ELSE /\ Identification(c.ident).status = "identified"
       /\ (IF c.req.method \in SubgroupMethods THEN {c.impact.q.population.group} ELSE {"effect", "att"})
            \cap n.estimates # {}

\* A population of a shorter period is repeated a whole number of times.
Founded(c, n) ==
  LET q == c.impact.q
  IN  /\ Rests(c, n) /\ Accounted(c, q)
      /\ Length(q.horizon.basis) % Length(q.population.basis) = 0

Banded(c, result_) ==
  LET q == c.impact.q
  IN  \A field \in DOMAIN result_.numbers :
        LET number == result_.numbers[field]
        IN  /\ Tight(c, q, "combined", field, number.combined)
            /\ Tight(c, q, "business", field, number.business)
            /\ number.statistical # None => Tight(c, q, "statistical", field, number.statistical)
            /\ number.central # None => Tight(c, q, "central", field, Exactly(number.central))
            /\ None \notin Centrals(q) => number.central # None
=============================================================================
