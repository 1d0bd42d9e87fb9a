---------------------------- MODULE TypedAnalysis ----------------------------
(***************************************************************************)
(* The analysis node of the workflow with the services behind it           *)
(* (orchestration/service.py, registry.py): a typed request names a method *)
(* and brings a table; the service of the method decides on a result of    *)
(* its own; the orchestration translates its status, keeps it in an        *)
(* envelope, and the rest of the workflow goes on as AnalysisIntegrity     *)
(* says.  The methods that are not modelled may answer anything.           *)
(*                                                                         *)
(* A case that asks for a business scenario keeps its result for the node  *)
(* behind (orchestration/business.py); what of other results becomes there *)
(* is left as open as AnalysisIntegrity leaves it.                         *)
(***************************************************************************)
EXTENDS AnalysisIntegrity, ImpactScenario

CONSTANTS
  Cases,     \* the requests and tables the modelled services are asked about
  Examined   \* the questions that bring them; no service reads the question

AsksForScenario(c) == "impact" \in DOMAIN c

ASSUME CasesAssumption ==
  \A c \in Cases :
    /\ IF Observational(c) THEN CausalOK(c)
       ELSE /\ RequestOK(c.req) /\ BindingOK(c.bind) /\ TableOK(c)
            /\ c.req.method \in RandomizedMethods
    /\ AsksForScenario(c) =>
         ScenarioOK(c.impact.q) /\ c.impact.estimate \in [lower : Int, point : Int, upper : Int]
ASSUME ExaminedAssumption ==
  \A r \in Examined : r \in Requests /\ r.refused = "no" /\ r.business = "given"

VARIABLES
  case,     \* what the service of the method works on, while it does
  native,   \* what it has returned, while anything is to be made of it
  scenario  \* what the business service has made of that, until it is attached

typed == <<case, native, scenario>>
NoCase == [method |-> "none"]
NoNative == [status |-> "none"]
NoScenario == [status |-> "none"]

TypedInit == Init /\ case = NoCase /\ native = NoNative /\ scenario = NoScenario

\* Nothing of a request but its method matters before its service is called.
Dispatch ==
  /\ pc = "experiment_analysis" /\ request \in Examined
  /\ case = NoCase
  /\ case' \in Cases
  /\ UNCHANGED <<vars, native, scenario>>

Estimate ==
  /\ case # NoCase /\ native = NoNative
  /\ native' \in IF Observational(case) THEN CausalResults(case) ELSE Results(case)
  /\ UNCHANGED <<vars, case, scenario>>

NativeStatusKept(result_) == result_.status  \* mutant: a native status gets out

\* native_status: a library that is not there, or not the right one, comes
\* before what was made of it; what has no status of its own in the workflow
\* has abstained.
NativeStatus(n) ==
  IF n.reason = "OPTIONAL_DEPENDENCY_UNAVAILABLE" THEN "unavailable"
  ELSE IF n.reason = "INCOMPATIBLE_DEPENDENCY_RUNTIME" \/ n.status = "error" THEN "failed"
  ELSE IF n.status \in {"no_improvement", "degraded_precision"} THEN "completed"
  ELSE IF n.status \in {"completed", "inconclusive", "invalid", "abstained"} THEN n.status
  ELSE "abstained"

Forgotten == case' = NoCase /\ native' = NoNative

\* An estimator that raises is a failure of the analysis, and of nothing else.
Store ==
  /\ native # NoNative
  /\ Completes("experiment_analysis")
  /\ Save(IF native.status = "raised" THEN Failure ELSE Evidence(NativeStatus(native)))
  /\ IF AsksForScenario(case) THEN UNCHANGED <<case, native>> ELSE Forgotten
  /\ UNCHANGED <<scenario, risk, decision, approval, summary, errors, accusable>>

\* analyze_business, of the result the analysis kept and the status it stored.
Assess ==
  /\ pc = "business_impact" /\ case # NoCase
  /\ scenario = NoScenario
  /\ scenario' \in ImpactResults(case, native, store.status)
  /\ UNCHANGED <<vars, case, native>>

Attach ==
  /\ scenario # NoScenario
  /\ Completes("business_impact")
  /\ Save(WithBusiness(store, scenario.status))
  /\ Forgotten /\ scenario' = NoScenario
  /\ UNCHANGED <<risk, decision, approval, summary, errors, accusable>>

\* A request that is refused, a method that is not modelled, every other node.
Elsewhere == case = NoCase /\ Next /\ UNCHANGED typed

TypedNext == Dispatch \/ Estimate \/ Store \/ Assess \/ Attach \/ Elsewhere

TypedSpec == TypedInit /\ [][TypedNext]_<<vars, typed>>

-----------------------------------------------------------------------------
(* What an estimate takes for granted about the rows it was computed from, *)
(* said without the rules that are there to ensure it.                     *)

\* Numbers, in the arm the row was assigned to.
Measured(c, rows) ==
  \A i \in rows :
    /\ i \in Population(c) /\ c.rows[i].arm \in Arms
    /\ c.rows[i].outcome \in Int
    /\ c.req.outcome = "binary" => c.rows[i].outcome \in {0, 1}

\* Observations of different units, unless the request says how they cluster.
Independent(c, rows) ==
  c.req.clustering = None =>
    \A i \in rows :
      /\ c.rows[i][c.bind.unit] # None
      /\ \A j \in rows \ {i} : c.rows[j][c.bind.unit] # c.rows[i][c.bind.unit]

\* Whatever was assigned is on one side of the comparison.
OneSided(c, rows) ==
  \A column \in {c.bind.unit, c.bind.assigned} \ {None} : \A i, j \in rows :
    c.rows[i][column] = c.rows[j][column] => c.rows[i].arm = c.rows[j].arm

\* Of independent units, when it is known at all when they were observed.
\* The Bayesian service lets a constant outcome hide a missing period.
Shadowed(c) ==
  /\ c.req.method = "bayesian_ab"
  /\ \A i, j \in ValidRows(c) : c.rows[i].outcome = c.rows[j].outcome
InTime(c, rows) ==
  c.bind.time # None /\ c.req.clustering = None /\ ~Shadowed(c) =>
    \A i \in rows : /\ c.rows[i].time \in Int
                     /\ c.req.post.start <= c.rows[i].time
                     /\ c.rows[i].time < c.req.post.end

Enough(c, rows) ==
  /\ Cardinality(rows) >= Threshold(c).minimumTotal
  /\ \A arm \in Arms :
       Cardinality({i \in rows : c.rows[i].arm = arm}) >= Threshold(c).minimumPerArm

\* Rows are left out for one reason only: no covariate to adjust them with.
NothingDropped(c, rows) ==
  \A i \in Population(c) \ rows :
    /\ c.req.method = "cuped"
    /\ \E b \in SetOf(c.bind.covariates) : c.rows[i][b.column] = None

\* An adjustment looks at what was there before the treatment, and at nothing
\* else of the experiment.
NothingLeaks(c, rows) ==
  \A v \in SetOf(c.req.covariates), b \in SetOf(c.bind.covariates) :
    /\ v.timing = "pre_treatment" /\ v.period.end <= c.req.post.start
    /\ v.relationship = "none_known" /\ b.metric = v.metric
    /\ b.column \notin {c.bind.arm, c.bind.unit} \cup SetOf(c.bind.outcome.columns)
    /\ \A i \in rows : c.rows[i][b.column] \in Int

RandomizedEarned(c, n) ==
  /\ Measured(c, n.rows) /\ Independent(c, n.rows) /\ OneSided(c, n.rows)
  /\ InTime(c, n.rows) /\ Enough(c, n.rows) /\ NothingDropped(c, n.rows)
  /\ "adjusted" \in n.estimates => NothingLeaks(c, n.rows)

HeldOut(c, n) ==
  /\ PredictedByOthers(c, n)
  /\ \E m \in CausalResults(Reversal(c)) :
       m.estimates # {} /\ m.trained = MirroredTraining(c, n)

\* Every estimate was earned.  A randomized one, adjusted or not, frequentist
\* or Bayesian: the rows behind it are measured, independent, on one side, in
\* the period, enough, and all there are.  One that was not randomized: a
\* panel in which only the treated change, or units of both arms that overlap,
\* complete but for what is missing or trimmed, adjusted for what came before
\* the treatment.  Cross-fitting holds out what it predicts, and does not
\* depend on the order in which the rows arrive: what comes of a table comes
\* of it from the last row to the first, with the same units in the same
\* training sets.  The rules that ensure this are spread over the request, the
\* table and the services, and return early.
EarnedBy(c, n) ==
  /\ IF Observational(c) THEN Earned(c, n) ELSE RandomizedEarned(c, n)
  /\ c.req.method \in CrossFitMethods \cup SubgroupMethods => HeldOut(c, n)
EstimateIsEarned == native # NoNative /\ native.estimates # {} => EarnedBy(case, native)

As(c, method) ==
  [c EXCEPT !.req.method = method,
            !.req.uncertainty = IF method = "bayesian_ab" THEN "credible" ELSE "confidence",
            !.req.likelihood = IF c.req.outcome = "binary" THEN "bernoulli" ELSE "normal"]

Accepts(c) == \E n \in Results(c) : n.estimates # {}

\* The three services judge an experiment alike: what CUPED adjusts the
\* fixed-horizon service tests, covariates and all, and what that one tests
\* has a posterior, though each validates the request on its own, with a
\* policy or a request it has made itself.
ServicesAgree ==
  native # NoNative /\ ~Observational(case) /\ native.estimates # {} =>
    /\ case.req.method = "cuped" => Accepts(As(case, "fixed_horizon_ab"))
    /\ case.req.method \in {"cuped", "fixed_horizon_ab"} => Accepts(As(case, "bayesian_ab"))

\* Difference in differences does not bypass identification: what has an
\* estimate was identified (did/models.py: "cannot bypass issue #97
\* identification").
DidIsIdentified ==
  native # NoNative /\ case.req.method = "did" /\ native.estimates # {} =>
    Identification(case.ident).status = "identified"

\* What a service was asked that raises: everything that is checked before the
\* numbers was in order, so no request that ought to be refused ends as a
\* failure instead.  Its rows are those an estimate of it rests on; subgroups
\* and trimmed units are only known once there are numbers.
BothArmsBefore(c, rows, bound) ==
  BothArms(c, rows) /\ AdjustedForBefore(c.ident, {b.id : b \in SetOf(bound.covariates)})
RequestInOrder(c) ==
  CASE c.req.method = "did" -> PanelIsSound(c, [rows |-> Canonical(c)])
    [] c.req.method \in CrossFitMethods -> FoldsAreSound(c, [rows |-> CompleteRows(c)])
    [] c.req.method \in SubgroupMethods -> BothArmsBefore(c, Retained(c), c.split)
    [] c.req.method \in WeightingMethods -> BothArmsBefore(c, ModelRows(c), c.weight)
    [] OTHER -> \E m \in Results(c) : m.estimates # {} /\ RandomizedEarned(c, m)

\* Services that catch whatever their numbers raise, or raise nothing.
Guarded == {"fixed_horizon_ab", "econml_dml", "econml_hte", "dowhy"}

\* A service raises only over numbers, and only one that does not catch what
\* they raise: difference in differences, weighting, cross-fitting, CUPED and
\* the posteriors have such errors, whose request the workflow then stores as
\* a failure.  A result that withholds has a reason and no numbers, one that
\* has numbers has no reason, the conclusion fits the status; and the
\* eligibility it rests on is coherent.
Partial(c, n) == c.req.method = "hte" /\ n.status = "abstained"
ContractHolds(c, n) ==
  /\ n.status = "raised" => c.req.method \notin Guarded /\ RequestInOrder(c)
  /\ n.reason = NoReason <=> n.status = "raised" \/ (n.estimates # {} /\ ~Partial(c, n))
  /\ n.rows # {} <=> n.estimates \ (IF c.req.method = "dowhy" THEN {"backdoor"} ELSE {}) # {}
  /\ n.status \in {"completed", "no_improvement", "degraded_precision", "inconclusive"}
       <=> n.estimates # {} /\ ~Partial(c, n)
  /\ ~Observational(c) =>
       /\ "effect" \in n.estimates => n.conclusion \in Verdict
       /\ n.status \in {"no_improvement", "degraded_precision", "inconclusive"}
            => "adjusted" \in n.estimates
       /\ \A methods \in {FixedHorizon, Cuped, Bayesian} :
            EligibilityContract(Eligibility(c, methods))
ResultContract == native # NoNative => ContractHolds(case, native)

\* A scenario has numbers or a reason, and never fails.  Numbers rest on an
\* effect that was estimated, for the subgroup that was selected, and is
\* identified even where the estimator was told otherwise; every day they are
\* about was observed or is said to be like the days that were; and the period
\* of the population divides the horizon.  The rules are spread over adapters
\* and cross-checks of declarations.
ScenarioIsFounded ==
  scenario # NoScenario =>
    /\ scenario.status # "failed"
    /\ scenario.reason = NoReason <=> scenario.status # "abstained"
    /\ scenario.numbers = NoNumbers <=> scenario.status = "abstained"
    /\ scenario.numbers # NoNumbers => Founded(case, native)

\* Each number is the tightest band of what it stands for, however the inputs
\* lie in their ranges: the population of the whole horizon, once, its
\* outcomes, their worth, the costs and what is left of the one after the
\* other (interval arithmetic of impact/calculation.py).
ScenarioIsTight ==
  scenario # NoScenario /\ scenario.numbers # NoNumbers => Banded(case, scenario)

\* A scenario rests on what it says it rests on, and its numbers are right.
ScenarioIsEarned == ScenarioIsFounded /\ ScenarioIsTight

\* The services behind the analysis node are an implementation of the node:
\* what AnalysisIntegrity promises of the workflow holds with them.
ImplementsIntegrity == Spec
=============================================================================
