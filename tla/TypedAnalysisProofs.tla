------------------------- MODULE TypedAnalysisProofs -------------------------
(***************************************************************************)
(* Proofs about the analysis node with its services, whatever the cases    *)
(* they are asked about.                                                   *)
(***************************************************************************)
EXTENDS TypedAnalysis, AnalysisIntegrityProofs, EligibilityProofs

\* What the service of a case may return.
ServiceResults(c) == IF Observational(c) THEN CausalResults(c) ELSE Results(c)

\* A case is one of a typed request with a business part, nobody but the two
\* nodes it is for runs while it is open, and what it keeps is a result of its
\* service and what the business service makes of it and of the stored status.
CaseIsOpen ==
  /\ case # NoCase => case \in Cases /\ request \in Examined
  /\ case # NoCase /\ native = NoNative => pc = "experiment_analysis"
  /\ native # NoNative => case # NoCase /\ native \in ServiceResults(case)
  /\ scenario # NoScenario =>
       /\ case # NoCase /\ native # NoNative /\ pc = "business_impact"
       /\ scenario \in ImpactResults(case, native, store.status)

-----------------------------------------------------------------------------
LEMMA CaseStart == TypedInit => CaseIsOpen
  BY DEF TypedInit, CaseIsOpen

\* Where the two nodes are followed by others.
LEMMA NextNodes ==
  /\ After["experiment_analysis"] = "business_impact"
  /\ After["business_impact"] = "risk_assessment"
  BY DEF After

LEMMA CaseStep == CaseIsOpen /\ [TypedNext]_<<vars, typed>> => CaseIsOpen'
<1> SUFFICES ASSUME CaseIsOpen, [TypedNext]_<<vars, typed>> PROVE CaseIsOpen'
  OBVIOUS
<1> USE DEF CaseIsOpen
<1>1. CASE Dispatch
  BY <1>1 DEF Dispatch, vars
<1>2. CASE Estimate
  BY <1>2 DEF Estimate, vars, ServiceResults
<1>3. CASE Store
  BY <1>3, NextNodes DEF Store, Completes, Forgotten
<1>4. CASE Assess
  BY <1>4 DEF Assess, vars
<1>5. CASE Attach
  BY <1>5 DEF Attach, Completes, Forgotten
<1>6. CASE Elsewhere
  BY <1>6 DEF Elsewhere, typed
<1>7. CASE UNCHANGED <<vars, typed>>
  BY <1>7 DEF vars, typed
<1> QED BY <1>1, <1>2, <1>3, <1>4, <1>5, <1>6, <1>7 DEF TypedNext

-----------------------------------------------------------------------------
(* The services implement the node.                                        *)

LEMMA NativeStatusIsStatus == \A n : NativeStatus(n) \in Statuses
  BY DEF NativeStatus, Statuses

LEMMA ScenarioStatus ==
  ASSUME NEW c, NEW n, NEW status, NEW result_ \in ImpactResults(c, n, status)
  PROVE  /\ result_.status \in Scenarios
         /\ status \notin {"completed", "inconclusive"} => result_.status = "abstained"
  BY DEF ImpactResults, Calculated, Computed, ScenarioOf, Abstention, Failed, Scenarios

LEMMA StoreImplements == CaseIsOpen /\ Store => ExperimentAnalysis
<1> SUFFICES ASSUME CaseIsOpen, Store PROVE ExperimentAnalysis
  OBVIOUS
<1>1. request.refused = "no"
  BY ExaminedAssumption DEF CaseIsOpen, Store
<1>2. /\ Failure \in Outcomes(request)
      /\ Evidence(NativeStatus(native)) \in Outcomes(request)
  BY <1>1, NativeStatusIsStatus DEF Outcomes
<1> QED BY <1>2 DEF Store, ExperimentAnalysis

LEMMA AttachImplements == CaseIsOpen /\ Attach => BusinessImpact
<1> SUFFICES ASSUME CaseIsOpen, Attach PROVE BusinessImpact
  OBVIOUS
<1>1. request.business = "given"
  BY ExaminedAssumption DEF CaseIsOpen, Attach
<1>2. scenario.status \in Business(request, store)
  BY <1>1, ScenarioStatus DEF CaseIsOpen, Attach, Business, Eligible
<1> QED BY <1>2 DEF Attach, BusinessImpact

LEMMA StepImplements == CaseIsOpen /\ [TypedNext]_<<vars, typed>> => [Next]_vars
<1> SUFFICES ASSUME CaseIsOpen, [TypedNext]_<<vars, typed>> PROVE [Next]_vars
  OBVIOUS
<1>1. CASE Dispatch \/ Estimate \/ Assess
  BY <1>1 DEF Dispatch, Estimate, Assess
<1>2. CASE Store
  BY <1>2, StoreImplements DEF Next
<1>3. CASE Attach
  BY <1>3, AttachImplements DEF Next
<1>4. CASE Elsewhere
  BY <1>4 DEF Elsewhere
<1>5. CASE UNCHANGED <<vars, typed>>
  BY <1>5
<1> QED BY <1>1, <1>2, <1>3, <1>4, <1>5 DEF TypedNext

\* A case is open for one request, between the two nodes it is for, and what
\* is kept of it is what the services have made of it.
THEOREM CaseTheorem == TypedSpec => []CaseIsOpen
  BY CaseStart, CaseStep, PTL DEF TypedSpec

\* The services behind the analysis node implement it: what they return for
\* any case becomes a result the node may store, and a scenario of it one the
\* node behind may attach (orchestration/service.py, business.py).
THEOREM ServicesImplement == TypedSpec => ImplementsIntegrity
<1>1. TypedInit => Init
  BY DEF TypedInit
<1> QED BY <1>1, StepImplements, CaseTheorem, PTL DEF TypedSpec, ImplementsIntegrity, Spec

\* What is proved of the node holds with the services behind it: the answer
\* carries what is stored, accuses justly, agrees with itself, authorizes
\* nothing, and does not revise its evidence.
THEOREM IntegrityHolds ==
  TypedSpec => /\ []TypeOK /\ []PublishedIsStored /\ []FindingsAreJust
               /\ []SectionsAgree /\ []NothingIsAuthorized
<1>1. TypedSpec => Spec
  BY ServicesImplement DEF ImplementsIntegrity
<1>2. Spec => []TypeOK /\ []PublishedIsStored /\ []FindingsAreJust
              /\ []SectionsAgree /\ []NothingIsAuthorized
  BY TypeCorrectness, PublicationTheorem, JusticeTheorem, AgreementTheorem, NoAuthorityTheorem, PTL
<1> QED BY <1>1, <1>2

\* The same of its steps, and of the report a reader is shown.
THEOREM ReportHolds == TypedSpec => EvidenceIsFinal /\ ImplementsReport
<1>1. TypedSpec => Spec
  BY ServicesImplement DEF ImplementsIntegrity
<1> QED BY <1>1, FinalTheorem, Refinement

-----------------------------------------------------------------------------
(* What a randomized estimate rests on (randomized/service.py,             *)
(* cuped/service.py, bayesian/service.py behind validation/service.py).    *)

LEMMA RowsAreSound ==
  ASSUME NEW c, SoundCase(c), NEW implemented, Unblocked(c, implemented),
         c.bind.outcome.columns = <<"outcome">>, NEW rows, rows \subseteq ValidRows(c)
  PROVE  Measured(c, rows) /\ Independent(c, rows) /\ OneSided(c, rows)
<1>1. \A i \in rows :
        /\ i \in Population(c) /\ i \in DOMAIN c.rows /\ c.rows[i].arm \in Arms
        /\ c.rows[i].outcome \in Int
        /\ c.req.outcome = "binary" => c.rows[i].outcome \in {0, 1}
  BY ValidCells DEF SoundCase
<1>2. Measured(c, rows)
  BY <1>1 DEF Measured
<1>3. Independent(c, rows)
  BY <1>1, UnitsDiffer DEF Independent
<1>4. OneSided(c, rows)
  BY <1>1, OneArm DEF OneSided
<1> QED BY <1>2, <1>3, <1>4

LEMMA RowsAreInTime ==
  ASSUME NEW c, SoundCase(c), NEW implemented, Unblocked(c, implemented),
         "time.period_coverage_missing" \notin SetOf(EligibilityCodes(c, implemented)),
         c.bind.time # None, c.req.clustering = None, NEW rows, rows \subseteq Population(c)
  PROVE  \A i \in rows : /\ c.rows[i].time \in Int
                         /\ c.req.post.start <= c.rows[i].time
                         /\ c.rows[i].time < c.req.post.end
  BY ObservedInTime DEF InPeriod

LEMMA ArmsOfRows ==
  ASSUME NEW c, NEW arm \in Arms
  PROVE  Cardinality({i \in ValidRows(c) : c.rows[i].arm = arm}) = Size(c, arm)
<1>1. {i \in ValidRows(c) : c.rows[i].arm = arm} = ValidRowsOf(c, arm)
  BY DEF ValidRowsOf, ValidRows, Declared, ArmRows
<1> QED BY <1>1 DEF Size

LEMMA RowsAreEnough ==
  ASSUME NEW c, SoundCase(c), NEW implemented, Unblocked(c, implemented),
         "sample.total_insufficient" \notin SetOf(EligibilityCodes(c, implemented)),
         "sample.arm_insufficient" \notin SetOf(EligibilityCodes(c, implemented))
  PROVE  Enough(c, ValidRows(c))
<1> DEFINE t == Threshold(c)
<1>1. IsList(c.rows)
  BY DEF SoundCase, TableOK
<1>2. /\ "sample.total_insufficient" \notin SetOf(SampleCodes(c))
      /\ "sample.arm_insufficient" \notin SetOf(SampleCodes(c))
  BY TableIsExamined DEF SoundCase
<1>3. /\ ~(Size(c, "treatment") + Size(c, "control") < t.minimumTotal)
      /\ \A arm \in Arms : ~(Size(c, arm) < t.minimumPerArm)
  BY <1>1, <1>2, SizesAreTold
<1>4. /\ \A arm : Size(c, arm) \in Nat
      /\ Cardinality(ValidRows(c)) = Size(c, "treatment") + Size(c, "control")
  BY <1>1, SizesAdd
<1>5. t.minimumTotal \in Nat /\ t.minimumPerArm \in Nat
  BY ThresholdsAreNumbers DEF Thresholds
<1> HIDE DEF t
<1> QED BY <1>3, <1>4, <1>5, ArmsOfRows DEF Enough, t

LEMMA FixedHorizonEarned ==
  ASSUME NEW c, SoundCase(c), c.req.method = "fixed_horizon_ab",
         NEW n \in FixedHorizonResults(c), n.estimates # {}
  PROVE  RandomizedEarned(c, n)
<1> DEFINE codes == SetOf(EligibilityCodes(c, FixedHorizon))
<1>1. /\ Eligibility(c, FixedHorizon).status \in EligibleStatuses
      /\ Testable(c) /\ n \in Tested(ValidRows(c))
  BY FixedHorizonAccepts DEF FixedHorizonResults
<1>2. Unblocked(c, FixedHorizon) /\ codes \cap NeedsMoreData = {}
  BY <1>1, EligibleIsUnblocked DEF SoundCase
<1>3. n.rows = ValidRows(c) /\ n.estimates = {"effect"}
  BY <1>1, TestedHas
<1>4. ValidRows(c) = Population(c) /\ c.bind.outcome.columns = <<"outcome">>
  BY <1>1, TestableShape DEF Testable, Complete
<1>5. Measured(c, n.rows) /\ Independent(c, n.rows) /\ OneSided(c, n.rows)
  BY <1>2, <1>3, <1>4, RowsAreSound
<1>6. /\ "time.period_coverage_missing" \notin codes /\ "sample.total_insufficient" \notin codes
      /\ "sample.arm_insufficient" \notin codes
  BY <1>2 DEF NeedsMoreData
<1> HIDE DEF codes
<1>7. InTime(c, n.rows)
  BY <1>2, <1>3, <1>4, <1>6, RowsAreInTime DEF InTime, codes
<1>8. Enough(c, n.rows)
  BY <1>2, <1>3, <1>6, RowsAreEnough DEF codes
<1>9. NothingDropped(c, n.rows)
  BY <1>3, <1>4 DEF NothingDropped
<1> QED BY <1>3, <1>5, <1>7, <1>8, <1>9 DEF RandomizedEarned

\* An adjustment looks at one column, and at what was there before.
LEMMA NothingIsLeaked ==
  ASSUME NEW c, SoundCase(c), NEW implemented, Unblocked(c, implemented),
         CupedUnsupported(c.req) = NoReason, Readable(c),
         c.req.covariates[1].timing = "pre_treatment",
         c.req.covariates[1].relationship = "none_known",
         NEW rows, rows \subseteq DOMAIN c.rows,
         \A i \in rows : c.rows[i][CovariateColumn(c)] \notin {None, Text, Infinite}
  PROVE  /\ NothingLeaks(c, rows)
         /\ \E b \in SetOf(c.bind.covariates) : b.column = CovariateColumn(c)
<1> DEFINE q == c.req
           b == c.bind
           I == CovariateBindings(c)
<1>1. /\ RequestOK(q) /\ BindingOK(b) /\ TableOK(c)
      /\ q.design = "randomized"
  BY Randomized DEF SoundCase, WellFormed
<1>2. Len(q.covariates) = 1 /\ IsList(q.covariates)
  BY <1>1 DEF CupedUnsupported, NoReason, RequestOK
<1>3. DOMAIN q.covariates = {1} /\ SetOf(q.covariates) = {q.covariates[1]}
  <2>1. DOMAIN q.covariates = 1..1
    BY <1>2 DEF IsList
  <2> QED BY <2>1 DEF SetOf
<1>4. /\ \A code \in SetOf(BindingCodes(q, b)) : Blocks(code) => code \in CompatibleBlockers
      /\ \A code \in SetOf(CovariateCodes(q)) : Blocks(code) => code \in CompatibleBlockers
  BY <1>1, TableIsExamined, RequestParts DEF Unblocked, SoundCase
<1>5. q.covariates[1].period.end <= q.post.start
  BY <1>1, <1>3, <1>4, CovariatesPrecede
<1>6. \A i \in DOMAIN b.covariates : b.covariates[i].metric = q.covariates[1].metric
  <2>1. BoundMetrics(b.covariates) \subseteq BoundMetrics(q.covariates)
    BY <1>1, <1>4, BindingFits
  <2>2. \A items : BoundMetrics(items) = {items[i].metric : i \in DOMAIN items}
    BY DEF BoundMetrics, Metrics, SetOf
  <2>3. BoundMetrics(q.covariates) = {q.covariates[1].metric}
    BY <1>3, <2>2
  <2>4. \A i \in DOMAIN b.covariates : b.covariates[i].metric \in BoundMetrics(b.covariates)
    BY <2>2
  <2> HIDE DEF b, q
  <2> QED BY <2>1, <2>3, <2>4
<1>7. \E i \in I : CovariateColumn(c) = b.covariates[i].column
  <2>1. Cardinality(I) = 1
    BY DEF Readable
  <2>2. I # {}
    <3> HIDE DEF I
    <3> QED BY <2>1, FS_EmptySet
  <2>3. (CHOOSE i \in I : TRUE) \in I
    <3> HIDE DEF I
    <3> QED BY <2>2
  <2> QED BY <2>3 DEF CovariateColumn
<1>8. \A i \in DOMAIN b.covariates : b.covariates[i].column = CovariateColumn(c)
  <2>1. I \subseteq DOMAIN b.covariates
    BY DEF CovariateBindings
  <2>2. \A i, j \in DOMAIN b.covariates :
          i # j => b.covariates[i].metric # b.covariates[j].metric
    BY <1>1 DEF BindingOK
  <2> HIDE DEF I
  <2> QED BY <1>6, <1>7, <2>1, <2>2
<1>9. \A i \in DOMAIN b.covariates :
        b.covariates[i].column \notin {b.arm, b.unit} \cup SetOf(b.outcome.columns)
  BY <1>1 DEF BindingOK
<1>10. ASSUME NEW i \in rows, NEW k \in DOMAIN b.covariates
       PROVE  c.rows[i][b.covariates[k].column] \in Int
  <2>1. b.covariates[k].column \in NumberColumns(b)
    BY DEF NumberColumns
  <2>2. c.rows[i][b.covariates[k].column] \in Int \cup {None, Text, Infinite}
    BY <1>1, <2>1 DEF TableOK, Numeric
  <2> QED BY <1>8, <2>2
<1>11. NothingLeaks(c, rows)
  <2> SUFFICES ASSUME NEW k \in DOMAIN b.covariates
               PROVE  /\ q.covariates[1].timing = "pre_treatment"
                      /\ q.covariates[1].period.end <= q.post.start
                      /\ q.covariates[1].relationship = "none_known"
                      /\ b.covariates[k].metric = q.covariates[1].metric
                      /\ b.covariates[k].column \notin {b.arm, b.unit} \cup SetOf(b.outcome.columns)
                      /\ \A i \in rows : c.rows[i][b.covariates[k].column] \in Int
    BY <1>3 DEF NothingLeaks, SetOf
  <2> QED BY <1>5, <1>6, <1>9, <1>10
<1>12. \E k \in DOMAIN b.covariates : b.covariates[k].column = CovariateColumn(c)
  BY <1>7, <1>8 DEF CovariateBindings
<1> QED BY <1>11, <1>12 DEF SetOf

LEMMA CupedEarned ==
  ASSUME NEW c, SoundCase(c), c.req.method = "cuped",
         NEW n \in CupedResults(c), n.estimates # {}
  PROVE  RandomizedEarned(c, n)
<1> DEFINE codes == SetOf(EligibilityCodes(c, Cuped))
           kept == AllCovaried(c)
           u == Unadjusted(c)
<1>1. PICK baseline \in FixedHorizonResults(u) :
        n \in CupedOf(c, Eligibility(c, Cuped), baseline)
  BY DEF CupedResults
<1>2. /\ Eligibility(c, Cuped).status \in EligibleStatuses
      /\ CupedUnsupported(c.req) = NoReason /\ Readable(c)
      /\ Testable(u) /\ Complete(c)
      /\ c.req.covariates[1].timing = "pre_treatment"
      /\ c.req.covariates[1].relationship = "none_known"
      /\ Adjusted(kept, n)
      /\ \A i \in kept : c.rows[i][CovariateColumn(c)] \notin {Text, Infinite}
      /\ ~(Cardinality(kept) < Threshold(c).minimumTotal)
      /\ \A arm \in Arms : ~(Cardinality(Covaried(c, arm)) < Threshold(c).minimumPerArm)
  BY <1>1, CupedAccepts
<1>3. Unblocked(c, Cuped) /\ codes \cap NeedsMoreData = {}
  BY <1>2, EligibleIsUnblocked DEF SoundCase
<1>4. n.rows = kept
  BY <1>2, AdjustedHas
<1>5. /\ ValidRows(c) = Population(c) /\ c.bind.outcome.columns = <<"outcome">>
      /\ Population(c) \subseteq DOMAIN c.rows
  <2>1. u.bind.outcome = c.bind.outcome /\ SoundCase(u)
    BY UnadjustedIs DEF SameTable
  <2> HIDE DEF u
  <2> QED BY <1>2, <2>1, TestableShape DEF Complete, Population
<1>6. /\ kept \subseteq Population(c) /\ \A i \in kept : c.rows[i][CovariateColumn(c)] # None
      /\ \A i \in Population(c) \ kept : c.rows[i][CovariateColumn(c)] = None
      /\ \A arm \in Arms : {i \in kept : c.rows[i].arm = arm} = Covaried(c, arm)
  <2>1. \A i \in Population(c) : c.rows[i].arm \in Arms
    BY <1>5 DEF ValidRows, Declared, ArmRows
  <2> QED BY <2>1 DEF AllCovaried, Covaried, ArmRows, Arms
<1> HIDE DEF codes, kept, u
<1>7. Measured(c, kept) /\ Independent(c, kept) /\ OneSided(c, kept)
  BY <1>3, <1>5, <1>6, RowsAreSound
<1>8. InTime(c, kept)
  <2>1. "time.period_coverage_missing" \notin codes
    BY <1>3 DEF NeedsMoreData
  <2> QED BY <1>3, <1>5, <1>6, <2>1, RowsAreInTime DEF InTime, codes
<1>9. Enough(c, kept)
  <2>1. IsFiniteSet(kept) /\ \A arm \in Arms : IsFiniteSet(Covaried(c, arm))
    <3>1. IsFiniteSet(DOMAIN c.rows)
      BY RowsAreFinite DEF SoundCase, TableOK
    <3>2. kept \subseteq DOMAIN c.rows /\ \A arm \in Arms : Covaried(c, arm) \subseteq DOMAIN c.rows
      BY <1>5, <1>6
    <3> QED BY <3>1, <3>2, FS_Subset
  <2>2. Cardinality(kept) \in Nat /\ \A arm \in Arms : Cardinality(Covaried(c, arm)) \in Nat
    BY <2>1, FS_CardinalityType
  <2>3. Threshold(c).minimumTotal \in Nat /\ Threshold(c).minimumPerArm \in Nat
    BY ThresholdsAreNumbers DEF Thresholds
  <2>4. /\ Cardinality(kept) >= Threshold(c).minimumTotal
        /\ \A arm \in Arms : Cardinality(Covaried(c, arm)) >= Threshold(c).minimumPerArm
    <3> DEFINE total == Threshold(c).minimumTotal
               least == Threshold(c).minimumPerArm
               K(arm) == Cardinality(Covaried(c, arm))
    <3>1. /\ ~(Cardinality(kept) < total) /\ \A arm \in Arms : ~(K(arm) < least)
          /\ Cardinality(kept) \in Nat /\ \A arm \in Arms : K(arm) \in Nat
          /\ total \in Nat /\ least \in Nat
      BY <1>2, <2>2, <2>3
    <3> HIDE DEF total, least, K
    <3>2. Cardinality(kept) >= total /\ \A arm \in Arms : K(arm) >= least
      BY <3>1
    <3> QED BY <3>2 DEF total, least, K
  <2> QED BY <1>6, <2>4 DEF Enough
<1>10. /\ NothingLeaks(c, kept)
       /\ \E b \in SetOf(c.bind.covariates) : b.column = CovariateColumn(c)
  BY <1>2, <1>3, <1>5, <1>6, NothingIsLeaked
<1>11. NothingDropped(c, kept)
  BY <1>6, <1>10 DEF NothingDropped
<1> QED BY <1>4, <1>7, <1>8, <1>9, <1>10, <1>11 DEF RandomizedEarned

\* What the Bayesian service computes with is not blocked, and lacks nothing
\* unless its outcome is constant.
LEMMA BayesianIsTold ==
  ASSUME NEW c, SoundCase(c), ~Refuses(Eligibility(c, Bayesian))
  PROVE  /\ Unblocked(c, Bayesian)
         /\ \/ SetOf(EligibilityCodes(c, Bayesian)) \cap NeedsMoreData = {}
            \/ Constantly(c)
<1> DEFINE codes == SetOf(EligibilityCodes(c, Bayesian))
           e == Eligibility(c, Bayesian)
<1>1. e.codes = codes /\ e.status = Aggregate(codes)
  BY DEF Eligibility, Judged
<1> HIDE DEF codes, e
<1>2. /\ \A code \in codes \ CompatibleBlockers : ~Blocks(code)
      /\ Aggregate(codes) # "needs_more_data"
  BY <1>1 DEF Refuses, e
<1>3. Unblocked(c, Bayesian)
  BY <1>2 DEF Unblocked, codes
<1>4. CASE codes \cap NeedsMoreData # {}
  <2>1. \E code \in codes : Blocks(code)
    BY <1>2, <1>4 DEF Aggregate
  <2>2. "outcome.zero_variance" \in codes
    BY <1>2, <2>1 DEF CompatibleBlockers
  <2> QED BY <1>3, <2>2, ZeroVariance DEF codes, SoundCase
<1> QED BY <1>3, <1>4 DEF codes

LEMMA BayesianEarned ==
  ASSUME NEW c, SoundCase(c), c.req.method = "bayesian_ab",
         NEW n \in BayesianResults(c), n.estimates # {}
  PROVE  RandomizedEarned(c, n)
<1> DEFINE codes == SetOf(EligibilityCodes(c, Bayesian))
<1>1. /\ LikelihoodOf[c.req.likelihood] = c.req.outcome
      /\ ~Refuses(Eligibility(c, Bayesian)) /\ Complete(c)
      /\ n = Estimated("completed", ValidRows(c), {"posterior"}, None)
      /\ \A arm \in Arms : Size(c, arm) >= 1
  BY BayesianAccepts DEF BayesianResults
<1>2. Unblocked(c, Bayesian) /\ (codes \cap NeedsMoreData = {} \/ Constantly(c))
  BY <1>1, BayesianIsTold
<1>3. n.rows = ValidRows(c) /\ n.estimates = {"posterior"}
  BY <1>1 DEF Estimated
<1>4. ValidRows(c) = Population(c)
  BY <1>1 DEF Complete
<1>5. c.bind.outcome.columns = <<"outcome">>
  <2>1. ~Misshapen(c.req.outcome, c.bind.outcome.columns)
    <3>1. RequestOK(c.req) /\ BindingOK(c.bind)
      BY DEF SoundCase, WellFormed
    <3>2. \A code \in SetOf(BindingCodes(c.req, c.bind)) : Blocks(code) => code \in CompatibleBlockers
      BY <1>2, <3>1, TableIsExamined, RequestParts DEF Unblocked, SoundCase
    <3> QED BY <3>1, <3>2, BindingFits
  <2>2. c.req.likelihood \in {"bernoulli", "normal"}
    BY DEF SoundCase, WellFormed, RequestOK
  <2>3. c.req.outcome # "ratio"
    BY <1>1, <2>2 DEF LikelihoodOf
  <2> QED BY <2>1, <2>3, OneColumn
<1> HIDE DEF codes
<1>6. Measured(c, n.rows) /\ Independent(c, n.rows) /\ OneSided(c, n.rows)
  BY <1>2, <1>3, <1>5, RowsAreSound
<1>7. InTime(c, n.rows)
  <2>1. CASE Constantly(c)
    <3>1. Len(c.bind.outcome.columns) = 1
      BY <1>5
    <3>2. Shadowed(c)
      BY <2>1, <3>1 DEF Constantly, SameOutcome, Shadowed
    <3> QED BY <3>2 DEF InTime
  <2>2. CASE codes \cap NeedsMoreData = {}
    <3>1. "time.period_coverage_missing" \notin codes
      BY <2>2 DEF NeedsMoreData
    <3> QED BY <1>2, <1>3, <1>4, <3>1, RowsAreInTime DEF InTime, codes
  <2> QED BY <1>2, <2>1, <2>2
<1>8. Enough(c, n.rows)
  <2>1. IsList(c.rows)
    BY DEF SoundCase, TableOK
  <2>2. /\ \A arm : Size(c, arm) \in Nat
        /\ Cardinality(ValidRows(c)) = Size(c, "treatment") + Size(c, "control")
    BY <2>1, SizesAdd
  <2>3. Size(c, "treatment") >= 1 /\ Size(c, "control") >= 1
    BY <1>1 DEF Arms
  <2>4. Threshold(c).minimumTotal = 2 /\ Threshold(c).minimumPerArm = 1
    BY ThresholdsAreNumbers
  <2> QED BY <1>1, <1>3, <2>2, <2>3, <2>4, ArmsOfRows DEF Enough
<1>9. NothingDropped(c, n.rows)
  BY <1>3, <1>4 DEF NothingDropped
<1> QED BY <1>3, <1>6, <1>7, <1>8, <1>9 DEF RandomizedEarned

\* Whatever the table and the request, the rows behind a randomized estimate
\* are measured, independent, on one side, in the period, enough, and all
\* there are; and an adjustment looks at what was there before the treatment.
THEOREM RandomizedIsEarned ==
  ASSUME NEW c, SoundCase(c), NEW n \in Results(c), n.estimates # {}
  PROVE  RandomizedEarned(c, n)
<1>1. CASE c.req.method = "fixed_horizon_ab"
  BY <1>1, FixedHorizonEarned DEF Results
<1>2. CASE c.req.method = "cuped"
  BY <1>2, CupedEarned DEF Results
<1>3. CASE c.req.method = "bayesian_ab"
  BY <1>3, BayesianEarned DEF Results
<1> QED BY <1>1, <1>2, <1>3 DEF SoundCase, RandomizedMethods

-----------------------------------------------------------------------------
(* One service asked for what another one was asked for.                   *)

LEMMA AsIs ==
  ASSUME NEW c, SoundCase(c), NEW method \in {"fixed_horizon_ab", "bayesian_ab"}
  PROVE  LET d == As(c, method)
         IN  /\ SoundCase(d) /\ SameButMethod(c, d) /\ d.floats = c.floats
             /\ d.req.method = method /\ d.req.alternative = c.req.alternative
             /\ d.req.uncertainty = IF method = "bayesian_ab" THEN "credible" ELSE "confidence"
             /\ d.req.likelihood = IF c.req.outcome = "binary" THEN "bernoulli" ELSE "normal"
<1> DEFINE uncertainty == IF method = "bayesian_ab" THEN "credible" ELSE "confidence"
           likelihood == IF c.req.outcome = "binary" THEN "bernoulli" ELSE "normal"
           q1 == [c.req EXCEPT !.method = method]
           c1 == [c EXCEPT !.req = q1]
           q2 == [c1.req EXCEPT !.uncertainty = uncertainty]
           c2 == [c1 EXCEPT !.req = q2]
           q3 == [c2.req EXCEPT !.likelihood = likelihood]
           c3 == [c2 EXCEPT !.req = q3]
           others == RequestFields \ {"method", "uncertainty", "likelihood"}
<1>1. As(c, method) = c3
  BY DEF As
<1>2. /\ {"req", "bind", "floats", "columns", "rows"} \subseteq DOMAIN c
      /\ RequestFields \subseteq DOMAIN c.req
  BY DEF SoundCase, WellFormed, TableOK, RequestOK
<1>3. {"method", "uncertainty", "likelihood"} \subseteq RequestFields
  BY DEF RequestFields
<1> HIDE DEF uncertainty, likelihood, others
<1>4. /\ DOMAIN q1 = DOMAIN c.req /\ q1.method = method
      /\ \A field \in RequestFields \ {"method"} : q1[field] = c.req[field]
  <2> HIDE DEF RequestFields
  <2> QED BY <1>2, <1>3
<1>5. /\ DOMAIN c1 = DOMAIN c /\ c1.req = q1 /\ c1.bind = c.bind /\ c1.floats = c.floats
      /\ c1.columns = c.columns /\ c1.rows = c.rows
  <2> HIDE DEF q1
  <2> QED BY <1>2
<1> HIDE DEF c1, q1
<1>6. /\ DOMAIN q2 = DOMAIN c.req /\ q2.method = method /\ q2.uncertainty = uncertainty
      /\ \A field \in RequestFields \ {"method", "uncertainty"} : q2[field] = c.req[field]
  <2> HIDE DEF RequestFields
  <2> QED BY <1>2, <1>3, <1>4, <1>5
<1>7. /\ DOMAIN c2 = DOMAIN c /\ c2.req = q2 /\ c2.bind = c.bind /\ c2.floats = c.floats
      /\ c2.columns = c.columns /\ c2.rows = c.rows
  <2> HIDE DEF q2
  <2> QED BY <1>2, <1>5
<1> HIDE DEF c2, q2
<1>8. /\ DOMAIN q3 = DOMAIN c.req /\ q3.method = method /\ q3.uncertainty = uncertainty
      /\ q3.likelihood = likelihood /\ \A field \in others : q3[field] = c.req[field]
  <2> HIDE DEF RequestFields
  <2> QED BY <1>2, <1>3, <1>6, <1>7 DEF others
<1>9. /\ DOMAIN c3 = DOMAIN c /\ c3.req = q3 /\ c3.bind = c.bind /\ c3.floats = c.floats
      /\ c3.columns = c.columns /\ c3.rows = c.rows
  <2> HIDE DEF q3
  <2> QED BY <1>2, <1>7
<1> HIDE DEF c3, q3
<1>10. SameButMethod(c, c3)
  <2>1. \A field \in RequestFields \ {"method", "uncertainty", "alternative", "likelihood"} :
          c3.req[field] = c.req[field]
    BY <1>8, <1>9 DEF others
  <2> QED BY <1>9, <2>1 DEF SameButMethod
<1>11. q3.alternative = c.req.alternative
  BY <1>8 DEF others, RequestFields
<1>12. RequestOK(q3)
  <2>1. c.req.design = "randomized"
    BY Randomized
  <2>2. \A field \in {"design", "estimand", "conditioning", "outcome", "segment", "population",
                      "unit", "assignmentUnit", "clustering", "treatmentShare", "pre", "post",
                      "covariates", "preMetrics", "alternative"} :
          q3[field] = c.req[field]
    BY <1>8 DEF others, RequestFields
  <2>3. method \in MethodsOf["randomized"]
    BY DEF MethodsOf
  <2>4. /\ uncertainty \in {"confidence", "credible"}
        /\ method = "bayesian_ab" => uncertainty = "credible"
        /\ likelihood \in {"bernoulli", "normal"}
    BY DEF uncertainty, likelihood
  <2>5. RequestOK(c.req)
    BY DEF SoundCase, WellFormed
  <2> QED BY <1>2, <1>8, <2>1, <2>2, <2>3, <2>4, <2>5 DEF RequestOK
<1>13. BindingOK(c3.bind)
  BY <1>9 DEF SoundCase, WellFormed
<1>14. TableOK(c3)
  BY <1>9 DEF SoundCase, TableOK
<1>15. c3.req.method \in RandomizedMethods
  BY <1>8, <1>9 DEF RandomizedMethods
<1> QED BY <1>1, <1>8, <1>9, <1>10, <1>11, <1>12, <1>13, <1>14, <1>15
        DEF SoundCase, WellFormed, uncertainty, likelihood

\* What has been accepted by a service that asks for no less than two rows of
\* each arm has a posterior.
LEMMA BayesianAgrees ==
  ASSUME NEW c, SoundCase(c), c.req.outcome \in {"continuous", "binary"},
         NEW implemented, Eligibility(c, implemented).status \in EligibleStatuses,
         Complete(c), \A arm \in Arms : Size(c, arm) >= 2
  PROVE  Accepts(As(c, "bayesian_ab"))
<1> DEFINE d == As(c, "bayesian_ab")
           e == Eligibility(d, Bayesian)
           n == Estimated("completed", ValidRows(d), {"posterior"}, None)
<1>1. /\ SoundCase(d) /\ SameButMethod(c, d) /\ d.req.method = "bayesian_ab"
      /\ d.req.likelihood = IF c.req.outcome = "binary" THEN "bernoulli" ELSE "normal"
  BY AsIs
<1> HIDE DEF d
<1>2. SameTable(c, d)
  BY <1>1, AlikeData
<1>3. e.status \in EligibleStatuses
  <2>1. <<d.req.design, d.req.method>> \in Bayesian
    BY <1>1, Randomized DEF Bayesian
  <2> QED BY <1>1, <2>1, AlikeIsEligible
<1>4. ~Refuses(e)
  <2>1. /\ \A code \in SetOf(EligibilityCodes(d, Bayesian)) : ~Blocks(code)
        /\ e.codes = SetOf(EligibilityCodes(d, Bayesian))
    BY <1>1, <1>3, EligibleIsUnblocked DEF SoundCase, Eligibility, Judged
  <2> QED BY <1>3, <2>1 DEF Refuses, EligibleStatuses
<1>5. Complete(d) /\ \A arm \in Arms : Size(d, arm) >= 2
  BY <1>2, SameRows
<1>6. LikelihoodOf[d.req.likelihood] = d.req.outcome
  <2>1. d.req.outcome = c.req.outcome
    BY <1>2 DEF SameTable
  <2> QED BY <1>1, <2>1 DEF LikelihoodOf
<1> DEFINE Few(k) == \E arm \in Arms : Size(d, arm) < k
<1>7. ~Few(1) /\ ~Few(2)
  <2>1. IsList(d.rows)
    BY <1>1 DEF SoundCase, TableOK
  <2>2. \A arm \in Arms : Size(d, arm) \in Nat
    BY <2>1, SizesAdd
  <2> QED BY <1>5, <2>2
<1> HIDE DEF n, e
<1>8. n \in BayesianOf(d, e)
  BY <1>4, <1>5, <1>6, <1>7 DEF BayesianOf, Size, n
<1>9. n.estimates # {}
  BY DEF n, Estimated
<1> QED BY <1>1, <1>8, <1>9 DEF Accepts, Results, BayesianResults, e, d

LEMMA FixedHorizonAgrees ==
  ASSUME NEW c, SoundCase(c), c.req.method = "cuped", c.req.outcome = "continuous",
         Testable(Unadjusted(c)), NEW implemented,
         Eligibility(c, implemented).status \in EligibleStatuses,
         \A arm \in Arms : Size(c, arm) >= 2
  PROVE  Accepts(As(c, "fixed_horizon_ab"))
<1> DEFINE d == As(c, "fixed_horizon_ab")
           e == Eligibility(d, FixedHorizon)
           treatment == ValidRowsOf(d, "treatment")
           control == ValidRowsOf(d, "control")
           value == [i \in ValidRows(d) |-> d.rows[i].outcome]
           n == Estimated("completed", treatment \cup control, {"effect"}, "significant")
<1>1. /\ SoundCase(d) /\ SameButMethod(c, d) /\ d.req.method = "fixed_horizon_ab"
      /\ d.req.uncertainty = "confidence" /\ d.req.alternative = c.req.alternative
  BY AsIs
<1> HIDE DEF d
<1>2. SameTable(c, d)
  BY <1>1, AlikeData
<1>3. e.status \in EligibleStatuses
  <2>1. <<d.req.design, d.req.method>> \in FixedHorizon
    BY <1>1, Randomized DEF FixedHorizon
  <2> QED BY <1>1, <2>1, AlikeIsEligible
<1>4. /\ d.req.alternative = "two_sided" /\ UnsupportedReason(d.req, d.bind) = NoReason
      /\ Complete(d) /\ d.req.outcome = "continuous"
  <2> DEFINE u == Unadjusted(c)
  <2>1. /\ SameTable(c, u) /\ u.req.alternative = c.req.alternative
        /\ u.req.estimand = c.req.estimand
    BY UnadjustedIs DEF RequestFields
  <2> HIDE DEF u
  <2>2. /\ u.req.alternative = "two_sided" /\ UnsupportedReason(u.req, u.bind) = NoReason
        /\ Complete(u)
    BY DEF Testable, u
  <2>3. d.req.estimand = c.req.estimand
    BY <1>1 DEF SameButMethod, RequestFields
  <2>4. UnsupportedReason(d.req, d.bind) = UnsupportedReason(u.req, u.bind)
    BY <1>2, <2>1, <2>3 DEF UnsupportedReason, SameTable
  <2> QED BY <1>1, <1>2, <2>1, <2>2, <2>4, SameRows DEF SameTable
<1>5. ~(Cardinality(treatment) < 2) /\ ~(Cardinality(control) < 2)
  <2>1. \A arm \in Arms : Size(d, arm) >= 2
    BY <1>2, SameRows
  <2>2. IsList(d.rows)
    BY <1>1 DEF SoundCase, TableOK
  <2>3. Size(d, "treatment") \in Nat /\ Size(d, "control") \in Nat
    BY <2>2, SizesAdd
  <2> QED BY <2>1, <2>3 DEF Size, Arms
<1> HIDE DEF e, treatment, control, value
<1>6. n \in Tested(treatment \cup control)
  BY DEF Tested, Verdict
<1>7. n.estimates # {}
  BY DEF Estimated
<1> HIDE DEF n
<1>8. n \in Welch(treatment, control, value)
  BY <1>5, <1>6 DEF Welch
<1>9. n \in FixedHorizonOf(d, e)
  BY <1>1, <1>3, <1>4, <1>8 DEF FixedHorizonOf, treatment, control, value
<1> QED BY <1>1, <1>7, <1>9 DEF Accepts, Results, FixedHorizonResults, e, d

\* What CUPED adjusts the fixed-horizon service tests, and what that one tests
\* has a posterior, whatever the table, the request and the policy.
THEOREM RandomizedServicesAgree ==
  ASSUME NEW c, SoundCase(c), NEW n \in Results(c), n.estimates # {}
  PROVE  /\ c.req.method = "cuped" => Accepts(As(c, "fixed_horizon_ab"))
         /\ c.req.method \in {"cuped", "fixed_horizon_ab"} => Accepts(As(c, "bayesian_ab"))
<1>1. CASE c.req.method = "cuped"
  <2>1. PICK baseline \in FixedHorizonResults(Unadjusted(c)) :
          n \in CupedOf(c, Eligibility(c, Cuped), baseline)
    BY <1>1 DEF Results, CupedResults
  <2>2. /\ Eligibility(c, Cuped).status \in EligibleStatuses
        /\ CupedUnsupported(c.req) = NoReason /\ Testable(Unadjusted(c)) /\ Complete(c)
        /\ \A arm \in Arms : Size(c, arm) >= 2
    BY <2>1, CupedAccepts
  <2>3. c.req.outcome = "continuous"
    BY <2>2 DEF CupedUnsupported, NoReason
  <2>4. Accepts(As(c, "fixed_horizon_ab"))
    BY <1>1, <2>2, <2>3, FixedHorizonAgrees
  <2>5. Accepts(As(c, "bayesian_ab"))
    BY <2>2, <2>3, BayesianAgrees
  <2> QED BY <2>4, <2>5
<1>2. CASE c.req.method = "fixed_horizon_ab"
  <2>1. n \in FixedHorizonOf(c, Eligibility(c, FixedHorizon))
    BY <1>2 DEF Results, FixedHorizonResults
  <2>2. /\ Eligibility(c, FixedHorizon).status \in EligibleStatuses /\ Testable(c)
        /\ \A arm \in Arms : Size(c, arm) >= 2
    BY <2>1, FixedHorizonAccepts
  <2>3. c.req.outcome \in {"continuous", "binary"} /\ Complete(c)
    BY <2>2, TestableShape DEF Testable
  <2>4. Accepts(As(c, "bayesian_ab"))
    BY <2>2, <2>3, BayesianAgrees
  <2> QED BY <1>2, <2>4
<1> QED BY <1>1, <1>2

-----------------------------------------------------------------------------
\* The cases of the specification are those the proofs above are about.
LEMMA NativeOfCase ==
  ASSUME CaseIsOpen, native # NoNative
  PROVE  /\ case \in Cases /\ native \in ServiceResults(case)
         /\ ~Observational(case) => SoundCase(case) /\ native \in Results(case)
         /\ Observational(case) => CausalOK(case) /\ native \in CausalResults(case)
BY CasesAssumption DEF CaseIsOpen, ServiceResults, SoundCase, WellFormed

\* In the analysis node, too: the services judge an experiment alike.
THEOREM AgreementOfServices == TypedSpec => []ServicesAgree
<1>1. CaseIsOpen => ServicesAgree
  BY NativeOfCase, RandomizedServicesAgree DEF ServicesAgree
<1> QED BY <1>1, CaseTheorem, PTL

-----------------------------------------------------------------------------
(* The contract of a randomized result.                                    *)

Withholds == {"abstained", "unsupported", "invalid"}
IsWithheld(n) ==
  \E status \in Withholds : \E reason : reason # NoReason /\ n = Withheld(status, reason)

LEMMA WithheldKeepsContract ==
  ASSUME NEW c, SoundCase(c), ~Observational(c), NEW n, IsWithheld(n)
  PROVE  ContractHolds(c, n)
<1>1. /\ n.status \in Withholds /\ n.reason # NoReason /\ n.estimates = {} /\ n.rows = {}
  BY WithheldHasNone DEF IsWithheld
<1>2. \A methods : EligibilityContract(Eligibility(c, methods))
  BY EligibilityIsCoherent DEF SoundCase
<1> QED BY <1>1, <1>2 DEF ContractHolds, Withholds

LEMMA EstimateKeepsContract ==
  ASSUME NEW c, SoundCase(c), ~Observational(c), NEW n,
         n.estimates # {}, n.rows # {}, n.reason = NoReason,
         n.status = "completed" \/ (n.status \in Precisions /\ "adjusted" \in n.estimates),
         "effect" \in n.estimates => n.conclusion \in Verdict
  PROVE  ContractHolds(c, n)
<1>1. \A methods : EligibilityContract(Eligibility(c, methods))
  BY EligibilityIsCoherent DEF SoundCase
<1>2. c.req.method # "dowhy" /\ ~Partial(c, n)
  BY DEF SoundCase, RandomizedMethods, Partial
<1>3. n.status \in {"completed", "no_improvement", "degraded_precision", "inconclusive"}
  BY DEF Precisions
<1> QED BY <1>1, <1>2, <1>3 DEF ContractHolds

\* Rows of each arm are rows.
LEMMA SomeRows ==
  ASSUME NEW c, SoundCase(c), \A arm \in Arms : Size(c, arm) >= 1
  PROVE  ValidRows(c) # {}
<1>1. IsList(c.rows)
  BY DEF SoundCase, TableOK
<1>2. /\ \A arm : Size(c, arm) \in Nat
      /\ Cardinality(ValidRows(c)) = Size(c, "treatment") + Size(c, "control")
  BY <1>1, SizesAdd
<1>3. Size(c, "treatment") >= 1 /\ Size(c, "control") >= 1
  BY DEF Arms
<1>4. Cardinality(ValidRows(c)) # 0
  BY <1>2, <1>3
<1> QED BY <1>4, FS_EmptySet

LEMMA WelchTells ==
  ASSUME NEW treatment, NEW control, NEW V, NEW n \in Welch(treatment, control, V)
  PROVE  \/ n \in Tested(treatment \cup control)
         \/ \E reason : reason # NoReason /\ n = Withheld("abstained", reason)
  BY DEF Welch, NoReason

LEMMA ProportionsTell ==
  ASSUME NEW treatment, NEW control, NEW V, NEW floats,
         NEW n \in TwoProportions(treatment, control, V, floats)
  PROVE  \/ n \in Tested(treatment \cup control)
         \/ \E reason : reason # NoReason /\ n = Withheld("abstained", reason)
  BY DEF TwoProportions, NoReason

LEMMA FixedHorizonOutcome ==
  ASSUME NEW c, SoundCase(c), NEW implemented,
         NEW n \in FixedHorizonOf(c, Eligibility(c, implemented))
  PROVE  \/ IsWithheld(n)
         \/ n \in Tested(ValidRows(c)) /\ ValidRows(c) # {}
<1> DEFINE e == Eligibility(c, implemented)
           value == [i \in ValidRows(c) |-> c.rows[i].outcome]
           treatment == ValidRowsOf(c, "treatment")
           control == ValidRowsOf(c, "control")
           floats == c.floats
<1>1. e.status \notin EligibleStatuses => e.primary # NoReason
  BY EligibilityIsCoherent DEF EligibilityContract, SoundCase
<1>2. n \in FixedHorizonOf(c, e)
  OBVIOUS
<1> HIDE DEF e, value, treatment, control, floats
<1>3. \/ \E status \in {"abstained", "unsupported"} : \E reason :
           reason # NoReason /\ n = Withheld(status, reason)
      \/ n \in Welch(treatment, control, value)
      \/ n \in TwoProportions(treatment, control, value, floats)
  BY <1>1, <1>2 DEF FixedHorizonOf, NoReason, value, treatment, control, floats
<1>4. CASE \E status \in {"abstained", "unsupported"} : \E reason :
             reason # NoReason /\ n = Withheld(status, reason)
  BY <1>4 DEF IsWithheld, Withholds
<1>5. CASE \E reason : reason # NoReason /\ n = Withheld("abstained", reason)
  BY <1>5 DEF IsWithheld, Withholds
<1>6. CASE n.estimates # {}
  <2>1. n \in Tested(ValidRows(c)) /\ \A arm \in Arms : Size(c, arm) >= 2
    BY <1>6, FixedHorizonAccepts
  <2>2. IsList(c.rows)
    BY DEF SoundCase, TableOK
  <2>3. \A arm \in Arms : Size(c, arm) >= 1
    BY <2>1, <2>2, SizesAdd
  <2> QED BY <2>1, <2>3, SomeRows
<1>7. ASSUME NEW rows, n \in Tested(rows) PROVE n.estimates # {}
  BY <1>7, TestedHas
<1>8. CASE n \in Welch(treatment, control, value)
  <2>1. \/ n \in Tested(treatment \cup control)
        \/ \E reason : reason # NoReason /\ n = Withheld("abstained", reason)
    BY <1>8, WelchTells
  <2> QED BY <1>5, <1>6, <1>7, <2>1
<1>9. CASE n \in TwoProportions(treatment, control, value, floats)
  <2>1. \/ n \in Tested(treatment \cup control)
        \/ \E reason : reason # NoReason /\ n = Withheld("abstained", reason)
    BY <1>9, ProportionsTell
  <2> QED BY <1>5, <1>6, <1>7, <2>1
<1> QED BY <1>3, <1>4, <1>8, <1>9

LEMMA CupedOutcome ==
  ASSUME NEW c, SoundCase(c), NEW implemented,
         NEW baseline \in FixedHorizonResults(Unadjusted(c)),
         NEW n \in CupedOf(c, Eligibility(c, implemented), baseline)
  PROVE  \/ IsWithheld(n)
         \/ Adjusted(AllCovaried(c), n) /\ AllCovaried(c) # {}
         \/ /\ n = Interrupted
            /\ \E m \in CupedOf(c, Eligibility(c, implemented), baseline) : m.estimates # {}
<1> DEFINE e == Eligibility(c, implemented)
           u == Unadjusted(c)
           kept == AllCovaried(c)
           x == [i \in kept |-> c.rows[i][CovariateColumn(c)]]
<1>1. e.status \notin EligibleStatuses => e.primary # NoReason
  BY EligibilityIsCoherent DEF EligibilityContract, SoundCase
<1>2. IsWithheld(baseline) \/ baseline \in Tested(ValidRows(u))
  <2>1. SoundCase(u)
    BY UnadjustedIs
  <2>2. baseline \in FixedHorizonOf(u, Eligibility(u, FixedHorizon))
    BY DEF FixedHorizonResults
  <2> HIDE DEF u
  <2> QED BY <2>1, <2>2, FixedHorizonOutcome
<1>3. baseline.status = "unsupported" => baseline.reason # NoReason
  BY <1>2, WithheldHasNone, TestedHas DEF IsWithheld
<1>4. n \in CupedOf(c, e, baseline)
  OBVIOUS
<1> HIDE DEF e, u, kept, x
<1>5. \/ \E status \in Withholds : \E reason : reason # NoReason /\ n = Withheld(status, reason)
      \/ n \in AdjustedResults(kept, x) /\ AdjustedResults(kept, x) \subseteq CupedOf(c, e, baseline)
  BY <1>1, <1>3, <1>4 DEF CupedOf, Covaried, AllCovaried, Withholds, NoReason, kept, x
<1>6. CASE \E status \in Withholds : \E reason : reason # NoReason /\ n = Withheld(status, reason)
  BY <1>6 DEF IsWithheld
<1> DEFINE reasons == {"constant_or_near_zero_covariate", "cuped_computation_error",
                       "adjusted_inference_unavailable"}
<1>7. CASE n \in AdjustedResults(kept, x) /\ AdjustedResults(kept, x) \subseteq CupedOf(c, e, baseline)
  <2>1. \/ n = Interrupted
        \/ Adjusted(kept, n) \/ \E reason \in reasons : n = Withheld("abstained", reason)
    BY <1>7, AdjustmentAccepts
  <2>2. CASE \E reason \in reasons : n = Withheld("abstained", reason)
    <3>1. \E reason : reason # NoReason /\ n = Withheld("abstained", reason)
      BY <2>2 DEF NoReason
    <3> QED BY <3>1 DEF IsWithheld, Withholds
  <2>3. CASE Adjusted(kept, n)
    <3>1. n.estimates # {}
      BY <2>3, AdjustedHas
    <3>2. ~(Cardinality(kept) < Threshold(c).minimumTotal)
      BY <3>1, CupedAccepts DEF kept
    <3>3. Threshold(c).minimumTotal \in Nat \ {0}
      BY ThresholdsAreNumbers, PolicyAssumption DEF Thresholds
    <3>4. Cardinality(kept) # 0
      BY <3>2, <3>3
    <3> QED BY <2>3, <3>4, FS_EmptySet DEF kept
  <2>4. CASE n = Interrupted
    <3> DEFINE m == Estimated("completed", kept, {"effect", "adjusted"}, "significant")
    <3>1. m \in AdjustedResults(kept, x)
      BY DEF AdjustedResults, Precisions, Verdict
    <3>2. m.estimates # {}
      BY DEF Estimated
    <3> QED BY <1>7, <2>4, <3>1, <3>2 DEF e
  <2> QED BY <2>1, <2>2, <2>3, <2>4
<1> QED BY <1>5, <1>6, <1>7

LEMMA BayesianOutcome ==
  ASSUME NEW c, SoundCase(c), NEW implemented,
         NEW n \in BayesianOf(c, Eligibility(c, implemented))
  PROVE  \/ IsWithheld(n)
         \/ n = Estimated("completed", ValidRows(c), {"posterior"}, None) /\ ValidRows(c) # {}
         \/ /\ n = Interrupted
            /\ \E m \in BayesianOf(c, Eligibility(c, implemented)) : m.estimates # {}
<1> DEFINE e == Eligibility(c, implemented)
           estimate == Estimated("completed", ValidRows(c), {"posterior"}, None)
<1>1. Refuses(e) => e.primary # NoReason
  <2>1. e.status = Aggregate(e.codes) /\ (e.status \notin EligibleStatuses => e.primary # NoReason)
    BY EligibilityIsCoherent DEF EligibilityContract, SoundCase
  <2> HIDE DEF e
  <2>2. Refuses(e) => Aggregate(e.codes) \notin EligibleStatuses
    BY <2>1 DEF Refuses, Aggregate, EligibleStatuses
  <2> QED BY <2>1, <2>2
<1>2. n \in BayesianOf(c, e)
  OBVIOUS
<1> HIDE DEF e
<1>3. \/ \E status \in Withholds : \E reason : reason # NoReason /\ n = Withheld(status, reason)
      \/ n = estimate
      \/ n = Interrupted /\ estimate \in BayesianOf(c, e)
  BY <1>1, <1>2 DEF BayesianOf, Withholds, NoReason, estimate
<1>4. CASE n = Estimated("completed", ValidRows(c), {"posterior"}, None)
  <2>1. n.estimates # {}
    BY <1>4 DEF Estimated
  <2>2. \A arm \in Arms : Size(c, arm) >= 1
    BY <2>1, BayesianAccepts
  <2> QED BY <1>4, <2>2, SomeRows
<1>5. CASE n = Interrupted /\ estimate \in BayesianOf(c, e)
  <2>1. estimate.estimates # {}
    BY DEF estimate, Estimated
  <2> QED BY <1>5, <2>1 DEF e
<1> QED BY <1>3, <1>4, <1>5 DEF IsWithheld

LEMMA InterruptedKeepsContract ==
  ASSUME NEW c, SoundCase(c), ~Observational(c), c.req.method # "fixed_horizon_ab",
         NEW n, n = Interrupted,
         NEW m \in Results(c), m.estimates # {}, RandomizedEarned(c, m)
  PROVE  ContractHolds(c, n)
<1>1. \A methods \in {FixedHorizon, Cuped, Bayesian} : EligibilityContract(Eligibility(c, methods))
  BY EligibilityIsCoherent DEF SoundCase
<1>2. /\ n.status = "raised" /\ n.reason = NoReason /\ n.estimates = {} /\ n.rows = {}
  BY WithheldHasNone DEF Interrupted
<1>3. c.req.method \in {"cuped", "bayesian_ab"}
  BY DEF SoundCase, RandomizedMethods
<1>4. c.req.method \notin Guarded
  BY <1>3 DEF Guarded
<1>5. RequestInOrder(c)
  BY <1>3 DEF RequestInOrder, CrossFitMethods, SubgroupMethods, WeightingMethods
<1> QED BY <1>1, <1>2, <1>4, <1>5 DEF ContractHolds, Partial

LEMMA RandomizedKeepsContract ==
  ASSUME NEW c, SoundCase(c), ~Observational(c), NEW n \in Results(c)
  PROVE  ContractHolds(c, n)
<1>1. CASE c.req.method = "fixed_horizon_ab"
  <2>1. IsWithheld(n) \/ (n \in Tested(ValidRows(c)) /\ ValidRows(c) # {})
    BY <1>1, FixedHorizonOutcome DEF Results, FixedHorizonResults
  <2>2. CASE n \in Tested(ValidRows(c)) /\ ValidRows(c) # {}
    BY <2>2, TestedHas, EstimateKeepsContract
  <2> QED BY <2>1, <2>2, WithheldKeepsContract
<1>2. CASE c.req.method = "cuped"
  <2>1. PICK baseline \in FixedHorizonResults(Unadjusted(c)) :
          n \in CupedOf(c, Eligibility(c, Cuped), baseline)
    BY <1>2 DEF Results, CupedResults
  <2>2. \/ IsWithheld(n)
        \/ Adjusted(AllCovaried(c), n) /\ AllCovaried(c) # {}
        \/ /\ n = Interrupted
           /\ \E m \in CupedOf(c, Eligibility(c, Cuped), baseline) : m.estimates # {}
    BY <2>1, CupedOutcome
  <2>3. CASE Adjusted(AllCovaried(c), n) /\ AllCovaried(c) # {}
    BY <2>3, AdjustedHas, EstimateKeepsContract
  <2>4. CASE /\ n = Interrupted
             /\ \E m \in CupedOf(c, Eligibility(c, Cuped), baseline) : m.estimates # {}
    <3>1. PICK m \in CupedOf(c, Eligibility(c, Cuped), baseline) : m.estimates # {}
      BY <2>4
    <3>2. m \in CupedResults(c)
      BY <3>1 DEF CupedResults
    <3>3. m \in Results(c) /\ RandomizedEarned(c, m)
      BY <1>2, <3>1, <3>2, CupedEarned DEF Results
    <3> QED BY <1>2, <2>4, <3>1, <3>3, InterruptedKeepsContract
  <2> QED BY <2>2, <2>3, <2>4, WithheldKeepsContract
<1>3. CASE c.req.method = "bayesian_ab"
  <2>1. \/ IsWithheld(n)
        \/ n = Estimated("completed", ValidRows(c), {"posterior"}, None) /\ ValidRows(c) # {}
        \/ n = Interrupted /\ \E m \in BayesianResults(c) : m.estimates # {}
    BY <1>3, BayesianOutcome DEF Results, BayesianResults
  <2>2. CASE n = Estimated("completed", ValidRows(c), {"posterior"}, None) /\ ValidRows(c) # {}
    <3>1. /\ n.estimates = {"posterior"} /\ n.rows # {} /\ n.reason = NoReason
          /\ n.status = "completed"
      BY <2>2 DEF Estimated
    <3>2. n.estimates # {} /\ "effect" \notin n.estimates
      BY <3>1
    <3> QED BY <3>1, <3>2, EstimateKeepsContract
  <2>3. CASE n = Interrupted /\ \E m \in BayesianResults(c) : m.estimates # {}
    <3>1. PICK m \in BayesianResults(c) : m.estimates # {}
      BY <2>3
    <3>2. m \in Results(c) /\ RandomizedEarned(c, m)
      BY <1>3, <3>1, BayesianEarned DEF Results
    <3> QED BY <1>3, <2>3, <3>1, <3>2, InterruptedKeepsContract
  <2> QED BY <2>1, <2>2, <2>3, WithheldKeepsContract
<1> QED BY <1>1, <1>2, <1>3 DEF SoundCase, RandomizedMethods

-----------------------------------------------------------------------------
(* The contract of a result of the others.                                 *)

Refusals == {"abstained", "unsupported", "invalid", "insufficient_evidence",
             "partially_identified", "error"}
IsRefused(n) == \E status \in Refusals : \E reason : reason # NoReason /\ n = Refused(status, reason)

LEMMA RefusedHasNone ==
  \A status, reason : /\ Refused(status, reason).estimates = {}
                      /\ Refused(status, reason).rows = {}
                      /\ Refused(status, reason).status = status
                      /\ Refused(status, reason).reason = reason
  BY DEF Refused

LEMMA RefusedKeepsContract ==
  ASSUME NEW c, Observational(c), NEW n, IsRefused(n)
  PROVE  ContractHolds(c, n)
<1>1. /\ n.status \in Refusals /\ n.reason # NoReason /\ n.estimates = {} /\ n.rows = {}
  BY RefusedHasNone DEF IsRefused
<1> QED BY <1>1 DEF ContractHolds, Refusals

LEMMA RaisedKeepsContract ==
  ASSUME NEW c, Observational(c), c.req.method \notin Guarded, RequestInOrder(c), NEW n, n = Raised
  PROVE  ContractHolds(c, n)
<1>1. n.status = "raised" /\ n.reason = NoReason /\ n.estimates = {} /\ n.rows = {}
  BY RefusedHasNone DEF Raised
<1> QED BY <1>1 DEF ContractHolds, Partial

LEMMA CompletedKeepsContract ==
  ASSUME NEW c, Observational(c), NEW n, n.status = "completed", n.reason = NoReason,
         n.estimates # {}, c.req.method # "dowhy", n.rows # {}
  PROVE  ContractHolds(c, n)
  BY DEF ContractHolds, Partial

LEMMA DidCodesTell ==
  /\ DOMAIN DidCodes = 1..31
  /\ \A k \in 1..31 : DidCodes[k] # NoReason
  BY DEF DidCodes, NoReason

LEMMA DidReasonTells ==
  ASSUME NEW codes, codes \cap SetOf(DidCodes) # {}
  PROVE  DidReason(codes) # NoReason
<1> DEFINE I == {i \in DOMAIN DidCodes : DidCodes[i] \in codes}
<1>1. I \subseteq Nat /\ I # {}
  BY DidCodesTell DEF SetOf
<1>2. Min(I) \in I
  <2> HIDE DEF I
  <2> QED BY <1>1, MinIsLeast
<1>3. DidReason(codes) = DidCodes[Min(I)]
  BY DEF DidReason
<1> QED BY <1>2, <1>3, DidCodesTell

LEMMA DidCodesHave ==
  {"did.anticipatory_exposure", "did.composition_change", "did.control_adoption",
    "did.duplicate_unit_period", "did.few_clusters", "did.group_switching",
    "did.identification_insufficient_evidence", "did.identification_invalid",
    "did.identification_partially_identified", "did.identification_unsupported",
    "did.incompatible_estimand", "did.incomplete_unit_coverage", "did.inference_unavailable",
    "did.insufficient_clusters", "did.insufficient_group_clusters", "did.invalid_time_value",
    "did.invalid_treatment_value", "did.invalid_unit", "did.missing_column",
    "did.missing_control_group", "did.missing_outcome", "did.missing_treated_group",
    "did.nonfinite_outcome", "did.reversed_timing", "did.staggered_adoption",
    "did.treatment_reversal", "did.treatment_too_early", "did.treatment_too_late",
    "did.unknown_group", "did.unsupported_metric", "did.unsupported_period"}
  \subseteq SetOf(DidCodes)
  BY DEF DidCodes, SetOf

DidRefuses(n) ==
  \E status \in Refusals : \E codes :
    codes \cap SetOf(DidCodes) # {} /\ n = DidRefused(status, codes)

LEMMA DidRefusesTells == ASSUME NEW n, DidRefuses(n) PROVE IsRefused(n)
  BY DidReasonTells DEF DidRefuses, DidRefused, IsRefused

\* Every code of the service is one of the alphabet.
LEMMA IdentificationStatuses ==
  \A codes : StatusOfCodes(codes) \in {"identified", "invalid", "unsupported",
                                       "insufficient_evidence", "partially_identified"}
  BY DEF StatusOfCodes

LEMMA DidDeclaredCodes ==
  ASSUME NEW q
  PROVE  DidDeclared(q) \cup DidIdentification(Identification(q)) \subseteq SetOf(DidCodes)
<1>1. DidDeclared(q) \subseteq SetOf(DidCodes)
  BY DidCodesHave DEF DidDeclared, If
<1> DEFINE i == Identification(q)
<1>2. i.status \in {"identified", "invalid", "unsupported", "insufficient_evidence",
                    "partially_identified"}
  BY IdentificationStatuses DEF Identification, Identified
<1> HIDE DEF i
<1>3. i.status # "identified" => IdentificationCode[i.status] \in SetOf(DidCodes)
  BY <1>2, DidCodesHave DEF IdentificationCode
<1>4. DidIdentification(i) \subseteq SetOf(DidCodes)
  BY <1>3 DEF DidIdentification, If
<1> QED BY <1>1, <1>4 DEF i

LEMMA DidPanelCodes ==
  ASSUME NEW c, NEW rows, NEW earlier
  PROVE  RowCodes(c) \cup PanelCodes(c, rows) \cup AdoptionCodes(c, rows)
           \cup EarlierCodes(c, rows, earlier) \subseteq SetOf(DidCodes)
<1>1. RowCodes(c) \subseteq SetOf(DidCodes)
  BY DidCodesHave DEF RowCodes, If
<1>2. PanelCodes(c, rows) \subseteq SetOf(DidCodes)
  BY DidCodesHave DEF PanelCodes, If
<1>3. AdoptionCodes(c, rows) \subseteq SetOf(DidCodes)
  BY DidCodesHave DEF AdoptionCodes, If
<1>4. EarlierCodes(c, rows, earlier) \subseteq SetOf(DidCodes)
  BY DidCodesHave DEF EarlierCodes, If
<1> QED BY <1>1, <1>2, <1>3, <1>4

\* A panel of which there is nothing to tell, with clusters enough.
PanelAccepts(c) ==
  /\ DidDeclared(c.ident) = {} /\ DidIdentification(Identification(c.ident)) = {}
  /\ RowCodes(c) = {} /\ PanelCodes(c, Canonical(c)) = {}
  /\ None \notin {c.ident.treatment, c.ident.start} => AdoptionCodes(c, Canonical(c)) = {}
  /\ ClusterCodesOf(c, Canonical(c))
       \cap {"did.insufficient_clusters", "did.insufficient_group_clusters"} = {}

\* What becomes of a panel: a reason, an error of the models, or an effect.
LEMMA DidOutcome ==
  ASSUME NEW c, c.req.method = "did", NEW n \in DidResults(c, Identification(c.ident))
  PROVE  \/ IsRefused(n)
         \/ n = Raised /\ Canonical(c) # {} /\ PanelAccepts(c)
         \/ \E estimates \in {{"att"}, {"att", "trend"}} :
              /\ n = [status |-> "completed", reason |-> NoReason, rows |-> Canonical(c),
                      estimates |-> estimates, conclusion |-> None]
              /\ Canonical(c) # {} /\ PanelAccepts(c)
<1> DEFINE rows == Canonical(c)
           declared == DidDeclared(c.ident) \cup DidIdentification(Identification(c.ident))
           codes == declared \cup RowCodes(c) \cup PanelCodes(c, rows)
               \cup (IF None \in {c.ident.treatment, c.ident.start} THEN {}
                     ELSE AdoptionCodes(c, rows))
               \cup EarlierCodes(c, rows, Earlier(c))
           clusters == ClusterCodesOf(c, rows)
           Completed(estimates) ==
             [status |-> "completed", reason |-> NoReason, rows |-> rows,
              estimates |-> estimates, conclusion |-> None]
<1>1. declared \subseteq SetOf(DidCodes) /\ codes \subseteq SetOf(DidCodes)
  BY DidDeclaredCodes, DidPanelCodes
<1>2. clusters \subseteq SetOf(DidCodes)
  BY DidCodesHave DEF ClusterCodesOf, ClusterPolicyCodes, If
<1>3. n \in DidDeclaredResults(c, declared)
  BY DEF DidResults
<1>4. n \in DidPanel(c, rows, declared)
        => \/ PanelDisposition(codes) # "valid" /\ n = DidRefused(PanelDisposition(codes), codes)
           \/ PanelDisposition(codes) = "valid" /\ n \in DidEstimated(c, rows, clusters)
  BY DEF DidPanel
<1>5. PanelDisposition(codes) = "valid" => rows # {}
  <2>1. UnitsOf(c, {}, "treated") = {}
    BY DEF UnitsOf, UnitsIn
  <2>2. UnitsOf(c, rows, "treated") = {} => "did.missing_treated_group" \in PanelCodes(c, rows)
    BY DEF PanelCodes, If
  <2>3. PanelDisposition(codes) = "valid" => codes = {}
    BY DEF PanelDisposition
  <2>4. PanelCodes(c, rows) \subseteq codes
    OBVIOUS
  <2> HIDE DEF codes, rows
  <2> QED BY <2>1, <2>2, <2>3, <2>4
<1> DEFINE few == clusters \cap {"did.insufficient_clusters", "did.insufficient_group_clusters"}
<1>9. PanelDisposition(codes) = "valid" /\ few = {} => PanelAccepts(c)
  <2>1. PanelDisposition(codes) = "valid" => codes = {}
    BY DEF PanelDisposition
  <2>2. codes = {} => /\ DidDeclared(c.ident) = {} /\ DidIdentification(Identification(c.ident)) = {}
                      /\ RowCodes(c) = {} /\ PanelCodes(c, rows) = {}
                      /\ None \notin {c.ident.treatment, c.ident.start} => AdoptionCodes(c, rows) = {}
    OBVIOUS
  <2> HIDE DEF codes
  <2> QED BY <2>1, <2>2 DEF PanelAccepts
<1> HIDE DEF rows, declared, codes, clusters
<1>6. CASE DeclaredDisposition(declared) # "valid"
  <2>1. n = DidRefused(DeclaredDisposition(declared), declared)
    BY <1>3, <1>6 DEF DidDeclaredResults
  <2>2. DeclaredDisposition(declared) \in Refusals /\ declared # {}
    BY <1>6 DEF DeclaredDisposition, Refusals
  <2>3. declared \cap SetOf(DidCodes) # {}
    BY <1>1, <2>2
  <2> QED BY <2>1, <2>2, <2>3, DidRefusesTells DEF DidRefuses
<1>7. CASE DeclaredDisposition(declared) = "valid" /\ ~(DidColumns \subseteq SetOf(c.columns))
  <2>1. n = DidRefused("invalid", {"did.missing_column"})
    BY <1>3, <1>7 DEF DidDeclaredResults
  <2>2. {"did.missing_column"} \cap SetOf(DidCodes) # {}
    BY DidCodesHave
  <2> QED BY <2>1, <2>2, DidRefusesTells DEF DidRefuses, Refusals
<1>8. CASE DeclaredDisposition(declared) = "valid" /\ DidColumns \subseteq SetOf(c.columns)
  <2>1. n \in DidPanel(c, rows, declared)
    BY <1>3, <1>8 DEF DidDeclaredResults, rows
  <2>2. CASE PanelDisposition(codes) # "valid" /\ n = DidRefused(PanelDisposition(codes), codes)
    <3>1. PanelDisposition(codes) \in Refusals /\ codes # {}
      BY <2>2 DEF PanelDisposition, Refusals
    <3>2. codes \cap SetOf(DidCodes) # {}
      BY <1>1, <3>1
    <3> QED BY <2>2, <3>1, <3>2, DidRefusesTells DEF DidRefuses
  <2>3. CASE PanelDisposition(codes) = "valid" /\ n \in DidEstimated(c, rows, clusters)
    <3> DEFINE more == clusters \cup {"did.inference_unavailable"}
    <3>1. \/ few # {} /\ n = DidRefused("abstained", clusters)
          \/ few = {} /\ n = Raised
          \/ n = DidRefused("abstained", more)
          \/ few = {} /\ \E estimates \in {{"att"}, {"att", "trend"}} : n = Completed(estimates)
      BY <2>3 DEF DidEstimated
    <3>2. "abstained" \in Refusals /\ "did.inference_unavailable" \in SetOf(DidCodes)
      BY DidCodesHave DEF Refusals
    <3>3. CASE few # {} /\ n = DidRefused("abstained", clusters)
      <4>1. clusters \cap SetOf(DidCodes) # {}
        BY <1>2, <3>3
      <4> QED BY <3>2, <3>3, <4>1, DidRefusesTells DEF DidRefuses
    <3>4. CASE n = DidRefused("abstained", more)
      <4>1. more \cap SetOf(DidCodes) # {}
        BY <3>2
      <4> HIDE DEF more
      <4> QED BY <3>2, <3>4, <4>1, DidRefusesTells DEF DidRefuses
    <3>5. CASE few = {} /\ n = Raised
      BY <1>5, <1>9, <2>3, <3>5 DEF rows
    <3>6. CASE few = {} /\ \E estimates \in {{"att"}, {"att", "trend"}} : n = Completed(estimates)
      BY <1>5, <1>9, <2>3, <3>6 DEF rows
    <3> QED BY <3>1, <3>3, <3>4, <3>5, <3>6
  <2> QED BY <1>4, <2>1, <2>2, <2>3
<1> QED BY <1>6, <1>7, <1>8

\* The first of the rows with a fault has one.
LEMMA FirstIsFaulty ==
  ASSUME NEW rows, IsList(rows), NEW faulty \in SUBSET DOMAIN rows, faulty # {}
  PROVE  Min(faulty) \in faulty
<1>1. faulty \subseteq Nat
  BY DEF IsList
<1> QED BY <1>1, MinIsLeast

LEMMA DmlRefusalTells ==
  ASSUME NEW c, NEW q, NEW identified
  PROVE  LET refusal == DmlDeclarationRefusal(c, q, identified)
         IN  refusal = NotRefused \/ IsRefused(refusal)
  BY DEF DmlDeclarationRefusal, IsRefused, Refusals, NoReason

\* A request and a table that cross-fitting accepts.
DmlFolds(c) == Folds(c, CompleteRows(c))
DmlAccepts(c) ==
  /\ DmlDeclarationRefusal(c, c.ident, Identification(c.ident)) = NotRefused
  /\ \A i \in DOMAIN c.rows : DmlRowFault(c, i) = NoReason
  /\ \A exposure \in Exposures :
       ~(Cardinality(ArmOf(c, CompleteRows(c), exposure)) < c.split.folds)
  /\ ~PlanFails(c, DmlFolds(c))
  /\ IF c.req.method = "econml_dml" THEN AdapterRefusal(c) = NotRefused
     ELSE \A i \in DOMAIN DmlFolds(c) :
            ~(Cardinality(Complement(DmlFolds(c), i)) < MinimumTrainingRows)

LEMMA DmlOutcome ==
  ASSUME NEW c, IsList(c.rows), NEW n \in DmlResults(c, Identification(c.ident))
  PROVE  \/ IsRefused(n)
         \/ DmlAccepts(c) /\ n = HeldOutEstimate(DmlFolds(c))
         \/ DmlAccepts(c) /\ c.req.method # "econml_dml" /\ n = Raised
<1> DEFINE refusal == DmlDeclarationRefusal(c, c.ident, Identification(c.ident))
           faulty == {i \in DOMAIN c.rows : DmlRowFault(c, i) # NoReason}
           folds == DmlFolds(c)
           small == \E exposure \in Exposures :
                      Cardinality(ArmOf(c, CompleteRows(c), exposure)) < c.split.folds
<1>1. CASE refusal # NotRefused
  <2>1. n = refusal
    BY <1>1 DEF DmlResults, DmlDeclared
  <2> QED BY <1>1, <2>1, DmlRefusalTells
<1>2. CASE refusal = NotRefused /\ faulty # {}
  <2>1. n = Refused("invalid", DmlRowFault(c, Min(faulty)))
    BY <1>2 DEF DmlResults, DmlDeclared, DmlRows
  <2>2. Min(faulty) \in faulty
    <3>1. faulty \in SUBSET DOMAIN c.rows
      OBVIOUS
    <3> HIDE DEF faulty
    <3> QED BY <1>2, <3>1, FirstIsFaulty
  <2>3. DmlRowFault(c, Min(faulty)) # NoReason
    BY <2>2
  <2> QED BY <2>1, <2>3 DEF IsRefused, Refusals
<1>3. CASE refusal = NotRefused /\ faulty = {} /\ small
  <2>1. n = Refused("abstained", "dml.fold.inadequate_class_count")
    BY <1>3 DEF DmlResults, DmlDeclared, DmlRows, DmlSplit
  <2> QED BY <2>1 DEF IsRefused, Refusals, NoReason
<1>4. CASE refusal = NotRefused /\ faulty = {} /\ ~small
  <2>1. n \in DmlFolded(c, folds)
    BY <1>4 DEF DmlResults, DmlDeclared, DmlRows, DmlSplit, DmlFolds
  <2> HIDE DEF folds
  <2>2. CASE c.req.method = "econml_dml"
    <3>1. n \in EconmlDml(c, folds)
      BY <2>1, <2>2 DEF DmlFolded
    <3>2. \/ \E status \in Refusals : \E reason : reason # NoReason /\ n = Refused(status, reason)
          \/ AdapterRefusal(c) = NotRefused /\ n \in LinearDml(c, folds)
      BY <3>1 DEF EconmlDml, AdapterRefusal, NoBackend, Refusals, NoReason
    <3>3. n \in LinearDml(c, folds) =>
            \/ \E reason : reason # NoReason /\ n = Refused("abstained", reason)
            \/ n = Malformed
            \/ ~PlanFails(c, folds) /\ n = HeldOutEstimate(folds)
      BY DEF LinearDml, BackendFailures, NuisanceFailures, InferenceFailures, NoReason
    <3>4. IsRefused(Malformed)
      BY DEF IsRefused, Refusals, Malformed, NoReason
    <3>5. CASE AdapterRefusal(c) = NotRefused /\ ~PlanFails(c, folds)
                 /\ n = HeldOutEstimate(folds)
      BY <1>4, <2>2, <3>5 DEF DmlAccepts, folds
    <3> QED BY <3>2, <3>3, <3>4, <3>5 DEF IsRefused, Refusals
  <2>3. CASE c.req.method # "econml_dml"
    <3>1. n \in CrossFitted(c, folds)
      BY <2>1, <2>3 DEF DmlFolded
    <3> DEFINE short == \E i \in DOMAIN folds : Cardinality(Complement(folds, i)) < MinimumTrainingRows
    <3>2. \/ \E reason : reason # NoReason /\ n = Refused("abstained", reason)
          \/ ~PlanFails(c, folds) /\ ~short /\ n \in {Raised, HeldOutEstimate(folds)}
      BY <3>1 DEF CrossFitted, NoReason
    <3>3. CASE ~PlanFails(c, folds) /\ ~short /\ n \in {Raised, HeldOutEstimate(folds)}
      BY <1>4, <2>3, <3>3 DEF DmlAccepts, folds
    <3> QED BY <3>2, <3>3 DEF IsRefused, Refusals
  <2> QED BY <2>2, <2>3
<1> QED BY <1>1, <1>2, <1>3, <1>4

LEMMA HteRefusalTells ==
  ASSUME NEW c, NEW q, NEW identified
  PROVE  LET refusal == HteDeclarationRefusal(c, q, identified)
         IN  refusal = NotRefused \/ IsRefused(refusal)
<1>1. /\ DOMAIN DerivationCodes = {"outcome_derived", "treatment_derived", "data_mined"}
      /\ \A derivation \in DOMAIN DerivationCodes : DerivationCodes[derivation] # NoReason
  BY DEF DerivationCodes, NoReason
<1>2. ModifierRefusal(c, q) = NotRefused \/ IsRefused(ModifierRefusal(c, q))
  BY <1>1 DEF ModifierRefusal, IsRefused, Refusals, NoReason
<1>3. BindingRefusal(c, q, identified) = NotRefused \/ IsRefused(BindingRefusal(c, q, identified))
  BY DEF BindingRefusal, IsRefused, Refusals, NoReason
<1>4. \A status \in {"unsupported"} : \A reason :
        reason # NoReason => IsRefused(Refused(status, reason))
  BY DEF IsRefused, Refusals
<1> QED BY <1>2, <1>3, <1>4 DEF HteDeclarationRefusal, NoReason

\* The subgroups with enough units, and a table that is accepted for some.
Dense(c) == {g \in GroupIds(c) : Sparse(c, Members(c, Retained(c), g)) = NoReason}
HteFolds(c) == Folds(c, Retained(c))
HteAccepts(c) ==
  /\ HteDeclarationRefusal(c, c.ident, Identification(c.ident)) = NotRefused
  /\ \A i \in DOMAIN c.rows : AssignmentFault(c, i) = NoReason
  /\ \A i \in Retained(c) : RetainedFault(c, i) = NoReason
  /\ \A exposure \in Exposures :
       ~(Cardinality(ArmOf(c, Retained(c), exposure)) < c.split.folds)
  /\ ~PlanFails(c, HteFolds(c))
  /\ IF c.req.method = "econml_hte" THEN LinearDrRefusal(c, Retained(c)) = NotRefused
     ELSE \A i \in Retained(c) :
            ~(Cardinality(Complement(HteFolds(c), i)) < MinimumTrainingRows)

HteEstimates(c, n) ==
  \E supported \in (SUBSET Dense(c)) \ {{}} :
    /\ c.req.method = "econml_hte" => supported = GroupIds(c)
    /\ n = EstimatedGroups(c, Retained(c), HteFolds(c), supported)

LEMMA ReasonTells ==
  ASSUME NEW c, NEW rows, NEW supported, NEW otherwise, otherwise # NoReason
  PROVE  Reason(c, rows, supported, otherwise) # NoReason
  BY DEF Reason, FirstReason, NoReason

LEMMA LinearDrTells ==
  ASSUME NEW c, NEW rows
  PROVE  LinearDrRefusal(c, rows) = NotRefused \/ IsRefused(LinearDrRefusal(c, rows))
  BY DEF LinearDrRefusal, IsRefused, Refusals, NoReason

LEMMA HteOutcome ==
  ASSUME NEW c, IsList(c.rows), GroupIds(c) # {}, NEW n \in HteResults(c, Identification(c.ident))
  PROVE  \/ IsRefused(n)
         \/ HteAccepts(c) /\ HteEstimates(c, n)
         \/ HteAccepts(c) /\ c.req.method # "econml_hte" /\ n = Raised
<1> DEFINE refusal == HteDeclarationRefusal(c, c.ident, Identification(c.ident))
           faulty == {i \in DOMAIN c.rows : AssignmentFault(c, i) # NoReason}
           rows == Retained(c)
           wrong == {i \in rows : RetainedFault(c, i) # NoReason}
           folds == HteFolds(c)
           small == \E exposure \in Exposures :
                      Cardinality(ArmOf(c, rows, exposure)) < c.split.folds
<1>1. CASE refusal # NotRefused
  <2>1. n = refusal
    BY <1>1 DEF HteResults, HteDeclared
  <2> QED BY <1>1, <2>1, HteRefusalTells
<1>2. CASE refusal = NotRefused /\ faulty # {}
  <2>1. n = Refused("invalid", AssignmentFault(c, Min(faulty)))
    BY <1>2 DEF HteResults, HteDeclared, HteAssigned
  <2>2. Min(faulty) \in faulty
    <3>1. faulty \in SUBSET DOMAIN c.rows
      OBVIOUS
    <3> HIDE DEF faulty
    <3> QED BY <1>2, <3>1, FirstIsFaulty
  <2> QED BY <2>1, <2>2 DEF IsRefused, Refusals
<1>3. CASE refusal = NotRefused /\ faulty = {}
  <2>1. n \in HteRetained(c, rows, wrong)
    BY <1>3 DEF HteResults, HteDeclared, HteAssigned
  <2>2. CASE wrong # {}
    <3>1. \E i \in wrong : n = Refused("invalid", RetainedFault(c, i))
      BY <2>1, <2>2 DEF HteRetained
    <3> QED BY <3>1 DEF IsRefused, Refusals
  <2>3. CASE wrong = {} /\ small
    <3>1. n = Refused("abstained", "hte.fold.inadequate_class_count")
      BY <2>1, <2>3 DEF HteRetained
    <3> QED BY <3>1 DEF IsRefused, Refusals, NoReason
  <2>4. CASE wrong = {} /\ ~small
    <3>1. n \in HteFolded(c, rows, folds)
      BY <2>1, <2>4 DEF HteRetained, HteFolds
    <3> HIDE DEF folds
    <3>2. CASE c.req.method = "econml_hte"
      <4>1. n \in EconmlHte(c, rows, folds)
        BY <3>1, <3>2 DEF HteFolded
      <4> DEFINE all == EstimatedGroups(c, rows, folds, GroupIds(c))
      <4> HIDE DEF rows
      <4>2. \/ IsRefused(n)
            \/ LinearDrRefusal(c, rows) = NotRefused /\ n \in LinearDr(c, rows, folds)
        <5>1. \/ n = LinearDrRefusal(c, rows) /\ LinearDrRefusal(c, rows) # NotRefused
              \/ n \in NoBackend
              \/ LinearDrRefusal(c, rows) = NotRefused /\ n \in LinearDr(c, rows, folds)
          BY <4>1 DEF EconmlHte
        <5>2. n \in NoBackend => IsRefused(n)
          BY DEF NoBackend, IsRefused, Refusals, NoReason
        <5> QED BY <5>1, <5>2, LinearDrTells
      <4>3. n \in LinearDr(c, rows, folds) =>
              \/ \E reason : reason # NoReason /\ n = Refused("abstained", reason)
              \/ n = Malformed
              \/ ~PlanFails(c, folds) /\ n = all
        <5> HIDE DEF all
        <5>1. n \in LinearDr(c, rows, folds) =>
                \/ n = Malformed
                \/ ~PlanFails(c, folds) /\ n \in BackendFailures
                \/ ~PlanFails(c, folds) /\ n = Refused("abstained", "hte.overlap.severe")
                \/ ~PlanFails(c, folds) /\ n = all
          BY DEF LinearDr, all
        <5>2. n \in BackendFailures =>
                \E reason : reason # NoReason /\ n = Refused("abstained", reason)
          BY DEF BackendFailures, NuisanceFailures, InferenceFailures, NoReason
        <5> QED BY <5>1, <5>2 DEF NoReason
      <4>4. IsRefused(Malformed)
        BY DEF IsRefused, Refusals, Malformed, NoReason
      <4>5. CASE LinearDrRefusal(c, rows) = NotRefused /\ ~PlanFails(c, folds) /\ n = all
        <5>1. HteAccepts(c)
          BY <1>3, <2>4, <3>2, <4>5 DEF HteAccepts, folds, rows
        <5>2. \A g \in GroupIds(c) : Sparse(c, Members(c, rows, g)) = NoReason
          <6>1. NotRefused # Refused("unsupported", "hte.configuration.version_mismatch")
                /\ NotRefused # Refused("unsupported", "INVALID_EFFECT_MODIFIER")
                /\ NotRefused # Refused("unsupported", "UNSUPPORTED_INFERENCE")
                /\ NotRefused # Refused("abstained", "hte.subgroup.insufficient_support")
            BY RefusedHasNone DEF NotRefused
          <6> QED BY <4>5, <6>1 DEF LinearDrRefusal
        <5>3. GroupIds(c) \in (SUBSET Dense(c)) \ {{}}
          BY <5>2 DEF Dense, rows
        <5>4. n = EstimatedGroups(c, Retained(c), HteFolds(c), GroupIds(c))
          BY <4>5 DEF rows, folds
        <5> QED BY <5>1, <5>3, <5>4 DEF HteEstimates
      <4> QED BY <4>2, <4>3, <4>4, <4>5 DEF IsRefused, Refusals
    <3>3. CASE c.req.method # "econml_hte"
      <4>1. n \in HteCrossFitted(c, rows, folds)
        BY <3>1, <3>3 DEF HteFolded
      <4> DEFINE short == \E i \in rows : Cardinality(Complement(folds, i)) < MinimumTrainingRows
      <4> HIDE DEF rows
      <4>2. \/ \E reason : reason # NoReason /\ n = Refused("abstained", reason)
            \/ ~PlanFails(c, folds) /\ ~short /\ n = Raised
            \/ ~PlanFails(c, folds) /\ ~short /\ n \in SubgroupResults(c, rows, folds)
        BY <4>1 DEF HteCrossFitted, NoReason
      <4>3. CASE ~PlanFails(c, folds) /\ ~short /\ n \in SubgroupResults(c, rows, folds)
        <5>1. HteAccepts(c)
          BY <1>3, <2>4, <3>3, <4>3 DEF HteAccepts, folds, rows
        <5>2. \/ \E supported \in SUBSET Dense(c) :
                   n = Refused("abstained", Reason(c, rows, supported, "hte.inference.unavailable"))
              \/ \E supported \in (SUBSET Dense(c)) \ {{}} :
                   n = EstimatedGroups(c, rows, folds, supported)
          BY <4>3 DEF SubgroupResults, Dense, rows
        <5>3. \A supported : Reason(c, rows, supported, "hte.inference.unavailable") # NoReason
          BY ReasonTells DEF NoReason
        <5> QED BY <3>3, <5>1, <5>2, <5>3 DEF IsRefused, Refusals, HteEstimates, rows, folds
      <4>4. CASE ~PlanFails(c, folds) /\ ~short /\ n = Raised
        BY <1>3, <2>4, <3>3, <4>4 DEF HteAccepts, folds, rows
      <4> QED BY <4>2, <4>3, <4>4 DEF IsRefused, Refusals
    <3> QED BY <3>2, <3>3
  <2> QED BY <2>2, <2>3, <2>4
<1> QED BY <1>1, <1>2, <1>3

\* What an answer under a graph says: what is adjusted for, and an estimate if
\* one is wanted and the table is fit for it.
DeclaredSet(c) ==
  IF Identification(c.ident).adjusts THEN SetOf(c.ident.adjustment.variables) ELSE {}
AnsweredUnderGraph(c, n) ==
  \E adjusted \in BackdoorSets(c.ident) :
    /\ c.ident.graph # None
    /\ DeclaredSet(c) \in {{}, adjusted}
    /\ IF c.dowhy.estimates
       THEN TableFailures(c) = {} /\ n = UnderGraph(DOMAIN c.rows, {"backdoor", "effect"}, adjusted)
       ELSE n = UnderGraph({}, {"backdoor"}, adjusted)

LEMMA FailuresTell ==
  ASSUME NEW c
  PROVE  /\ NoReason \notin TableFailures(c) /\ NoReason \notin LibraryFailures(c)
         /\ TableFailures(c) = {} =>
              /\ DOMAIN c.rows # {}
              /\ {c.rows[i][c.dowhy.treatment] : i \in DOMAIN c.rows} = Exposures
              /\ \A i \in DOMAIN c.rows, column \in MeasuredColumns(c) :
                   c.rows[i][column] \notin {None, Text, Infinite}
<1> DEFINE arms == {c.rows[i][c.dowhy.treatment] : i \in DOMAIN c.rows}
<1>1. NoReason \notin TableFailures(c)
  BY DEF TableFailures, If, NoReason
<1>2. NoReason \notin LibraryFailures(c)
  BY DEF LibraryFailures, If, NoReason
<1>3. TableFailures(c) = {} =>
        /\ arms = Exposures
        /\ \A i \in DOMAIN c.rows, column \in MeasuredColumns(c) :
             c.rows[i][column] \notin {None, Text, Infinite}
  BY DEF TableFailures, If
<1>4. arms = Exposures => DOMAIN c.rows # {}
  BY DEF Exposures
<1> QED BY <1>1, <1>2, <1>3, <1>4

LEMMA DowhyOutcome ==
  ASSUME NEW c, NEW n \in DowhyResults(c, Identification(c.ident))
  PROVE  IsRefused(n) \/ AnsweredUnderGraph(c, n)
<1> DEFINE refusal == DowhyRefusal(c.ident)
           declared == DeclaredSet(c)
<1>1. refusal = NotRefused \/ IsRefused(refusal)
  BY DEF DowhyRefusal, IsRefused, Refusals, NoReason
<1>2. \/ n = refusal /\ refusal # NotRefused
      \/ refusal = NotRefused /\ n \in NoBackend
      \/ refusal = NotRefused /\ n \in DowhyAsked(c, declared)
  BY DEF DowhyResults, DeclaredSet
<1>3. n \in NoBackend => IsRefused(n)
  BY DEF NoBackend, IsRefused, Refusals, NoReason
<1>4. CASE refusal = NotRefused /\ n \in DowhyAsked(c, declared)
  <2>1. c.ident.graph # None
    <3>1. Refused("abstained", "INVALID_GRAPH") # NotRefused
      BY RefusedHasNone DEF NotRefused
    <3> QED BY <1>4, <3>1 DEF DowhyRefusal
  <2> HIDE DEF declared
  <2>2. \/ \E status \in Refusals : \E reason : reason # NoReason /\ n = Refused(status, reason)
        \/ \E adjusted \in BackdoorSets(c.ident) : n \in DowhyAdjusted(c, declared, adjusted)
    BY <1>4 DEF DowhyAsked, Refusals, NoReason
  <2>3. ASSUME NEW adjusted \in BackdoorSets(c.ident), n \in DowhyAdjusted(c, declared, adjusted)
        PROVE  IsRefused(n) \/ AnsweredUnderGraph(c, n)
    <3> DEFINE bare == UnderGraph({}, {"backdoor"}, adjusted)
               full == UnderGraph(DOMAIN c.rows, {"backdoor", "effect"}, adjusted)
    <3> HIDE DEF bare, full
    <3>1. \/ n = Refused("invalid", "INVALID_GRAPH")
          \/ declared \in {{}, adjusted} /\ c.dowhy.estimates /\ n \in DowhyEstimated(c, adjusted)
          \/ declared \in {{}, adjusted} /\ ~c.dowhy.estimates /\ n = bare
      BY <2>3 DEF DowhyAdjusted, bare
    <3>2. n \in DowhyEstimated(c, adjusted) =>
            \/ \E reason \in TableFailures(c) \cup LibraryFailures(c) : n = Refused("abstained", reason)
            \/ TableFailures(c) = {} /\ n = full
      BY DEF DowhyEstimated, full
    <3>3. IsRefused(Refused("invalid", "INVALID_GRAPH"))
      BY DEF IsRefused, Refusals, NoReason
    <3>4. \A reason \in TableFailures(c) \cup LibraryFailures(c) : IsRefused(Refused("abstained", reason))
      BY FailuresTell DEF IsRefused, Refusals
    <3>5. CASE declared \in {{}, adjusted} /\ ~c.dowhy.estimates /\ n = bare
      BY <2>1, <3>5 DEF AnsweredUnderGraph, declared, bare
    <3>6. CASE declared \in {{}, adjusted} /\ c.dowhy.estimates /\ TableFailures(c) = {} /\ n = full
      BY <2>1, <3>6 DEF AnsweredUnderGraph, declared, full
    <3> QED BY <3>1, <3>2, <3>3, <3>4, <3>5, <3>6
  <2> QED BY <2>2, <2>3 DEF IsRefused
<1> QED BY <1>1, <1>2, <1>3, <1>4

\* Units of either arm to compare, scored without an impossible weight.
ScoresFit(c, scores) ==
  /\ DeclarationRefusal(c, Identification(c.ident)) = NotRefused /\ RowRefusal(c) = NotRefused
  /\ scores \in ScoresOf(c, ModelRows(c))
  /\ ~Unweightable(c, c.ident.estimand.kind, scores)
  /\ ~Weightless(c, c.ident.estimand.kind, scores)
  /\ ~Narrow(c, scores)

LEMMA WeightingRefusalsTell ==
  ASSUME NEW c, IsList(c.rows)
  PROVE  /\ LET refusal == DeclarationRefusal(c, Identification(c.ident))
            IN  refusal = NotRefused \/ IsRefused(refusal)
         /\ RowRefusal(c) = NotRefused \/ IsRefused(RowRefusal(c))
         /\ RowRefusal(c) = NotRefused =>
              /\ \A i \in DOMAIN c.rows : RowFault(c, i) = NoReason
              /\ \A exposure \in Exposures : ArmOf(c, ModelRows(c), exposure) # {}
<1>1. LET refusal == DeclarationRefusal(c, Identification(c.ident))
      IN  refusal = NotRefused \/ IsRefused(refusal)
  BY DEF DeclarationRefusal, IsRefused, Refusals, NoReason
<1> DEFINE faulty == {i \in DOMAIN c.rows : RowFault(c, i) # NoReason}
<1>2. faulty # {} => RowFault(c, Min(faulty)) # NoReason
  <2>1. ASSUME faulty # {} PROVE Min(faulty) \in faulty
    <3>1. faulty \in SUBSET DOMAIN c.rows
      OBVIOUS
    <3> HIDE DEF faulty
    <3> QED BY <2>1, <3>1, FirstIsFaulty
  <2> QED BY <2>1
<1>3. RowRefusal(c) = IF faulty # {} THEN Refused("invalid", RowFault(c, Min(faulty)))
        ELSE IF \E exposure \in Exposures : ArmOf(c, ModelRows(c), exposure) = {}
        THEN Refused("abstained", "propensity.missing_model_arm") ELSE NotRefused
  BY DEF RowRefusal
<1>4. \A status \in Refusals : \A reason : Refused(status, reason) # NotRefused
  <2>1. "none" \notin Refusals
    BY DEF Refusals
  <2> QED BY <2>1, RefusedHasNone DEF NotRefused
<1>5. CASE faulty # {}
  <2>1. RowRefusal(c) = Refused("invalid", RowFault(c, Min(faulty)))
    BY <1>3, <1>5
  <2> HIDE DEF faulty
  <2> QED BY <1>1, <1>2, <1>4, <1>5, <2>1 DEF IsRefused, Refusals
<1>6. CASE faulty = {}
  <2>1. \A i \in DOMAIN c.rows : RowFault(c, i) = NoReason
    BY <1>6
  <2>2. RowRefusal(c) = IF \E exposure \in Exposures : ArmOf(c, ModelRows(c), exposure) = {}
                        THEN Refused("abstained", "propensity.missing_model_arm") ELSE NotRefused
    BY <1>3, <1>6
  <2>3. "propensity.missing_model_arm" # NoReason /\ "abstained" \in Refusals
    BY DEF NoReason, Refusals
  <2> QED BY <1>1, <1>4, <2>1, <2>2, <2>3 DEF IsRefused
<1> QED BY <1>5, <1>6

LEMMA RefusedIsRefused ==
  ASSUME NEW status \in Refusals, NEW reason, reason # NoReason
  PROVE  IsRefused(Refused(status, reason))
  BY DEF IsRefused

\* A declaration and rows that the propensity model accepts.
Weighable(c) ==
  DeclarationRefusal(c, Identification(c.ident)) = NotRefused /\ RowRefusal(c) = NotRefused

LEMMA PropensityOutcome ==
  ASSUME NEW c, IsList(c.rows),
         NEW p \in PropensityResults(c, DeclarationRefusal(c, Identification(c.ident)))
  PROVE  \/ IsRefused(p)
         \/ p = Raised /\ Weighable(c)
         \/ \E scores : ScoresFit(c, scores) /\ p = Scored(scores, {"scores"})
<1> DEFINE declared == DeclarationRefusal(c, Identification(c.ident))
           rows == ModelRows(c)
           kind == c.ident.estimand.kind
<1>1. (declared = NotRefused \/ IsRefused(declared)) /\ (RowRefusal(c) = NotRefused \/ IsRefused(RowRefusal(c)))
  BY WeightingRefusalsTell
<1>2. \/ declared # NotRefused /\ p = declared
      \/ declared = NotRefused /\ RowRefusal(c) # NotRefused /\ p = RowRefusal(c)
      \/ declared = NotRefused /\ RowRefusal(c) = NotRefused /\ p \in FittedResults(c)
  BY DEF PropensityResults, ValidatedResults
<1>3. CASE declared = NotRefused /\ RowRefusal(c) = NotRefused /\ p \in FittedResults(c)
  <2>1. \/ p = Raised
        \/ p = Refused("abstained", "model.not_converged")
        \/ \E scores \in ScoresOf(c, rows) : p \in ScoredResults(c, kind, scores)
    BY <1>3 DEF FittedResults
  <2>2. ASSUME NEW scores \in ScoresOf(c, rows), p \in ScoredResults(c, kind, scores)
        PROVE  IsRefused(p) \/ (ScoresFit(c, scores) /\ p = Scored(scores, {"scores"}))
    <3>1. \/ \E reason \in {"weight.impossible", "overlap.severe"} : p = Refused("abstained", reason)
          \/ /\ ~(Unweightable(c, kind, scores) \/ Weightless(c, kind, scores))
             /\ ~Narrow(c, scores) /\ p = Scored(scores, {"scores"})
      BY <2>2 DEF ScoredResults
    <3>2. \A reason \in {"weight.impossible", "overlap.severe"} : IsRefused(Refused("abstained", reason))
      BY RefusedIsRefused DEF Refusals, NoReason
    <3> QED BY <1>3, <3>1, <3>2 DEF ScoresFit
  <2>3. IsRefused(Refused("abstained", "model.not_converged"))
    BY RefusedIsRefused DEF Refusals, NoReason
  <2> QED BY <1>3, <2>1, <2>2, <2>3 DEF Weighable
<1> QED BY <1>1, <1>2, <1>3

\* What the selected units must be like to be compared.
ComparedFit(c, scores) ==
  /\ \A exposure \in Exposures : ArmOf(c, DOMAIN scores, exposure) # {}
  /\ ~Weightless(c, c.ident.estimand.kind, scores) /\ ~Narrow(c, scores)
  /\ ScaleFits(c.ident) /\ Aligned(c, DOMAIN scores)
  /\ \A exposure \in Exposures : ~(Cardinality(ArmOf(c, DOMAIN scores, exposure)) < 2)

LEMMA NothingTrimmed ==
  ASSUME NEW c, NEW rows, NEW scores \in ScoresOf(c, rows)
  PROVE  /\ DOMAIN scores = rows
         /\ c.weight.trimming = None => Kept(scores, Selected(c, scores)) = scores
         /\ DOMAIN Kept(scores, Selected(c, scores)) = Selected(c, scores)
         /\ Selected(c, scores) \subseteq rows
<1>1. PICK model : scores = [i \in rows |-> model[Features(c, i)]]
  BY DEF ScoresOf
<1>2. DOMAIN scores = rows /\ scores = [i \in DOMAIN scores |-> scores[i]]
  BY <1>1
<1>3. c.weight.trimming = None => Selected(c, scores) = DOMAIN scores
  BY DEF Selected
<1> QED BY <1>2, <1>3 DEF Kept, Selected

LEMMA WeightedOutcome ==
  ASSUME NEW c, IsList(c.rows), NEW scores, ScoresFit(c, scores), NEW n \in WeightedResults(c, scores)
  PROVE  LET kept == Kept(scores, Selected(c, scores))
         IN  \/ IsRefused(n)
             \/ n = Raised
             \/ ComparedFit(c, kept) /\ n = Scored(kept, {"effect"})
                /\ c.weight.outcome \notin RoleColumns(c)
<1> DEFINE kept == Kept(scores, Selected(c, scores))
           kind == c.ident.estimand.kind
           rows == DOMAIN kept
           empty == \E exposure \in Exposures : ArmOf(c, rows, exposure) = {}
<1>1. IsRefused(Refused("invalid", "binding.outcome_role_conflict"))
  BY RefusedIsRefused DEF Refusals, NoReason
<1>2. \/ n = Refused("invalid", "binding.outcome_role_conflict")
      \/ c.weight.outcome \notin RoleColumns(c) /\ n \in SelectedResults(c, kind, kept)
  BY DEF WeightedResults
<1> HIDE DEF kept
<1>4. CASE n \in SelectedResults(c, kind, kept) /\ c.weight.outcome \notin RoleColumns(c)
  <2>1. \/ n = Raised
        \/ \E reason \in {"weight.selected_ess_collapsed", "overlap.selected_fatal"} :
             n = Refused("abstained", reason)
        \/ /\ ~empty /\ ~Weightless(c, kind, kept) /\ ~Narrow(c, kept)
           /\ n \in ComparedResults(c, rows, kept)
    BY <1>4 DEF SelectedResults
  <2>2. \A reason \in {"weight.selected_ess_collapsed", "overlap.selected_fatal"} :
          IsRefused(Refused("abstained", reason))
    BY RefusedIsRefused DEF Refusals, NoReason
  <2> DEFINE few == \E exposure \in Exposures : Cardinality(ArmOf(c, rows, exposure)) < 2
  <2>3. n \in ComparedResults(c, rows, kept) =>
          \/ n = Refused("unsupported", "outcome.unsupported")
          \/ n = Refused("invalid", "outcome.invalid_alignment")
          \/ n = Refused("abstained", "balance.severe_residual_imbalance")
          \/ n = Refused("abstained", "inference.unavailable")
          \/ ScaleFits(c.ident) /\ Aligned(c, rows) /\ ~few /\ n = Scored(kept, {"effect"})
    <3> HIDE DEF rows
    <3> QED BY DEF ComparedResults
  <2>4. /\ IsRefused(Refused("unsupported", "outcome.unsupported"))
        /\ IsRefused(Refused("invalid", "outcome.invalid_alignment"))
        /\ IsRefused(Refused("abstained", "balance.severe_residual_imbalance"))
        /\ IsRefused(Refused("abstained", "inference.unavailable"))
    BY RefusedIsRefused DEF Refusals, NoReason
  <2>5. CASE /\ ~empty /\ ~Weightless(c, kind, kept) /\ ~Narrow(c, kept)
             /\ ScaleFits(c.ident) /\ Aligned(c, rows) /\ ~few /\ n = Scored(kept, {"effect"})
    BY <1>4, <2>5 DEF ComparedFit, kept
  <2>7. CASE \E reason \in {"weight.selected_ess_collapsed", "overlap.selected_fatal"} :
               n = Refused("abstained", reason)
    BY <2>2, <2>7
  <2>8. CASE /\ ~empty /\ ~Weightless(c, kind, kept) /\ ~Narrow(c, kept)
             /\ n \in ComparedResults(c, rows, kept)
    BY <2>3, <2>4, <2>5, <2>8
  <2> QED BY <2>1, <2>7, <2>8
<1> QED BY <1>1, <1>2, <1>4 DEF kept

\* What becomes of scores: a reason, an error of the models, scores, an effect.
LEMMA WeightingOutcome ==
  ASSUME NEW c, IsList(c.rows), c.req.method \in WeightingMethods,
         NEW n \in WeightingResults(c, Identification(c.ident))
  PROVE  \/ IsRefused(n)
         \/ n = Raised /\ Weighable(c)
         \/ \E scores : /\ ScoresFit(c, scores)
                        /\ c.req.method = "propensity_diagnostics" /\ n = Scored(scores, {"scores"})
         \/ \E scores :
              /\ ScoresFit(c, scores) /\ c.req.method # "propensity_diagnostics"
              /\ ComparedFit(c, Kept(scores, Selected(c, scores)))
              /\ n = Scored(Kept(scores, Selected(c, scores)), {"effect"})
              /\ c.weight.outcome \notin RoleColumns(c)
<1> DEFINE P == PropensityResults(c, DeclarationRefusal(c, Identification(c.ident)))
<1>1. \A p \in P : \/ IsRefused(p)
                   \/ p = Raised /\ Weighable(c)
                   \/ \E scores : ScoresFit(c, scores) /\ p = Scored(scores, {"scores"})
  BY PropensityOutcome
<1>2. \/ c.req.method = "propensity_diagnostics" /\ n \in P
      \/ /\ c.req.method # "propensity_diagnostics"
         /\ \E p \in P : n \in IF p.status # "completed" THEN {p} ELSE WeightedResults(c, p.scores)
  BY DEF WeightingResults, EstimatedResults
<1> HIDE DEF P
<1>3. CASE c.req.method = "propensity_diagnostics" /\ n \in P
  BY <1>1, <1>3
<1>4. ASSUME c.req.method # "propensity_diagnostics", NEW p \in P, p.status # "completed", n = p
      PROVE  IsRefused(n) \/ (n = Raised /\ Weighable(c))
  <2>1. \A scores : Scored(scores, {"scores"}).status = "completed"
    BY DEF Scored
  <2> QED BY <1>1, <1>4, <2>1
<1>5. ASSUME c.req.method # "propensity_diagnostics", NEW p \in P, p.status = "completed",
             n \in WeightedResults(c, p.scores)
      PROVE  \/ IsRefused(n)
             \/ n = Raised /\ Weighable(c)
             \/ \E scores :
                  /\ ScoresFit(c, scores)
                  /\ ComparedFit(c, Kept(scores, Selected(c, scores)))
                  /\ n = Scored(Kept(scores, Selected(c, scores)), {"effect"})
                  /\ c.weight.outcome \notin RoleColumns(c)
  <2>1. ~IsRefused(p) /\ p # Raised
    BY <1>5, RefusedHasNone DEF IsRefused, Refusals, Raised
  <2>2. PICK scores : ScoresFit(c, scores) /\ p = Scored(scores, {"scores"})
    BY <1>1, <2>1
  <2>3. p.scores = scores
    BY <2>2 DEF Scored
  <2>4. Weighable(c)
    BY <2>2 DEF ScoresFit, Weighable
  <2> QED BY <1>5, <2>2, <2>3, <2>4, WeightedOutcome
<1> QED BY <1>2, <1>3, <1>4, <1>5

\* A table has finitely many rows.
LEMMA RowsAreFew ==
  ASSUME NEW c, IsList(c.rows), NEW rows \in SUBSET DOMAIN c.rows
  PROVE  IsFiniteSet(rows) /\ Cardinality(rows) \in Nat
<1>1. DOMAIN c.rows = 1..Len(c.rows) /\ Len(c.rows) \in Nat
  BY DEF IsList
<1>2. IsFiniteSet(DOMAIN c.rows)
  BY <1>1, FS_Interval
<1> QED BY <1>2, FS_Subset, FS_CardinalityType

\* A unit in each arm for each fold is a unit.
LEMMA ArmsHaveUnits ==
  ASSUME NEW c, IsList(c.rows), NEW rows \in SUBSET DOMAIN c.rows,
         c.split.folds \in Nat, c.split.folds >= 2,
         \A exposure \in Exposures : ~(Cardinality(ArmOf(c, rows, exposure)) < c.split.folds)
  PROVE  \A exposure \in Exposures : ArmOf(c, rows, exposure) # {}
<1>1. SUFFICES ASSUME NEW exposure \in Exposures, ArmOf(c, rows, exposure) = {}
               PROVE  FALSE
  OBVIOUS
<1>2. Cardinality(ArmOf(c, rows, exposure)) = 0
  BY <1>1, FS_EmptySet
<1> DEFINE folds == c.split.folds
<1>3. folds \in Nat /\ folds >= 2 /\ ~(Cardinality(ArmOf(c, rows, exposure)) < folds)
  OBVIOUS
<1> HIDE DEF folds
<1> QED BY <1>2, <1>3

\* A subgroup with enough units has units.
LEMMA DenseHaveMembers ==
  ASSUME NEW c, IsList(c.rows), HeterogeneityOK(c), NEW g \in Dense(c)
  PROVE  Members(c, Retained(c), g) # {}
<1> DEFINE members == Members(c, Retained(c), g)
           least == c.effect.minimum.retained
<1>1. least \in Nat /\ least >= 1
  <2>1. c.effect.minimum \in [{"retained", "treated", "control"} -> Nat]
    BY DEF HeterogeneityOK
  <2> DEFINE treated == c.effect.minimum.treated
             control == c.effect.minimum.control
  <2>2. least \in Nat /\ treated \in Nat /\ control \in Nat
    BY <2>1
  <2>3. treated >= 1 /\ control >= 1 /\ treated + control <= least
    BY DEF HeterogeneityOK
  <2> HIDE DEF least, treated, control
  <2> QED BY <2>2, <2>3
<1>2. ~(Cardinality(members) < least)
  BY DEF Dense, Sparse, NoReason
<1> HIDE DEF least, members
<1>3. Cardinality(members) # 0
  BY <1>1, <1>2
<1> QED BY <1>3, FS_EmptySet DEF members

-----------------------------------------------------------------------------
(***************************************************************************)
(* What is identified.  Of a declaration there is nothing to say, so what  *)
(* is adjusted for was there before the treatment.                         *)
(***************************************************************************)
LEMMA NothingTold ==
  /\ \A ids, code, category : About(ids, code, category) = {} => ids = {}
  /\ \A condition \in BOOLEAN : \A code, category :
       When(condition, code, category) = {} => ~condition
  BY DEF About, When

LEMMA IdentifiedHasNone ==
  ASSUME NEW q, Identification(q).status = "identified"
  PROVE  IdentificationDiagnostics(q) = {}
<1> DEFINE D == IdentificationDiagnostics(q)
           codes == {d.code : d \in D}
<1>1. StatusOfCodes(codes) = "identified"
  BY DEF Identification, Identified
<1> HIDE DEF D
<1>2. codes = {} => D = {}
  OBVIOUS
<1> HIDE DEF codes
<1>3. codes = {}
  BY <1>1 DEF StatusOfCodes, InsufficientCodes
<1> QED BY <1>2, <1>3 DEF D

LEMMA MaxOfOne == ASSUME NEW i \in Int PROVE Max({i}) = i
  BY DEF Max

LEMMA MaxIsGreatest ==
  ASSUME NEW n \in Nat, NEW T \in SUBSET (1..n), T # {}
  PROVE  Max(T) \in T /\ \A y \in T : Max(T) >= y
<1> DEFINE U == {n - x : x \in T}
<1>1. U \subseteq Nat /\ U # {}
  <2>1. \A x \in T : x \in Int /\ n - x \in Nat
    OBVIOUS
  <2> QED BY <2>1
<1>2. PICK u \in U : \A y \in U : u <= y
  <2> HIDE DEF U
  <2> QED BY <1>1, LeastElement
<1>3. PICK x \in T : u = n - x
  BY <1>2
<1>4. \A y \in T : x >= y
  <2>1. TAKE y \in T
  <2>2. n - x <= n - y
    BY <1>2, <1>3
  <2> QED BY <2>2
<1> QED BY <1>4 DEF Max

\* What has no repeated element has as many elements as places.
LEMMA NotDuplicated ==
  ASSUME NEW n \in Nat, NEW f, DOMAIN f = 1..n, Len(f) = n, ~Duplicated(f)
  PROVE  \A i, j \in 1..n : f[i] = f[j] => i = j
<1> DEFINE S == 1..n
           T == SetOf(f)
           g == [i \in S |-> f[i]]
<1>1. IsFiniteSet(S) /\ Cardinality(S) = n
  BY FS_Interval
<1>2. Cardinality(T) = n
  BY DEF Duplicated
<1>3. g \in Surjection(S, T)
  BY DEF Surjection, SetOf
<1> HIDE DEF S, T, g
<1>4. g \in Injection(S, T)
  BY <1>1, <1>2, <1>3, FS_Surjection
<1> QED BY <1>4 DEF Injection, IsInjective, g, S

LEMMA VariablesAreDistinct ==
  ASSUME NEW q, IsList(q.variables), VariableDiagnostics(q) = {},
         NEW v \in SetOf(q.variables)
  PROVE  Variable(q, v.id) = v
<1> DEFINE ids == [i \in DOMAIN q.variables |-> q.variables[i].id]
<1>1. Repeats(ids) = {}
  <2>1. About(Repeats(ids), "variable.duplicate", "variable") = {}
    BY DEF VariableDiagnostics
  <2> HIDE DEF ids
  <2> QED BY <2>1, NothingTold
<1>2. PICK k \in DOMAIN q.variables : q.variables[k] = v
  BY DEF SetOf
<1>3. \A i \in DOMAIN q.variables : q.variables[i].id = v.id => i = k
  BY <1>1, <1>2 DEF Repeats
<1>4. {i \in DOMAIN q.variables : q.variables[i].id = v.id} = {k} /\ k \in Int
  BY <1>2, <1>3 DEF IsList
<1> QED BY <1>2, <1>4, MaxOfOne DEF Variable

LEMMA AdjustmentIsAdmitted ==
  ASSUME NEW v, IsList(v.roles), v.roles # <<>>, ~Contradictory(v), AdjustmentCode(v) = NoReason
  PROVE  /\ v.timing \notin {"post_treatment", "unknown"}
         /\ SetOf(v.roles) \subseteq {"adjustment", "effect_modifier"}
<1>1. "adjustment" \in SetOf(v.roles) /\ v.timing \notin {"post_treatment", "unknown"}
  BY DEF AdjustmentCode, NoReason
<1>2. CASE Len(v.roles) > 1
  BY <1>1, <1>2 DEF Contradictory
<1>3. CASE ~(Len(v.roles) > 1)
  <2>1. Len(v.roles) \in Nat /\ DOMAIN v.roles = 1..Len(v.roles) /\ Len(v.roles) # 0
    BY DEF IsList
  <2>2. DOMAIN v.roles = {1}
    BY <1>3, <2>1
  <2>3. SetOf(v.roles) = {v.roles[1]}
    BY <2>2 DEF SetOf
  <2> QED BY <1>1, <2>3
<1> QED BY <1>1, <1>2, <1>3

LEMMA VariablesAreAdmitted ==
  ASSUME NEW q, IdentificationOK(q), Identification(q).status = "identified",
         q.adjustment # None, NEW v \in SetOf(q.variables),
         v.id \in SetOf(q.adjustment.variables)
  PROVE  /\ v.timing \notin {"post_treatment", "unknown"}
         /\ SetOf(v.roles) \subseteq {"adjustment", "effect_modifier"}
<1>1. IdentificationDiagnostics(q) = {}
  BY IdentifiedHasNone
<1>2. VariableDiagnostics(q) = {} /\ AdjustmentDiagnostics(q) = {}
  BY <1>1 DEF IdentificationDiagnostics
<1>3. Variable(q, v.id) = v /\ v.id \in Ids(q)
  BY <1>2, VariablesAreDistinct DEF IdentificationOK, Ids
<1>4. ~Contradictory(v)
  <2> DEFINE wrong == {w.id : w \in {u \in SetOf(q.variables) : Contradictory(u)}}
             other == {r[1] : r \in {p \in References(q) : ~HasRole(q, p[1], p[2])}}
  <2>1. About(wrong \cup other, "variable.contradictory_role", "variable") = {}
    BY <1>2 DEF VariableDiagnostics
  <2>2. wrong \cup other = {}
    BY <2>1, NothingTold
  <2> QED BY <2>2
<1>5. AdjustmentCode(v) = NoReason
  <2> DEFINE adjusted == SetOf(q.adjustment.variables)
             faulty == {a \in adjusted \cap Ids(q) : AdjustmentCode(Variable(q, a)) # NoReason}
             told == {About({id}, AdjustmentCode(Variable(q, id)), "adjustment") : id \in faulty}
  <2>1. UNION told = {}
    BY <1>2 DEF AdjustmentDiagnostics
  <2>2. \A id \in faulty : About({id}, AdjustmentCode(Variable(q, id)), "adjustment") = {}
    BY <2>1
  <2>3. faulty = {}
    BY <2>2, NothingTold
  <2> QED BY <1>3, <2>3
<1>6. IsList(v.roles) /\ v.roles # <<>>
  BY DEF IdentificationOK, VariableOK
<1> QED BY <1>4, <1>5, <1>6, AdjustmentIsAdmitted

(***************************************************************************)
(* The graph.  As many steps as there are edges reach all there is.        *)
(***************************************************************************)
Behind(edges, nodes, from) == {e[2] : e \in {d \in edges : d[1] \in from \cap nodes}}

\* What is reached in up to n steps, when f[0] is where they begin.
Stepwise(f, n, edges, nodes, first) ==
  f = [k \in 0..n |-> IF k = 0 THEN first ELSE f[k - 1] \cup Behind(edges, nodes, f[k - 1])]

LEMMA ReachedExists ==
  ASSUME NEW n \in Nat, NEW E, NEW N, NEW first
  PROVE  \E f : Stepwise(f, n, E, N, first)
<1> DEFINE Ex(m) == \E f : Stepwise(f, m, E, N, first)
           T == {m \in Nat : ~Ex(m)}
<1> SUFFICES ASSUME T # {} PROVE FALSE
  OBVIOUS
<1>1. PICK m \in T : \A y \in T : m <= y
  <2> HIDE DEF Ex
  <2> QED BY LeastElement
<1>2. m # 0
  <2> DEFINE g == [k \in 0..0 |-> first]
  <2>1. Stepwise(g, 0, E, N, first)
    BY DEF Stepwise
  <2>2. Ex(0)
    <3> HIDE DEF g
    <3> QED BY <2>1
  <2> QED BY <2>2, <1>1
<1>3. Ex(m - 1) /\ m - 1 \in Nat
  <2> HIDE DEF Ex
  <2> QED BY <1>1, <1>2
<1>4. PICK f : Stepwise(f, m - 1, E, N, first)
  BY <1>3
<1> DEFINE last == f[m - 1] \cup Behind(E, N, f[m - 1])
           g == [k \in 0..m |-> IF k = m THEN last ELSE f[k]]
<1>5. \A k \in 0..m : g[k] = IF k = 0 THEN first ELSE g[k - 1] \cup Behind(E, N, g[k - 1])
  <2> SUFFICES ASSUME NEW k \in 0..m
               PROVE  g[k] = IF k = 0 THEN first ELSE g[k - 1] \cup Behind(E, N, g[k - 1])
    OBVIOUS
  <2>1. CASE k = 0
    BY <2>1, <1>2, <1>3, <1>4 DEF Stepwise
  <2>2. CASE k # 0
    <3>1. k - 1 \in 0..m /\ k - 1 # m /\ g[k - 1] = f[k - 1]
      BY <2>2
    <3>2. CASE k = m
      BY <3>1, <3>2, <2>2
    <3>3. CASE k # m
      <4>1. k \in 0..(m - 1)
        BY <3>3
      <4> QED BY <4>1, <3>1, <3>3, <2>2, <1>4 DEF Stepwise
    <3> QED BY <3>2, <3>3
  <2> QED BY <2>1, <2>2
<1>6. Stepwise(g, m, E, N, first)
  BY <1>5 DEF Stepwise
<1>7. Ex(m)
  <2> HIDE DEF g
  <2> QED BY <1>6
<1> QED BY <1>7, <1>1

LEMMA DescendantsReached ==
  ASSUME NEW g, IsList(g.edges), NEW start
  PROVE  \E f : /\ Stepwise(f, Len(g.edges), SetOf(g.edges), NodeIds(g),
                           Behind(SetOf(g.edges), NodeIds(g), {start}))
               /\ Descendants(g, start) = f[Len(g.edges)]
<1> DEFINE E == SetOf(g.edges)
           N == NodeIds(g)
           n == Len(g.edges)
           first == Behind(E, N, {start})
           f == CHOOSE f : Stepwise(f, n, E, N, first)
<1>1. n \in Nat
  BY DEF IsList
<1>2. Stepwise(f, n, E, N, first)
  <2> HIDE DEF E, N, n, first
  <2>1. \E h : Stepwise(h, n, E, N, first)
    BY <1>1, ReachedExists
  <2> QED BY <2>1, Zenon
<1>3. Descendants(g, start) = f[n]
  BY DEF Descendants, Behind, Stepwise
<1> QED BY <1>2, <1>3

LEMMA DescendantsAreClosed ==
  ASSUME NEW g, IsList(g.edges), NEW start
  PROVE  \A e \in SetOf(g.edges) :
           e[1] \in (Descendants(g, start) \cup {start}) \cap NodeIds(g) =>
             e[2] \in Descendants(g, start)
<1> DEFINE E == SetOf(g.edges)
           N == NodeIds(g)
           n == Len(g.edges)
           first == Behind(E, N, {start})
           Targets == {e[2] : e \in E}
           Onward(from) == from \cup Behind(E, N, from)
<1>1. n \in Nat /\ DOMAIN g.edges = 1..n
  BY DEF IsList
<1>2. PICK f : Stepwise(f, n, E, N, first) /\ Descendants(g, start) = f[n]
  BY DescendantsReached
<1>3. f[0] = first /\ \A k \in 1..n : f[k] = Onward(f[k - 1])
  <2> HIDE DEF E, N, n, first
  <2>1. \A k \in 0..n : f[k] = IF k = 0 THEN first ELSE f[k - 1] \cup Behind(E, N, f[k - 1])
    BY <1>2 DEF Stepwise
  <2>2. 0 \in 0..n /\ \A k \in 1..n : k \in 0..n /\ k # 0
    BY <1>1
  <2> QED BY <2>1, <2>2
<1>4. IsFiniteSet(Targets) /\ Cardinality(Targets) \in Nat /\ Cardinality(Targets) <= n
  <2> DEFINE h == [i \in 1..n |-> g.edges[i][2]]
             S == 1..n
  <2>1. h \in Surjection(S, Targets)
    BY <1>1 DEF Surjection, SetOf
  <2>2. IsFiniteSet(S) /\ Cardinality(S) = n
    BY <1>1, FS_Interval
  <2> HIDE DEF h, S, Targets
  <2> QED BY <2>1, <2>2, FS_Surjection, FS_CardinalityType
<1>5. /\ \A from : Behind(E, N, from) \subseteq Targets
      /\ \A from : from = {} => Behind(E, N, from) = {}
  BY DEF Behind
<1>6. first \subseteq Targets
  BY <1>5
<1> HIDE DEF E, N, n, first, Targets
<1> DEFINE Closed(k) == Behind(E, N, f[k]) \subseteq f[k]
           Good(k) == /\ first \subseteq f[k] /\ f[k] \subseteq Targets
                      /\ Closed(k) \/ Cardinality(f[k]) >= k + 1
           T == {k \in 0..n : ~Good(k)}
<1>7. T = {}
  <2> SUFFICES ASSUME T # {} PROVE FALSE
    OBVIOUS
  <2>1. PICK k \in T : \A y \in T : k <= y
    <3>1. T \subseteq Nat
      <4> HIDE DEF Good
      <4> QED BY <1>1
    <3> HIDE DEF T
    <3> QED BY <3>1, LeastElement
  <2>2. k \in 0..n /\ ~Good(k)
    BY <2>1
  <2>3. CASE k = 0
    <3>1. f[k] = {} => Closed(k)
      BY <1>5
    <3>2. f[k] # {} => Cardinality(f[k]) >= k + 1
      <4>1. IsFiniteSet(f[0]) /\ Cardinality(f[0]) \in Nat
        BY <1>3, <1>4, <1>6, FS_Subset, FS_CardinalityType
      <4>2. f[0] # {} => Cardinality(f[0]) # 0
        BY <4>1, FS_EmptySet
      <4> QED BY <4>1, <4>2, <2>3
    <3> QED BY <3>1, <3>2, <2>2, <2>3, <1>3, <1>6
  <2>4. CASE k # 0
    <3>1. k \in 1..n /\ k - 1 \in 0..n /\ f[k] = Onward(f[k - 1])
      BY <1>1, <1>3, <2>2, <2>4
    <3>2. Good(k - 1)
      <4>1. k - 1 \notin T
        <5> HIDE DEF T
        <5> QED BY <2>1, <2>2, <1>1
      <4> QED BY <4>1, <3>1
    <3>3. first \subseteq f[k] /\ f[k] \subseteq Targets /\ f[k - 1] \subseteq f[k]
      BY <3>1, <3>2, <1>5
    <3>4. CASE Closed(k - 1)
      <4>1. f[k] = f[k - 1]
        BY <3>1, <3>4
      <4> QED BY <4>1, <3>3, <3>4, <2>2
    <3>5. CASE ~Closed(k - 1)
      <4>1. f[k] # f[k - 1]
        BY <3>1, <3>5
      <4>2. /\ IsFiniteSet(f[k]) /\ Cardinality(f[k]) \in Nat
            /\ IsFiniteSet(f[k - 1]) /\ Cardinality(f[k - 1]) \in Nat
        BY <3>3, <1>4, FS_Subset, FS_CardinalityType
      <4>3. Cardinality(f[k - 1]) <= Cardinality(f[k]) /\ Cardinality(f[k - 1]) # Cardinality(f[k])
        BY <4>1, <4>2, <3>3, FS_Subset
      <4>4. Cardinality(f[k - 1]) >= k
        BY <3>1, <3>2, <3>5
      <4>5. Cardinality(f[k]) >= k + 1
        BY <4>2, <4>3, <4>4, <3>1
      <4> QED BY <4>5, <3>3, <2>2
    <3> QED BY <3>4, <3>5
  <2> QED BY <2>3, <2>4
<1>8. Good(n)
  <2>1. n \in 0..n
    BY <1>1
  <2> QED BY <2>1, <1>7
<1>9. Closed(n)
  <2>1. ASSUME Cardinality(f[n]) >= n + 1 PROVE FALSE
    <3>1. Cardinality(f[n]) <= Cardinality(Targets) /\ Cardinality(f[n]) \in Nat
      BY <1>4, <1>8, FS_Subset, FS_CardinalityType
    <3> QED BY <3>1, <2>1, <1>1, <1>4
  <2> QED BY <1>8, <2>1
<1>10. first \subseteq f[n] /\ Behind(E, N, f[n]) \subseteq f[n] /\ Descendants(g, start) = f[n]
  BY <1>2, <1>8, <1>9
<1> QED BY <1>10 DEF Behind, first, E, N

\* What stands behind the treatment is closed, and not adjusted for.
LEMMA GraphIsRespected ==
  ASSUME NEW q, IdentificationOK(q), Identification(q).status = "identified",
         q.graph # None, q.adjustment # None
  PROVE  LET g == q.graph
             start == NodeOf(g, q.treatment).id
             brought == Descendants(g, start) \cap NodeIds(g)
         IN  /\ \A n \in SetOf(g.nodes) :
                  n.id \in brought => n.variable \notin SetOf(q.adjustment.variables)
             /\ \A e \in SetOf(g.edges) : e[1] \in brought \cup {start} => e[2] \in brought
<1> DEFINE g == q.graph
           start == NodeOf(g, q.treatment).id
           D == Descendants(g, start)
           adjusted == SetOf(q.adjustment.variables)
           ids == [i \in DOMAIN g.nodes |-> g.nodes[i].id]
           n_ == Len(g.nodes)
<1>1. GraphDiagnostics(q) = {} /\ DeclarationDiagnostics(q) = {}
  BY IdentifiedHasNone DEF IdentificationDiagnostics
<1>2. q.treatment # None
  <2> DEFINE missing == q.treatment = None
  <2>1. When(missing, "identification.missing_treatment", "request") = {}
    BY <1>1 DEF DeclarationDiagnostics
  <2>2. missing \in BOOLEAN
    OBVIOUS
  <2> HIDE DEF missing
  <2>3. ~missing
    BY <2>1, <2>2, NothingTold
  <2> QED BY <2>3 DEF missing
<1>3. IsList(g.nodes) /\ IsList(g.edges) /\ \A e \in SetOf(g.edges) : DOMAIN e = {1, 2}
  BY DEF IdentificationOK
<1>4. n_ \in Nat /\ DOMAIN g.nodes = 1..n_
  BY <1>3 DEF IsList
<1>5. /\ ~Duplicated(ids)
      /\ \A e \in SetOf(g.edges) : SetOf(e) \subseteq NodeIds(g)
      /\ EndpointDiagnostics(g, q.treatment, "graph.missing_treatment") = {}
      /\ NodesOf(g, q.treatment) # {} => About(adjusted \cap Affected(g, q.treatment),
                            "graph.adjustment_descendant_of_treatment", "graph") = {}
  <2>1. /\ When(Duplicated(ids), "graph.duplicate_node", "graph") = {}
        /\ When(\E e \in SetOf(g.edges) : ~(SetOf(e) \subseteq NodeIds(g)),
                     "graph.unknown_node", "graph") = {}
        /\ q.treatment # None => EndpointDiagnostics(g, q.treatment, "graph.missing_treatment") = {}
        /\ q.treatment # None /\ NodesOf(g, q.treatment) # {} =>
             About(adjusted \cap Affected(g, q.treatment),
                            "graph.adjustment_descendant_of_treatment", "graph") = {}
    BY <1>1 DEF GraphDiagnostics
  <2> DEFINE twice == Duplicated(ids)
             unknown == \E e \in SetOf(g.edges) : ~(SetOf(e) \subseteq NodeIds(g))
  <2>2. When(twice, "graph.duplicate_node", "graph") = {} /\ When(unknown, "graph.unknown_node", "graph") = {}
    BY <2>1
  <2>3. twice \in BOOLEAN /\ unknown \in BOOLEAN
    BY DEF Duplicated
  <2> HIDE DEF twice, unknown
  <2>4. ~twice /\ ~unknown
    BY <2>2, <2>3, NothingTold
  <2> QED BY <1>2, <2>1, <2>4 DEF twice, unknown
<1>6. NodesOf(g, q.treatment) # {}
  BY <1>5, NothingTold DEF EndpointDiagnostics
<1>7. adjusted \cap Affected(g, q.treatment) = {}
  <2> HIDE DEF adjusted, g
  <2> QED BY <1>5, <1>6, NothingTold
<1>8. NodeOf(g, q.treatment) \in SetOf(g.nodes)
  <2> DEFINE I == {i \in DOMAIN g.nodes : g.nodes[i].variable = q.treatment}
  <2>1. I # {}
    BY <1>6 DEF NodesOf, SetOf
  <2>2. I \in SUBSET (1..n_)
    BY <1>4
  <2>3. Max(I) \in I
    <3> HIDE DEF I, n_
    <3> QED BY <2>1, <2>2, <1>4, MaxIsGreatest
  <2> QED BY <2>3 DEF NodeOf, SetOf
<1>9. start \in NodeIds(g)
  BY <1>8 DEF NodeIds
<1>10. ASSUME NEW k \in DOMAIN g.nodes
       PROVE  {i \in DOMAIN g.nodes : g.nodes[i].id = g.nodes[k].id} = {k}
  <2>1. Len(ids) = n_ /\ DOMAIN ids = 1..n_
    <3>1. DOMAIN ids = 1..n_
      BY <1>4
    <3> HIDE DEF n_
    <3> QED BY <1>4, <3>1
  <2>2. \A i, j \in 1..n_ : ids[i] = ids[j] => i = j
    <3> HIDE DEF ids, n_
    <3> QED BY <1>4, <1>5, <2>1, NotDuplicated
  <2> QED BY <1>4, <1>10, <2>2
<1>11. ASSUME NEW n \in SetOf(g.nodes), n.id \in D \cap NodeIds(g)
       PROVE  n.variable \notin adjusted
  <2>1. PICK k \in DOMAIN g.nodes : g.nodes[k] = n
    BY DEF SetOf
  <2>2. g.nodes[Max({i \in DOMAIN g.nodes : g.nodes[i].id = n.id})] = n
    <3>1. {i \in DOMAIN g.nodes : g.nodes[i].id = n.id} = {k} /\ k \in Int
      BY <1>4, <1>10, <2>1
    <3> QED BY <2>1, <3>1, MaxOfOne
  <2>3. n.variable \in Affected(g, q.treatment)
    BY <1>11, <2>2 DEF Affected
  <2> QED BY <1>7, <2>3
<1>12. ASSUME NEW e \in SetOf(g.edges), e[1] \in (D \cap NodeIds(g)) \cup {start}
       PROVE  e[2] \in D \cap NodeIds(g)
  <2>1. e[1] \in (D \cup {start}) \cap NodeIds(g)
    BY <1>9, <1>12
  <2>2. e[2] \in D
    <3> HIDE DEF start, g
    <3> QED BY <1>3, <2>1, DescendantsAreClosed DEF D
  <2>3. e[2] \in NodeIds(g)
    BY <1>3, <1>5 DEF SetOf
  <2> QED BY <2>2, <2>3
<1> QED BY <1>11, <1>12

LEMMA AdjustedBefore ==
  ASSUME NEW q, IdentificationOK(q), Identification(q).status = "identified", q.adjustment # None
  PROVE  AdjustedForBefore(q, SetOf(q.adjustment.variables))
<1>1. ASSUME q.graph # None
      PROVE  \E brought \in SUBSET NodeIds(q.graph) :
               /\ \A n \in SetOf(q.graph.nodes) :
                    n.id \in brought => n.variable \notin SetOf(q.adjustment.variables)
               /\ \A e \in SetOf(q.graph.edges) :
                    e[1] \in brought \cup {NodeOf(q.graph, q.treatment).id} => e[2] \in brought
  <2> DEFINE g == q.graph
             brought == Descendants(g, NodeOf(g, q.treatment).id) \cap NodeIds(g)
  <2>1. brought \in SUBSET NodeIds(g)
    OBVIOUS
  <2>2. /\ \A n \in SetOf(g.nodes) : n.id \in brought => n.variable \notin SetOf(q.adjustment.variables)
        /\ \A e \in SetOf(g.edges) : e[1] \in brought \cup {NodeOf(g, q.treatment).id} => e[2] \in brought
    BY <1>1, GraphIsRespected
  <2> HIDE DEF brought
  <2> QED BY <2>1, <2>2
<1> QED BY <1>1, VariablesAreAdmitted DEF AdjustedForBefore

\* What identification leaves of a declared adjustment set.
LEMMA AdjustsAsDeclared ==
  ASSUME NEW q, Identification(q).status = "identified"
  PROVE  Identification(q).adjusts <=> q.adjustment # None
<1>1. IdentificationDiagnostics(q) = {}
  BY IdentifiedHasNone
<1> QED BY <1>1 DEF Identification, Identified, AdjustmentValid

LEMMA DowhyIsEarned ==
  ASSUME NEW c, DowhyOK(c), Identification(c.ident).status = "identified",
         NEW n, AnsweredUnderGraph(c, n)
  PROVE  DowhyIsSound(c, n)
<1> DEFINE q == c.ident
           b == c.dowhy
           declared == IF q.adjustment = None THEN {} ELSE SetOf(q.adjustment.variables)
           followed == /\ b.treatment = q.treatment /\ b.outcome = q.outcome.id
                       /\ SetOf(b.covariates) = {[id |-> id, column |-> id] : id \in n.adjusted}
           full == {"backdoor", "effect"}
           bare == {"backdoor"}
<1>1. PICK adjusted \in BackdoorSets(q) :
        /\ DeclaredSet(c) \in {{}, adjusted}
        /\ IF b.estimates THEN TableFailures(c) = {} /\ n = UnderGraph(DOMAIN c.rows, full, adjusted)
           ELSE n = UnderGraph({}, bare, adjusted)
  BY DEF AnsweredUnderGraph
<1>2. "effect" \in full /\ "effect" \notin bare /\ b.estimates \in BOOLEAN
  BY DEF DowhyOK
<1> HIDE DEF full, bare
<1>3. /\ n.adjusted = adjusted
      /\ b.estimates => TableFailures(c) = {} /\ n.rows = DOMAIN c.rows /\ n.estimates = full
      /\ ~b.estimates => n.estimates = bare
  BY <1>1 DEF UnderGraph
<1>4. n.adjusted \cap ({q.treatment, q.outcome.id} \cup Affected(q.graph, q.treatment)) = {}
  BY <1>1, <1>3 DEF BackdoorSets
<1>5. declared # {} => n.adjusted = declared /\ AdjustedForBefore(q, n.adjusted)
  <2>1. declared # {} => q.adjustment # None /\ declared = DeclaredSet(c)
    BY AdjustsAsDeclared DEF DeclaredSet
  <2>2. declared # {} => AdjustedForBefore(q, declared)
    BY <2>1, AdjustedBefore DEF DowhyOK
  <2> HIDE DEF declared
  <2> QED BY <1>1, <1>3, <2>1, <2>2
<1>6. "effect" \in n.estimates <=> b.estimates
  BY <1>2, <1>3
<1>7. ASSUME "effect" \in n.estimates, followed
      PROVE  /\ n.rows = DOMAIN c.rows
             /\ {c.rows[i][q.treatment] : i \in n.rows} = Exposures
             /\ \A i \in n.rows, id \in {q.outcome.id} \cup n.adjusted : c.rows[i][id] \in Int
  <2>1. /\ n.rows = DOMAIN c.rows
        /\ {c.rows[i][b.treatment] : i \in DOMAIN c.rows} = Exposures
        /\ \A i \in DOMAIN c.rows, column \in MeasuredColumns(c) :
                   c.rows[i][column] \notin {None, Text, Infinite}
    BY <1>3, <1>6, <1>7, FailuresTell
  <2>2. \A i \in DOMAIN c.rows, column \in MeasuredColumns(c) : c.rows[i][column] \in Int
    BY <2>1 DEF DowhyOK, Numeric
  <2>3. {v.column : v \in SetOf(b.covariates)} = n.adjusted
    <3> DEFINE bound == SetOf(b.covariates)
               As_(id) == [id |-> id, column |-> id]
    <3>1. \A id : As_(id).column = id
      OBVIOUS
    <3>2. bound = {As_(id) : id \in n.adjusted}
      BY <1>7
    <3>3. {v.column : v \in bound} = n.adjusted
      <4> HIDE DEF bound, As_
      <4>1. \A v \in bound : v.column \in n.adjusted
        BY <3>1, <3>2
      <4>2. \A id \in n.adjusted : As_(id) \in bound /\ As_(id).column = id
        BY <3>1, <3>2
      <4> QED BY <4>1, <4>2
    <3> QED BY <3>3
  <2>4. MeasuredColumns(c) = {q.outcome.id} \cup n.adjusted
    BY <1>7, <2>3 DEF MeasuredColumns
  <2> QED BY <1>7, <2>1, <2>2, <2>4
<1> QED BY <1>4, <1>5, <1>6, <1>7 DEF DowhyIsSound

(***************************************************************************)
(* Units to compare.                                                       *)
(***************************************************************************)
\* The last of the refusals is none.
LEMMA NoneOfTheRefusals ==
  \A reason : /\ Refused("unsupported", reason) # NotRefused /\ Refused("invalid", reason) # NotRefused
              /\ Refused("abstained", reason) # NotRefused
  BY RefusedHasNone DEF NotRefused

\* Of two rows with a unit the later one has been seen.
LEMMA WeighedUnitsDiffer ==
  ASSUME NEW c, IsList(c.rows), \A i \in DOMAIN c.rows : RowFault(c, i) = NoReason,
         NEW i \in DOMAIN c.rows, NEW j \in DOMAIN c.rows, c.rows[i].unit = c.rows[j].unit
  PROVE  i = j
<1>1. \A k \in DOMAIN c.rows : Compared(c, k) /\ ~SeenUnit(c, k)
  BY DEF RowFault, NoReason
<1>2. DOMAIN c.rows = 1..Len(c.rows) /\ Len(c.rows) \in Nat
  BY DEF IsList
<1>3. ~(i < j)
  <2>1. ASSUME i < j PROVE SeenUnit(c, j)
    <3>1. i \in 1..j - 1
      BY <1>2, <2>1
    <3> QED BY <1>1, <3>1 DEF SeenUnit
  <2> QED BY <1>1, <2>1
<1>4. ~(j < i)
  <2>1. ASSUME j < i PROVE SeenUnit(c, i)
    <3>1. j \in 1..i - 1
      BY <1>2, <2>1
    <3> QED BY <1>1, <3>1 DEF SeenUnit
  <2> QED BY <1>1, <2>1
<1> QED BY <1>2, <1>3, <1>4

LEMMA CovariatesAreFit ==
  ASSUME NEW c, IsList(c.weight.covariates), NEW i, CovariateFault(c, i) = NoReason,
         NEW b \in SetOf(c.weight.covariates)
  PROVE  ~Improper(c, i, b)
<1> DEFINE improper == {k \in DOMAIN c.weight.covariates : Improper(c, i, c.weight.covariates[k])}
<1>1. improper = {}
  BY DEF CovariateFault, NoReason
<1> QED BY <1>1 DEF SetOf

LEMMA LeastOfSome == ASSUME NEW T, T \subseteq Nat, T # {} PROVE Min(T) \in Int
<1>1. Min(T) \in T
  BY MinIsLeast
<1>2. \A x \in T : x \in Int
  OBVIOUS
<1> HIDE DEF Min
<1> QED BY <1>1, <1>2

LEMMA WidthIsNumber ==
  ASSUME NEW c, NEW scores, \A i \in DOMAIN scores : scores[i] \in 0..100,
         \A exposure \in Exposures : ArmOf(c, DOMAIN scores, exposure) # {}
  PROVE  SupportWidth(c, scores) \in Int
<1> DEFINE Of(exposure) == {scores[i] : i \in ArmOf(c, DOMAIN scores, exposure)}
           uppers == {Max(Of(exposure)) : exposure \in Exposures}
           lowers == {Min(Of(exposure)) : exposure \in Exposures}
<1>1. \A exposure \in Exposures : Of(exposure) \subseteq Nat /\ Of(exposure) # {}
                                    /\ \A x \in Of(exposure) : x <= 100
  BY DEF ArmOf
<1>2. \A exposure \in Exposures : Min(Of(exposure)) \in Nat
  <2> HIDE DEF Of
  <2> QED BY <1>1, MinIsLeast
<1>3. \A exposure \in Exposures : Max(Of(exposure)) \in Nat
  <2> TAKE exposure \in Exposures
  <2> DEFINE T == {x + 1 : x \in Of(exposure)}
  <2>1. T \in SUBSET (1..101) /\ T # {}
    <3> HIDE DEF Of
    <3> QED BY <1>1
  <2>2. Max(T) \in T /\ \A y \in T : Max(T) >= y
    <3> HIDE DEF T
    <3> QED BY <2>1, MaxIsGreatest
  <2>3. PICK x \in Of(exposure) : Max(T) = x + 1
    <3> HIDE DEF Of
    <3> QED BY <2>2
  <2>4. \A y \in Of(exposure) : x >= y
    <3> HIDE DEF Of
    <3> TAKE y \in Of(exposure)
    <3>1. x + 1 >= y + 1
      BY <2>2, <2>3
    <3> QED BY <1>1, <2>3, <3>1
  <2> HIDE DEF Of, T
  <2>5. Max(Of(exposure)) \in Of(exposure)
    BY <2>3, <2>4 DEF Max
  <2> QED BY <1>1, <2>5
<1>4. uppers \subseteq Nat /\ uppers # {}
  <2> HIDE DEF Of
  <2> QED BY <1>3 DEF Exposures
<1>5. Min(uppers) \in Int
  <2> HIDE DEF uppers
  <2> QED BY <1>4, LeastOfSome
<1>6. Max(lowers) \in Int
  <2> DEFINE low == Min(Of(0))
             high == Min(Of(1))
  <2>1. lowers = {low, high} /\ low \in Nat /\ high \in Nat
    <3> HIDE DEF Of
    <3> QED BY <1>2 DEF Exposures
  <2>2. \A x, y \in Nat : Max({x, y}) \in {x, y}
    <3> TAKE x, y \in Nat
    <3>1. CASE x >= y
      BY <3>1 DEF Max
    <3>2. CASE y >= x
      BY <3>2 DEF Max
    <3> QED BY <3>1, <3>2
  <2> HIDE DEF low, high, lowers
  <2> QED BY <2>1, <2>2
<1> QED BY <1>5, <1>6 DEF SupportWidth

LEMMA ScoresAreNumbers ==
  ASSUME NEW c, NEW rows, NEW scores \in ScoresOf(c, rows)
  PROVE  \A i \in rows : scores[i] \in 0..100
<1> DEFINE given == {Features(c, i) : i \in rows}
<1>1. PICK model \in [given -> ScoreValues] : scores = [i \in rows |-> model[Features(c, i)]]
  BY DEF ScoresOf
<1>2. \A i \in rows : Features(c, i) \in given /\ scores[i] = model[Features(c, i)]
  BY <1>1
<1> HIDE DEF given
<1> QED BY <1>1, <1>2, ScoreValuesAssumption

\* Wide enough is more than what is severe.
LEMMA WidthSuffices ==
  ASSUME NEW c, NEW scores, \A i \in DOMAIN scores : scores[i] \in 0..100,
         \A exposure \in Exposures : ArmOf(c, DOMAIN scores, exposure) # {},
         ~Narrow(c, scores)
  PROVE  SupportWidth(c, scores) > SevereWidth
<1>1. SupportWidth(c, scores) \in Int
  BY WidthIsNumber
<1> QED BY <1>1, ScoreValuesAssumption DEF Narrow

LEMMA ModelRowsAreFit ==
  ASSUME NEW c, IsList(c.rows), WeightingOK(c),
         \A i \in DOMAIN c.rows : RowFault(c, i) = NoReason,
         NEW rows \in SUBSET ModelRows(c)
  PROVE  /\ \A i \in rows : c.rows[i].exposure \in Exposures /\ c.rows[i].unit \in Int
         /\ \A i, j \in rows : c.rows[i].unit = c.rows[j].unit => i = j
         /\ \A i \in rows : \A b \in SetOf(c.weight.covariates) :
              /\ c.rows[i][b.column] \notin {None, Infinite}
              /\ b.kind = "numeric" => c.rows[i][b.column] # Text
<1>1. rows \subseteq DOMAIN c.rows /\ \A i \in rows : ~MissingCovariate(c, i)
  BY DEF ModelRows
<1>2. \A i \in rows : /\ Compared(c, i) /\ c.rows[i].unit \notin {None, Text, Infinite}
                      /\ CovariateFault(c, i) = NoReason
  BY <1>1 DEF RowFault, NoReason
<1>3. \A i \in rows : c.rows[i].exposure \in Exposures /\ c.rows[i].unit \in Int
  BY <1>1, <1>2 DEF WeightingOK, Numeric, Compared
<1>4. \A i, j \in rows : c.rows[i].unit = c.rows[j].unit => i = j
  BY <1>1, WeighedUnitsDiffer
<1>5. ASSUME NEW i \in rows, NEW b \in SetOf(c.weight.covariates)
      PROVE  /\ c.rows[i][b.column] \notin {None, Infinite}
             /\ b.kind = "numeric" => c.rows[i][b.column] # Text
  <2>1. ~Improper(c, i, b)
    BY <1>2, CovariatesAreFit DEF WeightingOK
  <2>2. c.rows[i][b.column] # None
    BY <1>1 DEF MissingCovariate, CovariateColumns
  <2> QED BY <2>1, <2>2 DEF Improper
<1> QED BY <1>3, <1>4, <1>5

LEMMA DeclarationIsWeighed ==
  ASSUME NEW c, WeightingOK(c), Identification(c.ident).status = "identified",
         DeclarationRefusal(c, Identification(c.ident)) = NotRefused
  PROVE  AdjustedForBefore(c.ident, {b.id : b \in SetOf(c.weight.covariates)})
<1> DEFINE adjusts == Identification(c.ident).adjusts
           bound == {b.id : b \in SetOf(c.weight.covariates)}
<1>1. adjusts /\ bound = SetOf(c.ident.adjustment.variables)
  <2> HIDE DEF adjusts, bound
  <2> QED BY NoneOfTheRefusals DEF DeclarationRefusal, adjusts, bound
<1>2. c.ident.adjustment # None
  BY <1>1, AdjustsAsDeclared
<1> QED BY <1>1, <1>2, AdjustedBefore DEF WeightingOK

\* A result of the propensity model or of the comparison that rests on it.
LEMMA WeightingIsEarned ==
  ASSUME NEW c, IsList(c.rows), WeightingOK(c), Identification(c.ident).status = "identified",
         NEW n \in WeightingResults(c, Identification(c.ident)), n.estimates # {}
  PROVE  WeightsAreSound(c, n)
<1> DEFINE bare == {"scores"}
           full == {"effect"}
<1>1. "effect" \in full /\ "effect" \notin bare
  OBVIOUS
<1>2. ASSUME NEW scores, ScoresFit(c, scores), NEW kept, NEW estimates, n = Scored(kept, estimates),
             \A exposure \in Exposures : ArmOf(c, DOMAIN kept, exposure) # {},
             ~Narrow(c, kept), DOMAIN kept \subseteq ModelRows(c),
             \A i \in DOMAIN kept : kept[i] = scores[i],
             "effect" \notin estimates => DOMAIN kept = ModelRows(c),
             "effect" \in estimates =>
               DOMAIN kept = Selected(c, scores) /\ Aligned(c, DOMAIN kept)
      PROVE  WeightsAreSound(c, n)
  <2>1. n.rows = DOMAIN kept /\ n.scores = kept /\ n.estimates = estimates
    BY <1>2 DEF Scored
  <2>2. scores \in ScoresOf(c, ModelRows(c)) /\ DOMAIN scores = ModelRows(c)
    BY <1>2, NothingTrimmed DEF ScoresFit
  <2>3. /\ DeclarationRefusal(c, Identification(c.ident)) = NotRefused
        /\ \A i \in DOMAIN c.rows : RowFault(c, i) = NoReason
    BY <1>2, WeightingRefusalsTell DEF ScoresFit
  <2>4. BothArms(c, n.rows)
    BY <1>2, <2>1, <2>3, ModelRowsAreFit DEF BothArms
  <2>5. SupportWidth(c, n.scores) > SevereWidth
    <3>1. \A i \in DOMAIN kept : kept[i] \in 0..100
      BY <1>2, <2>2, ScoresAreNumbers
    <3> QED BY <1>2, <2>1, <3>1, WidthSuffices
  <2>6. \A i \in n.rows : \A b \in SetOf(c.weight.covariates) :
          /\ c.rows[i][b.column] \notin {None, Infinite}
          /\ b.kind = "numeric" => c.rows[i][b.column] # Text
    BY <1>2, <2>1, <2>3, ModelRowsAreFit
  <2>7. "effect" \in n.estimates =>
          \A i \in n.rows :
            /\ c.rows[i][c.weight.outcome] \in Int
            /\ c.weight.trimming # None =>
                 c.weight.trimming.lower <= n.scores[i] /\ n.scores[i] <= c.weight.trimming.upper
    BY <1>2, <2>1 DEF Aligned, Selected
  <2>8. \A i \in DOMAIN c.rows \ n.rows :
          MissingCovariate(c, i) \/ ("effect" \in n.estimates /\ c.weight.trimming # None)
    BY <1>2, <2>1, <2>2 DEF Selected, ModelRows
  <2> QED BY <2>3, <2>4, <2>5, <2>6, <2>7, <2>8, DeclarationIsWeighed DEF WeightsAreSound
<1> HIDE DEF bare, full
<1>3. ASSUME NEW scores, ScoresFit(c, scores), n = Scored(scores, bare)
      PROVE  WeightsAreSound(c, n)
  <2>1. scores \in ScoresOf(c, ModelRows(c)) /\ DOMAIN scores = ModelRows(c) /\ ~Narrow(c, scores)
    BY <1>3, NothingTrimmed DEF ScoresFit
  <2>2. \A exposure \in Exposures : ArmOf(c, DOMAIN scores, exposure) # {}
    BY <1>3, <2>1, WeightingRefusalsTell DEF ScoresFit
  <2> QED BY <1>1, <1>2, <1>3, <2>1, <2>2
<1>4. ASSUME NEW scores, ScoresFit(c, scores), NEW kept, kept = Kept(scores, Selected(c, scores)),
             ComparedFit(c, kept), n = Scored(kept, full)
      PROVE  WeightsAreSound(c, n)
  <2>1. scores \in ScoresOf(c, ModelRows(c)) /\ DOMAIN kept = Selected(c, scores)
        /\ Selected(c, scores) \subseteq ModelRows(c)
    BY <1>4, NothingTrimmed DEF ScoresFit
  <2>2. \A i \in DOMAIN kept : kept[i] = scores[i]
    BY <1>4 DEF Kept
  <2>3. /\ \A exposure \in Exposures : ArmOf(c, DOMAIN kept, exposure) # {}
        /\ ~Narrow(c, kept) /\ Aligned(c, DOMAIN kept)
    BY <1>4 DEF ComparedFit
  <2> QED BY <1>1, <1>2, <1>4, <2>1, <2>2, <2>3
<1>5. /\ ~IsRefused(n) /\ n # Raised
  BY RefusedHasNone DEF IsRefused, Refusals, Raised
<1>6. \/ \E scores : ScoresFit(c, scores) /\ n = Scored(scores, bare)
      \/ \E scores : /\ ScoresFit(c, scores) /\ ComparedFit(c, Kept(scores, Selected(c, scores)))
                     /\ n = Scored(Kept(scores, Selected(c, scores)), full)
  <2>1. c.req.method \in WeightingMethods
    BY DEF WeightingOK
  <2> QED BY <1>5, <2>1, WeightingOutcome DEF bare, full
<1> QED BY <1>3, <1>4, <1>6

(***************************************************************************)
(* Units to split into folds.                                              *)
(***************************************************************************)
\* What is bound is what was declared to be adjusted for.
LEMMA BoundIsAdjusted ==
  ASSUME NEW c, CrossFittingOK(c), Identification(c.ident).status = "identified",
         Identification(c.ident).adjusts, c.ident.adjustment.variables = BoundIds(c)
  PROVE  AdjustedForBefore(c.ident, {b.id : b \in SetOf(c.split.covariates)})
<1>1. SetOf(BoundIds(c)) = {b.id : b \in SetOf(c.split.covariates)}
  BY DEF BoundIds, SetOf
<1>2. c.ident.adjustment # None /\ IdentificationOK(c.ident)
  BY AdjustsAsDeclared DEF CrossFittingOK
<1> QED BY <1>1, <1>2, AdjustedBefore

\* Rows that each have a unit nobody before them has are of different units.
LEMMA RowsOfDifferentUnits ==
  ASSUME NEW c, IsList(c.rows),
         \A i \in DOMAIN c.rows : ~\E j \in 1..i - 1 : c.rows[j].unit = c.rows[i].unit
  PROVE  \A i, j \in DOMAIN c.rows : c.rows[i].unit = c.rows[j].unit => i = j
<1>1. DOMAIN c.rows = 1..Len(c.rows) /\ Len(c.rows) \in Nat
  BY DEF IsList
<1>2. \A i, j \in DOMAIN c.rows : i < j => j \in Int /\ i \in 1..j - 1
  BY <1>1
<1>3. \A i, j \in DOMAIN c.rows : i < j \/ j < i \/ i = j
  BY <1>1
<1> QED BY <1>2, <1>3

LEMMA DmlRowsAreFit ==
  ASSUME NEW c, IsList(c.rows), CrossFittingOK(c),
         \A i \in DOMAIN c.rows : DmlRowFault(c, i) = NoReason
  PROVE  /\ \A i \in CompleteRows(c) :
              c.rows[i].exposure \in Exposures /\ c.rows[i].unit \in Int
         /\ \A i, j \in CompleteRows(c) : c.rows[i].unit = c.rows[j].unit => i = j
         /\ \A i \in CompleteRows(c) : \A column \in DmlColumns(c) : c.rows[i][column] \in Int
<1>1. \A i \in DOMAIN c.rows : IdentityFault(c, i) = NoReason
  BY DEF DmlRowFault
<1>2. \A i \in DOMAIN c.rows : ~\E j \in 1..i - 1 : c.rows[j].unit = c.rows[i].unit
  BY <1>1 DEF IdentityFault, NoReason
<1>3. CompleteRows(c) \subseteq DOMAIN c.rows
  BY DEF CompleteRows
<1>4. \A i \in CompleteRows(c) : ~Incomplete(c, i) /\ ValueFault(c, i) = NoReason
  BY <1>1 DEF CompleteRows, DmlRowFault
<1>5. ASSUME NEW i \in CompleteRows(c)
      PROVE  /\ c.rows[i].exposure \in Exposures
             /\ \A column \in DmlColumns(c) : c.rows[i][column] \in Int
  <2>1. /\ c.rows[i].exposure \in Exposures
        /\ \A column \in DmlColumns(c) : c.rows[i][column] \notin {None, Text, Infinite}
    BY <1>4 DEF ValueFault, Incomplete, NoReason
  <2>2. \A column \in DmlColumns(c) : Numeric(c.rows[i][column])
    BY <1>3 DEF CrossFittingOK
  <2> QED BY <2>1, <2>2 DEF Numeric
<1>6. "unit" \in DmlColumns(c)
  BY DEF DmlColumns
<1> QED BY <1>2, <1>3, <1>5, <1>6, RowsOfDifferentUnits

LEMMA DmlDeclares ==
  ASSUME NEW c, DmlDeclarationRefusal(c, c.ident, Identification(c.ident)) = NotRefused
  PROVE  Identification(c.ident).adjusts /\ c.ident.adjustment.variables = BoundIds(c)
<1> DEFINE adjusts == Identification(c.ident).adjusts
<1>1. adjusts /\ c.ident.adjustment.variables = BoundIds(c)
  <2> HIDE DEF adjusts
  <2> QED BY NoneOfTheRefusals DEF DmlDeclarationRefusal, adjusts
<1> QED BY <1>1

LEMMA DmlIsEarned ==
  ASSUME NEW c, IsList(c.rows), CrossFittingOK(c),
         Identification(c.ident).status = "identified", DmlAccepts(c),
         NEW n, n.rows = CompleteRows(c)
  PROVE  FoldsAreSound(c, n)
<1>1. n.rows = CompleteRows(c)
  OBVIOUS
<1>2. \A exposure \in Exposures : ArmOf(c, n.rows, exposure) # {}
  BY <1>1, ArmsHaveUnits DEF DmlAccepts, CrossFittingOK, CompleteRows
<1>3. /\ BothArms(c, n.rows)
      /\ \A i \in n.rows : \A column \in DmlColumns(c) : c.rows[i][column] \in Int
  BY <1>1, <1>2, DmlRowsAreFit DEF DmlAccepts, BothArms
<1>4. AdjustedForBefore(c.ident, {b.id : b \in SetOf(c.split.covariates)})
  BY DmlDeclares, BoundIsAdjusted DEF DmlAccepts
<1>5. \A i \in DOMAIN c.rows \ n.rows : \E column \in DmlColumns(c) : c.rows[i][column] = None
  BY <1>1 DEF CompleteRows, Incomplete
<1> QED BY <1>3, <1>4, <1>5 DEF FoldsAreSound

(***************************************************************************)
(* Folds.  The units of an arm are dealt out in the order of their ranks:  *)
(* the first two go to different folds, so whatever fold is left out, one  *)
(* of them is not.                                                         *)
(***************************************************************************)
\* A cross-fit of some of the rows.
Dealt(c, rows) ==
  /\ IsList(c.rows) /\ rows \in SUBSET DOMAIN c.rows
  /\ c.split.folds \in Nat /\ c.split.folds >= 2
  /\ \A i \in rows : /\ c.rows[i].exposure \in Exposures
                     /\ c.rows[i].unit \notin {None, Text, Infinite}
  /\ \A i, j \in rows : c.rows[i].unit = c.rows[j].unit => i = j
  /\ Ranked(c, {c.rows[i].unit : i \in DOMAIN c.rows} \ {None, Text, Infinite})
  /\ \A exposure \in Exposures : ~(Cardinality(ArmOf(c, rows, exposure)) < c.split.folds)

RankOf(c, i) == c.split.rank[c.rows[i].unit]

LEMMA RanksDiffer ==
  ASSUME NEW c, NEW rows, Dealt(c, rows)
  PROVE  /\ \A i \in rows : RankOf(c, i) \in Nat
         /\ \A i, j \in rows : i # j => RankOf(c, i) # RankOf(c, j)
<1> DEFINE units == {c.rows[i].unit : i \in DOMAIN c.rows} \ {None, Text, Infinite}
<1>1. \A i \in rows : c.rows[i].unit \in units
  BY DEF Dealt
<1>2. Ranked(c, units) /\ \A i, j \in rows : c.rows[i].unit = c.rows[j].unit => i = j
  BY DEF Dealt
<1> HIDE DEF units
<1> QED BY <1>1, <1>2 DEF Ranked, RankOf

LEMMA FirstByRank ==
  ASSUME NEW c, NEW rows, Dealt(c, rows), NEW T \in SUBSET rows, T # {}
  PROVE  \E a \in T : \A j \in T : j = a \/ RankOf(c, a) < RankOf(c, j)
<1> DEFINE ranks == {RankOf(c, i) : i \in T}
<1>1. ranks \subseteq Nat /\ ranks # {}
  BY RanksDiffer
<1>2. PICK r \in ranks : \A y \in ranks : r <= y
  <2> HIDE DEF ranks
  <2> QED BY <1>1, LeastElement
<1>3. PICK a \in T : r = RankOf(c, a)
  BY <1>2
<1>4. \A j \in T : RankOf(c, a) <= RankOf(c, j)
  BY <1>2, <1>3
<1> QED BY <1>3, <1>4, RanksDiffer

LEMMA FirstTwo ==
  ASSUME NEW c, NEW rows, Dealt(c, rows), NEW exposure \in Exposures
  PROVE  \E a, b \in ArmOf(c, rows, exposure) :
           FoldOf(c, rows, a) = 0 /\ FoldOf(c, rows, b) = 1
<1> DEFINE A == ArmOf(c, rows, exposure)
           Ahead(i) == {j \in A : RankOf(c, j) < RankOf(c, i)}
           n == c.split.folds
<1>1. A \subseteq rows /\ \A i \in A : c.rows[i].exposure = exposure
  BY DEF ArmOf
<1>2. A # {}
  BY ArmsHaveUnits DEF Dealt
<1>3. PICK a \in A : \A j \in A : j = a \/ RankOf(c, a) < RankOf(c, j)
  <2> HIDE DEF A
  <2> QED BY <1>1, <1>2, FirstByRank
<1>4. \A i, j \in A : RankOf(c, i) \in Nat /\ (i # j => RankOf(c, i) # RankOf(c, j))
  BY <1>1, RanksDiffer
<1>5. A \ {a} # {}
  <2>1. ASSUME A \ {a} = {} PROVE FALSE
    <3>1. A = {a}
      BY <1>3, <2>1
    <3>2. Cardinality(A) = 1
      <4> DEFINE one == {a}
      <4>1. Cardinality(one) = 1
        BY FS_Singleton
      <4> QED BY <3>1, <4>1
    <3>3. ~(Cardinality(A) < n) /\ n \in Nat /\ n >= 2
      BY DEF Dealt
    <3> HIDE DEF A, n
    <3> QED BY <3>2, <3>3
  <2> QED BY <2>1
<1>6. PICK b \in A \ {a} : \A j \in A \ {a} : j = b \/ RankOf(c, b) < RankOf(c, j)
  <2> DEFINE T == A \ {a}
  <2>1. T \in SUBSET rows
    BY <1>1
  <2> HIDE DEF T
  <2>2. \E b \in T : \A j \in T : j = b \/ RankOf(c, b) < RankOf(c, j)
    BY <1>5, <2>1, FirstByRank DEF T
  <2> QED BY <2>2 DEF T
<1>7. Ahead(a) = {} /\ Ahead(b) = {a}
  <2> HIDE DEF A
  <2> QED BY <1>3, <1>4, <1>6
<1>8. Cardinality(Ahead(a)) = 0 /\ Cardinality(Ahead(b)) = 1
  <2> DEFINE one == {a}
  <2>1. Cardinality(one) = 1
    BY FS_Singleton
  <2>2. Cardinality({}) = 0
    BY FS_EmptySet
  <2> HIDE DEF Ahead
  <2> QED BY <1>7, <2>1, <2>2
<1>9. \A i \in A : FoldOf(c, rows, i) = Cardinality(Ahead(i)) % n
  BY <1>1 DEF FoldOf, RankOf
<1>10. n \in Nat /\ n >= 2
  BY DEF Dealt
<1>11. 0 % n = 0 /\ 1 % n = 1
  <2> HIDE DEF n
  <2> QED BY <1>10
<1> HIDE DEF Ahead, n
<1> QED BY <1>3, <1>6, <1>8, <1>9, <1>11

LEMMA OthersPredict ==
  ASSUME NEW c, NEW rows, Dealt(c, rows), NEW i \in rows
  PROVE  LET trained == Complement(Folds(c, rows), i)
         IN  /\ i \notin trained
             /\ \A exposure \in Exposures : ArmOf(c, trained, exposure) # {}
<1> DEFINE folds == Folds(c, rows)
<1>1. DOMAIN folds = rows /\ \A j \in rows : folds[j] = FoldOf(c, rows, j)
  BY DEF Folds
<1> HIDE DEF folds
<1>2. ASSUME NEW exposure \in Exposures
      PROVE  ArmOf(c, Complement(folds, i), exposure) # {}
  <2>1. PICK a, b \in ArmOf(c, rows, exposure) : FoldOf(c, rows, a) = 0 /\ FoldOf(c, rows, b) = 1
    BY FirstTwo
  <2>2. a \in rows /\ b \in rows /\ c.rows[a].exposure = exposure /\ c.rows[b].exposure = exposure
    BY <2>1 DEF ArmOf
  <2>3. folds[a] # folds[i] \/ folds[b] # folds[i]
    BY <1>1, <2>1, <2>2
  <2> QED BY <1>1, <2>2, <2>3 DEF ArmOf, Complement
<1>3. i \notin Complement(folds, i)
  BY DEF Complement
<1> QED BY <1>2, <1>3 DEF folds

LEMMA DmlDeals ==
  ASSUME NEW c, IsList(c.rows), CrossFittingOK(c), DmlAccepts(c)
  PROVE  Dealt(c, CompleteRows(c))
<1>1. \A i \in CompleteRows(c) : c.rows[i].unit \notin {None, Text, Infinite}
  <2>1. \A i \in CompleteRows(c) : IdentityFault(c, i) = NoReason
    BY DEF DmlAccepts, DmlRowFault, CompleteRows
  <2> QED BY <2>1 DEF IdentityFault, NoReason
<1> QED BY <1>1, DmlRowsAreFit DEF DmlAccepts, CrossFittingOK, CompleteRows, Dealt

LEMMA DmlPredicts ==
  ASSUME NEW c, IsList(c.rows), CrossFittingOK(c), DmlAccepts(c),
         NEW n, n = HeldOutEstimate(DmlFolds(c))
  PROVE  PredictedByOthers(c, n)
<1> DEFINE rows == CompleteRows(c)
           folds == Folds(c, rows)
<1>1. DOMAIN folds = rows /\ folds = DmlFolds(c)
  BY DEF Folds, DmlFolds
<1>2. \A i \in rows : /\ i \notin Complement(folds, i)
                      /\ \A exposure \in Exposures : ArmOf(c, Complement(folds, i), exposure) # {}
  BY DmlDeals, OthersPredict
<1> HIDE DEF folds, rows
<1>3. n.rows = rows /\ \A i \in rows : n.trained[i] = Complement(folds, i)
  BY <1>1 DEF HeldOutEstimate
<1> QED BY <1>2, <1>3 DEF PredictedByOthers

(***************************************************************************)
(* Subgroups.  A value is in one of them at most.                          *)
(***************************************************************************)
LEMMA BinsAreOrdered ==
  ASSUME NEW bins, IsList(bins), Binned(bins), NEW i \in DOMAIN bins, NEW j \in DOMAIN bins, i < j
  PROVE  /\ bins[i].upper \in Int \ {None} /\ bins[j].lower \in Int \ {None}
         /\ bins[i].upper <= bins[j].lower
<1> DEFINE n == Len(bins)
           Apart(k) == bins[i].upper <= bins[k].lower
<1>1. n \in Nat /\ DOMAIN bins = 1..n
  BY DEF IsList
<1>2. \A k \in DOMAIN bins :
        /\ bins[k].lower \in Int \cup {None} /\ bins[k].upper \in Int \cup {None}
        /\ None \notin {bins[k].lower, bins[k].upper} => bins[k].lower < bins[k].upper
        /\ k > 1 => bins[k - 1].upper = bins[k].lower /\ bins[k].lower # None
  BY DEF Binned
<1>3. \A k \in DOMAIN bins : k > 1 => bins[k].lower \in Int \ {None}
  BY <1>2
<1>4. \A k \in DOMAIN bins : k > i => k > 1 /\ k - 1 \in DOMAIN bins /\ k \in Nat
  BY <1>1
<1>5. i + 1 \in DOMAIN bins /\ i + 1 > i /\ (i + 1) - 1 = i
  BY <1>1
<1>6. bins[i].upper = bins[i + 1].lower /\ bins[i].upper \in Int \ {None}
  BY <1>2, <1>3, <1>4, <1>5
<1> DEFINE T == {k \in DOMAIN bins : k > i /\ ~Apart(k)}
<1>7. T = {}
  <2> SUFFICES ASSUME T # {} PROVE FALSE
    OBVIOUS
  <2>1. PICK k \in T : \A y \in T : k <= y
    <3>1. T \subseteq Nat
      <4> HIDE DEF Apart
      <4> QED BY <1>4
    <3> HIDE DEF T
    <3> QED BY <3>1, LeastElement
  <2>2. k \in DOMAIN bins /\ k > i /\ ~Apart(k) /\ k \in Nat /\ k - 1 \in DOMAIN bins /\ k > 1
    BY <2>1, <1>4
  <2>3. k # i + 1
    BY <1>6, <2>2
  <2>4. k - 1 > i /\ ~(k <= k - 1)
    BY <1>1, <2>2, <2>3
  <2>5. Apart(k - 1)
    <3>1. k - 1 \notin T
      <4> HIDE DEF T
      <4> QED BY <2>1, <2>4
    <3> QED BY <3>1, <2>2, <2>4
  <2>6. bins[k - 1].lower \in Int \ {None} /\ bins[k].lower \in Int \ {None}
        /\ bins[k - 1].upper = bins[k].lower
    BY <1>2, <1>3, <1>4, <2>2, <2>4
  <2>7. bins[k - 1].lower < bins[k - 1].upper
    BY <1>2, <2>2, <2>6
  <2>8. Apart(k)
    <3> DEFINE x == bins[i].upper
               y == bins[k - 1].lower
               z == bins[k].lower
    <3>1. x \in Int /\ y \in Int /\ z \in Int /\ x <= y /\ y < z
      BY <1>6, <2>5, <2>6, <2>7
    <3>2. x <= z
      <4> HIDE DEF x, y, z
      <4> QED BY <3>1
    <3> QED BY <3>2
  <2> QED BY <2>2, <2>8
<1>8. Apart(j)
  BY <1>7
<1> QED BY <1>3, <1>4, <1>6, <1>8

\* What a value must be like to be looked up.
Fits(c, value) == c.effect.kind = "binned" => value \in Int

LEMMA MatchesOne ==
  ASSUME NEW c, HeterogeneityOK(c), NEW value, Fits(c, value),
         NEW i \in DOMAIN c.effect.subgroups, NEW j \in DOMAIN c.effect.subgroups,
         WithinGroup(c, c.effect.subgroups[i], value), WithinGroup(c, c.effect.subgroups[j], value)
  PROVE  i = j
<1> DEFINE bins == c.effect.subgroups
           n == Len(bins)
<1>1. IsList(bins) /\ n \in Nat /\ DOMAIN bins = 1..n
  BY DEF HeterogeneityOK, IsList
<1>2. CASE c.effect.kind # "binned"
  <2> DEFINE values == [k \in DOMAIN bins |-> bins[k].value]
  <2>1. ~Duplicated(values) /\ DOMAIN values = 1..n
    BY <1>1, <1>2 DEF HeterogeneityOK
  <2>2. Len(values) = n
    <3> HIDE DEF n
    <3> QED BY <1>1, <2>1
  <2>3. values[i] = values[j]
    BY <1>2 DEF WithinGroup
  <2> HIDE DEF values, n
  <2> QED BY <1>1, <2>1, <2>2, <2>3, NotDuplicated
<1>3. CASE c.effect.kind = "binned"
  <2>1. Binned(bins) /\ value \in Int
    BY <1>3 DEF HeterogeneityOK, Fits
  <2>2. ASSUME NEW k \in DOMAIN bins, NEW l \in DOMAIN bins, k < l,
               WithinGroup(c, bins[k], value), WithinGroup(c, bins[l], value)
        PROVE  FALSE
    <3> DEFINE x == bins[k].upper
               y == bins[l].lower
    <3>1. x \in Int /\ y \in Int /\ x # None /\ y # None /\ x <= y
      BY <1>1, <2>1, <2>2, BinsAreOrdered
    <3>2. y <= value /\ value < x
      BY <1>3, <2>2, <3>1 DEF WithinGroup
    <3> HIDE DEF x, y
    <3> QED BY <2>1, <3>1, <3>2
  <2>3. i < j \/ j < i \/ i = j
    BY <1>1
  <2> QED BY <2>2, <2>3
<1> QED BY <1>2, <1>3

LEMMA GroupOfValue ==
  ASSUME NEW c, HeterogeneityOK(c), NEW value, Fits(c, value)
  PROVE  /\ \A k \in DOMAIN c.effect.subgroups :
              WithinGroup(c, c.effect.subgroups[k], value) =>
                GroupAt(c, value) = c.effect.subgroups[k].id
         /\ GroupAt(c, value) # None =>
              \E k \in DOMAIN c.effect.subgroups :
                /\ WithinGroup(c, c.effect.subgroups[k], value)
                /\ GroupAt(c, value) = c.effect.subgroups[k].id
<1> DEFINE groups == c.effect.subgroups
           matching == {k \in DOMAIN groups : WithinGroup(c, groups[k], value)}
<1>1. GroupAt(c, value) = IF matching = {} THEN None ELSE groups[Min(matching)].id
  BY DEF GroupAt
<1>2. matching # {} => Min(matching) \in matching
  <2>1. IsList(groups) /\ matching \in SUBSET DOMAIN groups
    BY DEF HeterogeneityOK
  <2> HIDE DEF matching
  <2> QED BY <2>1, FirstIsFaulty
<1>3. \A i, j \in matching : i = j
  BY MatchesOne
<1>4. \A k \in DOMAIN groups : WithinGroup(c, groups[k], value) <=> k \in matching
  OBVIOUS
<1>5. matching \subseteq DOMAIN groups
  OBVIOUS
<1> HIDE DEF matching
<1> QED BY <1>1, <1>2, <1>3, <1>4, <1>5

\* The rows that subgroups are made of.
LEMMA HteRowsAreFit ==
  ASSUME NEW c, IsList(c.rows), HeterogeneityOK(c), HteAccepts(c)
  PROVE  /\ \A i \in Retained(c) :
              c.rows[i].exposure \in Exposures /\ c.rows[i].unit \in Int
              /\ c.rows[i].unit \notin {None, Text, Infinite}
         /\ \A i, j \in Retained(c) : c.rows[i].unit = c.rows[j].unit => i = j
         /\ \A i \in Retained(c) : \A column \in DmlColumns(c) :
              c.rows[i][column] \notin {None, Infinite}
         /\ \A i \in DOMAIN c.rows : ModifierOf(c, i) # None =>
              Fits(c, ModifierOf(c, i)) /\ GroupAt(c, ModifierOf(c, i)) # None
         /\ \A i \in Retained(c) : ModifierOf(c, i) # None
<1>1. \A i \in DOMAIN c.rows : AssignmentFault(c, i) = NoReason
  BY DEF HteAccepts
<1>2. \A i \in DOMAIN c.rows : ~\E j \in 1..i - 1 : c.rows[j].unit = c.rows[i].unit
  BY <1>1 DEF AssignmentFault, NoReason
<1>3. Retained(c) \subseteq DOMAIN c.rows
  BY DEF Retained
<1>4. \A i, j \in Retained(c) : c.rows[i].unit = c.rows[j].unit => i = j
  BY <1>2, <1>3, RowsOfDifferentUnits
<1>5. "unit" \in DmlColumns(c) /\ DmlColumns(c) \subseteq HteColumns(c)
      /\ c.effect.bound.column \in HteColumns(c)
  BY DEF DmlColumns, HteColumns
<1>6. ASSUME NEW i \in Retained(c)
      PROVE  /\ c.rows[i].exposure \in Exposures
             /\ \A column \in DmlColumns(c) : c.rows[i][column] \notin {None, Text, Infinite}
             /\ ModifierOf(c, i) # None
  <2>1. RetainedFault(c, i) = NoReason
    BY DEF HteAccepts
  <2>2. /\ c.rows[i].exposure \in Exposures
        /\ \A column \in DmlColumns(c) : c.rows[i][column] \notin {Text, Infinite}
    BY <2>1 DEF RetainedFault, NoReason
  <2> QED BY <1>5, <2>2 DEF Retained, ModifierOf
<1>7. \A i \in Retained(c) : Numeric(c.rows[i].unit)
  BY <1>3, <1>5 DEF HeterogeneityOK, CrossFittingOK
<1>8. ASSUME NEW i \in DOMAIN c.rows, ModifierOf(c, i) # None
      PROVE  Fits(c, ModifierOf(c, i)) /\ GroupAt(c, ModifierOf(c, i)) # None
  <2>1. /\ c.effect.kind = "binned" => ModifierOf(c, i) \notin {Text, Infinite}
        /\ GroupAt(c, ModifierOf(c, i)) # None
    BY <1>1, <1>8 DEF AssignmentFault, NoReason
  <2>2. c.effect.kind = "binned" => Numeric(ModifierOf(c, i))
    BY DEF HeterogeneityOK
  <2> QED BY <1>8, <2>1, <2>2 DEF Numeric, Fits
<1> QED BY <1>4, <1>5, <1>6, <1>7, <1>8 DEF Numeric

\* Who is in a subgroup is in it by its value, and in no other.
LEMMA MembersAreWithin ==
  ASSUME NEW c, IsList(c.rows), HeterogeneityOK(c), HteAccepts(c),
         NEW i \in DOMAIN c.rows, ModifierOf(c, i) # None, NEW g \in SetOf(c.effect.subgroups)
  PROVE  WithinGroup(c, g, ModifierOf(c, i)) <=> GroupAt(c, ModifierOf(c, i)) = g.id
<1> DEFINE value == ModifierOf(c, i)
           groups == c.effect.subgroups
           n == Len(groups)
<1>1. Fits(c, value) /\ GroupAt(c, value) # None
  BY HteRowsAreFit
<1>2. PICK k \in DOMAIN groups : groups[k] = g
  BY DEF SetOf
<1>3. WithinGroup(c, g, value) => GroupAt(c, value) = g.id
  BY <1>1, <1>2, GroupOfValue
<1>4. PICK l \in DOMAIN groups : WithinGroup(c, groups[l], value) /\ GroupAt(c, value) = groups[l].id
  BY <1>1, GroupOfValue
<1>5. \A a, b \in DOMAIN groups : groups[a].id = groups[b].id => a = b
  <2> DEFINE ids == [a \in DOMAIN groups |-> groups[a].id]
  <2>1. n \in Nat /\ DOMAIN groups = 1..n /\ DOMAIN ids = 1..n
    BY DEF HeterogeneityOK, IsList
  <2>2. Len(ids) = n
    <3> HIDE DEF n
    <3> QED BY <2>1
  <2>3. SetOf(ids) = GroupIds(c)
    BY DEF SetOf, GroupIds
  <2>4. Cardinality(GroupIds(c)) = n
    BY DEF HeterogeneityOK
  <2>5. ~Duplicated(ids)
    <3> HIDE DEF ids, n
    <3> QED BY <2>2, <2>3, <2>4 DEF Duplicated
  <2>6. \A a, b \in 1..n : ids[a] = ids[b] => a = b
    <3> HIDE DEF ids, n
    <3> QED BY <2>1, <2>2, <2>5, NotDuplicated
  <2> QED BY <2>1, <2>6
<1> QED BY <1>2, <1>3, <1>4, <1>5

LEMMA HteDeclares ==
  ASSUME NEW c, HteDeclarationRefusal(c, c.ident, Identification(c.ident)) = NotRefused
  PROVE  /\ Identification(c.ident).adjusts /\ c.ident.adjustment.variables = BoundIds(c)
         /\ c.ident.modifiers = <<c.effect.modifier>>
         /\ HasRole(c.ident, c.effect.modifier, "effect_modifier")
         /\ Variable(c.ident, c.effect.modifier).timing = "pre_treatment"
<1> DEFINE identified == Identification(c.ident)
           one == <<c.effect.modifier>>
<1> HIDE DEF identified, one
<1>1. ModifierRefusal(c, c.ident) = NotRefused /\ BindingRefusal(c, c.ident, identified) = NotRefused
  BY NoneOfTheRefusals DEF HteDeclarationRefusal, identified
<1>2. identified.adjusts /\ c.ident.adjustment.variables = BoundIds(c)
  BY <1>1, NoneOfTheRefusals DEF BindingRefusal
<1>3. /\ c.ident.modifiers = one
      /\ HasRole(c.ident, c.effect.modifier, "effect_modifier")
      /\ Variable(c.ident, c.effect.modifier).timing = "pre_treatment"
  BY <1>1, NoneOfTheRefusals DEF ModifierRefusal, one
<1> QED BY <1>2, <1>3 DEF identified, one

\* What is looked up by its identifier has it.
LEMMA VariableHasId ==
  ASSUME NEW q, IsList(q.variables), NEW id \in Ids(q)
  PROVE  Variable(q, id).id = id
<1> DEFINE I == {i \in DOMAIN q.variables : q.variables[i].id = id}
           n == Len(q.variables)
<1>1. n \in Nat /\ DOMAIN q.variables = 1..n
  BY DEF IsList
<1>2. I # {} /\ I \in SUBSET (1..n)
  BY <1>1 DEF Ids, SetOf
<1>3. Max(I) \in I
  <2> HIDE DEF I, n
  <2> QED BY <1>1, <1>2, MaxIsGreatest
<1> QED BY <1>3 DEF Variable

\* What is estimated for some of the subgroups that have enough units.
LEMMA HteIsEarned ==
  ASSUME NEW c, IsList(c.rows), HeterogeneityOK(c),
         Identification(c.ident).status = "identified", HteAccepts(c),
         NEW supported \in (SUBSET Dense(c)) \ {{}},
         NEW n, n = EstimatedGroups(c, Retained(c), HteFolds(c), supported)
  PROVE  SubgroupsAreSound(c, n)
<1> DEFINE rows == Retained(c)
           within == UNION {Members(c, rows, g) : g \in supported}
           compared == IF Cardinality(supported) >= 2 THEN {"heterogeneity"} ELSE {}
           groups == n.estimates \ {"heterogeneity"}
           modifier == Variable(c.ident, c.effect.modifier)
           Of(g) == {i \in n.rows : WithinGroup(c, g, ModifierOf(c, i))}
<1>1. supported \subseteq GroupIds(c) /\ "heterogeneity" \notin GroupIds(c)
  BY DEF Dense, HeterogeneityOK
<1>2. /\ n.rows = within /\ n.estimates = supported \cup compared
      /\ n.status = IF supported = GroupIds(c) THEN "completed" ELSE "abstained"
  BY DEF EstimatedGroups
<1>3. groups = supported
  BY <1>1, <1>2
<1>4. rows \subseteq DOMAIN c.rows /\ \A i \in rows : ModifierOf(c, i) # None
  BY HteRowsAreFit DEF Retained
<1>5. \A i : i \in within <=> i \in rows /\ GroupAt(c, ModifierOf(c, i)) \in supported
  <2>1. \A g, i : i \in Members(c, rows, g) <=> i \in rows /\ GroupAt(c, ModifierOf(c, i)) = g
    BY DEF Members
  <2> HIDE DEF rows
  <2> QED BY <2>1
<1>6. \A i \in rows, g \in SetOf(c.effect.subgroups) :
        WithinGroup(c, g, ModifierOf(c, i)) <=> GroupAt(c, ModifierOf(c, i)) = g.id
  BY <1>4, MembersAreWithin
<1>7. ASSUME NEW g \in SetOf(c.effect.subgroups)
      PROVE  Of(g) = IF g.id \in supported THEN Members(c, rows, g.id) ELSE {}
  <2> HIDE DEF rows, within
  <2> QED BY <1>2, <1>5, <1>6 DEF Members
<1>8. ASSUME NEW g \in SetOf(c.effect.subgroups), g.id \in supported
      PROVE  /\ Cardinality(Of(g)) >= c.effect.minimum.retained
             /\ Cardinality(ArmOf(c, Of(g), 1)) >= c.effect.minimum.treated
             /\ Cardinality(ArmOf(c, Of(g), 0)) >= c.effect.minimum.control
             /\ \A i \in DOMAIN c.rows \ Of(g) :
                  ModifierOf(c, i) # None /\ WithinGroup(c, g, ModifierOf(c, i)) =>
                    \E column \in DmlColumns(c) : c.rows[i][column] = None
  <2> DEFINE members == Members(c, rows, g.id)
             total == c.effect.minimum.retained
             treated == c.effect.minimum.treated
             control == c.effect.minimum.control
  <2>1. Of(g) = members
    BY <1>7, <1>8
  <2>2. Sparse(c, members) = NoReason
    BY <1>8 DEF Dense
  <2>3. /\ ~(Cardinality(members) < total) /\ ~(Cardinality(ArmOf(c, members, 1)) < treated)
        /\ ~(Cardinality(ArmOf(c, members, 0)) < control)
    <3> HIDE DEF members
    <3> QED BY <2>2 DEF Sparse, NoReason
  <2>4. /\ Cardinality(members) \in Nat /\ Cardinality(ArmOf(c, members, 1)) \in Nat
        /\ Cardinality(ArmOf(c, members, 0)) \in Nat
    <3>1. /\ members \in SUBSET DOMAIN c.rows /\ ArmOf(c, members, 1) \in SUBSET DOMAIN c.rows
          /\ ArmOf(c, members, 0) \in SUBSET DOMAIN c.rows
      BY <1>4 DEF Members, ArmOf
    <3> HIDE DEF members
    <3> QED BY <3>1, RowsAreFew
  <2>5. total \in Nat /\ treated \in Nat /\ control \in Nat
    <3>1. c.effect.minimum \in [{"retained", "treated", "control"} -> Nat]
      BY DEF HeterogeneityOK
    <3> QED BY <3>1
  <2>6. /\ Cardinality(members) >= total /\ Cardinality(ArmOf(c, members, 1)) >= treated
        /\ Cardinality(ArmOf(c, members, 0)) >= control
    <3> HIDE DEF members, total, treated, control
    <3> QED BY <2>3, <2>4, <2>5
  <2>7. ASSUME NEW i \in DOMAIN c.rows \ members, ModifierOf(c, i) # None,
               WithinGroup(c, g, ModifierOf(c, i))
        PROVE  \E column \in DmlColumns(c) : c.rows[i][column] = None
    <3>1. GroupAt(c, ModifierOf(c, i)) = g.id
      BY <2>7, MembersAreWithin
    <3>2. i \notin rows
      BY <2>7, <3>1 DEF Members
    <3> QED BY <2>7, <3>2 DEF Retained, HteColumns, ModifierOf
  <2> QED BY <2>1, <2>6, <2>7
<1>9. BothArms(c, n.rows)
  <2>1. within \subseteq rows
    BY <1>5
  <2>2. ASSUME NEW exposure \in Exposures PROVE ArmOf(c, within, exposure) # {}
    <3>1. PICK id \in supported : id \in GroupIds(c)
      BY <1>1
    <3>2. PICK g \in SetOf(c.effect.subgroups) : g.id = id
      BY <3>1 DEF GroupIds
    <3>3. Of(g) \subseteq within
      BY <1>2
    <3> DEFINE least == IF exposure = 1 THEN c.effect.minimum.treated ELSE c.effect.minimum.control
               arm == ArmOf(c, Of(g), exposure)
    <3>4. Cardinality(arm) >= least
      BY <1>8, <3>1, <3>2 DEF Exposures
    <3>5. least \in Nat /\ least >= 1
      <4>1. c.effect.minimum \in [{"retained", "treated", "control"} -> Nat]
            /\ c.effect.minimum.treated >= 1 /\ c.effect.minimum.control >= 1
        BY DEF HeterogeneityOK
      <4> QED BY <4>1
    <3>6. arm # {}
      <4> HIDE DEF arm, least
      <4> QED BY <3>4, <3>5, FS_EmptySet
    <3> QED BY <3>3, <3>6 DEF ArmOf
  <2> HIDE DEF rows, within
  <2> QED BY <1>2, <2>1, <2>2, HteRowsAreFit DEF BothArms, rows
<1>10. \A i \in n.rows : \A column \in HteColumns(c) : c.rows[i][column] \notin {None, Infinite}
  <2>1. \A i \in rows : ModifierOf(c, i) \notin {None, Infinite}
    <3> SUFFICES ASSUME NEW i \in rows PROVE ModifierOf(c, i) \notin {None, Infinite}
      OBVIOUS
    <3>1. ModifierOf(c, i) # None /\ Fits(c, ModifierOf(c, i)) /\ GroupAt(c, ModifierOf(c, i)) # None
      BY <1>4, HteRowsAreFit
    <3>2. CASE c.effect.kind = "binned"
      <4>1. AssignmentFault(c, i) = NoReason
        BY <1>4 DEF HteAccepts
      <4> QED BY <3>1, <3>2, <4>1 DEF AssignmentFault, NoReason
    <3>3. CASE c.effect.kind # "binned"
      <4>1. PICK k \in DOMAIN c.effect.subgroups :
              WithinGroup(c, c.effect.subgroups[k], ModifierOf(c, i))
        BY <3>1, GroupOfValue
      <4>2. c.effect.subgroups[k].value \notin {None, Infinite}
        BY <3>3 DEF HeterogeneityOK, SetOf
      <4> QED BY <3>3, <4>1, <4>2 DEF WithinGroup
    <3> QED BY <3>2, <3>3
  <2>2. n.rows \subseteq rows
    BY <1>2, <1>5
  <2> HIDE DEF rows
  <2> QED BY <2>1, <2>2, HteRowsAreFit DEF HteColumns, rows, ModifierOf
<1>11. ASSUME NEW i \in n.rows
       PROVE  Cardinality({g \in SetOf(c.effect.subgroups) : i \in Of(g)}) = 1
  <2>1. i \in rows /\ GroupAt(c, ModifierOf(c, i)) \in supported
    BY <1>2, <1>5
  <2>2. Fits(c, ModifierOf(c, i)) /\ GroupAt(c, ModifierOf(c, i)) # None
    BY <1>4, <2>1, HteRowsAreFit
  <2>3. PICK k \in DOMAIN c.effect.subgroups : WithinGroup(c, c.effect.subgroups[k], ModifierOf(c, i))
    BY <2>2, GroupOfValue
  <2> DEFINE one == {c.effect.subgroups[k]}
  <2>4. \A l \in DOMAIN c.effect.subgroups :
          WithinGroup(c, c.effect.subgroups[l], ModifierOf(c, i)) => l = k
    BY <2>2, <2>3, MatchesOne
  <2>5. {g \in SetOf(c.effect.subgroups) : i \in Of(g)} = one
    BY <2>3, <2>4 DEF SetOf
  <2>6. Cardinality(one) = 1
    BY FS_Singleton
  <2> QED BY <2>5, <2>6
<1>12. AdjustedForBefore(c.ident, {b.id : b \in SetOf(c.split.covariates)})
  BY HteDeclares, BoundIsAdjusted DEF HteAccepts, HeterogeneityOK
<1>13. modifier.timing = "pre_treatment" /\ c.ident.modifiers = <<modifier.id>>
  <2>1. /\ c.ident.modifiers = <<c.effect.modifier>> /\ modifier.timing = "pre_treatment"
        /\ c.effect.modifier \in Ids(c.ident)
    BY HteDeclares DEF HteAccepts, HasRole
  <2>2. modifier.id = c.effect.modifier
    BY <2>1, VariableHasId DEF HeterogeneityOK, CrossFittingOK, IdentificationOK
  <2> HIDE DEF modifier
  <2> QED BY <2>1, <2>2
<1>14. "heterogeneity" \in n.estimates <=> Cardinality(groups) >= 2
  BY <1>1, <1>2, <1>3
<1>15. n.status = "completed" <=> groups = GroupIds(c)
  BY <1>2, <1>3
<1>16. \A g \in SetOf(c.effect.subgroups) :
         IF g.id \notin groups THEN Of(g) = {}
         ELSE /\ Cardinality(Of(g)) >= c.effect.minimum.retained
              /\ Cardinality(ArmOf(c, Of(g), 1)) >= c.effect.minimum.treated
              /\ Cardinality(ArmOf(c, Of(g), 0)) >= c.effect.minimum.control
              /\ \A i \in DOMAIN c.rows \ Of(g) :
                   ModifierOf(c, i) # None /\ WithinGroup(c, g, ModifierOf(c, i)) =>
                     \E column \in DmlColumns(c) : c.rows[i][column] = None
  <2> HIDE DEF groups
  <2> QED BY <1>3, <1>7, <1>8
<1> QED BY <1>9, <1>10, <1>11, <1>12, <1>13, <1>14, <1>15, <1>16 DEF SubgroupsAreSound

LEMMA HteDeals ==
  ASSUME NEW c, IsList(c.rows), HeterogeneityOK(c), HteAccepts(c)
  PROVE  Dealt(c, Retained(c))
<1>1. CrossFittingOK(c)
  BY DEF HeterogeneityOK
<1>2. /\ c.split.folds \in Nat /\ c.split.folds >= 2
      /\ Ranked(c, {c.rows[i].unit : i \in DOMAIN c.rows} \ {None, Text, Infinite})
  BY <1>1 DEF CrossFittingOK
<1> QED BY <1>2, HteRowsAreFit DEF HteAccepts, Retained, Dealt

LEMMA HtePredicts ==
  ASSUME NEW c, IsList(c.rows), HeterogeneityOK(c), HteAccepts(c),
         NEW supported, NEW n, n = EstimatedGroups(c, Retained(c), HteFolds(c), supported)
  PROVE  PredictedByOthers(c, n)
<1> DEFINE rows == Retained(c)
           folds == Folds(c, rows)
           within == UNION {Members(c, rows, g) : g \in supported}
<1>1. folds = HteFolds(c)
  BY DEF HteFolds
<1>2. \A i \in rows : /\ i \notin Complement(folds, i)
                      /\ \A exposure \in Exposures : ArmOf(c, Complement(folds, i), exposure) # {}
  BY HteDeals, OthersPredict
<1>3. within \subseteq rows
  BY DEF Members
<1> HIDE DEF folds, rows
<1>4. n.rows = within /\ \A i \in within : n.trained[i] = Complement(folds, i)
  BY <1>1 DEF EstimatedGroups, rows
<1> HIDE DEF within
<1> QED BY <1>2, <1>3, <1>4 DEF PredictedByOthers

(***************************************************************************)
(* A panel.  What difference in differences takes for granted of its rows  *)
(* rests on the identification only where a variable's own timing does not *)
(* hide what is wrong with it.                                             *)
(***************************************************************************)
LEMMA AboutHasCode ==
  /\ \A ids, code, category : \A d \in About(ids, code, category) : d.code = code
  /\ \A condition, code, category : \A d \in When(condition, code, category) : d.code = code
  BY DEF About, When

\* The code of reversed timing is told of a variable or of the periods only.
LEMMA ReversedIsTold ==
  ASSUME NEW q, NEW d \in IdentificationDiagnostics(q), d.code = "time.reversed"
  PROVE  \/ \E v \in SetOf(q.variables) : Contradicted(v)
         \/ None \notin {q.pre, q.post} /\ q.pre.end > q.post.start
<1> DEFINE reversed == {v.id : v \in {w \in SetOf(q.variables) : Contradicted(w)}}
<1>1. d \notin DeclarationDiagnostics(q)
  BY AboutHasCode DEF DeclarationDiagnostics
<1>2. ASSUME d \in VariableDiagnostics(q) PROVE \E v \in SetOf(q.variables) : Contradicted(v)
  <2>1. d \in About(reversed, "time.reversed", "timing")
    <3> HIDE DEF reversed
    <3> QED BY <1>2, AboutHasCode DEF VariableDiagnostics, reversed
  <2> QED BY <2>1 DEF About
<1>3. d \notin AdjustmentDiagnostics(q)
  <2> DEFINE pieces == {About({id}, AdjustmentCode(Variable(q, id)), "adjustment") :
                          id \in {a \in SetOf(q.adjustment.variables) \cap Ids(q) :
                                    AdjustmentCode(Variable(q, a)) # NoReason}}
  <2>1. d \notin UNION pieces
    <3>1. \A v : AdjustmentCode(v) # "time.reversed"
      BY DEF AdjustmentCode, NoReason
    <3>2. \A piece \in pieces : \E id : piece = About({id}, AdjustmentCode(Variable(q, id)), "adjustment")
      OBVIOUS
    <3> HIDE DEF pieces
    <3>3. \A piece \in pieces : d \notin piece
      <4> SUFFICES ASSUME NEW piece \in pieces, d \in piece PROVE FALSE
        OBVIOUS
      <4>1. PICK id : piece = About({id}, AdjustmentCode(Variable(q, id)), "adjustment")
        BY <3>2
      <4>2. d.code = AdjustmentCode(Variable(q, id))
        BY <4>1 DEF About
      <4> QED BY <3>1, <4>2
    <3> QED BY <3>3
  <2> HIDE DEF pieces
  <2> QED BY <2>1, AboutHasCode DEF AdjustmentDiagnostics, pieces
<1>4. d \notin ModifierDiagnostics(q)
  BY AboutHasCode DEF ModifierDiagnostics
<1>5. d \notin GraphDiagnostics(q)
  <2>1. \A g, variable : \A code \in {"graph.missing_treatment", "graph.missing_outcome"} :
          d \notin EndpointDiagnostics(g, variable, code)
    BY AboutHasCode DEF EndpointDiagnostics
  <2> QED BY <2>1, AboutHasCode DEF GraphDiagnostics
<1>6. ASSUME d \in DesignDiagnostics(q)
      PROVE  None \notin {q.pre, q.post} /\ q.pre.end > q.post.start
  <2> DEFINE did == q.design = "difference_in_differences"
             late == did /\ None \notin {q.pre, q.post} /\ q.pre.end > q.post.start
  <2>1. d \in When(late, "time.reversed", "timing")
    <3> HIDE DEF late
    <3> QED BY <1>6, AboutHasCode DEF DesignDiagnostics, late
  <2> QED BY <2>1 DEF When
<1>7. d \notin AssumptionDiagnostics(q)
  BY AboutHasCode DEF AssumptionDiagnostics
<1> QED BY <1>1, <1>2, <1>3, <1>4, <1>5, <1>6, <1>7 DEF IdentificationDiagnostics

\* What the service declares of a request it takes.
LEMMA DidDeclaresNothing ==
  ASSUME NEW q, DidDeclared(q) = {}
  PROVE  /\ q.estimand # None /\ q.estimand.kind = "did_att"
         /\ None \notin {q.pre, q.post} => ~(q.pre.end > q.post.start)
  BY DEF DidDeclared, If

\* An estimate of a panel whose variables do not hide it was identified, and so
\* has a start.
LEMMA StartIsDeclared ==
  ASSUME NEW q, DidDeclared(q) = {}, DidIdentification(Identification(q)) = {},
         ~\E v \in SetOf(q.variables) : Contradicted(v)
  PROVE  q.start # None /\ q.treatment # None
<1> DEFINE identified == Identification(q)
           D == IdentificationDiagnostics(q)
           codes == {d.code : d \in D}
<1>1. "time.reversed" \notin codes
  <2>1. \A d \in D : d.code # "time.reversed"
    BY ReversedIsTold, DidDeclaresNothing
  <2> QED BY <2>1
<1>2. identified.codes = codes
  BY DEF Identification, Identified
<1>3. identified.status = "identified"
  <2> HIDE DEF identified, codes
  <2> QED BY <1>1, <1>2 DEF DidIdentification, If, identified
<1>4. DesignDiagnostics(q) = {}
  BY <1>3, IdentifiedHasNone DEF IdentificationDiagnostics
<1> DEFINE did == q.design = "difference_in_differences"
           kind == IF q.estimand = None THEN None ELSE q.estimand.kind
           mismatch == \/ did /\ kind \notin {None, "did_att"}
                       \/ ~did /\ kind = "did_att"
                       \/ q.design = "heterogeneous_effects" /\ kind \notin {None, "cate"}
           startless == did /\ q.start = None
<1>5. /\ q.design # "custom"
      /\ When(mismatch, "estimand.design_mismatch", "estimand") = {}
      /\ When(startless, "time.missing_treatment_start", "timing") = {}
  <2>1. About({None}, "design.unsupported", "design") # {}
    BY NothingTold
  <2> HIDE DEF mismatch, startless
  <2> QED BY <1>4, <2>1 DEF DesignDiagnostics, mismatch, startless
<1>6. mismatch \in BOOLEAN /\ startless \in BOOLEAN
  OBVIOUS
<1>7. ~mismatch /\ ~startless
  <2> HIDE DEF mismatch, startless
  <2> QED BY <1>5, <1>6, NothingTold
<1> DEFINE missing == q.treatment = None
<1>8. ~missing
  <2>1. DeclarationDiagnostics(q) = {}
    BY <1>3, IdentifiedHasNone DEF IdentificationDiagnostics
  <2>2. When(missing, "identification.missing_treatment", "request") = {}
    BY <2>1 DEF DeclarationDiagnostics
  <2>3. missing \in BOOLEAN
    OBVIOUS
  <2> HIDE DEF missing
  <2> QED BY <2>2, <2>3, NothingTold
<1> QED BY <1>7, <1>8, DidDeclaresNothing

\* Of a set there is one element when there is one, and no two.
LEMMA OnlyOne ==
  ASSUME NEW T, IsFiniteSet(T), T # {}, ~(Cardinality(T) > 1)
  PROVE  Cardinality(T) = 1
<1>1. Cardinality(T) \in Nat /\ Cardinality(T) # 0
  BY FS_CardinalityType, FS_EmptySet
<1> QED BY <1>1

\* A unit of a panel is of one group, by all its rows.
LEMMA PanelGroups ==
  ASSUME NEW c, PanelCodes(c, Canonical(c)) = {}, NEW i \in Canonical(c)
  PROVE  /\ c.rows[i].group \in Groups
         /\ c.rows[i].unit \in UnitsOf(c, Canonical(c), c.rows[i].group)
<1> DEFINE rows == Canonical(c)
           units == UnitsIn(c, rows)
           unit == c.rows[i].unit
           held == Memberships(c, rows, unit)
           unknown == \E u \in units : None \in Memberships(c, rows, u)
           switched == \E u \in units : Groups \subseteq Memberships(c, rows, u)
<1>1. ~unknown /\ ~switched
  <2>1. If(unknown, {"did.unknown_group"}) = {} /\ If(switched, {"did.group_switching"}) = {}
    <3> HIDE DEF unknown, switched
    <3> QED BY DEF PanelCodes, unknown, switched
  <2> HIDE DEF unknown, switched
  <2> QED BY <2>1 DEF If
<1>2. unit \in units /\ i \in OfUnit(c, rows, unit)
  BY DEF UnitsIn, OfUnit
<1>3. None \notin held /\ ~(Groups \subseteq held) /\ GroupOf(c.rows[i]) \in held
  BY <1>1, <1>2 DEF Memberships
<1>4. held \subseteq Groups \cup {None}
  BY DEF Memberships, GroupOf
<1>5. c.rows[i].group \in Groups /\ GroupOf(c.rows[i]) = c.rows[i].group
  BY <1>3 DEF GroupOf
<1>6. held = {c.rows[i].group}
  <2> HIDE DEF held
  <2> QED BY <1>3, <1>4, <1>5 DEF Groups
<1> QED BY <1>2, <1>5, <1>6 DEF UnitsOf

\* Every unit once before and once after.
LEMMA PanelIsBalanced ==
  ASSUME NEW c, IsList(c.rows), DidOK(c), PanelCodes(c, Canonical(c)) = {},
         Canonical(c) # {}, DidDeclared(c.ident) = {}
  PROVE  /\ \A unit \in UnitsIn(c, Canonical(c)) :
              /\ Cardinality({i \in Canonical(c) : c.rows[i].unit = unit /\ IsPre(c, i)}) = 1
              /\ Cardinality({i \in Canonical(c) : c.rows[i].unit = unit /\ IsPost(c, i)}) = 1
         /\ \A i \in Canonical(c) : c.rows[i].outcome \in Int
<1> DEFINE q == c.ident
           rows == Canonical(c)
           units == UnitsIn(c, rows)
           Pre(unit) == {i \in OfUnit(c, rows, unit) : ~IsPost(c, i)}
           Post(unit) == {i \in OfUnit(c, rows, unit) : IsPost(c, i)}
           twice == \E unit \in units : Cardinality(Pre(unit)) > 1 \/ Cardinality(Post(unit)) > 1
           partial == \E unit \in units : {} \in {Pre(unit), Post(unit)}
           missing == \E i \in rows : c.rows[i].outcome = None
           nonfinite == \E i \in rows : c.rows[i].outcome \in {Text, Infinite}
<1>1. ~twice /\ ~partial /\ ~missing /\ ~nonfinite
  <2>1. /\ If(twice, {"did.duplicate_unit_period"}) = {}
        /\ If(partial, {"did.composition_change", "did.incomplete_unit_coverage"}) = {}
        /\ If(missing, {"did.missing_outcome"}) = {}
        /\ If(nonfinite, {"did.nonfinite_outcome"}) = {}
    BY DEF PanelCodes
  <2> HIDE DEF twice, partial, missing, nonfinite
  <2> QED BY <2>1 DEF If
<1>2. rows \subseteq DOMAIN c.rows /\ Windowed(q) /\ \A i \in rows : IsPre(c, i) \/ IsPost(c, i)
  BY DEF Canonical
<1>3. IsPeriod(q.pre) /\ IsPeriod(q.post) /\ ~(q.pre.end > q.post.start)
  BY <1>2, DidDeclaresNothing DEF Windowed, DidOK, IdentificationOK
<1>4. \A i \in rows : IsPre(c, i) <=> ~IsPost(c, i)
  <2> SUFFICES ASSUME NEW i \in rows, IsPre(c, i), IsPost(c, i) PROVE FALSE
    BY <1>2
  <2> DEFINE t == c.rows[i].time
             e == q.pre.end
             s == q.post.start
  <2>1. t \in Int /\ t < e /\ s <= t /\ e \in Nat /\ s \in Nat /\ ~(e > s)
    BY <1>3 DEF IsPre, IsPost, Within, IsPeriod
  <2> HIDE DEF t, e, s
  <2> QED BY <2>1
<1>5. ASSUME NEW unit \in units
      PROVE  /\ Cardinality({i \in rows : c.rows[i].unit = unit /\ IsPre(c, i)}) = 1
             /\ Cardinality({i \in rows : c.rows[i].unit = unit /\ IsPost(c, i)}) = 1
  <2>1. /\ {i \in rows : c.rows[i].unit = unit /\ IsPre(c, i)} = Pre(unit)
        /\ {i \in rows : c.rows[i].unit = unit /\ IsPost(c, i)} = Post(unit)
    <3> HIDE DEF rows
    <3> QED BY <1>4 DEF OfUnit
  <2>2. Pre(unit) \in SUBSET DOMAIN c.rows /\ Post(unit) \in SUBSET DOMAIN c.rows
    BY <1>2 DEF OfUnit
  <2>3. IsFiniteSet(Pre(unit)) /\ IsFiniteSet(Post(unit))
    <3> HIDE DEF Pre, Post
    <3> QED BY <2>2, RowsAreFew
  <2>4. /\ Pre(unit) # {} /\ Post(unit) # {}
        /\ ~(Cardinality(Pre(unit)) > 1) /\ ~(Cardinality(Post(unit)) > 1)
    <3> HIDE DEF Pre, Post, units
    <3> QED BY <1>1
  <2>5. Cardinality(Pre(unit)) = 1 /\ Cardinality(Post(unit)) = 1
    <3> HIDE DEF Pre, Post
    <3> QED BY <2>3, <2>4, OnlyOne
  <2> QED BY <2>1, <2>5
<1>6. \A i \in rows : c.rows[i].outcome \in Int
  <2>1. \A i \in rows : Numeric(c.rows[i].outcome)
    BY <1>2 DEF DidOK
  <2> QED BY <1>1, <2>1 DEF Numeric
<1> QED BY <1>5, <1>6

\* The treated change when and as it was declared, the others never.
LEMMA PanelIsAdopted ==
  ASSUME NEW c, PanelCodes(c, Canonical(c)) = {}, AdoptionCodes(c, Canonical(c)) = {},
         NEW i \in Canonical(c)
  PROVE  /\ c.rows[i].exposure = IF c.rows[i].group = "treated" /\ IsPost(c, i) THEN 1 ELSE 0
         /\ c.rows[i].start = IF c.rows[i].group = "treated" THEN c.ident.start ELSE None
<1> DEFINE rows == Canonical(c)
           Of(group) == {j \in rows : c.rows[j].unit \in UnitsOf(c, rows, group)}
           staggered == \E j \in Of("treated") : c.rows[j].start # c.ident.start
           anticipated == \E j \in Of("treated") : ~IsPost(c, j) /\ c.rows[j].exposure = 1
           reverted == \E j \in Of("treated") : IsPost(c, j) /\ c.rows[j].exposure # 1
           adopted == \E j \in Of("control") : ~Unexposed(c.rows[j])
           invalid == \E j \in Of("treated") \cup Of("control") : c.rows[j].exposure \notin Exposures
<1>1. ~staggered /\ ~anticipated /\ ~reverted /\ ~adopted /\ ~invalid
  <2>1. /\ If(staggered, {"did.staggered_adoption"}) = {}
        /\ If(anticipated, {"did.anticipatory_exposure"}) = {}
        /\ If(reverted, {"did.treatment_reversal"}) = {}
        /\ If(adopted, {"did.control_adoption"}) = {}
        /\ If(invalid, {"did.invalid_treatment_value"}) = {}
    <3> HIDE DEF staggered, anticipated, reverted, adopted, invalid
    <3> QED BY DEF AdoptionCodes, staggered, anticipated, reverted, adopted, invalid
  <2> HIDE DEF staggered, anticipated, reverted, adopted, invalid
  <2> QED BY <2>1 DEF If
<1>2. c.rows[i].group \in Groups /\ i \in Of(c.rows[i].group)
  BY PanelGroups
<1>3. CASE c.rows[i].group = "treated"
  <2>1. i \in Of("treated")
    BY <1>2, <1>3
  <2> HIDE DEF Of
  <2> QED BY <1>1, <1>3, <2>1 DEF Exposures
<1>4. CASE c.rows[i].group = "control"
  <2>1. i \in Of("control")
    BY <1>2, <1>4
  <2> HIDE DEF Of
  <2> QED BY <1>1, <1>4, <2>1 DEF Exposures, Unexposed
<1> QED BY <1>2, <1>3, <1>4 DEF Groups

\* A group has clusters enough.
LEMMA GroupsAreEnough ==
  ASSUME NEW c, IsList(c.rows), PanelCodes(c, Canonical(c)) = {},
         ClusterCodesOf(c, Canonical(c))
           \cap {"did.insufficient_clusters", "did.insufficient_group_clusters"} = {},
         NEW group \in Groups
  PROVE  Cardinality({c.rows[i].unit : i \in {j \in Canonical(c) : c.rows[j].group = group}})
           >= DidPolicy.minimumPerGroup
<1> DEFINE rows == Canonical(c)
           sizes == {Cardinality(UnitsOf(c, rows, g)) : g \in Groups}
           smallest == Min(sizes)
           total == Cardinality(UnitsIn(c, rows))
           few == smallest < DidPolicy.minimumPerGroup
           own == {c.rows[i].unit : i \in {j \in rows : c.rows[j].group = group}}
<1>1. ~few
  <2>1. If(few, {"did.insufficient_group_clusters"})
          \cap {"did.insufficient_clusters", "did.insufficient_group_clusters"} = {}
    <3> HIDE DEF total
    <3> QED BY DEF ClusterCodesOf, ClusterPolicyCodes, total
  <2> HIDE DEF few
  <2> QED BY <2>1 DEF If
<1>2. own = UnitsOf(c, rows, group)
  <2>1. own \subseteq UnitsOf(c, rows, group)
    BY PanelGroups
  <2>2. UnitsOf(c, rows, group) \subseteq own
    <3> SUFFICES ASSUME NEW unit \in UnitsOf(c, rows, group) PROVE unit \in own
      OBVIOUS
    <3>1. unit \in UnitsIn(c, rows) /\ Memberships(c, rows, unit) = {group}
      BY DEF UnitsOf
    <3>2. PICK i \in rows : c.rows[i].unit = unit
      BY <3>1 DEF UnitsIn
    <3>3. GroupOf(c.rows[i]) = group
      BY <3>1, <3>2 DEF Memberships, OfUnit
    <3>4. c.rows[i].group = group
      BY <3>3, PanelGroups DEF GroupOf
    <3> QED BY <3>2, <3>4
  <2> QED BY <2>1, <2>2
<1>3. sizes \subseteq Nat /\ sizes # {}
  <2>1. rows \in SUBSET DOMAIN c.rows
    BY DEF Canonical
  <2>2. IsFiniteSet(rows)
    <3> HIDE DEF rows
    <3> QED BY <2>1, RowsAreFew
  <2>3. IsFiniteSet(UnitsIn(c, rows))
    <3> DEFINE f == [i \in rows |-> c.rows[i].unit]
               units == UnitsIn(c, rows)
    <3> HIDE DEF rows
    <3>1. f \in Surjection(rows, units)
      BY DEF Surjection, UnitsIn
    <3> HIDE DEF f, units
    <3>2. IsFiniteSet(units)
      BY <2>2, <3>1, FS_Surjection
    <3> QED BY <3>2 DEF units
  <2>4. \A g \in Groups : UnitsOf(c, rows, g) \in SUBSET UnitsIn(c, rows)
    BY DEF UnitsOf
  <2>5. \A g \in Groups : Cardinality(UnitsOf(c, rows, g)) \in Nat
    <3> HIDE DEF rows
    <3> QED BY <2>3, <2>4, FS_Subset, FS_CardinalityType
  <2> HIDE DEF rows
  <2> QED BY <2>5 DEF Groups
<1>4. Cardinality(own) \in sizes
  BY <1>2
<1>5. smallest \in Nat /\ smallest <= Cardinality(own) /\ Cardinality(own) \in Nat
  <2> HIDE DEF sizes, own
  <2>1. smallest \in sizes /\ \A y \in sizes : smallest <= y
    BY <1>3, MinIsLeast
  <2> HIDE DEF smallest
  <2> QED BY <1>3, <1>4, <2>1
<1>6. DidPolicy.minimumPerGroup \in Nat
  BY DidPolicyAssumption
<1> DEFINE least == DidPolicy.minimumPerGroup
           count == Cardinality(own)
<1>7. count >= least
  <2> HIDE DEF own, smallest, count, least
  <2>1. ~(smallest < least) /\ least \in Nat /\ smallest \in Nat /\ count \in Nat /\ smallest <= count
    BY <1>1, <1>5, <1>6 DEF count, least
  <2> QED BY <2>1
<1> QED BY <1>7

LEMMA DidIsEarned ==
  ASSUME NEW c, IsList(c.rows), DidOK(c), PanelAccepts(c), Canonical(c) # {},
         NEW n, n.rows = Canonical(c)
  PROVE  PanelIsSound(c, n)
<1> DEFINE q == c.ident
           rows == Canonical(c)
           Seen(unit, p) == {i \in n.rows : c.rows[i].unit = unit /\ Within(c.rows[i].time, p)}
<1>1. /\ DidDeclared(q) = {} /\ DidIdentification(Identification(q)) = {}
      /\ RowCodes(c) = {} /\ PanelCodes(c, rows) = {}
      /\ None \notin {q.treatment, q.start} => AdoptionCodes(c, rows) = {}
  BY DEF PanelAccepts
<1>2. \A unit \in UnitsIn(c, n.rows) :
        Cardinality(Seen(unit, q.pre)) = 1 /\ Cardinality(Seen(unit, q.post)) = 1
  BY <1>1, PanelIsBalanced DEF IsPre, IsPost
<1>3. \A i \in n.rows : c.rows[i].outcome \in Int
  BY <1>1, PanelIsBalanced
<1>4. ~TimingHides(c) => \A i \in n.rows :
        /\ c.rows[i].exposure
             = IF c.rows[i].group = "treated" /\ Within(c.rows[i].time, q.post) THEN 1 ELSE 0
        /\ c.rows[i].start = IF c.rows[i].group = "treated" THEN q.start ELSE None
  <2>1. ~TimingHides(c) => AdoptionCodes(c, rows) = {}
    BY <1>1, StartIsDeclared DEF TimingHides
  <2> QED BY <1>1, <2>1, PanelIsAdopted DEF IsPost
<1>5. \A group \in Groups :
        Cardinality({c.rows[i].unit : i \in {j \in n.rows : c.rows[j].group = group}})
          >= DidPolicy.minimumPerGroup
  BY <1>1, GroupsAreEnough DEF PanelAccepts
<1>6. \A i \in DOMAIN c.rows \ n.rows : InExtra(c, i)
  <2> DEFINE timed == {i \in DOMAIN c.rows : c.rows[i].time \in Int}
             placed == {i \in timed : IsPre(c, i) \/ IsPost(c, i) \/ InExtra(c, i)}
             untimed == Windowed(c.ident) /\ timed # DOMAIN c.rows
             displaced == Windowed(c.ident) /\ placed # timed
             unknown == Windowed(c.ident) /\ \E i \in placed : ~IsUnit(c.rows[i].unit)
  <2>1. /\ If(untimed, {"did.invalid_time_value"}) = {}
        /\ If(displaced, {"did.unsupported_period"}) = {}
        /\ If(unknown, {"did.invalid_unit"}) = {}
    <3> HIDE DEF untimed, displaced, unknown
    <3> QED BY <1>1 DEF RowCodes, untimed, displaced, unknown
  <2>2. ~untimed /\ ~displaced /\ ~unknown
    <3> HIDE DEF untimed, displaced, unknown
    <3> QED BY <2>1 DEF If
  <2>3. Windowed(c.ident)
    BY DEF Canonical
  <2>4. \A i \in DOMAIN c.rows : /\ IsPre(c, i) \/ IsPost(c, i) \/ InExtra(c, i)
                                 /\ IsUnit(c.rows[i].unit)
    BY <2>2, <2>3
  <2> QED BY <2>3, <2>4 DEF Canonical
<1> QED BY <1>2, <1>3, <1>4, <1>5, <1>6 DEF PanelIsSound

(***************************************************************************)
(* The table from the last row to the first.  Its rows are those of the    *)
(* table, each at its mirrored place, and nothing that cross-fitting       *)
(* decides depends on the place of a row.                                  *)
(***************************************************************************)
Mirror(c, i) == Len(c.rows) + 1 - i

Reflects(c, d) ==
  /\ IsList(c.rows) /\ IsList(d.rows) /\ DOMAIN d.rows = DOMAIN c.rows
  /\ \A i \in DOMAIN c.rows : d.rows[Mirror(c, i)] = c.rows[i]
  /\ d.req = c.req /\ d.ident = c.ident /\ d.columns = c.columns /\ d.split = c.split
  /\ c.req.method \in SubgroupMethods => d.effect = c.effect
  /\ c.req.method \in {"econml_dml", "econml_hte"} => d.adapter = c.adapter

LEMMA ReversalReflects ==
  ASSUME NEW c, IsList(c.rows), CrossFittingOK(c),
         c.req.method \in SubgroupMethods => "effect" \in DOMAIN c
  PROVE  Reflects(c, Reversal(c))
<1> DEFINE d == Reversal(c)
           L == Len(c.rows)
           mirrored == [i \in 1..L |-> c.rows[(L - i) + 1]]
<1>1. L \in Nat /\ DOMAIN c.rows = 1..L
  BY DEF IsList
<1>2. {"req", "ident", "columns", "rows", "split"} \subseteq DOMAIN c
  BY DEF CrossFittingOK
<1>3. d = [c EXCEPT !.rows = mirrored]
  BY DEF Reversal, Reverse
<1>4. d.rows = mirrored
  <2> HIDE DEF mirrored
  <2> QED BY <1>2, <1>3
<1>5. /\ d.req = c.req /\ d.ident = c.ident /\ d.columns = c.columns /\ d.split = c.split
      /\ c.req.method \in SubgroupMethods => d.effect = c.effect
      /\ c.req.method \in {"econml_dml", "econml_hte"} => d.adapter = c.adapter
  <2>1. c.req.method \in {"econml_dml", "econml_hte"} => "adapter" \in DOMAIN c
    BY DEF CrossFittingOK
  <2> HIDE DEF mirrored, d
  <2> QED BY <1>2, <1>3, <2>1
<1>6. DOMAIN mirrored = 1..L /\ mirrored \in Seq(SetOf(mirrored))
  <2>1. DOMAIN mirrored = 1..L /\ \A i \in 1..L : mirrored[i] \in SetOf(mirrored)
    BY DEF SetOf
  <2>2. mirrored = [i \in 1..L |-> mirrored[i]]
    OBVIOUS
  <2> HIDE DEF mirrored, L
  <2>3. mirrored \in [1..L -> SetOf(mirrored)]
    BY <2>1, <2>2
  <2> QED BY <1>1, <2>1, <2>3
<1>7. ASSUME NEW i \in 1..L PROVE mirrored[(L + 1) - i] = c.rows[i]
  <2> DEFINE j == (L + 1) - i
  <2>1. j \in 1..L /\ (L - j) + 1 = i
    BY <1>1
  <2>2. \A k \in 1..L : mirrored[k] = c.rows[(L - k) + 1]
    OBVIOUS
  <2>3. mirrored[j] = c.rows[(L - j) + 1]
    BY Zenon, <2>1, <2>2
  <2>4. (L - j) + 1 = i
    BY Zenon, <2>1
  <2> QED BY Zenon, <2>3, <2>4
<1> HIDE DEF d, mirrored
<1> QED BY <1>1, <1>4, <1>5, <1>6, <1>7 DEF Reflects, Mirror, IsList, d

LEMMA MirrorsBack ==
  ASSUME NEW c, IsList(c.rows), NEW i \in DOMAIN c.rows
  PROVE  Mirror(c, i) \in DOMAIN c.rows /\ Mirror(c, Mirror(c, i)) = i
<1> DEFINE L == Len(c.rows)
<1>1. L \in Nat /\ DOMAIN c.rows = 1..L
  BY DEF IsList
<1> HIDE DEF L
<1> QED BY <1>1 DEF Mirror, L

LEMMA MirroredRows ==
  ASSUME NEW c, IsList(c.rows), NEW rows \in SUBSET DOMAIN c.rows
  PROVE  /\ Mirrored(c, rows) \in SUBSET DOMAIN c.rows
         /\ \A i \in DOMAIN c.rows : Mirror(c, i) \in Mirrored(c, rows) <=> i \in rows
         /\ \A j \in DOMAIN c.rows : j \in Mirrored(c, rows) <=> Mirror(c, j) \in rows
         /\ IsFiniteSet(rows) /\ IsFiniteSet(Mirrored(c, rows))
         /\ Cardinality(Mirrored(c, rows)) = Cardinality(rows)
<1> DEFINE other == Mirrored(c, rows)
           f == [i \in rows |-> Mirror(c, i)]
<1>1. other = {Mirror(c, i) : i \in rows}
  BY DEF Mirrored, Mirror
<1>2. \A i \in DOMAIN c.rows : Mirror(c, i) \in DOMAIN c.rows /\ Mirror(c, Mirror(c, i)) = i
  BY MirrorsBack
<1> HIDE DEF other
<1>3. /\ other \in SUBSET DOMAIN c.rows
      /\ \A i \in DOMAIN c.rows : Mirror(c, i) \in other <=> i \in rows
      /\ \A j \in DOMAIN c.rows : j \in other <=> Mirror(c, j) \in rows
  BY <1>1, <1>2
<1>4. IsFiniteSet(rows)
  BY RowsAreFew
<1>5. f \in Bijection(rows, other)
  <2>1. f \in [rows -> other] /\ \A y \in other : \E x \in rows : f[x] = y
    BY <1>1
  <2>2. \A x, y \in rows : f[x] = f[y] => x = y
    <3>1. \A x, y \in rows : Mirror(c, x) = Mirror(c, y) => x = y
      BY <1>2
    <3> QED BY <3>1
  <2> HIDE DEF f
  <2> QED BY <2>1, <2>2 DEF Bijection, Injection, Surjection, IsInjective
<1>6. IsFiniteSet(other) /\ Cardinality(other) = Cardinality(rows)
  <2> HIDE DEF f
  <2>1. ExistsBijection(rows, other)
    BY <1>5 DEF ExistsBijection
  <2> QED BY <1>4, <2>1, FS_Bijection
<1> QED BY <1>3, <1>4, <1>6 DEF other

LEMMA ReflectedRow ==
  ASSUME NEW c, NEW d, Reflects(c, d), NEW j \in DOMAIN c.rows
  PROVE  d.rows[j] = c.rows[Mirror(c, j)] /\ Mirror(c, j) \in DOMAIN c.rows
  BY MirrorsBack DEF Reflects

\* A part of a set of rows that is told by what is in a row is mirrored with it.
LEMMA PartsReflect ==
  ASSUME NEW c, IsList(c.rows),
         NEW part \in SUBSET DOMAIN c.rows, NEW other \in SUBSET DOMAIN c.rows,
         \A j \in DOMAIN c.rows : j \in other <=> Mirror(c, j) \in part
  PROVE  other = Mirrored(c, part)
<1>1. \A j \in DOMAIN c.rows : j \in Mirrored(c, part) <=> Mirror(c, j) \in part
  BY MirroredRows
<1>2. Mirrored(c, part) \in SUBSET DOMAIN c.rows
  BY MirroredRows
<1> QED BY <1>1, <1>2

LEMMA ArmsReflect ==
  ASSUME NEW c, NEW d, Reflects(c, d), NEW rows \in SUBSET DOMAIN c.rows, NEW exposure
  PROVE  ArmOf(d, Mirrored(c, rows), exposure) = Mirrored(c, ArmOf(c, rows, exposure))
<1> DEFINE other == ArmOf(d, Mirrored(c, rows), exposure)
           part == ArmOf(c, rows, exposure)
<1>1. IsList(c.rows)
  BY DEF Reflects
<1>2. /\ Mirrored(c, rows) \in SUBSET DOMAIN c.rows
      /\ \A j \in DOMAIN c.rows : j \in Mirrored(c, rows) <=> Mirror(c, j) \in rows
  BY <1>1, MirroredRows
<1>3. part \in SUBSET DOMAIN c.rows /\ other \in SUBSET DOMAIN c.rows
  BY <1>2 DEF ArmOf
<1>4. \A j \in DOMAIN c.rows : j \in other <=> Mirror(c, j) \in part
  BY <1>2, ReflectedRow DEF ArmOf
<1> HIDE DEF other, part
<1>5. other = Mirrored(c, part)
  BY <1>1, <1>3, <1>4, PartsReflect
<1> QED BY <1>5 DEF other, part

LEMMA FoldsReflect ==
  ASSUME NEW c, NEW d, Reflects(c, d), NEW rows \in SUBSET DOMAIN c.rows, NEW j \in Mirrored(c, rows)
  PROVE  FoldOf(d, Mirrored(c, rows), j) = FoldOf(c, rows, Mirror(c, j))
<1> DEFINE i == Mirror(c, j)
           exposure == c.rows[i].exposure
           arm == ArmOf(c, rows, exposure)
           opposite == ArmOf(d, Mirrored(c, rows), exposure)
           part == {k \in arm : c.split.rank[c.rows[k].unit] < c.split.rank[c.rows[i].unit]}
           other == {k \in opposite : c.split.rank[d.rows[k].unit] < c.split.rank[d.rows[j].unit]}
<1>1. IsList(c.rows) /\ d.split = c.split
  BY DEF Reflects
<1>2. Mirrored(c, rows) \in SUBSET DOMAIN c.rows
  BY <1>1, MirroredRows
<1>3. j \in DOMAIN c.rows
  BY <1>2
<1>4. d.rows[j] = c.rows[i]
  BY <1>3, ReflectedRow
<1>5. arm \in SUBSET DOMAIN c.rows /\ opposite = Mirrored(c, arm)
  <2>1. arm \in SUBSET DOMAIN c.rows
    BY DEF ArmOf
  <2> QED BY <2>1, ArmsReflect
<1>6. /\ opposite \in SUBSET DOMAIN c.rows
      /\ \A k \in DOMAIN c.rows : k \in opposite <=> Mirror(c, k) \in arm
  <2> HIDE DEF arm, opposite
  <2> QED BY <1>1, <1>5, MirroredRows
<1> HIDE DEF arm, opposite, i
<1>7. part \in SUBSET DOMAIN c.rows /\ other \in SUBSET DOMAIN c.rows
  BY <1>5, <1>6
<1>8. \A k \in DOMAIN c.rows : k \in other <=> Mirror(c, k) \in part
  BY <1>4, <1>6, ReflectedRow
<1>9. Cardinality(other) = Cardinality(part)
  <2> HIDE DEF other, part
  <2>1. other = Mirrored(c, part)
    BY <1>1, <1>7, <1>8, PartsReflect
  <2> QED BY <1>1, <1>7, <2>1, MirroredRows
<1>10. FoldOf(c, rows, i) = Cardinality(part) % c.split.folds
  BY DEF FoldOf, arm
<1>11. FoldOf(d, Mirrored(c, rows), j) = Cardinality(other) % c.split.folds
  BY <1>1, <1>4 DEF FoldOf, opposite
<1> HIDE DEF part, other
<1> QED BY <1>9, <1>10, <1>11 DEF i

LEMMA TrainingReflects ==
  ASSUME NEW c, NEW d, Reflects(c, d), NEW rows \in SUBSET DOMAIN c.rows
  PROVE  /\ \A j \in Mirrored(c, rows) :
              Complement(Folds(d, Mirrored(c, rows)), j)
                = Mirrored(c, Complement(Folds(c, rows), Mirror(c, j)))
         /\ PlanFails(d, Folds(d, Mirrored(c, rows))) <=> PlanFails(c, Folds(c, rows))
<1> DEFINE back == Mirrored(c, rows)
           folds == Folds(c, rows)
           turned == Folds(d, back)
<1>1. IsList(c.rows) /\ d.split = c.split
  BY DEF Reflects
<1>2. /\ back \in SUBSET DOMAIN c.rows
      /\ \A j \in DOMAIN c.rows : j \in back <=> Mirror(c, j) \in rows
  BY <1>1, MirroredRows
<1>3. DOMAIN folds = rows /\ DOMAIN turned = back
  BY DEF Folds
<1>4. \A j \in back : turned[j] = folds[Mirror(c, j)]
  BY <1>2, FoldsReflect DEF Folds
<1> HIDE DEF folds, turned, back
<1>5. ASSUME NEW j \in back
      PROVE  Complement(turned, j) = Mirrored(c, Complement(folds, Mirror(c, j)))
  <2> DEFINE part == Complement(folds, Mirror(c, j))
             other == Complement(turned, j)
  <2>1. part \in SUBSET DOMAIN c.rows /\ other \in SUBSET DOMAIN c.rows
    BY <1>2, <1>3 DEF Complement
  <2>2. \A k \in DOMAIN c.rows : k \in other <=> Mirror(c, k) \in part
    BY <1>2, <1>3, <1>4 DEF Complement
  <2> HIDE DEF part, other
  <2>3. other = Mirrored(c, part)
    BY <1>1, <2>1, <2>2, PartsReflect
  <2> QED BY <2>3 DEF part, other
<1>6. ASSUME NEW fold
      PROVE  LET part == {i \in DOMAIN folds : folds[i] = fold}
                 other == {j \in DOMAIN turned : turned[j] = fold}
             IN  /\ Cardinality(other) = Cardinality(part)
                 /\ Cardinality(DOMAIN turned \ other) = Cardinality(DOMAIN folds \ part)
  <2> DEFINE part == {i \in DOMAIN folds : folds[i] = fold}
             other == {j \in DOMAIN turned : turned[j] = fold}
             rest == DOMAIN folds \ part
             left == DOMAIN turned \ other
  <2>1. /\ part \in SUBSET DOMAIN c.rows /\ other \in SUBSET DOMAIN c.rows
        /\ rest \in SUBSET DOMAIN c.rows /\ left \in SUBSET DOMAIN c.rows
    BY <1>2, <1>3
  <2>2. /\ \A k \in DOMAIN c.rows : k \in other <=> Mirror(c, k) \in part
        /\ \A k \in DOMAIN c.rows : k \in left <=> Mirror(c, k) \in rest
    BY <1>2, <1>3, <1>4
  <2> HIDE DEF part, other, rest, left
  <2>3. other = Mirrored(c, part) /\ left = Mirrored(c, rest)
    BY <1>1, <2>1, <2>2, PartsReflect
  <2>4. Cardinality(other) = Cardinality(part) /\ Cardinality(left) = Cardinality(rest)
    BY <1>1, <2>1, <2>3, MirroredRows
  <2> QED BY <2>4 DEF part, other, rest, left
<1>7. PlanFails(d, turned) <=> PlanFails(c, folds)
  BY <1>1, <1>6 DEF PlanFails
<1> QED BY <1>5, <1>7 DEF back, folds, turned

\* Rows that are all told apart by their units are so from either end.
LEMMA UnitsAreToldApart ==
  ASSUME NEW c, NEW d, Reflects(c, d), NEW j \in DOMAIN c.rows,
         \A i, k \in DOMAIN c.rows : c.rows[i].unit = c.rows[k].unit => i = k
  PROVE  ~\E k \in 1..j - 1 : d.rows[k].unit = d.rows[j].unit
<1>1. IsList(c.rows) /\ DOMAIN c.rows = 1..Len(c.rows) /\ Len(c.rows) \in Nat
  BY DEF Reflects, IsList
<1>2. ASSUME NEW k \in 1..j - 1, d.rows[k].unit = d.rows[j].unit PROVE FALSE
  <2>1. k \in DOMAIN c.rows /\ k # j
    <3> DEFINE L == Len(c.rows)
    <3>1. j \in 1..L /\ L \in Nat
      BY <1>1
    <3> HIDE DEF L
    <3>2. k \in 1..L /\ k # j
      BY <3>1
    <3> QED BY <1>1, <3>2 DEF L
  <2>2. c.rows[Mirror(c, k)].unit = c.rows[Mirror(c, j)].unit
    BY <1>2, <2>1, ReflectedRow
  <2>3. Mirror(c, k) = Mirror(c, j)
    BY <1>1, <2>1, <2>2, MirrorsBack
  <2> QED BY <1>1, <2>1, <2>3, MirrorsBack
<1> QED BY <1>2

LEMMA DmlDeclarationReflects ==
  ASSUME NEW c, NEW d, Reflects(c, d)
  PROVE  /\ DmlColumns(d) = DmlColumns(c) /\ BoundIds(d) = BoundIds(c)
         /\ \A q, identified :
              DmlDeclarationRefusal(d, q, identified) = DmlDeclarationRefusal(c, q, identified)
<1>1. d.split = c.split /\ d.columns = c.columns
  BY DEF Reflects
<1>2. DmlColumns(d) = DmlColumns(c) /\ BoundIds(d) = BoundIds(c)
  BY <1>1 DEF DmlColumns, BoundIds
<1> QED BY <1>1, <1>2 DEF DmlDeclarationRefusal

LEMMA DmlReflects ==
  ASSUME NEW c, NEW d, Reflects(c, d), DmlAccepts(c)
  PROVE  CompleteRows(d) = Mirrored(c, CompleteRows(c)) /\ DmlAccepts(d)
<1> DEFINE rows == CompleteRows(c)
           back == CompleteRows(d)
<1>1. /\ IsList(c.rows) /\ DOMAIN d.rows = DOMAIN c.rows
      /\ d.req = c.req /\ d.ident = c.ident /\ d.split = c.split
      /\ c.req.method = "econml_dml" => d.adapter = c.adapter
  BY DEF Reflects
<1>2. DmlColumns(d) = DmlColumns(c)
  BY DmlDeclarationReflects
<1>3. rows \in SUBSET DOMAIN c.rows /\ back \in SUBSET DOMAIN c.rows
  BY <1>1 DEF CompleteRows
<1>4. \A j \in DOMAIN c.rows :
        /\ Incomplete(d, j) <=> Incomplete(c, Mirror(c, j))
        /\ ValueFault(d, j) = ValueFault(c, Mirror(c, j))
  BY <1>2, ReflectedRow DEF Incomplete, ValueFault
<1>5. back = Mirrored(c, rows)
  <2>1. \A j \in DOMAIN c.rows : j \in back <=> Mirror(c, j) \in rows
    BY <1>1, <1>4, ReflectedRow DEF CompleteRows
  <2> HIDE DEF rows, back
  <2> QED BY <1>1, <1>3, <2>1, PartsReflect
<1>6. DmlDeclarationRefusal(d, d.ident, Identification(d.ident)) = NotRefused
  BY <1>1, DmlDeclarationReflects DEF DmlAccepts
<1>7. \A j \in DOMAIN d.rows : DmlRowFault(d, j) = NoReason
  <2>1. \A i \in DOMAIN c.rows : DmlRowFault(c, i) = NoReason
    BY DEF DmlAccepts
  <2>2. \A i \in DOMAIN c.rows : IdentityFault(c, i) = NoReason
    BY <2>1 DEF DmlRowFault
  <2>3. /\ \A i \in DOMAIN c.rows : c.rows[i].unit \notin {None, Text, Infinite}
        /\ \A i \in DOMAIN c.rows : ~\E j \in 1..i - 1 : c.rows[j].unit = c.rows[i].unit
    BY <2>2 DEF IdentityFault, NoReason
  <2>4. \A i, k \in DOMAIN c.rows : c.rows[i].unit = c.rows[k].unit => i = k
    BY <1>1, <2>3, RowsOfDifferentUnits
  <2>5. ASSUME NEW j \in DOMAIN c.rows PROVE DmlRowFault(d, j) = NoReason
    <3>1. IdentityFault(d, j) = NoReason
      <4>1. d.rows[j].unit \notin {None, Text, Infinite}
        BY <2>3, ReflectedRow
      <4>2. ~\E k \in 1..j - 1 : d.rows[k].unit = d.rows[j].unit
        BY <2>4, UnitsAreToldApart
      <4> QED BY <4>1, <4>2 DEF IdentityFault
    <3>2. Mirror(c, j) \in DOMAIN c.rows
      BY ReflectedRow
    <3>3. ~Incomplete(c, Mirror(c, j)) => ValueFault(c, Mirror(c, j)) = NoReason
      BY <2>1, <2>2, <3>2 DEF DmlRowFault
    <3> QED BY <1>4, <3>1, <3>3 DEF DmlRowFault
  <2> QED BY <1>1, <2>5
<1> HIDE DEF rows, back
<1>8. \A exposure \in Exposures : ~(Cardinality(ArmOf(d, back, exposure)) < d.split.folds)
  <2>1. \A exposure : ArmOf(c, rows, exposure) \in SUBSET DOMAIN c.rows
    BY <1>3 DEF ArmOf
  <2>2. \A exposure : Cardinality(ArmOf(d, back, exposure)) = Cardinality(ArmOf(c, rows, exposure))
    BY <1>1, <1>3, <1>5, <2>1, ArmsReflect, MirroredRows
  <2> QED BY <1>1, <2>2 DEF DmlAccepts, rows
<1>9. /\ PlanFails(d, DmlFolds(d)) <=> PlanFails(c, DmlFolds(c))
      /\ \A j \in back : Complement(DmlFolds(d), j) = Mirrored(c, Complement(DmlFolds(c), Mirror(c, j)))
  BY <1>3, <1>5, TrainingReflects DEF DmlFolds, rows, back
<1>10. DOMAIN DmlFolds(d) = back /\ DOMAIN DmlFolds(c) = rows
  BY DEF DmlFolds, Folds, rows, back
<1>11. \A j \in back : /\ Mirror(c, j) \in rows
                       /\ Cardinality(Complement(DmlFolds(d), j))
                            = Cardinality(Complement(DmlFolds(c), Mirror(c, j)))
  <2>1. \A j \in back : Mirror(c, j) \in rows
    BY <1>1, <1>3, <1>5, MirroredRows
  <2>2. \A i : Complement(DmlFolds(c), i) \in SUBSET DOMAIN c.rows
    BY <1>3, <1>10 DEF Complement
  <2>3. \A j \in back : Cardinality(Mirrored(c, Complement(DmlFolds(c), Mirror(c, j))))
                          = Cardinality(Complement(DmlFolds(c), Mirror(c, j)))
    BY <1>1, <2>2, MirroredRows
  <2> QED BY <1>9, <2>1, <2>3
<1>12. IF d.req.method = "econml_dml" THEN AdapterRefusal(d) = NotRefused
       ELSE \A j \in DOMAIN DmlFolds(d) :
              ~(Cardinality(Complement(DmlFolds(d), j)) < MinimumTrainingRows)
  <2>1. c.req.method = "econml_dml" => AdapterRefusal(d) = AdapterRefusal(c)
    BY <1>1 DEF AdapterRefusal
  <2>2. IF c.req.method = "econml_dml" THEN AdapterRefusal(c) = NotRefused
        ELSE \A i \in rows : ~(Cardinality(Complement(DmlFolds(c), i)) < MinimumTrainingRows)
    BY <1>10 DEF DmlAccepts
  <2> QED BY <1>1, <1>10, <1>11, <2>1, <2>2
<1>13. ~PlanFails(d, DmlFolds(d))
  BY <1>9 DEF DmlAccepts
<1> QED BY <1>5, <1>6, <1>7, <1>8, <1>12, <1>13 DEF DmlAccepts, rows, back

\* What is accepted may be answered with an estimate.
LEMMA DmlAnswers ==
  ASSUME NEW c, DmlAccepts(c)
  PROVE  HeldOutEstimate(DmlFolds(c)) \in DmlResults(c, Identification(c.ident))
<1> DEFINE folds == DmlFolds(c)
           n == HeldOutEstimate(folds)
<1>1. n \in DmlFolded(c, folds)
  <2> HIDE DEF n, folds
  <2>1. n = HeldOutEstimate(folds) /\ ~PlanFails(c, folds)
    BY DEF n, folds, DmlAccepts
  <2>2. CASE c.req.method = "econml_dml"
    <3>1. AdapterRefusal(c) = NotRefused
      BY <2>2 DEF DmlAccepts
    <3>2. n \in LinearDml(c, folds)
      BY <2>1 DEF LinearDml
    <3> QED BY <2>2, <3>1, <3>2 DEF DmlFolded, EconmlDml
  <2>3. CASE c.req.method # "econml_dml"
    <3>1. \A i \in DOMAIN folds : ~(Cardinality(Complement(folds, i)) < MinimumTrainingRows)
      BY <2>3 DEF DmlAccepts, folds
    <3> QED BY <2>1, <2>3, <3>1 DEF DmlFolded, CrossFitted
  <2> QED BY <2>2, <2>3
<1>2. {i \in DOMAIN c.rows : DmlRowFault(c, i) # NoReason} = {}
  BY DEF DmlAccepts
<1>3. DmlRows(c, {}) = DmlFolded(c, folds)
  BY DEF DmlRows, DmlSplit, DmlAccepts, DmlFolds
<1> HIDE DEF n, folds
<1>4. DmlResults(c, Identification(c.ident)) = DmlRows(c, {})
  BY <1>2 DEF DmlResults, DmlDeclared, DmlAccepts
<1> QED BY <1>1, <1>3, <1>4 DEF n, folds

LEMMA DmlHoldsOut ==
  ASSUME NEW c, IsList(c.rows), CrossFittingOK(c), c.req.method \in CrossFitMethods,
         Identification(c.ident).status = "identified", DmlAccepts(c),
         NEW n, n = HeldOutEstimate(DmlFolds(c))
  PROVE  HeldOut(c, n)
<1> DEFINE d == Reversal(c)
           m == HeldOutEstimate(DmlFolds(d))
           rows == CompleteRows(c)
           back == Mirrored(c, rows)
<1>1. Reflects(c, d)
  <2>1. c.req.method \notin SubgroupMethods
    BY DEF CrossFitMethods, SubgroupMethods
  <2> QED BY <2>1, ReversalReflects
<1> HIDE DEF d
<1>2. DmlAccepts(d) /\ CompleteRows(d) = back /\ rows \in SUBSET DOMAIN c.rows
  BY <1>1, DmlReflects DEF CompleteRows
<1>3. m \in CausalResults(d)
  <2>1. m \in DmlResults(d, Identification(d.ident))
    BY <1>2, DmlAnswers
  <2>2. d.req = c.req /\ d.ident = c.ident
    BY <1>1 DEF Reflects
  <2> HIDE DEF m
  <2> QED BY <2>1, <2>2 DEF CausalResults, CausalOf, CrossFitMethods
<1>4. DOMAIN DmlFolds(c) = rows /\ DOMAIN DmlFolds(d) = back
  BY <1>2 DEF DmlFolds, Folds
<1>5. \A j \in back : /\ Complement(DmlFolds(d), j) = Mirrored(c, Complement(DmlFolds(c), Mirror(c, j)))
                      /\ Mirror(c, j) \in rows
  BY <1>1, <1>2, TrainingReflects, MirroredRows DEF DmlFolds
<1> HIDE DEF rows, back
<1>6. n.rows = rows /\ \A i \in rows : n.trained[i] = Complement(DmlFolds(c), i)
  BY <1>4 DEF HeldOutEstimate
<1>7. /\ m.trained = [j \in back |-> Complement(DmlFolds(d), j)]
      /\ m.estimates # {}
  BY <1>4 DEF HeldOutEstimate
<1> HIDE DEF m
<1>8. m.trained = [j \in back |-> Mirrored(c, n.trained[Mirror(c, j)])]
  BY <1>5, <1>6, <1>7
<1>9. m.trained = MirroredTraining(c, n)
  <2>1. m.trained = [j \in Mirrored(c, n.rows) |-> Mirrored(c, n.trained[Mirror(c, j)])]
    BY <1>6, <1>8 DEF back
  <2>2. [j \in Mirrored(c, n.rows) |-> Mirrored(c, n.trained[Mirror(c, j)])] = MirroredTraining(c, n)
    BY DEF MirroredTraining, Mirror
  <2> QED BY <2>1, <2>2
<1>10. PredictedByOthers(c, n)
  BY DmlPredicts
<1> QED BY <1>3, <1>7, <1>9, <1>10 DEF HeldOut, d

LEMMA HteDeclarationReflects ==
  ASSUME NEW c, NEW d, Reflects(c, d), c.req.method \in SubgroupMethods
  PROVE  /\ DmlColumns(d) = DmlColumns(c) /\ HteColumns(d) = HteColumns(c)
         /\ GroupIds(d) = GroupIds(c)
         /\ \A value : GroupAt(d, value) = GroupAt(c, value)
         /\ \A q, identified :
              HteDeclarationRefusal(d, q, identified) = HteDeclarationRefusal(c, q, identified)
<1>1. d.split = c.split /\ d.columns = c.columns /\ d.effect = c.effect /\ d.req = c.req
  BY DEF Reflects
<1>2. DmlColumns(d) = DmlColumns(c) /\ BoundIds(d) = BoundIds(c)
  BY DmlDeclarationReflects
<1>3. HteColumns(d) = HteColumns(c) /\ GroupIds(d) = GroupIds(c)
  BY <1>1, <1>2 DEF HteColumns, GroupIds
<1>4. ASSUME NEW value PROVE GroupAt(d, value) = GroupAt(c, value)
  <2> DEFINE matching == {k \in DOMAIN c.effect.subgroups :
                            WithinGroup(c, c.effect.subgroups[k], value)}
             other == {k \in DOMAIN d.effect.subgroups :
                         WithinGroup(d, d.effect.subgroups[k], value)}
  <2>1. other = matching
    BY <1>1 DEF WithinGroup
  <2>2. GroupAt(c, value) = IF matching = {} THEN None ELSE c.effect.subgroups[Min(matching)].id
    BY DEF GroupAt
  <2>3. GroupAt(d, value) = IF other = {} THEN None ELSE d.effect.subgroups[Min(other)].id
    BY DEF GroupAt
  <2> HIDE DEF matching, other
  <2> QED BY <1>1, <2>1, <2>2, <2>3
<1>5. ASSUME NEW q PROVE ModifierRefusal(d, q) = ModifierRefusal(c, q)
  BY <1>1 DEF ModifierRefusal
<1>6. ASSUME NEW q, NEW identified
      PROVE  BindingRefusal(d, q, identified) = BindingRefusal(c, q, identified)
  BY <1>1, <1>2, <1>3 DEF BindingRefusal
<1>7. SupportedMethod(d) = SupportedMethod(c)
  BY <1>1 DEF SupportedMethod
<1>8. ASSUME NEW q, NEW identified
      PROVE  HteDeclarationRefusal(d, q, identified) = HteDeclarationRefusal(c, q, identified)
  BY <1>1, <1>5, <1>6, <1>7 DEF HteDeclarationRefusal
<1> QED BY <1>2, <1>3, <1>4, <1>8

\* So are the members of a subgroup and what they are too few for.
LEMMA MembersReflect ==
  ASSUME NEW c, NEW d, Reflects(c, d), c.req.method \in SubgroupMethods,
         NEW rows \in SUBSET DOMAIN c.rows, NEW g
  PROVE  /\ Members(d, Mirrored(c, rows), g) = Mirrored(c, Members(c, rows, g))
         /\ Sparse(d, Members(d, Mirrored(c, rows), g)) = Sparse(c, Members(c, rows, g))
<1> DEFINE part == Members(c, rows, g)
           other == Members(d, Mirrored(c, rows), g)
<1>1. IsList(c.rows) /\ d.effect = c.effect
  BY DEF Reflects
<1>2. /\ Mirrored(c, rows) \in SUBSET DOMAIN c.rows
      /\ \A j \in DOMAIN c.rows : j \in Mirrored(c, rows) <=> Mirror(c, j) \in rows
  BY <1>1, MirroredRows
<1>3. part \in SUBSET DOMAIN c.rows /\ other \in SUBSET DOMAIN c.rows
  BY <1>2 DEF Members
<1>4. \A j \in DOMAIN c.rows : ModifierOf(d, j) = ModifierOf(c, Mirror(c, j))
  BY <1>1, ReflectedRow DEF ModifierOf
<1>5. \A j \in DOMAIN c.rows : j \in other <=> Mirror(c, j) \in part
  BY <1>2, <1>4, HteDeclarationReflects DEF Members
<1> HIDE DEF part, other
<1>6. other = Mirrored(c, part)
  BY <1>1, <1>3, <1>5, PartsReflect
<1>7. Sparse(d, other) = Sparse(c, part)
  <2>1. Cardinality(other) = Cardinality(part)
    BY <1>1, <1>3, <1>6, MirroredRows
  <2>2. ASSUME NEW exposure
        PROVE  Cardinality(ArmOf(d, other, exposure)) = Cardinality(ArmOf(c, part, exposure))
    <3>1. ArmOf(c, part, exposure) \in SUBSET DOMAIN c.rows
      BY <1>3 DEF ArmOf
    <3>2. ArmOf(d, other, exposure) = Mirrored(c, ArmOf(c, part, exposure))
      BY <1>3, <1>6, ArmsReflect
    <3> QED BY <1>1, <3>1, <3>2, MirroredRows
  <2> QED BY <1>1, <2>1, <2>2 DEF Sparse
<1> QED BY <1>6, <1>7 DEF part, other

LEMMA HteReflects ==
  ASSUME NEW c, NEW d, Reflects(c, d), c.req.method \in SubgroupMethods, HteAccepts(c)
  PROVE  /\ Retained(d) = Mirrored(c, Retained(c))
         /\ HteAccepts(d) /\ Dense(d) = Dense(c)
<1> DEFINE rows == Retained(c)
           back == Retained(d)
<1>1. /\ IsList(c.rows) /\ DOMAIN d.rows = DOMAIN c.rows
      /\ d.req = c.req /\ d.ident = c.ident /\ d.split = c.split /\ d.effect = c.effect
      /\ c.req.method = "econml_hte" => d.adapter = c.adapter
  BY DEF Reflects
<1>2. /\ DmlColumns(d) = DmlColumns(c) /\ HteColumns(d) = HteColumns(c)
      /\ GroupIds(d) = GroupIds(c) /\ \A value : GroupAt(d, value) = GroupAt(c, value)
  BY HteDeclarationReflects
<1>3. rows \in SUBSET DOMAIN c.rows /\ back \in SUBSET DOMAIN c.rows
  BY <1>1 DEF Retained
<1>4. \A j \in DOMAIN c.rows : /\ RetainedFault(d, j) = RetainedFault(c, Mirror(c, j))
                               /\ ModifierOf(d, j) = ModifierOf(c, Mirror(c, j))
  BY <1>1, <1>2, ReflectedRow DEF RetainedFault, ModifierOf
<1>5. \A j \in DOMAIN c.rows : j \in back <=> Mirror(c, j) \in rows
  BY <1>1, <1>2, ReflectedRow DEF Retained
<1>6. back = Mirrored(c, rows)
  <2> HIDE DEF rows, back
  <2> QED BY <1>1, <1>3, <1>5, PartsReflect
<1>7. HteDeclarationRefusal(d, d.ident, Identification(d.ident)) = NotRefused
  BY <1>1, HteDeclarationReflects DEF HteAccepts
<1>8. \A j \in DOMAIN d.rows : AssignmentFault(d, j) = NoReason
  <2>1. \A i \in DOMAIN c.rows : AssignmentFault(c, i) = NoReason
    BY DEF HteAccepts
  <2>2. /\ \A i \in DOMAIN c.rows : c.rows[i].unit \notin {None, Text, Infinite}
        /\ \A i \in DOMAIN c.rows : ~\E j \in 1..i - 1 : c.rows[j].unit = c.rows[i].unit
        /\ \A i \in DOMAIN c.rows : ModifierOf(c, i) # None =>
             /\ ~(c.effect.kind = "binned" /\ ModifierOf(c, i) \in {Text, Infinite})
             /\ GroupAt(c, ModifierOf(c, i)) # None
    BY <2>1 DEF AssignmentFault, NoReason
  <2>3. \A i, k \in DOMAIN c.rows : c.rows[i].unit = c.rows[k].unit => i = k
    BY <1>1, <2>2, RowsOfDifferentUnits
  <2>4. ASSUME NEW j \in DOMAIN c.rows PROVE AssignmentFault(d, j) = NoReason
    <3>1. d.rows[j].unit \notin {None, Text, Infinite}
      BY <2>2, ReflectedRow
    <3>2. ~\E k \in 1..j - 1 : d.rows[k].unit = d.rows[j].unit
      BY <2>3, UnitsAreToldApart
    <3>3. ModifierOf(d, j) # None =>
            /\ ~(d.effect.kind = "binned" /\ ModifierOf(d, j) \in {Text, Infinite})
            /\ GroupAt(d, ModifierOf(d, j)) # None
      BY <1>1, <1>2, <1>4, <2>2, ReflectedRow
    <3> QED BY <3>1, <3>2, <3>3 DEF AssignmentFault
  <2> QED BY <1>1, <2>4
<1>9. \A j \in back : RetainedFault(d, j) = NoReason
  BY <1>3, <1>4, <1>5 DEF HteAccepts
<1> HIDE DEF rows, back
<1>10. \A exposure \in Exposures : ~(Cardinality(ArmOf(d, back, exposure)) < d.split.folds)
  <2>1. \A exposure : ArmOf(c, rows, exposure) \in SUBSET DOMAIN c.rows
    BY <1>3 DEF ArmOf
  <2>2. \A exposure : Cardinality(ArmOf(d, back, exposure)) = Cardinality(ArmOf(c, rows, exposure))
    BY <1>1, <1>3, <1>6, <2>1, ArmsReflect, MirroredRows
  <2> QED BY <1>1, <2>2 DEF HteAccepts, rows
<1>11. /\ PlanFails(d, HteFolds(d)) <=> PlanFails(c, HteFolds(c))
       /\ \A j \in back : Complement(HteFolds(d), j) = Mirrored(c, Complement(HteFolds(c), Mirror(c, j)))
  BY <1>3, <1>6, TrainingReflects DEF HteFolds, rows, back
<1>12. DOMAIN HteFolds(c) = rows
  BY DEF HteFolds, Folds, rows
<1>13. \A g : Sparse(d, Members(d, back, g)) = Sparse(c, Members(c, rows, g))
  BY <1>3, <1>6, MembersReflect
<1>14. IF d.req.method = "econml_hte" THEN LinearDrRefusal(d, back) = NotRefused
       ELSE \A j \in back : ~(Cardinality(Complement(HteFolds(d), j)) < MinimumTrainingRows)
  <2>1. c.req.method = "econml_hte" => LinearDrRefusal(d, back) = LinearDrRefusal(c, rows)
    BY <1>1, <1>2, <1>13 DEF LinearDrRefusal
  <2>2. ASSUME NEW j \in back
        PROVE  /\ Mirror(c, j) \in rows
               /\ Cardinality(Complement(HteFolds(d), j))
                    = Cardinality(Complement(HteFolds(c), Mirror(c, j)))
    <3>1. Complement(HteFolds(c), Mirror(c, j)) \in SUBSET DOMAIN c.rows
      BY <1>3, <1>12 DEF Complement
    <3> QED BY <1>1, <1>3, <1>5, <1>11, <3>1, MirroredRows
  <2> QED BY <1>1, <2>1, <2>2 DEF HteAccepts, rows
<1>15. Dense(d) = Dense(c)
  BY <1>2, <1>13 DEF Dense, rows, back
<1>16. ~PlanFails(d, HteFolds(d))
  BY <1>11 DEF HteAccepts
<1> QED BY <1>6, <1>7, <1>8, <1>9, <1>10, <1>14, <1>15, <1>16 DEF HteAccepts, rows, back

LEMMA HteAnswers ==
  ASSUME NEW c, HteAccepts(c), NEW supported \in (SUBSET Dense(c)) \ {{}},
         c.req.method = "econml_hte" => supported = GroupIds(c)
  PROVE  EstimatedGroups(c, Retained(c), HteFolds(c), supported)
           \in HteResults(c, Identification(c.ident))
<1> DEFINE folds == HteFolds(c)
           rows == Retained(c)
           n == EstimatedGroups(c, rows, folds, supported)
<1>1. n \in HteFolded(c, rows, folds)
  <2> HIDE DEF n, folds, rows
  <2>1. ~PlanFails(c, folds)
    BY DEF folds, HteAccepts
  <2>2. CASE c.req.method = "econml_hte"
    <3>1. LinearDrRefusal(c, rows) = NotRefused
      BY <2>2 DEF HteAccepts, rows
    <3>2. n = EstimatedGroups(c, rows, folds, GroupIds(c))
      BY <2>2 DEF n
    <3>3. n \in LinearDr(c, rows, folds)
      BY <2>1, <3>2 DEF LinearDr
    <3> QED BY <2>2, <3>1, <3>3 DEF HteFolded, EconmlHte
  <2>3. CASE c.req.method # "econml_hte"
    <3>1. \A i \in rows : ~(Cardinality(Complement(folds, i)) < MinimumTrainingRows)
      BY <2>3 DEF HteAccepts, folds, rows
    <3>2. n \in SubgroupResults(c, rows, folds)
      BY DEF SubgroupResults, Dense, n, rows
    <3> QED BY <2>1, <2>3, <3>1, <3>2 DEF HteFolded, HteCrossFitted
  <2> QED BY <2>2, <2>3
<1>2. /\ {i \in DOMAIN c.rows : AssignmentFault(c, i) # NoReason} = {}
      /\ {i \in rows : RetainedFault(c, i) # NoReason} = {}
  BY DEF HteAccepts
<1>3. HteRetained(c, rows, {}) = HteFolded(c, rows, folds)
  BY DEF HteRetained, HteAccepts, HteFolds
<1> HIDE DEF n, folds
<1>4. HteResults(c, Identification(c.ident)) = HteRetained(c, rows, {})
  BY <1>2 DEF HteResults, HteDeclared, HteAssigned, HteAccepts
<1> QED BY <1>1, <1>3, <1>4 DEF n, folds

LEMMA HteHoldsOut ==
  ASSUME NEW c, IsList(c.rows), HeterogeneityOK(c), c.req.method \in SubgroupMethods,
         Identification(c.ident).status = "identified", HteAccepts(c),
         NEW supported \in (SUBSET Dense(c)) \ {{}},
         c.req.method = "econml_hte" => supported = GroupIds(c),
         NEW n, n = EstimatedGroups(c, Retained(c), HteFolds(c), supported)
  PROVE  HeldOut(c, n)
<1> DEFINE d == Reversal(c)
           rows == Retained(c)
           back == Mirrored(c, rows)
           within == UNION {Members(c, rows, g) : g \in supported}
           behind == UNION {Members(d, back, g) : g \in supported}
           m == EstimatedGroups(d, back, HteFolds(d), supported)
<1>1. Reflects(c, d)
  BY ReversalReflects DEF HeterogeneityOK
<1> HIDE DEF d
<1>2. /\ HteAccepts(d) /\ Retained(d) = back /\ Dense(d) = Dense(c)
      /\ rows \in SUBSET DOMAIN c.rows
  BY <1>1, HteReflects DEF Retained
<1>3. d.req = c.req /\ d.ident = c.ident /\ GroupIds(d) = GroupIds(c)
  BY <1>1, HteDeclarationReflects DEF Reflects
<1>4. m \in CausalResults(d)
  <2>1. m \in HteResults(d, Identification(d.ident))
    BY <1>2, <1>3, HteAnswers
  <2> HIDE DEF m
  <2> QED BY <1>3, <2>1 DEF CausalResults, CausalOf, CrossFitMethods, SubgroupMethods
<1>5. /\ \A j \in back : Complement(HteFolds(d), j) = Mirrored(c, Complement(HteFolds(c), Mirror(c, j)))
      /\ back \in SUBSET DOMAIN c.rows
  BY <1>1, <1>2, TrainingReflects, MirroredRows DEF HteFolds
<1>6. \A g : Members(d, back, g) = Mirrored(c, Members(c, rows, g))
  BY <1>1, <1>2, MembersReflect
<1>7. within \in SUBSET rows /\ behind \in SUBSET back
  BY DEF Members
<1>8. behind = Mirrored(c, within)
  <2>1. \A g : Members(c, rows, g) \in SUBSET DOMAIN c.rows
    BY <1>2 DEF Members
  <2>2. \A j \in DOMAIN c.rows : \A g :
          j \in Mirrored(c, Members(c, rows, g)) <=> Mirror(c, j) \in Members(c, rows, g)
    BY <2>1, MirroredRows
  <2> HIDE DEF rows, back
  <2>3. \A j \in DOMAIN c.rows : j \in behind <=> Mirror(c, j) \in within
    BY <1>6, <2>2
  <2>4. within \in SUBSET DOMAIN c.rows /\ behind \in SUBSET DOMAIN c.rows
    BY <1>2, <1>5, <1>7
  <2> HIDE DEF within, behind
  <2> QED BY <2>3, <2>4, PartsReflect
<1>9. \A j \in behind : j \in back /\ Mirror(c, j) \in within
  <2>1. within \in SUBSET DOMAIN c.rows
    BY <1>2, <1>7
  <2> HIDE DEF within, behind, back
  <2> QED BY <1>5, <1>7, <1>8, <2>1, MirroredRows
<1>10. n.rows = within /\ \A i \in within : n.trained[i] = Complement(HteFolds(c), i)
  <2> HIDE DEF rows
  <2>1. n.rows = within /\ n.trained = [i \in within |-> Complement(HteFolds(c), i)]
    BY DEF EstimatedGroups, rows
  <2> HIDE DEF within
  <2> QED BY <2>1
<1>11. /\ m.trained = [j \in behind |-> Complement(HteFolds(d), j)]
       /\ m.estimates # {}
  <2> HIDE DEF back
  <2> DEFINE compared == IF Cardinality(supported) >= 2 THEN {"heterogeneity"} ELSE {}
  <2>1. m.trained = [j \in behind |-> Complement(HteFolds(d), j)]
        /\ m.estimates = supported \cup compared
    BY DEF EstimatedGroups
  <2> HIDE DEF compared, m
  <2> QED BY <2>1
<1> HIDE DEF m, within, behind, back
<1>12. m.trained = [j \in behind |-> Mirrored(c, n.trained[Mirror(c, j)])]
  BY <1>5, <1>9, <1>10, <1>11
<1>13. m.trained = MirroredTraining(c, n)
  <2>1. m.trained = [j \in Mirrored(c, n.rows) |-> Mirrored(c, n.trained[Mirror(c, j)])]
    BY <1>8, <1>10, <1>12
  <2>2. [j \in Mirrored(c, n.rows) |-> Mirrored(c, n.trained[Mirror(c, j)])] = MirroredTraining(c, n)
    BY DEF MirroredTraining, Mirror
  <2> QED BY <2>1, <2>2
<1>14. PredictedByOthers(c, n)
  BY HtePredicts
<1> QED BY <1>4, <1>11, <1>13, <1>14 DEF HeldOut, d

-----------------------------------------------------------------------------
(* Every estimate.                                                         *)

LEMMA RefusedHasNoEstimates == ASSUME NEW n, IsRefused(n) PROVE n.estimates = {}
  BY RefusedHasNone DEF IsRefused

\* An effect that was not randomized, whatever the table, the declarations and
\* the library: the estimate is one of units that compare, of both arms, and
\* cross-fitting holds out what it predicts from either end of the table.
THEOREM CausalIsEarned ==
  ASSUME NEW c, Observational(c), CausalOK(c), NEW n \in CausalResults(c), n.estimates # {}
  PROVE  EarnedBy(c, n)
<1> DEFINE identified == Identification(c.ident)
           method == c.req.method
<1>1. ~IsRefused(n)
  BY RefusedHasNoEstimates
<1>4. n # Raised
  BY RefusedHasNone DEF Raised
<1>2. CASE method = "did"
  <2>1. \/ n = Raised
        \/ n.rows = Canonical(c) /\ Canonical(c) # {} /\ PanelAccepts(c)
    <3>1. n \in DidResults(c, identified)
      BY <1>2 DEF CausalResults, CausalOf
    <3>2. \/ n = Raised
          \/ \E estimates \in {{"att"}, {"att", "trend"}} :
               /\ n = [status |-> "completed", reason |-> NoReason, rows |-> Canonical(c),
                       estimates |-> estimates, conclusion |-> None]
               /\ Canonical(c) # {} /\ PanelAccepts(c)
      BY <1>1, <1>2, <3>1, DidOutcome
    <3>3. \A estimates, rows :
            [status |-> "completed", reason |-> NoReason, rows |-> rows,
             estimates |-> estimates, conclusion |-> None].rows = rows
      OBVIOUS
    <3> QED BY <3>2, <3>3
  <2>3. PanelIsSound(c, n)
    BY <1>2, <1>4, <2>1, DidIsEarned DEF CausalOK
  <2> QED BY <1>2, <2>3
       DEF EarnedBy, Earned, CrossFitMethods, SubgroupMethods, WeightingMethods
<1>3. CASE method # "did"
  <2>1. identified.status = "identified"
    <3>1. ASSUME identified.status # "identified" PROVE FALSE
      <4>1. n = Refused(identified.status, "identification.not_identified")
        BY <1>3, <3>1 DEF CausalResults, CausalOf
      <4> HIDE DEF identified
      <4> QED BY <4>1, RefusedHasNone
    <3> QED BY <3>1
  <2>2. CASE method \in CrossFitMethods
    <3>1. n \in DmlResults(c, identified)
      BY <1>3, <2>1, <2>2 DEF CausalResults, CausalOf
    <3>2. DmlAccepts(c) /\ n = HeldOutEstimate(DmlFolds(c))
      BY <1>1, <1>4, <3>1, DmlOutcome DEF CausalOK
    <3>3. n.rows = CompleteRows(c)
      BY <3>2 DEF HeldOutEstimate, DmlFolds, Folds
    <3>4. FoldsAreSound(c, n) /\ HeldOut(c, n)
      BY <2>1, <2>2, <3>2, <3>3, DmlIsEarned, DmlHoldsOut DEF CausalOK
    <3> QED BY <2>2, <3>4
         DEF EarnedBy, Earned, CrossFitMethods, SubgroupMethods, WeightingMethods
  <2>3. CASE method \in SubgroupMethods
    <3>1. n \in HteResults(c, identified)
      BY <1>3, <2>1, <2>3 DEF CausalResults, CausalOf, SubgroupMethods, CrossFitMethods
    <3>2. HeterogeneityOK(c) /\ IsList(c.rows)
      BY <2>3 DEF CausalOK
    <3>3. GroupIds(c) # {}
      <4>1. Len(c.effect.subgroups) >= 2 /\ IsList(c.effect.subgroups)
        BY <3>2 DEF HeterogeneityOK
      <4>2. c.effect.subgroups[1] \in SetOf(c.effect.subgroups)
        BY <4>1 DEF IsList, SetOf
      <4> QED BY <4>2 DEF GroupIds
    <3>4. HteAccepts(c) /\ HteEstimates(c, n)
      BY <1>1, <1>4, <3>1, <3>2, <3>3, HteOutcome
    <3>5. PICK supported \in (SUBSET Dense(c)) \ {{}} :
            /\ method = "econml_hte" => supported = GroupIds(c)
            /\ n = EstimatedGroups(c, Retained(c), HteFolds(c), supported)
      BY <3>4 DEF HteEstimates
    <3>6. SubgroupsAreSound(c, n)
      BY <2>1, <3>2, <3>4, <3>5, HteIsEarned
    <3>7. HeldOut(c, n)
      BY <2>1, <2>3, <3>2, <3>4, <3>5, HteHoldsOut
    <3> QED BY <2>3, <3>6, <3>7
         DEF EarnedBy, Earned, CrossFitMethods, SubgroupMethods, WeightingMethods
  <2>4. CASE method = "dowhy"
    <3>1. n \in DowhyResults(c, identified)
      BY <1>3, <2>1, <2>4 DEF CausalResults, CausalOf, SubgroupMethods, CrossFitMethods
    <3>2. DowhyIsSound(c, n)
      BY <1>1, <2>1, <2>4, <3>1, DowhyOutcome, DowhyIsEarned DEF CausalOK
    <3> QED BY <2>4, <3>2
         DEF EarnedBy, Earned, CrossFitMethods, SubgroupMethods, WeightingMethods
  <2>5. CASE method \in WeightingMethods
    <3>1. n \in WeightingResults(c, identified)
      BY <1>3, <2>1, <2>5 DEF CausalResults, CausalOf, SubgroupMethods, CrossFitMethods, WeightingMethods
    <3>2. WeightsAreSound(c, n)
      BY <2>1, <2>5, <3>1, WeightingIsEarned DEF CausalOK
    <3> QED BY <2>5, <3>2
         DEF EarnedBy, Earned, CrossFitMethods, SubgroupMethods, WeightingMethods
  <2> QED BY <1>3, <2>2, <2>3, <2>4, <2>5 DEF Observational, CausalMethods
<1> QED BY <1>2, <1>3

\* In the analysis node, too: every estimate was earned.
THEOREM EveryEstimateIsEarned == TypedSpec => []EstimateIsEarned
<1>1. CaseIsOpen => EstimateIsEarned
  <2> SUFFICES ASSUME CaseIsOpen, native # NoNative, native.estimates # {}
               PROVE  EarnedBy(case, native)
    BY DEF EstimateIsEarned
  <2>1. CASE Observational(case)
    BY <2>1, NativeOfCase, CausalIsEarned
  <2>2. CASE ~Observational(case)
    <3>1. SoundCase(case) /\ RandomizedEarned(case, native)
      BY <2>2, NativeOfCase, RandomizedIsEarned
    <3> QED BY <2>2, <3>1
         DEF EarnedBy, SoundCase, RandomizedMethods, CrossFitMethods, SubgroupMethods
  <2> QED BY <2>1, <2>2
<1> QED BY <1>1, CaseTheorem, PTL

-----------------------------------------------------------------------------
(***************************************************************************)
(* The contract of an effect that was not randomized.  What is in order    *)
(* before the numbers is what an estimate would have been earned by.       *)
(***************************************************************************)
LEMMA DmlKeepsContract ==
  ASSUME NEW c, Observational(c), c.req.method \in CrossFitMethods, IsList(c.rows),
         CrossFittingOK(c), Identification(c.ident).status = "identified",
         NEW n \in DmlResults(c, Identification(c.ident))
  PROVE  ContractHolds(c, n)
<1>1. \/ IsRefused(n)
      \/ DmlAccepts(c) /\ n = HeldOutEstimate(DmlFolds(c))
      \/ DmlAccepts(c) /\ c.req.method # "econml_dml" /\ n = Raised
  BY DmlOutcome
<1>2. ASSUME DmlAccepts(c), n = HeldOutEstimate(DmlFolds(c))
      PROVE  ContractHolds(c, n)
  <2>1. \A exposure \in Exposures : ArmOf(c, CompleteRows(c), exposure) # {}
    BY <1>2, ArmsHaveUnits DEF DmlAccepts, CrossFittingOK, CompleteRows
  <2>2. CompleteRows(c) # {}
    BY <2>1 DEF ArmOf, Exposures
  <2>3. DOMAIN DmlFolds(c) = CompleteRows(c)
    BY DEF DmlFolds, Folds
  <2>4. /\ n.status = "completed" /\ n.reason = NoReason /\ n.estimates # {}
        /\ n.rows = CompleteRows(c)
    BY <1>2, <2>3 DEF HeldOutEstimate
  <2> QED BY <2>2, <2>4, CompletedKeepsContract DEF CrossFitMethods
<1>3. ASSUME DmlAccepts(c), c.req.method # "econml_dml", n = Raised
      PROVE  ContractHolds(c, n)
  <2>1. FoldsAreSound(c, [rows |-> CompleteRows(c)])
    BY <1>3, DmlIsEarned
  <2>2. RequestInOrder(c) /\ c.req.method \notin Guarded
    BY <1>3, <2>1 DEF RequestInOrder, Guarded, CrossFitMethods, SubgroupMethods, WeightingMethods
  <2> QED BY <1>3, <2>2, RaisedKeepsContract
<1> QED BY <1>1, <1>2, <1>3, RefusedKeepsContract

LEMMA HteKeepsContract ==
  ASSUME NEW c, Observational(c), c.req.method \in SubgroupMethods, IsList(c.rows),
         HeterogeneityOK(c), Identification(c.ident).status = "identified",
         NEW n \in HteResults(c, Identification(c.ident))
  PROVE  ContractHolds(c, n)
<1>1. GroupIds(c) # {}
  <2>1. Len(c.effect.subgroups) >= 2 /\ IsList(c.effect.subgroups)
    BY DEF HeterogeneityOK
  <2>2. c.effect.subgroups[1] \in SetOf(c.effect.subgroups)
    BY <2>1 DEF IsList, SetOf
  <2> QED BY <2>2 DEF GroupIds
<1>2. \/ IsRefused(n)
      \/ HteAccepts(c) /\ HteEstimates(c, n)
      \/ HteAccepts(c) /\ c.req.method # "econml_hte" /\ n = Raised
  BY <1>1, HteOutcome
<1>3. ASSUME NEW supported \in (SUBSET Dense(c)) \ {{}},
             c.req.method = "econml_hte" => supported = GroupIds(c),
             n = EstimatedGroups(c, Retained(c), HteFolds(c), supported)
      PROVE  ContractHolds(c, n)
  <2> DEFINE within == UNION {Members(c, Retained(c), g) : g \in supported}
             compared == IF Cardinality(supported) >= 2 THEN {"heterogeneity"} ELSE {}
             reason == Reason(c, Retained(c), supported, NoReason)
  <2>1. within # {}
    <3>1. PICK g \in supported : g \in Dense(c)
      BY <1>3
    <3> QED BY <3>1, DenseHaveMembers
  <2>2. supported \cup compared # {}
    BY <1>3
  <2>3. reason = NoReason <=> supported = GroupIds(c)
    <3>1. ASSUME supported # GroupIds(c) PROVE reason # NoReason
      BY <3>1 DEF Reason, FirstReason, NoReason
    <3>2. ASSUME supported = GroupIds(c) PROVE reason = NoReason
      BY <3>2 DEF Reason
    <3> QED BY <3>1, <3>2
  <2> HIDE DEF compared, reason
  <2>4. /\ n.status = IF supported = GroupIds(c) THEN "completed" ELSE "abstained"
        /\ n.reason = reason /\ n.rows = within /\ n.estimates = supported \cup compared
    BY <1>3 DEF EstimatedGroups, compared, reason
  <2> HIDE DEF within
  <2>5. CASE supported = GroupIds(c)
    <3>1. n.status = "completed" /\ n.reason = NoReason /\ n.estimates # {} /\ n.rows # {}
      BY <2>1, <2>2, <2>3, <2>4, <2>5
    <3> QED BY <3>1, CompletedKeepsContract DEF SubgroupMethods
  <2>6. CASE supported # GroupIds(c)
    <3>1. n.status = "abstained" /\ n.reason # NoReason /\ n.estimates # {} /\ n.rows # {}
      BY <2>1, <2>2, <2>3, <2>4, <2>6
    <3>2. c.req.method = "hte"
      BY <1>3, <2>6 DEF SubgroupMethods
    <3> QED BY <3>1, <3>2 DEF ContractHolds, Partial
  <2> QED BY <2>5, <2>6
<1>4. ASSUME HteAccepts(c), c.req.method # "econml_hte", n = Raised
      PROVE  ContractHolds(c, n)
  <2>1. CrossFittingOK(c) /\ Retained(c) \in SUBSET DOMAIN c.rows
    BY DEF HeterogeneityOK, Retained
  <2>2. \A exposure \in Exposures : ArmOf(c, Retained(c), exposure) # {}
    BY <1>4, <2>1, ArmsHaveUnits DEF HteAccepts, CrossFittingOK
  <2>3. BothArms(c, Retained(c))
    BY <1>4, <2>2, HteRowsAreFit DEF BothArms
  <2>4. AdjustedForBefore(c.ident, {b.id : b \in SetOf(c.split.covariates)})
    BY <1>4, <2>1, HteDeclares, BoundIsAdjusted DEF HteAccepts
  <2>5. RequestInOrder(c) /\ c.req.method \notin Guarded
    BY <1>4, <2>3, <2>4
       DEF RequestInOrder, BothArmsBefore, Guarded, CrossFitMethods, SubgroupMethods, WeightingMethods
  <2> QED BY <1>4, <2>5, RaisedKeepsContract
<1> QED BY <1>2, <1>3, <1>4, RefusedKeepsContract DEF HteEstimates

LEMMA DowhyKeepsContract ==
  ASSUME NEW c, Observational(c), c.req.method = "dowhy",
         NEW n \in DowhyResults(c, Identification(c.ident))
  PROVE  ContractHolds(c, n)
<1>1. IsRefused(n) \/ AnsweredUnderGraph(c, n)
  BY DowhyOutcome
<1>2. ASSUME NEW rows, NEW estimates, NEW adjusted, n = UnderGraph(rows, estimates, adjusted),
             "backdoor" \in estimates, rows # {} <=> estimates \ {"backdoor"} # {}
      PROVE  ContractHolds(c, n)
  <2>1. n.status = "completed" /\ n.reason = NoReason /\ n.rows = rows /\ n.estimates = estimates
    BY <1>2 DEF UnderGraph
  <2>2. n.estimates # {}
    BY <1>2, <2>1
  <2> QED BY <1>2, <2>1, <2>2 DEF ContractHolds, Partial
<1>3. ASSUME AnsweredUnderGraph(c, n) PROVE ContractHolds(c, n)
  <2>1. PICK adjusted \in BackdoorSets(c.ident) :
          \/ DOMAIN c.rows # {} /\ n = UnderGraph(DOMAIN c.rows, {"backdoor", "effect"}, adjusted)
          \/ n = UnderGraph({}, {"backdoor"}, adjusted)
    BY <1>3, FailuresTell DEF AnsweredUnderGraph
  <2> DEFINE both == {"backdoor", "effect"}
             one == {"backdoor"}
  <2>2. "backdoor" \in both /\ both \ {"backdoor"} # {} /\ "backdoor" \in one /\ one \ {"backdoor"} = {}
    OBVIOUS
  <2>3. \/ n = UnderGraph(DOMAIN c.rows, both, adjusted) /\ DOMAIN c.rows # {}
        \/ n = UnderGraph({}, one, adjusted)
    BY <2>1
  <2> HIDE DEF both, one
  <2> QED BY <2>2, <2>3, <1>2
<1> QED BY <1>1, <1>3, RefusedKeepsContract

LEMMA WeightingKeepsContract ==
  ASSUME NEW c, Observational(c), c.req.method \in WeightingMethods, IsList(c.rows),
         WeightingOK(c), Identification(c.ident).status = "identified",
         NEW n \in WeightingResults(c, Identification(c.ident))
  PROVE  ContractHolds(c, n)
<1>1. ASSUME NEW scores, NEW estimates, estimates # {}, n = Scored(scores, estimates),
             \A exposure \in Exposures : ArmOf(c, DOMAIN scores, exposure) # {}
      PROVE  ContractHolds(c, n)
  <2>1. DOMAIN scores # {}
    BY <1>1 DEF ArmOf, Exposures
  <2>2. /\ n.status = "completed" /\ n.reason = NoReason
        /\ n.rows = DOMAIN scores /\ n.estimates = estimates
    BY <1>1 DEF Scored
  <2> QED BY <1>1, <2>1, <2>2, CompletedKeepsContract DEF WeightingMethods
<1>2. ASSUME NEW scores, ScoresFit(c, scores)
      PROVE  \A exposure \in Exposures : ArmOf(c, DOMAIN scores, exposure) # {}
  <2>1. DOMAIN scores = ModelRows(c)
    BY <1>2, NothingTrimmed DEF ScoresFit
  <2> QED BY <1>2, <2>1, WeightingRefusalsTell DEF ScoresFit
<1>3. ASSUME NEW scores, ComparedFit(c, scores)
      PROVE  \A exposure \in Exposures : ArmOf(c, DOMAIN scores, exposure) # {}
  BY <1>3 DEF ComparedFit
<1> DEFINE given == {"scores"}
           effect == {"effect"}
<1>4. given # {} /\ effect # {}
  OBVIOUS
<1>5. \/ IsRefused(n)
      \/ n = Raised /\ Weighable(c)
      \/ \E scores : ScoresFit(c, scores) /\ n = Scored(scores, given)
      \/ \E scores : ComparedFit(c, scores) /\ n = Scored(scores, effect)
  BY WeightingOutcome
<1> HIDE DEF given, effect
<1>6. ASSUME n = Raised, Weighable(c)
      PROVE  ContractHolds(c, n)
  <2>1. /\ \A i \in DOMAIN c.rows : RowFault(c, i) = NoReason
        /\ \A exposure \in Exposures : ArmOf(c, ModelRows(c), exposure) # {}
    BY <1>6, WeightingRefusalsTell DEF Weighable
  <2>2. BothArms(c, ModelRows(c))
    BY <2>1, ModelRowsAreFit DEF BothArms
  <2>3. AdjustedForBefore(c.ident, {b.id : b \in SetOf(c.weight.covariates)})
    BY <1>6, DeclarationIsWeighed DEF Weighable
  <2>4. RequestInOrder(c) /\ c.req.method \notin Guarded
    BY <2>2, <2>3
       DEF RequestInOrder, BothArmsBefore, Guarded, CrossFitMethods, SubgroupMethods, WeightingMethods
  <2> QED BY <1>6, <2>4, RaisedKeepsContract
<1> QED BY <1>1, <1>2, <1>3, <1>4, <1>5, <1>6, RefusedKeepsContract

LEMMA CausalKeepsContract ==
  ASSUME NEW c, Observational(c), CausalOK(c), NEW n \in CausalResults(c)
  PROVE  ContractHolds(c, n)
<1> DEFINE identified == Identification(c.ident)
<1>1. CASE c.req.method = "did"
  <2>1. n \in DidResults(c, identified)
    BY <1>1 DEF CausalResults, CausalOf
  <2>2. ASSUME NEW estimates \in {{"att"}, {"att", "trend"}}, Canonical(c) # {},
               n = [status |-> "completed", reason |-> NoReason, rows |-> Canonical(c),
                    estimates |-> estimates, conclusion |-> None]
        PROVE  ContractHolds(c, n)
    <3>1. n.status = "completed" /\ n.reason = NoReason /\ n.rows = Canonical(c) /\ n.estimates = estimates
      BY <2>2
    <3>2. estimates # {}
      BY <2>2
    <3> QED BY <1>1, <2>2, <3>1, <3>2, CompletedKeepsContract
  <2> HIDE DEF identified
  <2>3. \/ IsRefused(n)
        \/ n = Raised /\ Canonical(c) # {} /\ PanelAccepts(c)
        \/ \E estimates \in {{"att"}, {"att", "trend"}} :
             /\ n = [status |-> "completed", reason |-> NoReason, rows |-> Canonical(c),
                     estimates |-> estimates, conclusion |-> None]
             /\ Canonical(c) # {}
    BY <1>1, <2>1, DidOutcome DEF identified
  <2>4. ASSUME n = Raised, Canonical(c) # {}, PanelAccepts(c)
        PROVE  ContractHolds(c, n)
    <3>1. PanelIsSound(c, [rows |-> Canonical(c)])
      BY <1>1, <2>4, DidIsEarned DEF CausalOK
    <3>2. RequestInOrder(c) /\ c.req.method \notin Guarded
      BY <1>1, <3>1 DEF RequestInOrder, Guarded, CrossFitMethods, SubgroupMethods, WeightingMethods
    <3> QED BY <2>4, <3>2, RaisedKeepsContract
  <2> QED BY <2>2, <2>3, <2>4, RefusedKeepsContract
<1>2. CASE c.req.method # "did" /\ identified.status # "identified"
  <2>1. n = Refused(identified.status, "identification.not_identified")
    BY <1>2 DEF CausalResults, CausalOf
  <2>2. identified.status \in Refusals
    BY <1>2, IdentificationStatuses DEF Identification, Identified, Refusals
  <2>3. "identification.not_identified" # NoReason
    BY DEF NoReason
  <2> HIDE DEF identified
  <2> QED BY <2>1, <2>2, <2>3, RefusedKeepsContract DEF IsRefused
<1>3. CASE c.req.method # "did" /\ identified.status = "identified"
  <2>1. CASE c.req.method \in CrossFitMethods
    <3>1. n \in DmlResults(c, identified)
      BY <1>3, <2>1 DEF CausalResults, CausalOf
    <3> QED BY <1>3, <2>1, <3>1, DmlKeepsContract DEF CausalOK
  <2>2. CASE c.req.method \in SubgroupMethods
    <3>1. n \in HteResults(c, identified)
      BY <1>3, <2>2 DEF CausalResults, CausalOf, SubgroupMethods, CrossFitMethods
    <3> QED BY <1>3, <2>2, <3>1, HteKeepsContract DEF CausalOK
  <2>3. CASE c.req.method = "dowhy"
    <3>1. n \in DowhyResults(c, identified)
      BY <1>3, <2>3 DEF CausalResults, CausalOf, SubgroupMethods, CrossFitMethods
    <3> QED BY <2>3, <3>1, DowhyKeepsContract
  <2>4. CASE c.req.method \in WeightingMethods
    <3>1. n \in WeightingResults(c, identified)
      BY <1>3, <2>4 DEF CausalResults, CausalOf, SubgroupMethods, CrossFitMethods, WeightingMethods
    <3> QED BY <1>3, <2>4, <3>1, WeightingKeepsContract DEF CausalOK
  <2> QED BY <1>3, <2>1, <2>2, <2>3, <2>4 DEF Observational, CausalMethods
<1> QED BY <1>1, <1>2, <1>3

\* No result of any service contradicts itself: one that withholds has a
\* reason and no numbers, one that has numbers has a row behind them and no
\* reason, its status and conclusion fit.  A service that raises is one that
\* does not catch what its numbers raise, and the request and the rows it had
\* come to were in order.
THEOREM ContractOfResults == TypedSpec => []ResultContract
<1>1. CaseIsOpen => ResultContract
  BY NativeOfCase, RandomizedKeepsContract, CausalKeepsContract DEF ResultContract
<1> QED BY <1>1, CaseTheorem, PTL

-----------------------------------------------------------------------------
(***************************************************************************)
(* What a scenario rests on.  Of declarations that fit there is nothing to *)
(* say, and what does not fit is never taken for the absence of a reason.  *)
(***************************************************************************)
LEMMA NothingJoined ==
  ASSUME NEW s, NEW t, IsList(s), IsList(t), s \o t = <<>>
  PROVE  s = <<>> /\ t = <<>>
<1>1. SetOf(s) \cup SetOf(t) = {}
  BY Join, Nothing
<1> QED BY <1>1 DEF IsList

LEMMA TellingSource ==
  ASSUME NEW s, NEW q, NEW metric PROVE Telling(SourceMisfits(s, q, metric))
  BY TellingTold, TellingJoin DEF SourceMisfits, Reserved, Foreign, NoReason

LEMMA TellingExposure == ASSUME NEW q PROVE Telling(ExposureMisfits(q))
  BY TellingTold, TellingJoin DEF ExposureMisfits, Reserved, Foreign, NoReason

LEMMA TellingPeriod == ASSUME NEW q PROVE Telling(PeriodMisfits(q))
  BY TellingTold DEF PeriodMisfits, Reserved, Foreign, NoReason

LEMMA TellingHorizon == ASSUME NEW q PROVE Telling(HorizonMisfits(q))
<1> DEFINE names == <<"exposure", "baseline", "conversion", "exposureConversion">>
           F == [i \in 1..4 |-> LET input == q[names[i]]
                                IN  Told(input # None /\ input.horizon # q.horizon.basis,
                                         "horizon_mismatch")]
<1>1. HorizonMisfits(q) = FlattenSeq(F)
  BY DEF HorizonMisfits
<1>2. IsList(names) /\ DOMAIN names = 1..4
  BY DEF IsList, SetOf
<1>3. \A i \in 1..4 : Telling(F[i])
  BY TellingTold DEF Reserved, Foreign, NoReason
<1> HIDE DEF F, names
<1>4. F = [i \in DOMAIN names |-> F[i]]
  BY <1>2 DEF F
<1> QED BY <1>1, <1>2, <1>3, <1>4, TellingEach

LEMMA TellingObservation == ASSUME NEW s, NEW q PROVE Telling(ObservationMisfits(s, q))
  BY TellingTold, TellingJoin DEF ObservationMisfits, Reserved, Foreign, NoReason

LEMMA TellingMoney ==
  ASSUME NEW s, NEW q, ScenarioOK(q) PROVE Telling(MoneyMisfits(s, q))
<1> DEFINE items == q.costs.items
           F == [i \in DOMAIN items |-> CostMisfits(s, q, items[i])]
           costs == IF q.costs = None THEN <<>> ELSE FlattenSeq(F)
<1>1. \A item : Telling(CostMisfits(s, q, item))
  BY TellingTold, TellingJoin DEF CostMisfits, Reserved, Foreign, NoReason
<1>2. Telling(costs)
  <2>1. CASE q.costs = None
    BY <2>1, TellingNothing
  <2>2. CASE q.costs # None
    <3>1. IsList(items)
      BY <2>2 DEF ScenarioOK
    <3>2. \A i \in DOMAIN items : Telling(F[i])
      BY <1>1
    <3> HIDE DEF F, items
    <3>3. F = [i \in DOMAIN items |-> F[i]]
      BY DEF F
    <3>4. Telling(FlattenSeq(F))
      BY <3>1, <3>2, <3>3, TellingEach
    <3> QED BY <2>2, <3>4
  <2> QED BY <2>1, <2>2
<1>3. MoneyMisfits(s, q) =
        Told(q.conversion # None /\ OwnCurrency(s, q) # None, "double_monetization")
        \o Told(q.conversion # None /\ ~PerOutcome(s, q, q.conversion), "conversion_unit_mismatch")
        \o Told(q.output # "outcome" /\ CurrencyOf(s, q) = None, "conversion_missing")
        \o Told(q.output = "net" /\ q.costs = None, "costs_missing")
        \o Told(q.costs # None /\ CurrencyOf(s, q) = None, "costs_without_money")
        \o costs
  BY DEF MoneyMisfits, Each
<1> HIDE DEF costs
<1> QED BY <1>2, <1>3, TellingTold, TellingJoin DEF Reserved, Foreign, NoReason

LEMMA MisfitsTell ==
  ASSUME NEW s, NEW q, ScenarioOK(q), NEW metric PROVE Telling(Misfits(s, q, metric))
<1> DEFINE m1 == SourceMisfits(s, q, metric)
           m2 == ExposureMisfits(q)
           m3 == PeriodMisfits(q)
           m4 == HorizonMisfits(q)
           m5 == ObservationMisfits(s, q)
           m6 == MoneyMisfits(s, q)
<1>1. Telling(m1) /\ Telling(m2) /\ Telling(m3) /\ Telling(m4) /\ Telling(m5) /\ Telling(m6)
  BY TellingSource, TellingExposure, TellingPeriod, TellingHorizon, TellingObservation, TellingMoney
<1>2. Misfits(s, q, metric) = m1 \o m2 \o m3 \o m4 \o m5 \o m6
  BY DEF Misfits
<1> HIDE DEF m1, m2, m3, m4, m5, m6
<1> QED BY <1>1, <1>2, TellingJoin

\* What is not told did not happen.
LEMMA Untold ==
  ASSUME NEW p, NEW x PROVE IsList(Told(p, x)) /\ (SetOf(Told(p, x)) = {} => ~p)
<1>1. CASE p
  <2>1. Told(p, x) = <<x>>
    BY <1>1 DEF Told
  <2>2. IsList(<<x>>) /\ SetOf(<<x>>) = {x}
    BY Single
  <2> QED BY <2>1, <2>2
<1>2. CASE ~p
  BY <1>2, Nothing DEF Told
<1> QED BY <1>1, <1>2

LEMMA EmptyList == ASSUME NEW s, IsList(s), SetOf(s) = {} PROVE s = <<>>
  BY DEF IsList

\* Where nothing is told to misfit, nothing is in any respect.
LEMMA NoMisfits ==
  ASSUME NEW s, NEW q, ScenarioOK(q), NEW metric, Misfits(s, q, metric) = <<>>
  PROVE  /\ SourceMisfits(s, q, metric) = <<>> /\ ExposureMisfits(q) = <<>>
         /\ PeriodMisfits(q) = <<>> /\ ObservationMisfits(s, q) = <<>> /\ MoneyMisfits(s, q) = <<>>
<1> DEFINE m1 == SourceMisfits(s, q, metric)
           m2 == ExposureMisfits(q)
           m3 == PeriodMisfits(q)
           m4 == HorizonMisfits(q)
           m5 == ObservationMisfits(s, q)
           m6 == MoneyMisfits(s, q)
<1>1. IsList(m1) /\ IsList(m2) /\ IsList(m3) /\ IsList(m4) /\ IsList(m5) /\ IsList(m6)
  BY TellingSource, TellingExposure, TellingPeriod, TellingHorizon, TellingObservation, TellingMoney
     DEF Telling
<1>2. m1 \o m2 \o m3 \o m4 \o m5 \o m6 = <<>>
  BY DEF Misfits
<1> HIDE DEF m1, m2, m3, m4, m5, m6
<1>3. UNION {SetOf(m1), SetOf(m2), SetOf(m3), SetOf(m4), SetOf(m5), SetOf(m6)} = {}
  BY <1>1, <1>2, JoinSix, Nothing
<1>4. SetOf(m1) = {} /\ SetOf(m2) = {} /\ SetOf(m3) = {} /\ SetOf(m5) = {} /\ SetOf(m6) = {}
  BY <1>3
<1>5. m1 = <<>> /\ m2 = <<>> /\ m3 = <<>> /\ m5 = <<>> /\ m6 = <<>>
  BY <1>1, <1>4, EmptyList
<1> QED BY <1>5 DEF m1, m2, m3, m5, m6

\* A scenario has what the models of a result insist on, so it never fails.
LEMMA ScenarioIsDisposed ==
  ASSUME NEW s, NEW q, NEW estimate, q.output \in Outputs
  PROVE  Disposed(s, q, ScenarioOf(s, q, estimate))
<1> DEFINE result_ == ScenarioOf(s, q, estimate)
           numbers == result_.numbers
<1>1. /\ result_.status = "completed" => ~Conditional(s, q)
      /\ DOMAIN numbers = Quantities(q)
  BY DEF ScenarioOf
<1>2. /\ {"exposed_population", "gross_incremental_outcome"} \subseteq Quantities(q)
      /\ q.output # "outcome" => "gross_monetary_impact" \in Quantities(q)
      /\ q.output = "outcome" => "gross_monetary_impact" \notin Quantities(q)
      /\ q.output = "net" =>
           {"declared_costs", "net_monetary_impact"} \cup ItemIds(q) \subseteq Quantities(q)
      /\ q.output # "net" => Quantities(q) \subseteq {"exposed_population",
                                "gross_incremental_outcome", "gross_monetary_impact"}
  BY DEF Quantities, If, Outputs
<1> HIDE DEF result_, numbers
<1>3. Disposed(s, q, result_)
  BY <1>1, <1>2 DEF Disposed, numbers
<1> QED BY <1>3 DEF result_

LEMMA ScenarioIsTold ==
  ASSUME NEW c, ScenarioOK(c.impact.q), NEW n, NEW status,
         NEW result_ \in ImpactResults(c, n, status)
  PROVE  /\ result_.status # "failed"
         /\ result_.reason = NoReason <=> result_.status # "abstained"
         /\ result_.numbers = NoNumbers <=> result_.status = "abstained"
         /\ result_.numbers # NoNumbers =>
              /\ SourceOf(c, n).blocks = {}
              /\ Misfits(SourceOf(c, n), c.impact.q, c.impact.metric) = <<>>
<1> DEFINE s == SourceOf(c, n)
           q == c.impact.q
           misfits == Misfits(s, q, c.impact.metric)
           scenario_ == ScenarioOf(s, q, c.impact.estimate)
<1>1. Disposed(s, q, scenario_)
  BY ScenarioIsDisposed DEF ScenarioOK
<1>2. Telling(misfits)
  BY MisfitsTell
<1>3. misfits # <<>> => Head(misfits) # NoReason
  <2> HIDE DEF misfits
  <2> SUFFICES ASSUME misfits # <<>> PROVE Head(misfits) # NoReason
    OBVIOUS
  <2>1. misfits \in Seq(SetOf(misfits)) /\ Head(misfits) = misfits[1] /\ 1 \in DOMAIN misfits
    BY <1>2 DEF Telling, IsList
  <2>2. misfits[1] \in SetOf(misfits)
    BY <2>1 DEF SetOf
  <2> QED BY <1>2, <2>1, <2>2 DEF Telling, Reserved, Foreign
<1>4. /\ scenario_.status \in {"completed", "inconclusive"} /\ scenario_.reason = NoReason
      /\ scenario_.numbers # NoNumbers
  <2>1. DOMAIN scenario_.numbers = Quantities(q) /\ DOMAIN NoNumbers = {}
    BY DEF ScenarioOf, NoNumbers
  <2>2. "exposed_population" \in Quantities(q)
    BY DEF Quantities
  <2>3. scenario_.numbers # NoNumbers
    BY <2>1, <2>2
  <2> QED BY <2>3 DEF ScenarioOf
<1>5. \/ \E reason : reason # NoReason /\ result_ = Abstention(reason)
      \/ s.blocks = {} /\ misfits = <<>> /\ result_ = scenario_
  <2> HIDE DEF s, q, misfits, scenario_
  <2>1. result_ \in IF status \notin {"completed", "inconclusive"} THEN {Abstention("upstream_ineligible")}
                    ELSE IF s.blocks # {} THEN {Abstention("source_ineligible")}
                    ELSE Calculated(s, q, c.impact.estimate, misfits)
    BY DEF ImpactResults, s, q, misfits
  <2>2. result_ \in Calculated(s, q, c.impact.estimate, misfits) =>
          \/ misfits # <<>> /\ result_ = Abstention(Head(misfits))
          \/ misfits = <<>> /\ result_ = Abstention("nonfinite_arithmetic")
          \/ misfits = <<>> /\ result_ = scenario_
    BY <1>1 DEF Calculated, Computed, scenario_
  <2> QED BY <1>3, <2>1, <2>2 DEF NoReason
<1>6. CASE \E reason : reason # NoReason /\ result_ = Abstention(reason)
  BY <1>6 DEF Abstention
<1>7. CASE s.blocks = {} /\ misfits = <<>> /\ result_ = scenario_
  BY <1>4, <1>7
<1> QED BY <1>5, <1>6, <1>7

\* There is an effect, of the units the scenario is about, and it is identified.
LEMMA RandomizedRests ==
  ASSUME NEW c, SoundCase(c), ~Observational(c), NEW n \in Results(c), n.estimates # {}
  PROVE  {"effect", "adjusted", "posterior"} \cap n.estimates # {}
<1>1. CASE c.req.method = "fixed_horizon_ab"
  <2>1. IsWithheld(n) \/ n \in Tested(ValidRows(c))
    BY <1>1, FixedHorizonOutcome DEF Results, FixedHorizonResults
  <2> QED BY <2>1, TestedHas, WithheldHasNone DEF IsWithheld
<1>2. CASE c.req.method = "cuped"
  <2>1. PICK baseline \in FixedHorizonResults(Unadjusted(c)) :
          n \in CupedOf(c, Eligibility(c, Cuped), baseline)
    BY <1>2 DEF Results, CupedResults
  <2>2. IsWithheld(n) \/ Adjusted(AllCovaried(c), n) \/ n = Interrupted
    BY <2>1, CupedOutcome
  <2> QED BY <2>2, AdjustedHas, WithheldHasNone DEF IsWithheld, Interrupted
<1>3. CASE c.req.method = "bayesian_ab"
  <2>1. \/ IsWithheld(n) \/ n = Interrupted
        \/ n = Estimated("completed", ValidRows(c), {"posterior"}, None)
    BY <1>3, BayesianOutcome DEF Results, BayesianResults
  <2>2. CASE n = Estimated("completed", ValidRows(c), {"posterior"}, None)
    BY <2>2 DEF Estimated
  <2> QED BY <2>1, <2>2, WithheldHasNone DEF IsWithheld, Interrupted
<1> QED BY <1>1, <1>2, <1>3 DEF SoundCase, RandomizedMethods

LEMMA SourceRests ==
  ASSUME NEW c, NEW n, ScenarioOK(c.impact.q), SourceOf(c, n).blocks = {},
         ~Observational(c) => SoundCase(c) /\ n \in Results(c)
  PROVE  Rests(c, n)
<1>1. CASE ~Observational(c)
  <2> DEFINE blocks == RandomizedBlocks(c, n, RandomizedScale(c.req.outcome))
  <2>1. blocks = {}
    BY <1>1 DEF SourceOf, RandomizedSource
  <2>2. n.status \in AdaptedStatuses(c.req.method)
    BY <2>1 DEF RandomizedBlocks, Blocking, If
  <2>3. n.status \in {"completed", "no_improvement", "degraded_precision"}
    BY <2>2 DEF AdaptedStatuses, If
  <2>4. ContractHolds(c, n)
    BY <1>1, RandomizedKeepsContract
  <2>5. n.estimates # {}
    BY <2>3, <2>4 DEF ContractHolds
  <2> QED BY <1>1, <2>5, RandomizedRests DEF Rests
<1>2. CASE Observational(c)
  <2> DEFINE blocks == CausalBlocks(c, n, CausalScale(c.ident))
             group == c.impact.q.group
  <2>1. blocks = {} /\ group = c.impact.q.population.group
    BY <1>2 DEF SourceOf, CausalSource, ScenarioOK
  <2>2. c.req.method \notin {"propensity_diagnostics", "dowhy"}
    BY <2>1 DEF CausalBlocks
  <2>3. /\ Identification(c.ident).status = "identified"
        /\ IF c.req.method \in SubgroupMethods THEN SubgroupBlocks(c, n, group) = {}
           ELSE {"effect", "att"} \cap n.estimates # {}
    BY <2>1, <2>2 DEF CausalBlocks, Reidentify, If
  <2>4. c.req.method \in SubgroupMethods => group \in n.estimates
    BY <2>3 DEF SubgroupBlocks, If
  <2> QED BY <1>2, <2>1, <2>3, <2>4 DEF Rests
<1> QED BY <1>1, <1>2

LEMMA CoveredDays ==
  ASSUME NEW outer, NEW inner, IsPeriod(outer), IsPeriod(inner), Covers(outer, inner),
         NEW day \in inner.start .. (inner.end - 1)
  PROVE  day \in outer.start .. (outer.end - 1)
  BY DEF IsPeriod, Covers

\* What was observed covers the horizon, or what is said to last does.
LEMMA DaysAreAccounted ==
  ASSUME NEW c, NEW n, ScenarioOK(c.impact.q),
         ObservationMisfits(SourceOf(c, n), c.impact.q) = <<>>,
         Observational(c) => (c.ident.post # None => IsPeriod(c.ident.post)),
         ~Observational(c) => IsPeriod(c.req.post)
  PROVE  Accounted(c, c.impact.q)
<1> DEFINE s == SourceOf(c, n)
           q == c.impact.q
           seen == IF Observational(c) THEN c.ident.post ELSE c.req.post
           last == ObservedOf(s, q)
           t1 == Told(None \notin {q.binding.observed, s.observed} /\ q.binding.observed # s.observed,
                      "observed_period_conflict")
           t2 == Told(q.binding.observed # None /\ s.observed = None
                        /\ q.binding.evidence # "measured", "observed_period_unmeasured")
           t3 == Told(last = None, "observed_period_missing")
           lasting == q.persistence # None /\ Covers(q.persistence.period, q.horizon.period)
           t4 == Told(Extrapolated(s, q) /\ ~lasting, "persistence_missing")
<1>1. s.observed = seen
  BY DEF SourceOf, CausalSource, RandomizedSource
<1>2. last # None /\ (Extrapolated(s, q) => lasting)
  <2>1. t1 \o t2 \o t3 \o t4 = <<>>
    BY DEF ObservationMisfits, Told
  <2>2. Telling(t1) /\ Telling(t2) /\ Telling(t3) /\ Telling(t4)
    BY TellingTold DEF Reserved, Foreign, NoReason
  <2>3. Telling(t1 \o t2) /\ Telling(t1 \o t2 \o t3)
    <3> HIDE DEF t1, t2, t3, t4
    <3> QED BY <2>2, TellingJoin
  <2>4. t3 = <<>> /\ t4 = <<>>
    <3> HIDE DEF t1, t2, t3, t4
    <3>1. t1 \o t2 \o t3 = <<>> /\ t4 = <<>>
      BY <2>1, <2>2, <2>3, NothingJoined DEF Telling
    <3>2. t3 = <<>>
      BY <3>1, <2>2, <2>3, NothingJoined DEF Telling
    <3> QED BY <3>1, <3>2
  <2> HIDE DEF last, lasting, s, q
  <2> QED BY <2>4 DEF Told
<1>3. IsPeriod(last)
  BY <1>1, <1>2 DEF ObservedOf, ScenarioOK
<1>4. IsPeriod(q.horizon.period) /\ (q.persistence # None => IsPeriod(q.persistence.period))
  BY DEF ScenarioOK
<1>5. last \in {seen, q.binding.observed} /\ (last = seen \/ seen = None)
  BY <1>1 DEF ObservedOf
<1> HIDE DEF s, seen, last
<1>6. ASSUME NEW day \in q.horizon.period.start .. (q.horizon.period.end - 1)
      PROVE  \/ day \in last.start .. (last.end - 1)
             \/ /\ q.persistence # None
                /\ day \in q.persistence.period.start .. (q.persistence.period.end - 1)
  <2>1. CASE Extrapolated(s, q)
    BY <1>2, <1>4, <2>1, CoveredDays
  <2>2. CASE ~Extrapolated(s, q)
    BY <1>2, <1>3, <1>4, <2>2, CoveredDays DEF Extrapolated, last
  <2> QED BY <2>1, <2>2
<1> QED BY <1>2, <1>5, <1>6 DEF Accounted, seen

LEMMA ScaledDivides ==
  \A a, b \in Nat \ {0} : a % b = 0 => (4 * a) % (4 * b) = 0
<1> SUFFICES ASSUME NEW a \in Nat \ {0}, NEW b \in Nat \ {0}, a % b = 0
             PROVE  (4 * a) % (4 * b) = 0
  OBVIOUS
<1>1. PICK k \in Nat : a = b * k
  <2> DEFINE k == a \div b
  <2>1. k \in Nat /\ a = b * k + (a % b)
    OBVIOUS
  <2> HIDE DEF k
  <2>2. a = b * k
    BY <2>1
  <2> QED BY <2>1, <2>2
<1>2. 4 * a = (4 * b) * k
  BY <1>1
<1>3. \A m \in Nat \ {0}, i \in Nat : (m * i) % m = 0
  OBVIOUS
<1>4. 4 * b \in Nat \ {0}
  OBVIOUS
<1>5. ((4 * b) * k) % (4 * b) = 0
  BY Zenon, <1>1, <1>3, <1>4
<1> QED BY Zenon, <1>2, <1>5

\* Both periods count days, or neither does, and the one divides the other.
LEMMA PeriodDivides ==
  ASSUME NEW q, ScenarioOK(q), PeriodMisfits(q) = <<>>
  PROVE  Length(q.horizon.basis) % Length(q.population.basis) = 0
<1> DEFINE part == q.population.basis
           whole == q.horizon.basis
           Months(b) == IF b.unit = "days" THEN 1 ELSE MonthsIn[b.unit]
           Count(b) == b.count * Months(b)
<1>1. IsBasis(part) /\ IsBasis(whole)
  BY DEF ScenarioOK
<1>2. CASE part = whole
  <2> DEFINE days == IF whole.unit = "days" THEN 1 ELSE DaysInMonth * MonthsIn[whole.unit]
  <2>1. whole.count \in Nat \ {0} /\ days \in {1, 4, 12, 48}
    BY <1>1 DEF IsBasis, DaysInMonth, MonthsIn
  <2>2. Length(whole) = whole.count * days
    BY DEF Length
  <2> HIDE DEF days
  <2>3. Length(whole) \in Nat \ {0}
    BY <2>1, <2>2
  <2> QED BY <1>2, <2>3
<1>3. CASE part # whole
  <2>1. Repetitions(part, whole) # None
    BY <1>3 DEF PeriodMisfits, Told, MultiplierOf
  <2>2. (part.unit = "days") = (whole.unit = "days") /\ Count(whole) % Count(part) = 0
    BY <2>1 DEF Repetitions
  <2>3. Count(whole) \in Nat \ {0} /\ Count(part) \in Nat \ {0}
    <3>1. \A b : IsBasis(b) => b.count \in Nat \ {0} /\ Months(b) \in {1, 3, 12}
      BY DEF IsBasis, MonthsIn
    <3>2. \A i \in Nat \ {0}, k \in {1, 3, 12} : i * k \in Nat \ {0}
      OBVIOUS
    <3> HIDE DEF Months
    <3> QED BY <1>1, <3>1, <3>2
  <2>4. CASE part.unit = "days"
    BY <2>2, <2>4 DEF Length
  <2>5. CASE part.unit # "days"
    <3>1. Length(whole) = DaysInMonth * Count(whole) /\ Length(part) = DaysInMonth * Count(part)
      BY <1>1, <2>2, <2>5 DEF Length, DaysInMonth, IsBasis, MonthsIn
    <3> HIDE DEF Count
    <3>2. \A a, b \in Nat \ {0} : a % b = 0 => (DaysInMonth * a) % (DaysInMonth * b) = 0
      BY ScaledDivides DEF DaysInMonth
    <3> QED BY <2>2, <2>3, <3>1, <3>2
  <2> QED BY <2>4, <2>5
<1> QED BY <1>2, <1>3

\* A case outlives the analysis node if a scenario is asked of it.
ScenarioIsAsked == case # NoCase /\ pc # "experiment_analysis" => AsksForScenario(case)

LEMMA AskedTheorem == TypedSpec => []ScenarioIsAsked
<1>1. TypedInit => ScenarioIsAsked
  BY DEF TypedInit, ScenarioIsAsked
<1>2. ScenarioIsAsked /\ [TypedNext]_<<vars, typed>> => ScenarioIsAsked'
  <2> SUFFICES ASSUME ScenarioIsAsked, [TypedNext]_<<vars, typed>> PROVE ScenarioIsAsked'
    OBVIOUS
  <2> USE DEF ScenarioIsAsked
  <2>1. CASE Dispatch
    BY <2>1 DEF Dispatch, vars
  <2>2. CASE Estimate
    BY <2>2 DEF Estimate, vars
  <2>3. CASE Store
    BY <2>3 DEF Store, Forgotten
  <2>4. CASE Assess
    BY <2>4 DEF Assess, vars
  <2>5. CASE Attach
    BY <2>5 DEF Attach, Forgotten
  <2>6. CASE Elsewhere
    BY <2>6 DEF Elsewhere, typed
  <2>7. CASE UNCHANGED <<vars, typed>>
    BY <2>7 DEF vars, typed
  <2> QED BY <2>1, <2>2, <2>3, <2>4, <2>5, <2>6, <2>7 DEF TypedNext
<1> QED BY <1>1, <1>2, PTL DEF TypedSpec

LEMMA PeriodIsDeclared ==
  ASSUME NEW c
  PROVE  /\ Observational(c) /\ CausalOK(c) => (c.ident.post # None => IsPeriod(c.ident.post))
         /\ ~Observational(c) /\ SoundCase(c) => IsPeriod(c.req.post)
<1>1. ASSUME Observational(c), CausalOK(c) PROVE IdentificationOK(c.ident)
  <2>1. \/ c.req.method \in {"did", "dowhy"} \/ c.req.method \in CrossFitMethods
        \/ c.req.method \in SubgroupMethods \/ c.req.method \in WeightingMethods
    BY <1>1 DEF Observational, CausalMethods
  <2>2. DidOK(c) \/ DowhyOK(c) \/ CrossFittingOK(c) \/ WeightingOK(c)
    BY <1>1, <2>1 DEF CausalOK, HeterogeneityOK
  <2> QED BY <2>2 DEF DidOK, DowhyOK, CrossFittingOK, WeightingOK
<1>2. IdentificationOK(c.ident) => (c.ident.post # None => IsPeriod(c.ident.post))
  BY DEF IdentificationOK
<1>3. SoundCase(c) => IsPeriod(c.req.post)
  BY DEF SoundCase, WellFormed, RequestOK
<1> QED BY <1>1, <1>2, <1>3

\* A scenario of the business service rests on an estimate that is identified
\* and of the units it is about, on days that were observed or are said to be
\* like them, and on a population whose period divides the horizon; it has
\* numbers or a reason, and never fails (impact/validation.py, service.py and
\* the adapters of source_randomized.py and source_causal.py).
THEOREM ScenarioRests == TypedSpec => []ScenarioIsFounded
<1>1. CaseIsOpen /\ ScenarioIsAsked => ScenarioIsFounded
  <2> SUFFICES ASSUME CaseIsOpen, ScenarioIsAsked, scenario # NoScenario
               PROVE  ScenarioIsFounded
    BY DEF ScenarioIsFounded
  <2>1. /\ case # NoCase /\ native # NoNative
        /\ scenario \in ImpactResults(case, native, store.status)
        /\ ScenarioOK(case.impact.q)
    BY CasesAssumption DEF CaseIsOpen, ScenarioIsAsked
  <2>2. /\ scenario.status # "failed"
        /\ scenario.reason = NoReason <=> scenario.status # "abstained"
        /\ scenario.numbers = NoNumbers <=> scenario.status = "abstained"
        /\ scenario.numbers # NoNumbers =>
             /\ SourceOf(case, native).blocks = {}
             /\ Misfits(SourceOf(case, native), case.impact.q, case.impact.metric) = <<>>
    BY <2>1, ScenarioIsTold
  <2>3. ASSUME scenario.numbers # NoNumbers PROVE Founded(case, native)
    <3>1. /\ SourceOf(case, native).blocks = {}
          /\ PeriodMisfits(case.impact.q) = <<>>
          /\ ObservationMisfits(SourceOf(case, native), case.impact.q) = <<>>
      BY <2>1, <2>2, <2>3, NoMisfits
    <3>2. /\ ~Observational(case) => SoundCase(case) /\ native \in Results(case)
          /\ Observational(case) => CausalOK(case)
      BY <2>1, NativeOfCase
    <3>3. Rests(case, native)
      BY <2>1, <3>1, <3>2, SourceRests
    <3>4. Accounted(case, case.impact.q)
      BY <2>1, <3>1, <3>2, PeriodIsDeclared, DaysAreAccounted
    <3>5. Length(case.impact.q.horizon.basis) % Length(case.impact.q.population.basis) = 0
      BY <2>1, <3>1, PeriodDivides
    <3> QED BY <3>3, <3>4, <3>5 DEF Founded
  <2> QED BY <2>2, <2>3 DEF ScenarioIsFounded
<1> QED BY <1>1, CaseTheorem, AskedTheorem, PTL

-----------------------------------------------------------------------------
(***************************************************************************)
(* Sums over a finite set.                                                 *)
(***************************************************************************)
\* One of a set, and a set of none.
SomeOf(s) == CHOOSE x \in s : TRUE

\* What is false of some part of a finite set is so of one that is empty, or
\* of one without whose chosen element it is not.
LEMMA SmallestPart ==
  ASSUME NEW S, IsFiniteSet(S), NEW Bad \in SUBSET (SUBSET S), Bad # {}
  PROVE  \E s \in Bad : s = {} \/ (SomeOf(s) \in s /\ s \ {SomeOf(s)} \notin Bad)
<1> DEFINE sizes == {Cardinality(s) : s \in Bad}
<1>1. \A s \in SUBSET S : IsFiniteSet(s) /\ Cardinality(s) \in Nat
  BY FS_Subset, FS_CardinalityType
<1>2. PICK k \in sizes : \A m \in sizes : k <= m
  <2>1. sizes \subseteq Nat /\ sizes # {}
    BY <1>1
  <2> HIDE DEF sizes
  <2> QED BY <2>1, LeastElement
<1>3. PICK s \in Bad : Cardinality(s) = k
  BY <1>2
<1>4. CASE s # {}
  <2>1. SomeOf(s) \in s
    BY <1>4 DEF SomeOf
  <2>2. Cardinality(s \ {SomeOf(s)}) = k - 1 /\ k \in Nat
    BY <1>1, <1>3, <2>1, FS_RemoveElement
  <2>3. s \ {SomeOf(s)} \notin Bad
    BY <1>2, <2>2
  <2> QED BY <1>3, <2>1, <2>3
<1> QED BY <1>3, <1>4

\* The sums over the parts of the domain of a function.
IsSums(g, f) ==
  g = [s \in SUBSET DOMAIN f |-> IF s = {} THEN 0 ELSE f[SomeOf(s)] + g[s \ {SomeOf(s)}]]
SumsOf(f) == CHOOSE g : IsSums(g, f)

LEMMA SumIsRecursive == ASSUME NEW f PROVE SumFunction(f) = SumsOf(f)[DOMAIN f]
  BY DEF SumFunction, SumFunctionOnSet, FoldFunctionOnSet, MapThenFoldSet, SumsOf, IsSums, SomeOf

\* They exist: each is a finite number of steps away from the empty one.
LEMMA SumsExist ==
  ASSUME NEW f, IsFiniteSet(DOMAIN f) PROVE \E g : IsSums(g, f)
<1> DEFINE S == DOMAIN f
           Part(g, n) == \A s \in SUBSET S : Cardinality(s) <= n =>
                           g[s] = IF s = {} THEN 0 ELSE f[SomeOf(s)] + g[s \ {SomeOf(s)}]
           Bad == {n \in Nat : ~ \E g : Part(g, n)}
<1>1. \A s \in SUBSET S : IsFiniteSet(s) /\ Cardinality(s) \in Nat
  BY FS_Subset, FS_CardinalityType
<1>2. 0 \notin Bad
  <2> DEFINE g == [s \in SUBSET S |-> 0]
  <2>1. \A s \in SUBSET S : Cardinality(s) <= 0 => s = {}
    BY <1>1, FS_EmptySet
  <2>2. Part(g, 0)
    BY <2>1
  <2> HIDE DEF Part
  <2> QED BY <2>2
<1>3. ASSUME NEW n \in Nat, n \notin Bad PROVE n + 1 \notin Bad
  <2>1. PICK g : Part(g, n)
    BY <1>3
  <2> DEFINE h == [s \in SUBSET S |-> IF s = {} THEN 0
                                      ELSE IF Cardinality(s) <= n THEN g[s]
                                      ELSE f[SomeOf(s)] + g[s \ {SomeOf(s)}]]
  <2>2. ASSUME NEW s \in SUBSET S, Cardinality(s) <= n PROVE h[s] = g[s]
    BY <2>1, <2>2
  <2>3. ASSUME NEW s \in SUBSET S, Cardinality(s) <= n + 1, s # {}
        PROVE  h[s] = f[SomeOf(s)] + h[s \ {SomeOf(s)}]
    <3>1. SomeOf(s) \in s
      BY <2>3 DEF SomeOf
    <3>2. s \ {SomeOf(s)} \in SUBSET S /\ Cardinality(s \ {SomeOf(s)}) <= n
      BY <1>1, <2>3, <3>1, FS_RemoveElement
    <3>3. h[s \ {SomeOf(s)}] = g[s \ {SomeOf(s)}]
      BY <2>2, <3>2
    <3>4. h[s] = f[SomeOf(s)] + g[s \ {SomeOf(s)}]
      BY <2>1, <2>3
    <3> QED BY <3>3, <3>4
  <2>4. h[{}] = 0
    OBVIOUS
  <2> HIDE DEF h
  <2>5. Part(h, n + 1)
    BY <2>3, <2>4
  <2> HIDE DEF Part
  <2> QED BY <2>5
<1>4. Cardinality(S) \in Nat /\ Cardinality(S) \notin Bad
  <2>1. Cardinality(S) \in Nat
    BY FS_CardinalityType
  <2>2. Bad = {}
    <3> SUFFICES ASSUME Bad # {} PROVE FALSE
      OBVIOUS
    <3>1. Bad \subseteq Nat
      OBVIOUS
    <3> HIDE DEF Bad
    <3>2. PICK n \in Bad : \A m \in Bad : n <= m
      BY <3>1, LeastElement
    <3>3. n # 0 /\ n \in Nat
      BY <1>2, <3>1, <3>2
    <3>4. n - 1 \in Nat /\ n - 1 \notin Bad
      BY <3>1, <3>2, <3>3
    <3>5. (n - 1) + 1 \notin Bad
      BY <1>3, <3>4
    <3> QED BY <3>2, <3>3, <3>5
  <2> QED BY <2>1, <2>2
<1>5. PICK g : Part(g, Cardinality(S))
  BY <1>4
<1>6. \A s \in SUBSET S : Cardinality(s) <= Cardinality(S)
  BY FS_Subset
<1> DEFINE h == [s \in SUBSET S |-> g[s]]
<1>7. ASSUME NEW s \in SUBSET S, s # {} PROVE SomeOf(s) \in s /\ s \ {SomeOf(s)} \in SUBSET S
  BY <1>7 DEF SomeOf
<1>8. h = [s \in SUBSET S |-> IF s = {} THEN 0 ELSE f[SomeOf(s)] + h[s \ {SomeOf(s)}]]
  <2> SUFFICES ASSUME NEW s \in SUBSET S
               PROVE  g[s] = IF s = {} THEN 0 ELSE f[SomeOf(s)] + h[s \ {SomeOf(s)}]
    OBVIOUS
  <2>1. g[s] = IF s = {} THEN 0 ELSE f[SomeOf(s)] + g[s \ {SomeOf(s)}]
    BY <1>5, <1>6
  <2> QED BY <1>7, <2>1
<1> HIDE DEF h
<1> QED BY <1>8 DEF IsSums

LEMMA SumsAreSums ==
  ASSUME NEW f, IsFiniteSet(DOMAIN f)
  PROVE  /\ IsSums(SumsOf(f), f) /\ SumsOf(f)[{}] = 0
         /\ \A s \in SUBSET DOMAIN f : s # {} =>
              SumsOf(f)[s] = f[SomeOf(s)] + SumsOf(f)[s \ {SomeOf(s)}]
<1>1. IsSums(SumsOf(f), f)
  BY SumsExist DEF SumsOf
<1> DEFINE g == SumsOf(f)
<1> HIDE DEF g
<1>2. IsSums(g, f)
  BY <1>1 DEF g
<1>3. g[{}] = 0 /\ \A s \in SUBSET DOMAIN f : s # {} => g[s] = f[SomeOf(s)] + g[s \ {SomeOf(s)}]
  BY <1>2 DEF IsSums
<1> QED BY <1>2, <1>3 DEF g

LEMMA SumsAreNumbers ==
  ASSUME NEW S, IsFiniteSet(S), NEW f \in [S -> Int]
  PROVE  \A s \in SUBSET S : SumsOf(f)[s] \in Int
<1> DEFINE g == SumsOf(f)
           Bad == {s \in SUBSET S : g[s] \notin Int}
<1> SUFFICES ASSUME Bad # {} PROVE FALSE
  OBVIOUS
<1>1. g[{}] = 0 /\ \A s \in SUBSET S : s # {} => g[s] = f[SomeOf(s)] + g[s \ {SomeOf(s)}]
  BY SumsAreSums
<1> HIDE DEF g
<1>2. PICK s \in Bad : s = {} \/ (SomeOf(s) \in s /\ s \ {SomeOf(s)} \notin Bad)
  <2>1. Bad \in SUBSET (SUBSET S)
    OBVIOUS
  <2> HIDE DEF Bad
  <2> QED BY <2>1, SmallestPart
<1>3. CASE s = {}
  BY <1>1, <1>2, <1>3
<1>4. CASE s # {}
  <2>1. f[SomeOf(s)] \in Int /\ g[s \ {SomeOf(s)}] \in Int
    BY <1>2, <1>4
  <2>2. g[s] = f[SomeOf(s)] + g[s \ {SomeOf(s)}] /\ g[s] \notin Int
    BY <1>1, <1>2, <1>4
  <2> QED BY <2>1, <2>2
<1> QED BY <1>3, <1>4

LEMMA SumIsNumber ==
  ASSUME NEW S, IsFiniteSet(S), NEW f \in [S -> Int] PROVE SumFunction(f) \in Int
<1>1. SumsOf(f)[S] \in Int
  BY SumsAreNumbers
<1> QED BY <1>1, SumIsRecursive

\* A function is a combination of three.
Combines(S, f, g1, g2, g3, k1, k2, k3) == \A i \in S : f[i] = k1 * g1[i] + k2 * g2[i] + k3 * g3[i]

\* A sum is linear in its terms, and grows with them.
LEMMA SumIsLinear ==
  ASSUME NEW S, IsFiniteSet(S), NEW f \in [S -> Int], NEW g1 \in [S -> Int],
         NEW g2 \in [S -> Int], NEW g3 \in [S -> Int],
         NEW k1 \in Int, NEW k2 \in Int, NEW k3 \in Int,
         Combines(S, f, g1, g2, g3, k1, k2, k3)
  PROVE  SumFunction(f) = k1 * SumFunction(g1) + k2 * SumFunction(g2) + k3 * SumFunction(g3)
<1> DEFINE F == SumsOf(f)
           G1 == SumsOf(g1)
           G2 == SumsOf(g2)
           G3 == SumsOf(g3)
           Agree(s) == F[s] = k1 * G1[s] + k2 * G2[s] + k3 * G3[s]
           Bad == {s \in SUBSET S : ~Agree(s)}
<1>1. F[{}] = 0 /\ G1[{}] = 0 /\ G2[{}] = 0 /\ G3[{}] = 0
  BY SumsAreSums
<1>2. \A s \in SUBSET S : s # {} =>
        /\ F[s] = f[SomeOf(s)] + F[s \ {SomeOf(s)}]
        /\ G1[s] = g1[SomeOf(s)] + G1[s \ {SomeOf(s)}]
        /\ G2[s] = g2[SomeOf(s)] + G2[s \ {SomeOf(s)}]
        /\ G3[s] = g3[SomeOf(s)] + G3[s \ {SomeOf(s)}]
  BY SumsAreSums
<1>3. \A s \in SUBSET S : F[s] \in Int /\ G1[s] \in Int /\ G2[s] \in Int /\ G3[s] \in Int
  BY SumsAreNumbers
<1>4. SumFunction(f) = F[S] /\ SumFunction(g1) = G1[S] /\ SumFunction(g2) = G2[S]
      /\ SumFunction(g3) = G3[S]
  BY SumIsRecursive
<1> HIDE DEF F, G1, G2, G3
<1>5. Bad = {}
  <2> SUFFICES ASSUME Bad # {} PROVE FALSE
    OBVIOUS
  <2>1. PICK s \in Bad : s = {} \/ (SomeOf(s) \in s /\ s \ {SomeOf(s)} \notin Bad)
    <3>1. Bad \in SUBSET (SUBSET S)
      OBVIOUS
    <3> HIDE DEF Bad
    <3> QED BY <3>1, SmallestPart
  <2>2. CASE s = {}
    <3>1. k1 * 0 + k2 * 0 + k3 * 0 = 0
      OBVIOUS
    <3> QED BY <1>1, <2>1, <2>2, <3>1
  <2>3. CASE s # {}
    <3> DEFINE x == SomeOf(s)
               r == s \ {SomeOf(s)}
    <3>1. x \in S /\ r \in SUBSET S /\ F[r] = k1 * G1[r] + k2 * G2[r] + k3 * G3[r]
      BY <2>1, <2>3
    <3>2. /\ F[s] = f[x] + F[r] /\ G1[s] = g1[x] + G1[r]
          /\ G2[s] = g2[x] + G2[r] /\ G3[s] = g3[x] + G3[r]
      BY <1>2, <2>1, <2>3
    <3>3. F[s] # k1 * G1[s] + k2 * G2[s] + k3 * G3[s]
      BY <2>1
    <3> HIDE DEF x, r
    <3>4. /\ g1[x] \in Int /\ g2[x] \in Int /\ g3[x] \in Int
          /\ G1[r] \in Int /\ G2[r] \in Int /\ G3[r] \in Int
          /\ f[x] = k1 * g1[x] + k2 * g2[x] + k3 * g3[x]
      BY <1>3, <3>1 DEF Combines
    <3>5. \A k, a, b \in Int : k * (a + b) = k * a + k * b
      OBVIOUS
    <3>6. /\ k1 * G1[s] = k1 * g1[x] + k1 * G1[r] /\ k2 * G2[s] = k2 * g2[x] + k2 * G2[r]
          /\ k3 * G3[s] = k3 * g3[x] + k3 * G3[r]
      BY <3>2, <3>4, <3>5
    <3>7. \A k, a \in Int : k * a \in Int
      OBVIOUS
    <3>8. /\ k1 * g1[x] \in Int /\ k2 * g2[x] \in Int /\ k3 * g3[x] \in Int
          /\ k1 * G1[r] \in Int /\ k2 * G2[r] \in Int /\ k3 * G3[r] \in Int
      BY <3>4, <3>7
    <3> QED BY <3>1, <3>2, <3>3, <3>4, <3>6, <3>8
  <2> QED BY <2>2, <2>3
<1> QED BY <1>4, <1>5

LEMMA SumIsMonotone ==
  ASSUME NEW S, IsFiniteSet(S), NEW f \in [S -> Int], NEW g \in [S -> Int],
         \A i \in S : f[i] <= g[i]
  PROVE  SumFunction(f) <= SumFunction(g)
<1> DEFINE F == SumsOf(f)
           G == SumsOf(g)
           Bad == {s \in SUBSET S : ~(F[s] <= G[s])}
<1>1. F[{}] = 0 /\ G[{}] = 0
  BY SumsAreSums
<1>2. \A s \in SUBSET S : s # {} =>
        F[s] = f[SomeOf(s)] + F[s \ {SomeOf(s)}] /\ G[s] = g[SomeOf(s)] + G[s \ {SomeOf(s)}]
  BY SumsAreSums
<1>3. \A s \in SUBSET S : F[s] \in Int /\ G[s] \in Int
  BY SumsAreNumbers
<1>4. SumFunction(f) = F[S] /\ SumFunction(g) = G[S]
  BY SumIsRecursive
<1> HIDE DEF F, G
<1>5. Bad = {}
  <2> SUFFICES ASSUME Bad # {} PROVE FALSE
    OBVIOUS
  <2>1. PICK s \in Bad : s = {} \/ (SomeOf(s) \in s /\ s \ {SomeOf(s)} \notin Bad)
    <3>1. Bad \in SUBSET (SUBSET S)
      OBVIOUS
    <3> HIDE DEF Bad
    <3> QED BY <3>1, SmallestPart
  <2>2. CASE s = {}
    BY <1>1, <2>1, <2>2
  <2>3. CASE s # {}
    <3>1. SomeOf(s) \in S /\ s \ {SomeOf(s)} \in SUBSET S /\ F[s \ {SomeOf(s)}] <= G[s \ {SomeOf(s)}]
      BY <2>1, <2>3
    <3> DEFINE x == SomeOf(s)
               r == s \ {SomeOf(s)}
    <3>2. F[s] = f[x] + F[r] /\ G[s] = g[x] + G[r] /\ ~(F[s] <= G[s])
      BY <1>2, <2>1, <2>3
    <3>3. f[x] \in Int /\ g[x] \in Int /\ F[r] \in Int /\ G[r] \in Int /\ f[x] <= g[x]
      BY <1>3, <3>1
    <3> HIDE DEF x, r
    <3> QED BY <3>1, <3>2, <3>3 DEF r
  <2> QED BY <2>2, <2>3
<1> QED BY <1>4, <1>5

-----------------------------------------------------------------------------
(***************************************************************************)
(* What a scenario comes to.  Bounds are carried through products, sums    *)
(* and differences; each keeps the tightest band of the numbers that can   *)
(* be chosen, because no factor is taken twice.                            *)
(***************************************************************************)
\* A band is the tightest one of some numbers: it holds them, and its ends
\* are among them.
TightFor(b, V) ==
  /\ V \subseteq Int /\ b \in [lower : Int, upper : Int]
  /\ b.lower \in V /\ b.upper \in V
  /\ \A v \in V : b.lower <= v /\ v <= b.upper
IsPoint(b) == b.lower = b.upper

LEMMA LeastIsMin ==
  ASSUME NEW S, S \subseteq Int, NEW m \in S, \A y \in S : m <= y PROVE Min(S) = m
<1>1. Min(S) \in S /\ \A y \in S : Min(S) <= y
  BY DEF Min
<1> DEFINE k == Min(S)
<1>2. k \in S /\ k \in Int /\ m \in Int /\ k <= m /\ m <= k
  BY <1>1
<1> HIDE DEF k
<1>3. k = m
  BY <1>2
<1> QED BY <1>3 DEF k

LEMMA GreatestIsMax ==
  ASSUME NEW S, S \subseteq Int, NEW m \in S, \A y \in S : y <= m PROVE Max(S) = m
<1>1. Max(S) \in S /\ \A y \in S : Max(S) >= y
  BY DEF Max
<1> DEFINE k == Max(S)
<1>2. k \in S /\ k \in Int /\ m \in Int /\ k <= m /\ m <= k
  BY <1>1
<1> HIDE DEF k
<1>3. k = m
  BY <1>2
<1> QED BY <1>3 DEF k

LEMMA BandIsNotNone == ASSUME NEW b \in [lower : Int, upper : Int] PROVE b # None
  BY AbsentAssumption

LEMMA PointSpans == ASSUME NEW k \in Int PROVE TightFor(Exactly(k), {k}) /\ IsPoint(Exactly(k))
  BY DEF TightFor, Exactly, IsPoint

LEMMA BetweenProducts ==
  ASSUME NEW l \in Int, NEW x \in Int, NEW u \in Int, NEW k \in Int, l <= x, x <= u
  PROVE  \/ l * k <= x * k /\ x * k <= u * k
         \/ u * k <= x * k /\ x * k <= l * k
<1>1. ASSUME NEW a \in Int, NEW b \in Int, a <= b, k >= 0 PROVE a * k <= b * k
  BY <1>1
<1>2. ASSUME NEW a \in Int, NEW b \in Int, a <= b, k <= 0 PROVE b * k <= a * k
  BY <1>2
<1>3. CASE k >= 0
  BY <1>1, <1>3
<1>4. CASE k <= 0
  BY <1>2, <1>4
<1> QED BY <1>3, <1>4

LEMMA FourEnds ==
  ASSUME NEW p1 \in Int, NEW p2 \in Int, NEW p3 \in Int, NEW p4 \in Int
  PROVE  /\ Min({p1, p2, p3, p4}) \in {p1, p2, p3, p4}
         /\ Max({p1, p2, p3, p4}) \in {p1, p2, p3, p4}
         /\ \A y \in {p1, p2, p3, p4} : Min({p1, p2, p3, p4}) <= y /\ y <= Max({p1, p2, p3, p4})
<1> DEFINE ends == {p1, p2, p3, p4}
<1>1. \E m \in ends : \A y \in ends : m <= y
  OBVIOUS
<1>2. \E m \in ends : \A y \in ends : y <= m
  OBVIOUS
<1>3. ends \subseteq Int
  OBVIOUS
<1> HIDE DEF ends
<1>4. Min(ends) \in ends /\ \A y \in ends : Min(ends) <= y
  BY <1>1, <1>3, LeastIsMin
<1>5. Max(ends) \in ends /\ \A y \in ends : y <= Max(ends)
  BY <1>2, <1>3, GreatestIsMax
<1> QED BY <1>4, <1>5 DEF ends

LEMMA TimesSpans ==
  ASSUME NEW a, NEW V, NEW b, NEW W, TightFor(a, V), TightFor(b, W)
  PROVE  /\ TightFor(Times(a, b), {v * w : v \in V, w \in W})
         /\ IsPoint(a) /\ IsPoint(b) => IsPoint(Times(a, b))
<1> DEFINE p1 == a.lower * b.lower
           p2 == a.lower * b.upper
           p3 == a.upper * b.lower
           p4 == a.upper * b.upper
           ends == {p1, p2, p3, p4}
           lo == Min(ends)
           hi == Max(ends)
           U == {v * w : v \in V, w \in W}
<1>1. /\ a.lower \in Int /\ a.upper \in Int /\ b.lower \in Int /\ b.upper \in Int
      /\ a.lower <= a.upper /\ b.lower <= b.upper
  BY DEF TightFor
<1>2. {x * y : x \in {a.lower, a.upper}, y \in {b.lower, b.upper}} = ends
  OBVIOUS
<1>3. p1 \in Int /\ p2 \in Int /\ p3 \in Int /\ p4 \in Int
  BY <1>1
<1>4. a # None /\ b # None
  BY BandIsNotNone DEF TightFor
<1>5. Times(a, b) = [lower |-> lo, upper |-> hi]
  BY <1>2, <1>4 DEF Times
<1>6. p1 \in U /\ p2 \in U /\ p3 \in U /\ p4 \in U
  BY DEF TightFor
<1>7. U \subseteq Int
  BY DEF TightFor
<1>8. ASSUME NEW v \in V, NEW w \in W
      PROVE  /\ \E p \in ends : p <= v * w
             /\ \E p \in ends : v * w <= p
  <2>1. v \in Int /\ w \in Int /\ a.lower <= v /\ v <= a.upper /\ b.lower <= w /\ w <= b.upper
    BY DEF TightFor
  <2> DEFINE x1 == a.lower * w
             x2 == a.upper * w
  <2>2. \/ x1 <= v * w /\ v * w <= x2
        \/ x2 <= v * w /\ v * w <= x1
    BY <1>1, <2>1, BetweenProducts
  <2>3. a.lower * w = w * a.lower /\ a.upper * w = w * a.upper
    BY <1>1, <2>1
  <2>4. \/ b.lower * a.lower <= w * a.lower /\ w * a.lower <= b.upper * a.lower
        \/ b.upper * a.lower <= w * a.lower /\ w * a.lower <= b.lower * a.lower
    BY <1>1, <2>1, BetweenProducts
  <2>5. \/ b.lower * a.upper <= w * a.upper /\ w * a.upper <= b.upper * a.upper
        \/ b.upper * a.upper <= w * a.upper /\ w * a.upper <= b.lower * a.upper
    BY <1>1, <2>1, BetweenProducts
  <2>6. /\ b.lower * a.lower = p1 /\ b.upper * a.lower = p2
        /\ b.lower * a.upper = p3 /\ b.upper * a.upper = p4
    BY <1>1
  <2>7. \/ p1 <= x1 /\ x1 <= p2
        \/ p2 <= x1 /\ x1 <= p1
    BY <2>3, <2>4, <2>6
  <2>8. \/ p3 <= x2 /\ x2 <= p4
        \/ p4 <= x2 /\ x2 <= p3
    BY <2>3, <2>5, <2>6
  <2>9. x1 \in Int /\ x2 \in Int /\ v * w \in Int
    BY <1>1, <2>1
  <2> DEFINE y == v * w
  <2> HIDE DEF p1, p2, p3, p4, x1, x2, y
  <2>10. /\ \E p \in {p1, p2, p3, p4} : p <= y
         /\ \E p \in {p1, p2, p3, p4} : y <= p
    BY <1>3, <2>2, <2>7, <2>8, <2>9 DEF y
  <2> QED BY <2>10 DEF y
<1> HIDE DEF p1, p2, p3, p4
<1>9. lo \in ends /\ hi \in ends /\ \A p \in ends : lo <= p /\ p <= hi
  BY <1>3, FourEnds, Zenon
<1> HIDE DEF lo, hi
<1>10. lo \in Int /\ hi \in Int /\ lo \in U /\ hi \in U
  BY <1>3, <1>6, <1>9
<1>11. \A u \in U : lo <= u /\ u <= hi
  <2> SUFFICES ASSUME NEW v \in V, NEW w \in W PROVE lo <= v * w /\ v * w <= hi
    OBVIOUS
  <2>1. v * w \in Int
    BY <1>7
  <2>2. PICK p \in ends : p <= v * w
    BY <1>8
  <2>3. PICK r \in ends : v * w <= r
    BY <1>8
  <2>4. p \in Int /\ r \in Int /\ lo <= p /\ r <= hi
    BY <1>3, <1>9
  <2> QED BY <1>10, <2>1, <2>2, <2>3, <2>4
<1>12. TightFor(Times(a, b), U)
  <2> HIDE DEF U
  <2> QED BY <1>5, <1>7, <1>10, <1>11 DEF TightFor
<1>13. IsPoint(a) /\ IsPoint(b) => IsPoint(Times(a, b))
  <2> SUFFICES ASSUME IsPoint(a), IsPoint(b) PROVE lo = hi
    BY <1>5 DEF IsPoint
  <2>1. p1 = p2 /\ p1 = p3 /\ p1 = p4
    BY DEF IsPoint, p1, p2, p3, p4
  <2> QED BY <1>9, <2>1
<1> QED BY <1>12, <1>13

LEMMA PlusSpans ==
  ASSUME NEW a, NEW V, NEW b, NEW W, TightFor(a, V), TightFor(b, W)
  PROVE  /\ TightFor(Plus(a, b), {v + w : v \in V, w \in W})
         /\ IsPoint(a) /\ IsPoint(b) => IsPoint(Plus(a, b))
<1>1. a # None /\ b # None
  BY BandIsNotNone DEF TightFor
<1>2. Plus(a, b) = [lower |-> a.lower + b.lower, upper |-> a.upper + b.upper]
  BY <1>1 DEF Plus
<1> QED BY <1>2 DEF TightFor, IsPoint

LEMMA MinusSpans ==
  ASSUME NEW a, NEW V, NEW b, NEW W, TightFor(a, V), TightFor(b, W)
  PROVE  /\ TightFor(Minus(a, b), {v - w : v \in V, w \in W})
         /\ IsPoint(a) /\ IsPoint(b) => IsPoint(Minus(a, b))
<1>1. a # None /\ b # None
  BY BandIsNotNone DEF TightFor
<1>2. Minus(a, b) = [lower |-> a.lower - b.upper, upper |-> a.upper - b.lower]
  BY <1>1 DEF Minus
<1> QED BY <1>2 DEF TightFor, IsPoint

LEMMA OfNoneIsNone ==
  ASSUME NEW a, NEW b
  PROVE  /\ Times(a, b) # None => a # None /\ b # None
         /\ Plus(a, b) # None => a # None /\ b # None
         /\ Minus(a, b) # None => a # None /\ b # None
  BY DEF Times, Plus, Minus

LEMMA TightIsSpan ==
  ASSUME NEW c, NEW q, NEW mode, NEW field, NEW b,
         TightFor(b, {Amount(c, q, x, field) : x \in Draws(mode, q, c.impact.estimate)})
  PROVE  Tight(c, q, mode, field, b)
<1> DEFINE V == {Amount(c, q, x, field) : x \in Draws(mode, q, c.impact.estimate)}
<1> HIDE DEF V
<1>1. TightFor(b, V)
  BY DEF V
<1>2. Min(V) = b.lower /\ Max(V) = b.upper /\ b = [lower |-> b.lower, upper |-> b.upper]
  BY <1>1, LeastIsMin, GreatestIsMax DEF TightFor
<1> QED BY <1>2 DEF Tight, V

Middling == {"central", "statistical"}
Modes == {"central", "statistical", "business", "combined"}

LEMMA RangeSpans ==
  ASSUME NEW mode \in Modes, NEW range, IsRange(range)
  PROVE  /\ ChoicesOf(mode, range) \subseteq Int /\ ChoicesOf(mode, range) # {}
         /\ ValueIn(mode, range) # None => TightFor(ValueIn(mode, range), ChoicesOf(mode, range))
         /\ ValueIn(mode, range) # None /\ mode \in Middling => IsPoint(ValueIn(mode, range))
         /\ mode \notin Middling \/ range.central # None => ValueIn(mode, range) # None
<1>1. /\ range.lower \in Int /\ range.upper \in Int /\ range.lower <= range.upper
      /\ range.central # None => range.central \in Int
  BY DEF IsRange
<1>2. CASE mode \notin Middling
  <2>1. /\ ValueIn(mode, range) = [lower |-> range.lower, upper |-> range.upper]
        /\ ChoicesOf(mode, range) = range.lower .. range.upper
    BY <1>2 DEF ValueIn, ChoicesOf, Modes, Middling
  <2>2. ValueIn(mode, range) # None
    BY <1>1, <2>1, BandIsNotNone
  <2> QED BY <1>1, <1>2, <2>1, <2>2 DEF TightFor
<1>3. CASE mode \in Middling /\ range.central = None
  BY <1>1, <1>3 DEF ValueIn, ChoicesOf, Middling
<1>4. CASE mode \in Middling /\ range.central # None
  <2>1. ValueIn(mode, range) = Exactly(range.central) /\ ChoicesOf(mode, range) = {range.central}
    BY <1>4 DEF ValueIn, ChoicesOf, Middling
  <2>2. Exactly(range.central) # None
    BY <1>1, <1>4, BandIsNotNone DEF Exactly
  <2> QED BY <1>1, <1>4, <2>1, <2>2, PointSpans
<1> QED BY <1>2, <1>3, <1>4

(***************************************************************************)
(* Costs that fit: each is charged once, or a whole number of times.       *)
(***************************************************************************)
CostsFit(q) ==
  /\ q.costs # None /\ IsList(q.costs.items)
  /\ \A i \in DOMAIN q.costs.items :
       CostOK(q.costs.items[i]) /\ Occurrences(q, q.costs.items[i]) \in Nat \ {0}

Term(q, bases, i, v) ==
  IF q.costs.items[i].basis \in bases THEN v * Occurrences(q, q.costs.items[i]) ELSE 0
CostOver(q, bases, f) == SumFunction([i \in DOMAIN q.costs.items |-> Term(q, bases, i, f[i])])

LEMMA CostChoice ==
  ASSUME NEW mode \in Modes, NEW q, CostsFit(q)
  PROVE  /\ IsFiniteSet(DOMAIN q.costs.items)
         /\ \A i \in DOMAIN q.costs.items :
              /\ IsRange(q.costs.items[i].value)
              /\ ChoicesOf(mode, q.costs.items[i].value) \subseteq Int
              /\ ChoicesOf(mode, q.costs.items[i].value) # {}
         /\ \A f : f \in CostChoices(mode, q) <=>
              /\ f = [i \in DOMAIN q.costs.items |-> f[i]]
              /\ \A i \in DOMAIN q.costs.items : f[i] \in ChoicesOf(mode, q.costs.items[i].value)
<1> DEFINE items == q.costs.items
           S == DOMAIN items
           values == [i \in S |-> ChoicesOf(mode, items[i].value)]
<1>1. IsFiniteSet(S)
  <2>1. Len(items) \in Nat /\ S = 1 .. Len(items)
    BY DEF CostsFit, IsList
  <2> QED BY <2>1, FS_Interval
<1>2. \A i \in S : IsRange(items[i].value)
  BY DEF CostsFit, CostOK, Nonnegative
<1>3. \A i \in S : ChoicesOf(mode, items[i].value) \subseteq Int /\ ChoicesOf(mode, items[i].value) # {}
  BY <1>2, RangeSpans
<1>4. CostChoices(mode, q) = {f \in [S -> UNION {values[i] : i \in S}] : \A i \in S : f[i] \in values[i]}
  BY DEF CostChoices, CostsFit
<1>5. \A i \in S : values[i] = ChoicesOf(mode, items[i].value)
  OBVIOUS
<1> HIDE DEF items, values
<1>6. \A f : f \in CostChoices(mode, q) <=> f = [i \in S |-> f[i]] /\ \A i \in S : f[i] \in values[i]
  BY <1>4
<1> QED BY <1>1, <1>2, <1>3, <1>5, <1>6 DEF items

LEMMA TermIsNumber ==
  ASSUME NEW q, CostsFit(q), NEW bases, NEW i \in DOMAIN q.costs.items, NEW v \in Int
  PROVE  Term(q, bases, i, v) \in Int
  BY DEF Term, CostsFit

LEMMA CostSpans ==
  ASSUME NEW mode \in Modes, NEW q, CostsFit(q), NEW bases, NEW i \in DOMAIN q.costs.items,
         CostIn(mode, q, bases, q.costs.items[i]) # None
  PROVE  /\ TightFor(CostIn(mode, q, bases, q.costs.items[i]),
                  {Term(q, bases, i, v) : v \in ChoicesOf(mode, q.costs.items[i].value)})
         /\ mode \in Middling => IsPoint(CostIn(mode, q, bases, q.costs.items[i]))
<1> DEFINE item == q.costs.items[i]
           V == ChoicesOf(mode, item.value)
           k == Occurrences(q, item)
           b == ValueIn(mode, item.value)
<1>1. IsRange(item.value) /\ V # {} /\ V \subseteq Int /\ k \in Int
  BY CostChoice DEF CostsFit
<1>2. CASE item.basis \notin bases
  <2>1. CostIn(mode, q, bases, item) = Exactly(0)
    BY <1>2 DEF CostIn
  <2>2. {Term(q, bases, i, v) : v \in V} = {0}
    <3>1. \A v \in V : Term(q, bases, i, v) = 0
      BY <1>2 DEF Term
    <3> QED BY <1>1, <3>1
  <2>3. TightFor(Exactly(0), {0}) /\ IsPoint(Exactly(0))
    BY PointSpans
  <2> DEFINE U == {Term(q, bases, i, v) : v \in V}
             cost == CostIn(mode, q, bases, item)
  <2> HIDE DEF U, cost, V, item
  <2>4. TightFor(cost, U) /\ IsPoint(cost)
    BY <2>1, <2>2, <2>3 DEF U, cost
  <2> QED BY <2>4, Zenon DEF item, V, U, cost
<1>3. CASE item.basis \in bases
  <2>1. CostIn(mode, q, bases, item) = Times(b, Exactly(k))
    BY <1>3 DEF CostIn
  <2>2. b # None
    BY <2>1, OfNoneIsNone
  <2>3. TightFor(b, V) /\ (mode \in Middling => IsPoint(b))
    BY <1>1, <2>2, RangeSpans
  <2>4. TightFor(Exactly(k), {k}) /\ IsPoint(Exactly(k))
    BY <1>1, PointSpans
  <2> DEFINE U == {Term(q, bases, i, v) : v \in V}
             P == {v * w : v \in V, w \in {k}}
             product == Times(b, Exactly(k))
  <2>5. U = P
    <3>1. \A v : Term(q, bases, i, v) = v * k
      BY <1>3 DEF Term
    <3> HIDE DEF V, k
    <3> QED BY <3>1
  <2>6. TightFor(product, P) /\ (IsPoint(b) => IsPoint(product))
    <3> HIDE DEF b, k, V
    <3> QED BY <2>3, <2>4, TimesSpans
  <2> HIDE DEF product, U, P, b, V, item
  <2>7. /\ TightFor(CostIn(mode, q, bases, item), U)
        /\ mode \in Middling => IsPoint(CostIn(mode, q, bases, item))
    BY <2>1, <2>3, <2>5, <2>6 DEF product
  <2> QED BY <2>7, Zenon DEF item, V, U
<1> QED BY <1>2, <1>3

LEMMA CostOverIsNumber ==
  ASSUME NEW mode \in Modes, NEW q, CostsFit(q), NEW bases, NEW f \in CostChoices(mode, q)
  PROVE  CostOver(q, bases, f) \in Int
<1> DEFINE S == DOMAIN q.costs.items
           terms == [i \in S |-> Term(q, bases, i, f[i])]
<1>1. \A i \in S : f[i] \in Int
  BY CostChoice
<1>2. IsFiniteSet(S) /\ terms \in [S -> Int]
  BY <1>1, CostChoice, TermIsNumber
<1> HIDE DEF terms, S
<1>3. SumFunction(terms) \in Int
  BY <1>2, SumIsNumber
<1> QED BY <1>3 DEF CostOver, terms, S

\* The sum of the bounds of the costs is the band of their sum.
LEMMA CostsSpan ==
  ASSUME NEW mode \in Modes, NEW q, CostsFit(q), NEW bases, CostsIn(mode, q, bases) # None
  PROVE  /\ TightFor(CostsIn(mode, q, bases), {CostOver(q, bases, f) : f \in CostChoices(mode, q)})
         /\ mode \in Middling => IsPoint(CostsIn(mode, q, bases))
<1> DEFINE S == DOMAIN q.costs.items
           V(i) == ChoicesOf(mode, q.costs.items[i].value)
           costs == [i \in S |-> CostIn(mode, q, bases, q.costs.items[i])]
           C == CostChoices(mode, q)
           lows == [i \in S |-> costs[i].lower]
           tops == [i \in S |-> costs[i].upper]
           low == SumFunction(lows)
           top == SumFunction(tops)
           T(f) == [i \in S |-> Term(q, bases, i, f[i])]
           U == {CostOver(q, bases, f) : f \in C}
<1>1. IsFiniteSet(S)
  BY CostChoice
<1>2. /\ \A i \in S : costs[i] # None
      /\ CostsIn(mode, q, bases) = [lower |-> low, upper |-> top]
  BY DEF CostsIn
<1>3. \A i \in S : /\ TightFor(costs[i], {Term(q, bases, i, v) : v \in V(i)})
                   /\ mode \in Middling => IsPoint(costs[i])
  BY <1>2, CostSpans
<1>4. \A i \in S : /\ costs[i].lower \in Int /\ costs[i].upper \in Int
                   /\ \E v \in V(i) : costs[i].lower = Term(q, bases, i, v)
                   /\ \E v \in V(i) : costs[i].upper = Term(q, bases, i, v)
                   /\ \A v \in V(i) : costs[i].lower <= Term(q, bases, i, v)
                                      /\ Term(q, bases, i, v) <= costs[i].upper
  BY <1>3 DEF TightFor
<1>5. \A f : f \in C <=> f = [i \in S |-> f[i]] /\ \A i \in S : f[i] \in V(i)
  BY CostChoice
<1>6. \A f \in C : \A i \in S : f[i] \in Int
  BY <1>5, CostChoice
<1>7. lows \in [S -> Int] /\ tops \in [S -> Int]
  BY <1>4
<1>8. low \in Int /\ top \in Int
  <2> HIDE DEF lows, tops, S
  <2> QED BY <1>1, <1>7, SumIsNumber
<1>9. \A f : CostOver(q, bases, f) = SumFunction(T(f))
  BY DEF CostOver
<1>10. \E f \in C : CostOver(q, bases, f) = low
  <2> DEFINE f == [i \in S |-> CHOOSE v \in V(i) : costs[i].lower = Term(q, bases, i, v)]
  <2>1. \A i \in S : f[i] \in V(i) /\ costs[i].lower = Term(q, bases, i, f[i])
    BY <1>4
  <2>2. f = [i \in S |-> f[i]]
    OBVIOUS
  <2> HIDE DEF f, C, S, V, costs
  <2>3. f \in C
    BY <1>5, <2>1, <2>2
  <2>4. T(f) = lows
    BY <2>1
  <2> QED BY <1>9, <2>3, <2>4
<1>11. \E f \in C : CostOver(q, bases, f) = top
  <2> DEFINE f == [i \in S |-> CHOOSE v \in V(i) : costs[i].upper = Term(q, bases, i, v)]
  <2>1. \A i \in S : f[i] \in V(i) /\ costs[i].upper = Term(q, bases, i, f[i])
    BY <1>4
  <2>2. f = [i \in S |-> f[i]]
    OBVIOUS
  <2> HIDE DEF f, C, S, V, costs
  <2>3. f \in C
    BY <1>5, <2>1, <2>2
  <2>4. T(f) = tops
    BY <2>1
  <2> QED BY <1>9, <2>3, <2>4
<1>12. ASSUME NEW f \in C
       PROVE  CostOver(q, bases, f) \in Int /\ low <= CostOver(q, bases, f)
              /\ CostOver(q, bases, f) <= top
  <2> DEFINE terms == T(f)
  <2>1. terms \in [S -> Int]
    BY <1>6, TermIsNumber
  <2>2. \A i \in S : lows[i] <= terms[i] /\ terms[i] <= tops[i]
    BY <1>4, <1>5
  <2>3. CostOver(q, bases, f) = SumFunction(terms)
    BY <1>9
  <2> HIDE DEF terms, lows, tops, S
  <2>4. SumFunction(terms) \in Int /\ SumFunction(lows) <= SumFunction(terms)
        /\ SumFunction(terms) <= SumFunction(tops)
    BY <1>1, <1>7, <2>1, <2>2, SumIsNumber, SumIsMonotone
  <2> QED BY <2>3, <2>4
<1>13. TightFor(CostsIn(mode, q, bases), U)
  <2> HIDE DEF low, top, C
  <2>1. low \in U /\ top \in U
    BY <1>10, <1>11
  <2>2. U \subseteq Int /\ \A u \in U : low <= u /\ u <= top
    BY <1>12
  <2> HIDE DEF U
  <2> QED BY <1>2, <1>8, <2>1, <2>2 DEF TightFor
<1>14. mode \in Middling => low = top
  <2> SUFFICES ASSUME mode \in Middling PROVE lows = tops
    OBVIOUS
  <2>1. \A i \in S : costs[i].lower = costs[i].upper
    BY <1>3 DEF IsPoint
  <2> HIDE DEF costs, S
  <2> QED BY <2>1
<1> HIDE DEF low, top
<1> QED BY <1>2, <1>13, <1>14 DEF IsPoint

LEMMA CostsGiven ==
  ASSUME NEW mode \in Modes, NEW q, CostsFit(q), NEW bases,
         \/ mode \notin Middling
         \/ \A i \in DOMAIN q.costs.items : q.costs.items[i].value.central # None
  PROVE  CostsIn(mode, q, bases) # None
<1> DEFINE S == DOMAIN q.costs.items
           costs == [i \in S |-> CostIn(mode, q, bases, q.costs.items[i])]
<1>1. ASSUME NEW i \in S PROVE costs[i] \in [lower : Int, upper : Int]
  <2> DEFINE item == q.costs.items[i]
             V == ChoicesOf(mode, item.value)
             b == ValueIn(mode, item.value)
             k == Occurrences(q, item)
  <2>1. TightFor(Exactly(0), {0})
    BY PointSpans
  <2>2. IsRange(item.value) /\ k \in Int
    BY CostChoice DEF CostsFit
  <2>3. TightFor(b, V)
    BY <2>2, RangeSpans
  <2>4. TightFor(Exactly(k), {k})
    BY <2>2, PointSpans
  <2>5. TightFor(Times(b, Exactly(k)), {v * w : v \in V, w \in {k}})
    <3> HIDE DEF b, V, k
    <3> QED BY <2>3, <2>4, TimesSpans
  <2>6. costs[i] = IF item.basis \in bases THEN Times(b, Exactly(k)) ELSE Exactly(0)
    BY DEF CostIn
  <2> HIDE DEF item, b, k, V, costs
  <2> QED BY <2>1, <2>5, <2>6 DEF TightFor
<1>2. \A i \in S : costs[i] # None
  BY <1>1, BandIsNotNone
<1> DEFINE low == SumFunction([i \in S |-> costs[i].lower])
           top == SumFunction([i \in S |-> costs[i].upper])
<1>3. CostsIn(mode, q, bases) = [lower |-> low, upper |-> top]
  BY <1>2 DEF CostsIn
<1>4. IsFiniteSet(S)
  BY CostChoice
<1>5. [i \in S |-> costs[i].lower] \in [S -> Int] /\ [i \in S |-> costs[i].upper] \in [S -> Int]
  BY <1>1
<1>6. low \in Int /\ top \in Int
  BY <1>4, <1>5, SumIsNumber
<1> HIDE DEF low, top
<1> QED BY <1>3, <1>6, BandIsNotNone

\* What is charged in different ways is chosen independently.
LEMMA CostsAreIndependent ==
  ASSUME NEW mode \in Modes, NEW q, CostsFit(q),
         NEW f1 \in CostChoices(mode, q), NEW f2 \in CostChoices(mode, q),
         NEW f3 \in CostChoices(mode, q)
  PROVE  \E f \in CostChoices(mode, q) :
           /\ CostOver(q, OnceOrRecurring, f) = CostOver(q, OnceOrRecurring, f1)
           /\ CostOver(q, {"per_exposure"}, f) = CostOver(q, {"per_exposure"}, f2)
           /\ CostOver(q, {"per_incremental_outcome"}, f)
                = CostOver(q, {"per_incremental_outcome"}, f3)
<1> DEFINE S == DOMAIN q.costs.items
           C == CostChoices(mode, q)
           basis(i) == q.costs.items[i].basis
           f == [i \in S |-> IF basis(i) = "per_exposure" THEN f2[i]
                             ELSE IF basis(i) = "per_incremental_outcome" THEN f3[i] ELSE f1[i]]
<1>1. f \in C
  BY CostChoice
<1>2. \A i \in S : /\ Term(q, OnceOrRecurring, i, f[i]) = Term(q, OnceOrRecurring, i, f1[i])
                   /\ Term(q, {"per_exposure"}, i, f[i]) = Term(q, {"per_exposure"}, i, f2[i])
                   /\ Term(q, {"per_incremental_outcome"}, i, f[i])
                        = Term(q, {"per_incremental_outcome"}, i, f3[i])
  BY DEF Term, OnceOrRecurring
<1> HIDE DEF f, C
<1>3. /\ CostOver(q, OnceOrRecurring, f) = CostOver(q, OnceOrRecurring, f1)
      /\ CostOver(q, {"per_exposure"}, f) = CostOver(q, {"per_exposure"}, f2)
      /\ CostOver(q, {"per_incremental_outcome"}, f) = CostOver(q, {"per_incremental_outcome"}, f3)
  <2>1. /\ [i \in S |-> Term(q, OnceOrRecurring, i, f[i])] = [i \in S |-> Term(q, OnceOrRecurring, i, f1[i])]
        /\ [i \in S |-> Term(q, {"per_exposure"}, i, f[i])]
             = [i \in S |-> Term(q, {"per_exposure"}, i, f2[i])]
        /\ [i \in S |-> Term(q, {"per_incremental_outcome"}, i, f[i])]
             = [i \in S |-> Term(q, {"per_incremental_outcome"}, i, f3[i])]
    BY <1>2
  <2> QED BY <2>1 DEF CostOver
<1> QED BY <1>1, <1>3 DEF C

(***************************************************************************)
(* A request that fits its source.                                         *)
(***************************************************************************)
FitsSource(c, s, q) ==
  /\ MultiplierOf(q) \in Nat \ {0} /\ Length(q.population.basis) \in Nat \ {0}
  /\ Length(q.horizon.basis) = MultiplierOf(q) * Length(q.population.basis)
  /\ q.population.exposure = "already_exposed" =>
       {q.exposure.value.lower, q.exposure.value.central, q.exposure.value.upper} = {One}
  /\ Binary(s) <=> IsShare(c)
  /\ q.conversion # None => q.binding.unit.currency = None
  /\ q.output = "net" => q.costs # None
  /\ q.costs # None =>
       /\ CostsFit(q)
       /\ \A i \in DOMAIN q.costs.items :
            q.costs.items[i].basis = "recurring" =>
              (One * Length(q.horizon.basis)) \div Length(q.costs.items[i].horizon)
                = One * Occurrences(q, q.costs.items[i])
Apt(c, s, q, estimate) ==
  /\ ScenarioOK(q) /\ FitsSource(c, s, q)
  /\ estimate \in [lower : Int, point : Int, upper : Int] /\ Bracketed(estimate)

Ratios(mode, q) ==
  IF q.exposureConversion = None THEN {1} ELSE ChoicesOf(mode, q.exposureConversion.value)
Worths(mode, q) ==
  IF q.conversion = None THEN {q.binding.unit.scale} ELSE ChoicesOf(mode, q.conversion.value)
Effects(mode, estimate) ==
  IF mode \in {"statistical", "combined"} THEN estimate.lower .. estimate.upper ELSE {estimate.point}
EffectUnit(s, q) == IF Binary(s) THEN q.binding.unit.scale ELSE 1
Sign(q) == IF q.conversion = None \/ q.conversion.orientation = "added" THEN 1 ELSE -1

\* The choices of the factors of the amounts.
ExposureChoices(mode, q) ==
  {v * w : v \in {v * w : v \in {v * w : v \in ChoicesOf(mode, q.population.value),
                                         w \in ChoicesOf(mode, q.exposure.value)},
                          w \in {MultiplierOf(q)}},
           w \in Ratios(mode, q)}
EffectChoices(mode, s, q, estimate) == {v * w : v \in Effects(mode, estimate), w \in {EffectUnit(s, q)}}
WorthChoices(mode, q) == {v * w : v \in Worths(mode, q), w \in {Sign(q)}}

LEMMA ExposedSpans ==
  ASSUME NEW mode \in Modes, NEW q, ScenarioOK(q), MultiplierOf(q) \in Nat
  PROVE  /\ ExposedIn(mode, q) # None =>
              /\ TightFor(ExposedIn(mode, q), ExposureChoices(mode, q))
              /\ mode \in Middling => IsPoint(ExposedIn(mode, q))
         /\ \/ mode \notin Middling
            \/ /\ q.population.value.central # None /\ q.exposure.value.central # None
               /\ q.exposureConversion # None => q.exposureConversion.value.central # None
            => ExposedIn(mode, q) # None
<1> DEFINE p == ValueIn(mode, q.population.value)
           r == ValueIn(mode, q.exposure.value)
           m == MultiplierOf(q)
           ratio == IF q.exposureConversion = None THEN Exactly(1)
                    ELSE ValueIn(mode, q.exposureConversion.value)
           P == ChoicesOf(mode, q.population.value)
           R == ChoicesOf(mode, q.exposure.value)
           W == Ratios(mode, q)
           PR == {v * w : v \in P, w \in R}
           PRM == {v * w : v \in PR, w \in {m}}
           A == {v * w : v \in PRM, w \in W}
           declared == \/ mode \notin Middling
                       \/ /\ q.population.value.central # None /\ q.exposure.value.central # None
                          /\ q.exposureConversion # None => q.exposureConversion.value.central # None
<1>1. /\ IsRange(q.population.value) /\ IsRange(q.exposure.value)
      /\ q.exposureConversion # None => IsRange(q.exposureConversion.value)
  BY DEF ScenarioOK, Nonnegative, Rate
<1>2. ExposedIn(mode, q) = Times(Times(Times(p, r), Exactly(m)), ratio)
  BY DEF ExposedIn
<1>3. ExposedIn(mode, q) # None => p # None /\ r # None /\ ratio # None
  <2> HIDE DEF p, r, m, ratio
  <2> QED BY <1>2, OfNoneIsNone
<1>4. (p # None => TightFor(p, P) /\ (mode \in Middling => IsPoint(p))) /\ (declared => p # None)
  BY <1>1, RangeSpans
<1>5. (r # None => TightFor(r, R) /\ (mode \in Middling => IsPoint(r))) /\ (declared => r # None)
  BY <1>1, RangeSpans
<1>6. TightFor(Exactly(m), {m}) /\ IsPoint(Exactly(m))
  BY PointSpans
<1>7. /\ ratio # None => TightFor(ratio, W) /\ (mode \in Middling => IsPoint(ratio))
      /\ declared => ratio # None
  <2>1. CASE q.exposureConversion = None
    BY <2>1, PointSpans, BandIsNotNone DEF Ratios, Exactly
  <2>2. CASE q.exposureConversion # None
    BY <1>1, <2>2, RangeSpans DEF Ratios
  <2> QED BY <2>1, <2>2
<1>8. A = ExposureChoices(mode, q)
  BY DEF ExposureChoices
<1> HIDE DEF p, r, m, ratio, P, R, W, declared
<1>9. ASSUME p # None, r # None, ratio # None
      PROVE  TightFor(ExposedIn(mode, q), A) /\ (mode \in Middling => IsPoint(ExposedIn(mode, q)))
  <2>1. TightFor(Times(p, r), PR) /\ (IsPoint(p) /\ IsPoint(r) => IsPoint(Times(p, r)))
    BY <1>4, <1>5, <1>9, TimesSpans
  <2> DEFINE pr == Times(p, r)
  <2> HIDE DEF pr, PR
  <2>2. TightFor(Times(pr, Exactly(m)), PRM)
        /\ (IsPoint(pr) /\ IsPoint(Exactly(m)) => IsPoint(Times(pr, Exactly(m))))
    BY <1>6, <2>1, TimesSpans DEF pr
  <2> DEFINE prm == Times(pr, Exactly(m))
  <2> HIDE DEF prm, PRM
  <2>3. TightFor(Times(prm, ratio), A)
        /\ (IsPoint(prm) /\ IsPoint(ratio) => IsPoint(Times(prm, ratio)))
    BY <1>7, <1>9, <2>2, TimesSpans DEF prm
  <2>4. ExposedIn(mode, q) = Times(prm, ratio)
    BY <1>2 DEF pr, prm
  <2> HIDE DEF A
  <2> QED BY <1>4, <1>5, <1>6, <1>7, <1>9, <2>1, <2>2, <2>3, <2>4 DEF pr, prm
<1> HIDE DEF A
<1>10. declared => ExposedIn(mode, q) # None
  BY <1>4, <1>5, <1>7, <1>9, BandIsNotNone DEF TightFor
<1> QED BY <1>3, <1>8, <1>9, <1>10 DEF declared

LEMMA EffectSpans ==
  ASSUME NEW mode \in Modes, NEW s, NEW q, NEW estimate, IsMetricUnit(q.binding.unit),
         estimate \in [lower : Int, point : Int, upper : Int], Bracketed(estimate)
  PROVE  /\ TightFor(EffectIn(mode, s, q, estimate), EffectChoices(mode, s, q, estimate))
         /\ mode = "central" => IsPoint(EffectIn(mode, s, q, estimate))
<1> DEFINE e == IF mode \in {"statistical", "combined"}
                THEN [lower |-> estimate.lower, upper |-> estimate.upper] ELSE Exactly(estimate.point)
           k == EffectUnit(s, q)
           F == Effects(mode, estimate)
           E == {v * w : v \in F, w \in {k}}
<1>1. EffectIn(mode, s, q, estimate) = Times(e, Exactly(k))
  BY DEF EffectIn, EffectUnit
<1>2. TightFor(e, F) /\ (mode = "central" => IsPoint(e))
  <2>1. CASE mode \in {"statistical", "combined"}
    BY <2>1 DEF Effects, TightFor, Bracketed
  <2>2. CASE mode \notin {"statistical", "combined"}
    BY <2>2, PointSpans DEF Effects
  <2> QED BY <2>1, <2>2
<1>3. TightFor(Exactly(k), {k}) /\ IsPoint(Exactly(k))
  BY PointSpans DEF EffectUnit, IsMetricUnit
<1>4. E = EffectChoices(mode, s, q, estimate)
  BY DEF EffectChoices
<1> HIDE DEF e, k, F
<1>5. TightFor(Times(e, Exactly(k)), E) /\ (IsPoint(e) /\ IsPoint(Exactly(k)) => IsPoint(Times(e, Exactly(k))))
  BY <1>2, <1>3, TimesSpans
<1> HIDE DEF E
<1> QED BY <1>1, <1>2, <1>3, <1>4, <1>5

LEMMA WorthSpans ==
  ASSUME NEW mode \in Modes, NEW q, ScenarioOK(q)
  PROVE  /\ WorthIn(mode, q) # None =>
              /\ TightFor(WorthIn(mode, q), WorthChoices(mode, q))
              /\ mode \in Middling => IsPoint(WorthIn(mode, q))
         /\ mode \notin Middling \/ (q.conversion # None => q.conversion.value.central # None) =>
              WorthIn(mode, q) # None
<1> DEFINE V == WorthChoices(mode, q)
<1>1. CASE q.conversion = None
  <2> DEFINE k == q.binding.unit.scale
  <2>1. k \in Int
    BY DEF ScenarioOK, IsMetricUnit
  <2>2. V = {k}
    BY <1>1, <2>1 DEF WorthChoices, Worths, Sign
  <2>3. WorthIn(mode, q) = Exactly(k)
    BY <1>1 DEF WorthIn
  <2> HIDE DEF V, k
  <2>4. TightFor(Exactly(k), {k}) /\ IsPoint(Exactly(k))
    BY <2>1, PointSpans
  <2>5. Exactly(k) # None
    BY <2>1, BandIsNotNone DEF Exactly
  <2> QED BY <2>2, <2>3, <2>4, <2>5 DEF V
<1>2. CASE q.conversion # None
  <2> DEFINE b == ValueIn(mode, q.conversion.value)
             W == ChoicesOf(mode, q.conversion.value)
             k == IF q.conversion.orientation = "added" THEN 1 ELSE -1
             U == {v * w : v \in W, w \in {k}}
  <2>1. IsRange(q.conversion.value) /\ k \in Int
    BY <1>2 DEF ScenarioOK, Nonnegative
  <2>2. WorthIn(mode, q) = Times(b, Exactly(k))
    BY <1>2 DEF WorthIn
  <2>3. V = U
    BY <1>2 DEF WorthChoices, Worths, Sign
  <2>4. /\ b # None => TightFor(b, W)
        /\ b # None /\ mode \in Middling => IsPoint(b)
        /\ mode \notin Middling \/ q.conversion.value.central # None => b # None
    BY <2>1, RangeSpans
  <2>5. TightFor(Exactly(k), {k}) /\ IsPoint(Exactly(k))
    BY <2>1, PointSpans
  <2> HIDE DEF b, W, k, V
  <2>6. b # None => /\ TightFor(Times(b, Exactly(k)), U)
                    /\ IsPoint(b) /\ IsPoint(Exactly(k)) => IsPoint(Times(b, Exactly(k)))
    BY <2>4, <2>5, TimesSpans
  <2>7. Times(b, Exactly(k)) # None => b # None
    BY OfNoneIsNone
  <2> HIDE DEF U
  <2>8. b # None => Times(b, Exactly(k)) # None
    BY <2>6, BandIsNotNone DEF TightFor
  <2> QED BY <1>2, <2>2, <2>3, <2>4, <2>5, <2>6, <2>7, <2>8 DEF V
<1> QED BY <1>1, <1>2

LEMMA Divided ==
  ASSUME NEW y \in Int, NEW m \in Nat \ {0}, NEW l \in Nat \ {0}
  PROVE  (y * (m * l)) \div l = y * m
<1> DEFINE z == y * m
<1>1. z \in Int /\ y * (m * l) = z * l
  OBVIOUS
<1> HIDE DEF z
<1>2. (z * l) \div l = z
  BY <1>1
<1> QED BY <1>1, <1>2 DEF z

LEMMA FactorsAreNumbers ==
  ASSUME NEW mode \in Modes, NEW c, NEW s, NEW q, NEW estimate, Apt(c, s, q, estimate)
  PROVE  /\ ChoicesOf(mode, q.population.value) \subseteq Int /\ ChoicesOf(mode, q.population.value) # {}
         /\ ChoicesOf(mode, q.exposure.value) \subseteq Int /\ ChoicesOf(mode, q.exposure.value) # {}
         /\ q.population.exposure = "already_exposed" => ChoicesOf(mode, q.exposure.value) \subseteq {One}
         /\ Ratios(mode, q) \subseteq Int /\ Ratios(mode, q) # {}
         /\ Worths(mode, q) \subseteq Int /\ Worths(mode, q) # {}
         /\ Effects(mode, estimate) \subseteq Int /\ Effects(mode, estimate) # {}
         /\ MultiplierOf(q) \in Int /\ EffectUnit(s, q) \in Int /\ Sign(q) \in Int
<1>1. /\ IsRange(q.population.value) /\ IsRange(q.exposure.value)
      /\ q.exposureConversion # None => IsRange(q.exposureConversion.value)
      /\ q.conversion # None => IsRange(q.conversion.value)
      /\ q.binding.unit.scale \in Int
  BY DEF Apt, ScenarioOK, Nonnegative, Rate, IsMetricUnit
<1>2. q.population.exposure = "already_exposed" => ChoicesOf(mode, q.exposure.value) \subseteq {One}
  <2> SUFFICES ASSUME q.population.exposure = "already_exposed"
               PROVE  ChoicesOf(mode, q.exposure.value) \subseteq {One}
    OBVIOUS
  <2>1. q.exposure.value.lower = One /\ q.exposure.value.central = One /\ q.exposure.value.upper = One
    BY DEF Apt, FitsSource
  <2> QED BY <2>1 DEF ChoicesOf, One
<1>3. /\ Ratios(mode, q) \subseteq Int /\ Ratios(mode, q) # {}
      /\ Worths(mode, q) \subseteq Int /\ Worths(mode, q) # {}
  BY <1>1, RangeSpans DEF Ratios, Worths
<1>4. Effects(mode, estimate) \subseteq Int /\ Effects(mode, estimate) # {}
  <2>1. /\ estimate.lower \in Int /\ estimate.point \in Int /\ estimate.upper \in Int
        /\ estimate.lower <= estimate.point /\ estimate.point <= estimate.upper
    BY DEF Apt, Bracketed
  <2>2. /\ estimate.lower .. estimate.upper \subseteq Int
        /\ estimate.point \in estimate.lower .. estimate.upper
    BY <2>1
  <2> QED BY <2>1, <2>2 DEF Effects
<1>5. MultiplierOf(q) \in Int /\ EffectUnit(s, q) \in Int /\ Sign(q) \in Int
  BY <1>1 DEF Apt, FitsSource, EffectUnit, Sign
<1> QED BY <1>1, <1>2, <1>3, <1>4, <1>5, RangeSpans

\* A choice is one of each factor.
LEMMA ChoicesAreDraws ==
  ASSUME NEW mode \in Modes, NEW c, NEW s, NEW q, NEW estimate, Apt(c, s, q, estimate)
  PROVE  Draws(mode, q, estimate) =
           [population : ChoicesOf(mode, q.population.value), exposure : ChoicesOf(mode, q.exposure.value),
            ratio : Ratios(mode, q), worth : Worths(mode, q), effect : Effects(mode, estimate),
            cost : CostChoices(mode, q)]
<1>1. (IF q.conversion = None \/ q.binding.unit.currency # None THEN {q.binding.unit.scale}
       ELSE ChoicesOf(mode, q.conversion.value)) = Worths(mode, q)
  BY DEF Worths, Apt, FitsSource
<1> QED BY <1>1 DEF Draws, Ratios, Effects

\* What is exposed, happens and is paid is a product of the factors.
LEMMA AmountsOfFactors ==
  ASSUME NEW mode \in Modes, NEW c, NEW s, NEW q, NEW estimate, Apt(c, s, q, estimate),
         NEW x \in Draws(mode, q, estimate)
  PROVE  LET a == ((x.population * x.exposure) * MultiplierOf(q)) * x.ratio
             e == x.effect * EffectUnit(s, q)
             v == x.worth * Sign(q)
         IN  /\ a \in Int /\ e \in Int /\ v \in Int
             /\ Exposure(q, x) = a /\ Events(c, q, x) = a * e /\ Money(c, q, x) = (a * e) * v
<1> DEFINE p == x.population
           r == x.exposure
           m == MultiplierOf(q)
           t == x.ratio
           k == EffectUnit(s, q)
           g == Sign(q)
           a == ((p * r) * m) * t
           e == x.effect * k
           v == x.worth * g
           l == Length(q.population.basis)
<1>1. /\ p \in Int /\ r \in Int /\ t \in Int /\ x.effect \in Int /\ x.worth \in Int
      /\ k \in Int /\ g \in Int /\ m \in Nat \ {0} /\ l \in Nat \ {0}
      /\ q.population.exposure = "already_exposed" => r = One
  <2>1. /\ x.population \in ChoicesOf(mode, q.population.value)
        /\ x.exposure \in ChoicesOf(mode, q.exposure.value)
        /\ x.ratio \in Ratios(mode, q) /\ x.worth \in Worths(mode, q) /\ x.effect \in Effects(mode, estimate)
    <3>1. x \in [population : ChoicesOf(mode, q.population.value),
                exposure : ChoicesOf(mode, q.exposure.value), ratio : Ratios(mode, q),
                worth : Worths(mode, q), effect : Effects(mode, estimate),
                cost : CostChoices(mode, q)]
      BY ChoicesAreDraws, Zenon
    <3> QED BY <3>1
  <2> QED BY <2>1, FactorsAreNumbers DEF Apt, FitsSource
<1>2. a \in Int /\ e \in Int /\ v \in Int
  BY <1>1
<1>3. Exposure(q, x) = a
  <2>1. Share(q, x) = r
    BY <1>1 DEF Share
  <2>2. Length(q.horizon.basis) = m * l
    BY DEF Apt, FitsSource
  <2>3. Exposure(q, x) = (((p * r) * t) * (m * l)) \div l
    BY <2>1, <2>2 DEF Exposure
  <2>4. (p * r) * t \in Int /\ ((p * r) * t) * m = a
    <3>1. \A i, j, n \in Int : i * j \in Int /\ (i * j) * n = (i * n) * j
      OBVIOUS
    <3> HIDE DEF p, r, t, m
    <3> QED BY <1>1, <3>1
  <2> HIDE DEF p, r, t, m, l, a
  <2> QED BY <1>1, <2>3, <2>4, Divided
<1>4. (IF IsShare(c) THEN q.binding.unit.scale ELSE 1) = k
  BY DEF EffectUnit, Apt, FitsSource
<1>5. Events(c, q, x) = a * e
  <2>1. Events(c, q, x) = (a * x.effect) * k
    BY <1>3, <1>4 DEF Events
  <2> HIDE DEF a, k
  <2> QED BY <1>1, <1>2, <2>1
<1>6. Money(c, q, x) = (a * e) * v
  <2>1. (IF q.conversion # None /\ q.conversion.orientation = "avoided" THEN -1 ELSE 1) = g
    BY DEF Sign, Apt, ScenarioOK
  <2>2. Money(c, q, x) = ((a * e) * x.worth) * g
    BY <1>5, <2>1 DEF Money
  <2> DEFINE y == a * e
  <2>3. y \in Int
    BY <1>2
  <2> HIDE DEF y, g
  <2>4. (y * x.worth) * g = y * (x.worth * g)
    BY <1>1, <2>3
  <2> QED BY <2>2, <2>4 DEF y
<1> QED BY <1>2, <1>3, <1>5, <1>6

HasFactors(c, q, x, a, e, v) ==
  Exposure(q, x) = a /\ Events(c, q, x) = a * e /\ Money(c, q, x) = (a * e) * v

\* Every choice has factors, and whatever the factors there is a choice of them.
LEMMA ChoicesHaveFactors ==
  ASSUME NEW mode \in Modes, NEW c, NEW s, NEW q, NEW estimate, Apt(c, s, q, estimate)
  PROVE  /\ \A x \in Draws(mode, q, estimate) :
              /\ x.cost \in CostChoices(mode, q)
              /\ \E a \in ExposureChoices(mode, q), e \in EffectChoices(mode, s, q, estimate),
                    v \in WorthChoices(mode, q) : HasFactors(c, q, x, a, e, v)
         /\ \A a \in ExposureChoices(mode, q), e \in EffectChoices(mode, s, q, estimate),
               v \in WorthChoices(mode, q), f \in CostChoices(mode, q) :
              \E x \in Draws(mode, q, estimate) : x.cost = f /\ HasFactors(c, q, x, a, e, v)
<1> DEFINE P == ChoicesOf(mode, q.population.value)
           R == ChoicesOf(mode, q.exposure.value)
           T == Ratios(mode, q)
           W == Worths(mode, q)
           F == Effects(mode, estimate)
           C == CostChoices(mode, q)
           D == Draws(mode, q, estimate)
           m == MultiplierOf(q)
           k == EffectUnit(s, q)
           g == Sign(q)
           A == ExposureChoices(mode, q)
           E == EffectChoices(mode, s, q, estimate)
           V == WorthChoices(mode, q)
<1>1. D = [population : P, exposure : R, ratio : T, worth : W, effect : F, cost : C]
  BY ChoicesAreDraws, Zenon
<1>2. \A a : a \in A <=> \E p \in P, r \in R, t \in T : a = ((p * r) * m) * t
  <2> HIDE DEF P, R, T, m
  <2> QED BY DEF ExposureChoices, P, R, T, m
<1>3. \A e : e \in E <=> \E y \in F : e = y * k
  BY DEF EffectChoices
<1>4. \A v : v \in V <=> \E y \in W : v = y * g
  BY DEF WorthChoices
<1>5. ASSUME NEW x \in D
      PROVE  HasFactors(c, q, x, ((x.population * x.exposure) * m) * x.ratio, x.effect * k, x.worth * g)
  BY AmountsOfFactors DEF HasFactors
<1> HIDE DEF P, R, T, W, F, C, D, m, k, g, A, E, V
<1>6. ASSUME NEW x \in D
      PROVE  x.cost \in C /\ \E a \in A, e \in E, v \in V : HasFactors(c, q, x, a, e, v)
  <2>1. /\ x.population \in P /\ x.exposure \in R /\ x.ratio \in T /\ x.effect \in F /\ x.worth \in W
        /\ x.cost \in C
    BY <1>1
  <2>2. /\ ((x.population * x.exposure) * m) * x.ratio \in A /\ x.effect * k \in E /\ x.worth * g \in V
    BY <1>2, <1>3, <1>4, <2>1
  <2> QED BY <1>5, <2>1, <2>2
<1>7. ASSUME NEW a \in A, NEW e \in E, NEW v \in V, NEW f \in C
      PROVE  \E x \in D : x.cost = f /\ HasFactors(c, q, x, a, e, v)
  <2>1. PICK p \in P, r \in R, t \in T : a = ((p * r) * m) * t
    BY <1>2
  <2>2. PICK y \in F : e = y * k
    BY <1>3
  <2>3. PICK w \in W : v = w * g
    BY <1>4
  <2> DEFINE x == [population |-> p, exposure |-> r, ratio |-> t, worth |-> w, effect |-> y, cost |-> f]
  <2>4. x \in D
    BY <1>1
  <2>5. x.population = p /\ x.exposure = r /\ x.ratio = t /\ x.worth = w /\ x.effect = y /\ x.cost = f
    OBVIOUS
  <2> HIDE DEF x
  <2>6. HasFactors(c, q, x, ((x.population * x.exposure) * m) * x.ratio, x.effect * k, x.worth * g)
    BY <1>5, <2>4
  <2> QED BY <2>1, <2>2, <2>3, <2>4, <2>5, <2>6
<1> QED BY <1>6, <1>7, Zenon DEF A, E, V, C, D

LEMMA SomeChoice ==
  ASSUME NEW mode \in Modes, NEW c, NEW s, NEW q, NEW estimate, Apt(c, s, q, estimate)
  PROVE  /\ \E a : a \in ExposureChoices(mode, q)
         /\ \E e : e \in EffectChoices(mode, s, q, estimate)
         /\ \E v : v \in WorthChoices(mode, q)
         /\ \E f : f \in CostChoices(mode, q)
<1> DEFINE P == ChoicesOf(mode, q.population.value)
           R == ChoicesOf(mode, q.exposure.value)
           T == Ratios(mode, q)
<1>1. PICK p \in P, r \in R, t \in T : TRUE
  BY FactorsAreNumbers
<1>2. PICK y \in Effects(mode, estimate), w \in Worths(mode, q) : TRUE
  BY FactorsAreNumbers
<1>3. ((p * r) * MultiplierOf(q)) * t \in ExposureChoices(mode, q)
  BY DEF ExposureChoices
<1>4. /\ y * EffectUnit(s, q) \in EffectChoices(mode, s, q, estimate)
      /\ w * Sign(q) \in WorthChoices(mode, q)
  BY DEF EffectChoices, WorthChoices
<1>5. \E f : f \in CostChoices(mode, q)
  <2>1. CASE q.costs = None
    <3>1. <<>> \in CostChoices(mode, q)
      BY <2>1 DEF CostChoices
    <3> QED BY <3>1
  <2>2. CASE q.costs # None
    <3>1. CostsFit(q)
      BY <2>2 DEF Apt, FitsSource
    <3> DEFINE S == DOMAIN q.costs.items
               U(i) == ChoicesOf(mode, q.costs.items[i].value)
               f == [i \in S |-> CHOOSE z \in U(i) : TRUE]
    <3>2. \A i \in S : f[i] \in U(i)
      BY <3>1, CostChoice
    <3>3. f = [i \in S |-> f[i]]
      OBVIOUS
    <3> HIDE DEF f
    <3>4. f \in CostChoices(mode, q)
      BY <3>1, <3>2, <3>3, CostChoice
    <3> QED BY <3>4
  <2> QED BY <2>1, <2>2
<1> QED BY <1>3, <1>4, <1>5

\* The costs are what is charged once, per exposure and per outcome.
ChargesAre(c, q, x, a, e) ==
  Charges(c, q, x) = One * CostOver(q, OnceOrRecurring, x.cost)
                     + a * CostOver(q, {"per_exposure"}, x.cost)
                     + (a * e) * CostOver(q, {"per_incremental_outcome"}, x.cost)

LEMMA ChargesOfFactors ==
  ASSUME NEW mode \in Modes, NEW c, NEW s, NEW q, NEW estimate, Apt(c, s, q, estimate),
         q.costs # None, NEW x \in Draws(mode, q, estimate), NEW a \in Int, NEW e \in Int, NEW v,
         HasFactors(c, q, x, a, e, v), x.cost \in CostChoices(mode, q)
  PROVE  /\ \A i \in DOMAIN q.costs.items :
              /\ x.cost[i] \in ChoicesOf(mode, q.costs.items[i].value)
              /\ Charge(c, q, x, i) =
                   x.cost[i] * (IF q.costs.items[i].basis = "per_exposure" THEN a
                                ELSE IF q.costs.items[i].basis = "per_incremental_outcome" THEN a * e
                                ELSE One * Occurrences(q, q.costs.items[i]))
         /\ ChargesAre(c, q, x, a, e)
<1> DEFINE S == DOMAIN q.costs.items
           f == x.cost
           basis(i) == q.costs.items[i].basis
           occ(i) == Occurrences(q, q.costs.items[i])
           charge == [i \in S |-> Charge(c, q, x, i)]
           g1 == [i \in S |-> Term(q, OnceOrRecurring, i, f[i])]
           g2 == [i \in S |-> Term(q, {"per_exposure"}, i, f[i])]
           g3 == [i \in S |-> Term(q, {"per_incremental_outcome"}, i, f[i])]
           z == a * e
<1>1. CostsFit(q) /\ IsFiniteSet(S) /\ z \in Int
  BY CostChoice DEF Apt, FitsSource
<1>2. \A i \in S : f[i] \in Int /\ f[i] \in ChoicesOf(mode, q.costs.items[i].value)
  BY <1>1, CostChoice
<1>3. \A i \in S : basis(i) \in CostBases /\ occ(i) \in Int
  BY <1>1 DEF CostsFit, CostOK
<1>4. ASSUME NEW i \in S
      PROVE  Charge(c, q, x, i) = f[i] * (IF basis(i) = "per_exposure" THEN a
                                          ELSE IF basis(i) = "per_incremental_outcome" THEN a * e
                                          ELSE One * occ(i))
  <2>1. CASE basis(i) = "per_exposure"
    BY <2>1 DEF Charge, HasFactors
  <2>2. CASE basis(i) = "per_incremental_outcome"
    BY <2>2 DEF Charge, HasFactors
  <2>3. CASE basis(i) = "recurring"
    <3>1. (One * Length(q.horizon.basis)) \div Length(q.costs.items[i].horizon) = One * occ(i)
      BY <2>3 DEF Apt, FitsSource
    <3>2. Charge(c, q, x, i) =
            f[i] * ((One * Length(q.horizon.basis)) \div Length(q.costs.items[i].horizon))
      BY <2>3 DEF Charge
    <3> QED BY <2>3, <3>1, <3>2
  <2>4. CASE basis(i) = "implementation"
    <3>1. occ(i) = 1 /\ One * 1 = One
      BY <2>4 DEF Occurrences, One
    <3>2. Charge(c, q, x, i) = f[i] * One
      BY <2>4 DEF Charge
    <3> QED BY <2>4, <3>1, <3>2
  <2> QED BY <1>3, <2>1, <2>2, <2>3, <2>4 DEF CostBases
<1>5. /\ g1 \in [S -> Int] /\ g2 \in [S -> Int] /\ g3 \in [S -> Int]
  BY <1>1, <1>2, TermIsNumber
<1>6. ASSUME NEW i \in S
      PROVE  charge[i] \in Int /\ charge[i] = One * g1[i] + a * g2[i] + z * g3[i]
  <2>1. charge[i] = f[i] * (IF basis(i) = "per_exposure" THEN a
                            ELSE IF basis(i) = "per_incremental_outcome" THEN z ELSE One * occ(i))
    BY <1>4
  <2>2. /\ g1[i] = IF basis(i) \in OnceOrRecurring THEN f[i] * occ(i) ELSE 0
        /\ g2[i] = IF basis(i) = "per_exposure" THEN f[i] * occ(i) ELSE 0
        /\ g3[i] = IF basis(i) = "per_incremental_outcome" THEN f[i] * occ(i) ELSE 0
    BY DEF Term
  <2>3. basis(i) \in {"per_exposure", "per_incremental_outcome"} => occ(i) = 1
    BY DEF Occurrences
  <2> DEFINE y == f[i]
             o == occ(i)
  <2>4. y \in Int /\ o \in Int /\ z \in Int
    BY <1>1, <1>2, <1>3
  <2>5. /\ a * 0 = 0 /\ z * 0 = 0 /\ One * 0 = 0 /\ y * 1 = y
        /\ y * a = a * y /\ y * z = z * y /\ y * (One * o) = One * (y * o)
        /\ a * y \in Int /\ z * y \in Int /\ One * (y * o) \in Int
    BY <2>4 DEF One
  <2>6. CASE basis(i) = "per_exposure"
    BY <2>1, <2>2, <2>3, <2>5, <2>6 DEF OnceOrRecurring
  <2>7. CASE basis(i) = "per_incremental_outcome"
    BY <2>1, <2>2, <2>3, <2>5, <2>7 DEF OnceOrRecurring
  <2>8. CASE basis(i) \in OnceOrRecurring
    BY <2>1, <2>2, <2>5, <2>8 DEF OnceOrRecurring
  <2> QED BY <1>3, <2>6, <2>7, <2>8 DEF CostBases, OnceOrRecurring
<1>7. charge \in [S -> Int] /\ \A i \in S : charge[i] = One * g1[i] + a * g2[i] + z * g3[i]
  BY <1>6
<1>8. /\ Charges(c, q, x) = SumFunction(charge) /\ CostOver(q, OnceOrRecurring, f) = SumFunction(g1)
      /\ CostOver(q, {"per_exposure"}, f) = SumFunction(g2)
      /\ CostOver(q, {"per_incremental_outcome"}, f) = SumFunction(g3)
  BY DEF Charges, CostOver
<1> HIDE DEF charge, g1, g2, g3, S, z, f
<1>9. SumFunction(charge) = One * SumFunction(g1) + a * SumFunction(g2) + z * SumFunction(g3)
  <2>1. One \in Int /\ z \in Int /\ a \in Int
    BY <1>1 DEF One
  <2>2. IsFiniteSet(S)
    BY <1>1
  <2>3. /\ charge \in [S -> Int] /\ g1 \in [S -> Int] /\ g2 \in [S -> Int] /\ g3 \in [S -> Int]
    BY <1>5, <1>7
  <2>4. \A i \in S : charge[i] = One * g1[i] + a * g2[i] + z * g3[i]
    BY <1>7
  <2>5. Combines(S, charge, g1, g2, g3, One, a, z)
    BY <2>4 DEF Combines
  <2> QED BY <2>1, <2>2, <2>3, <2>5, SumIsLinear
<1> QED BY <1>2, <1>4, <1>8, <1>9 DEF S, f, z, ChargesAre

(***************************************************************************)
(* A band answers for some numbers when it is not given or the tightest    *)
(* one of them, a point where a central value is asked for, and given      *)
(* where everything it is computed from is.                                *)
(***************************************************************************)
Given(mode, q) == mode \notin Middling \/ None \notin Centrals(q)
Answers(mode, q, b, V) ==
  /\ b # None => TightFor(b, V) /\ (mode = "central" => IsPoint(b))
  /\ Given(mode, q) => b # None

Products(V, W) == {v * w : v \in V, w \in W}
Sums(V, W) == {v + w : v \in V, w \in W}
Differences(V, W) == {v - w : v \in V, w \in W}

LEMMA SpanIsNotNone == ASSUME NEW b, NEW V, TightFor(b, V) PROVE b # None
  BY BandIsNotNone DEF TightFor

LEMMA ProductAnswers ==
  ASSUME NEW mode, NEW q, NEW a, NEW V, NEW b, NEW W,
         Answers(mode, q, a, V), Answers(mode, q, b, W)
  PROVE  Answers(mode, q, Times(a, b), Products(V, W))
<1> DEFINE y == Times(a, b)
           Y == Products(V, W)
<1>1. y # None => a # None /\ b # None
  BY OfNoneIsNone
<1>2. TightFor(a, V) /\ TightFor(b, W) => TightFor(y, Y) /\ (IsPoint(a) /\ IsPoint(b) => IsPoint(y))
  BY TimesSpans DEF Products
<1> HIDE DEF y, Y
<1>3. TightFor(y, Y) => y # None
  BY SpanIsNotNone
<1> QED BY <1>1, <1>2, <1>3 DEF Answers, y, Y

LEMMA SumAnswers ==
  ASSUME NEW mode, NEW q, NEW a, NEW V, NEW b, NEW W,
         Answers(mode, q, a, V), Answers(mode, q, b, W)
  PROVE  Answers(mode, q, Plus(a, b), Sums(V, W))
<1> DEFINE y == Plus(a, b)
           Y == Sums(V, W)
<1>1. y # None => a # None /\ b # None
  BY OfNoneIsNone
<1>2. TightFor(a, V) /\ TightFor(b, W) => TightFor(y, Y) /\ (IsPoint(a) /\ IsPoint(b) => IsPoint(y))
  BY PlusSpans DEF Sums
<1> HIDE DEF y, Y
<1>3. TightFor(y, Y) => y # None
  BY SpanIsNotNone
<1> QED BY <1>1, <1>2, <1>3 DEF Answers, y, Y

LEMMA DifferenceAnswers ==
  ASSUME NEW mode, NEW q, NEW a, NEW V, NEW b, NEW W,
         Answers(mode, q, a, V), Answers(mode, q, b, W)
  PROVE  Answers(mode, q, Minus(a, b), Differences(V, W))
<1> DEFINE y == Minus(a, b)
           Y == Differences(V, W)
<1>1. y # None => a # None /\ b # None
  BY OfNoneIsNone
<1>2. TightFor(a, V) /\ TightFor(b, W) => TightFor(y, Y) /\ (IsPoint(a) /\ IsPoint(b) => IsPoint(y))
  BY MinusSpans DEF Differences
<1> HIDE DEF y, Y
<1>3. TightFor(y, Y) => y # None
  BY SpanIsNotNone
<1> QED BY <1>1, <1>2, <1>3 DEF Answers, y, Y

LEMMA PointAnswers ==
  ASSUME NEW mode, NEW q, NEW k \in Int PROVE Answers(mode, q, Exactly(k), {k})
<1>1. TightFor(Exactly(k), {k}) /\ IsPoint(Exactly(k))
  BY PointSpans
<1>2. Exactly(k) # None
  BY <1>1, SpanIsNotNone
<1> QED BY <1>1, <1>2 DEF Answers

LEMMA CentralsAreGiven ==
  ASSUME NEW q, None \notin Centrals(q)
  PROVE  /\ q.population.value.central # None /\ q.exposure.value.central # None
         /\ q.exposureConversion # None => q.exposureConversion.value.central # None
         /\ q.conversion # None => q.conversion.value.central # None
         /\ q.costs # None =>
              \A i \in DOMAIN q.costs.items : q.costs.items[i].value.central # None
  BY DEF Centrals, SetOf

LEMMA FactorsAnswer ==
  ASSUME NEW mode \in Modes, NEW c, NEW s, NEW q, NEW estimate, Apt(c, s, q, estimate)
  PROVE  /\ Answers(mode, q, ExposedIn(mode, q), ExposureChoices(mode, q))
         /\ Answers(mode, q, EffectIn(mode, s, q, estimate), EffectChoices(mode, s, q, estimate))
         /\ Answers(mode, q, WorthIn(mode, q), WorthChoices(mode, q))
<1>1. /\ ScenarioOK(q) /\ MultiplierOf(q) \in Nat /\ IsMetricUnit(q.binding.unit)
      /\ estimate \in [lower : Int, point : Int, upper : Int] /\ Bracketed(estimate)
  BY DEF Apt, FitsSource, ScenarioOK
<1>2. mode = "central" => mode \in Middling
  BY DEF Middling
<1>3. Answers(mode, q, ExposedIn(mode, q), ExposureChoices(mode, q))
  BY <1>1, <1>2, ExposedSpans, CentralsAreGiven DEF Answers, Given
<1>4. Answers(mode, q, EffectIn(mode, s, q, estimate), EffectChoices(mode, s, q, estimate))
  BY <1>1, EffectSpans, SpanIsNotNone DEF Answers
<1>5. Answers(mode, q, WorthIn(mode, q), WorthChoices(mode, q))
  BY <1>1, <1>2, WorthSpans, CentralsAreGiven DEF Answers, Given
<1> QED BY <1>3, <1>4, <1>5

CostSums(mode, q, bases) == {CostOver(q, bases, f) : f \in CostChoices(mode, q)}

LEMMA CostsAnswer ==
  ASSUME NEW mode \in Modes, NEW q, CostsFit(q), NEW bases
  PROVE  Answers(mode, q, CostsIn(mode, q, bases), CostSums(mode, q, bases))
<1>1. mode = "central" => mode \in Middling
  BY DEF Middling
<1>2. q.costs # None
  BY DEF CostsFit
<1>3. Given(mode, q) => CostsIn(mode, q, bases) # None
  BY <1>2, CostsGiven, CentralsAreGiven DEF Given
<1> QED BY <1>1, <1>3, CostsSpan DEF Answers, CostSums

Amounts(c, q, mode, estimate, field) == {Amount(c, q, x, field) : x \in Draws(mode, q, estimate)}

LEMMA FactorChoicesAreNumbers ==
  ASSUME NEW mode \in Modes, NEW c, NEW s, NEW q, NEW estimate, Apt(c, s, q, estimate)
  PROVE  /\ ExposureChoices(mode, q) \subseteq Int
         /\ EffectChoices(mode, s, q, estimate) \subseteq Int
         /\ WorthChoices(mode, q) \subseteq Int
<1>1. ExposureChoices(mode, q) \subseteq Int
  <2> DEFINE P == ChoicesOf(mode, q.population.value)
             R == ChoicesOf(mode, q.exposure.value)
             T == Ratios(mode, q)
             m == MultiplierOf(q)
  <2>1. P \subseteq Int /\ R \subseteq Int /\ T \subseteq Int /\ m \in Int
    BY FactorsAreNumbers
  <2> HIDE DEF P, R, T, m
  <2>2. \A i \in P, j \in R, k \in T : ((i * j) * m) * k \in Int
    BY <2>1
  <2> QED BY <2>2 DEF ExposureChoices, P, R, T, m
<1>2. EffectChoices(mode, s, q, estimate) \subseteq Int /\ WorthChoices(mode, q) \subseteq Int
  BY FactorsAreNumbers DEF EffectChoices, WorthChoices
<1> QED BY <1>1, <1>2

\* The amounts of the three quantities that owe nothing to the costs.
LEMMA GrossAmounts ==
  ASSUME NEW mode \in Modes, NEW c, NEW s, NEW q, NEW estimate, Apt(c, s, q, estimate)
  PROVE  /\ Amounts(c, q, mode, estimate, "exposed_population") = ExposureChoices(mode, q)
         /\ Amounts(c, q, mode, estimate, "gross_incremental_outcome")
              = Products(ExposureChoices(mode, q), EffectChoices(mode, s, q, estimate))
         /\ Amounts(c, q, mode, estimate, "gross_monetary_impact")
              = Products(Products(ExposureChoices(mode, q), EffectChoices(mode, s, q, estimate)),
                         WorthChoices(mode, q))
<1> DEFINE A == ExposureChoices(mode, q)
           E == EffectChoices(mode, s, q, estimate)
           V == WorthChoices(mode, q)
           C == CostChoices(mode, q)
           D == Draws(mode, q, estimate)
<1>1. \A x \in D : x.cost \in C /\ \E a \in A, e \in E, v \in V : HasFactors(c, q, x, a, e, v)
  BY ChoicesHaveFactors
<1>2. \A a \in A, e \in E, v \in V, f \in C : \E x \in D : x.cost = f /\ HasFactors(c, q, x, a, e, v)
  BY ChoicesHaveFactors
<1>3. (\E a : a \in A) /\ (\E e : e \in E) /\ (\E v : v \in V) /\ (\E f : f \in C)
  BY SomeChoice
<1> HIDE DEF A, E, V, C, D
<1>4. {Exposure(q, x) : x \in D} = A
  BY <1>1, <1>2, <1>3 DEF HasFactors
<1>5. {Events(c, q, x) : x \in D} = Products(A, E)
  <2>1. \A x \in D : \E a \in A, e \in E : Events(c, q, x) = a * e
    BY <1>1 DEF HasFactors
  <2>2. \A a \in A, e \in E : \E x \in D : Events(c, q, x) = a * e
    BY <1>2, <1>3 DEF HasFactors
  <2> QED BY <2>1, <2>2 DEF Products
<1>6. {Money(c, q, x) : x \in D} = Products(Products(A, E), V)
  <2>1. \A x \in D : \E a \in A, e \in E, v \in V : Money(c, q, x) = (a * e) * v
    BY <1>1 DEF HasFactors
  <2>2. \A a \in A, e \in E, v \in V : \E x \in D : Money(c, q, x) = (a * e) * v
    BY <1>2, <1>3 DEF HasFactors
  <2> QED BY <2>1, <2>2 DEF Products
<1>7. /\ \A x \in D : Amount(c, q, x, "exposed_population") = Exposure(q, x)
      /\ \A x \in D : Amount(c, q, x, "gross_incremental_outcome") = Events(c, q, x)
      /\ \A x \in D : Amount(c, q, x, "gross_monetary_impact") = Money(c, q, x)
  BY DEF Amount
<1> QED BY <1>4, <1>5, <1>6, <1>7 DEF Amounts, A, E, V, D

\* What the costs of a request come to: once, per exposure and per outcome.
DeclaredSums(mode, s, q, estimate) ==
  Sums(Products({One}, CostSums(mode, q, OnceOrRecurring)),
       Products(ExposureChoices(mode, q),
                Sums(CostSums(mode, q, {"per_exposure"}),
                     Products(EffectChoices(mode, s, q, estimate),
                              CostSums(mode, q, {"per_incremental_outcome"})))))
NetSums(mode, s, q, estimate) ==
  Differences(Products(ExposureChoices(mode, q),
                       Differences(Products(EffectChoices(mode, s, q, estimate),
                                            Differences(WorthChoices(mode, q),
                                                        CostSums(mode, q, {"per_incremental_outcome"}))),
                                   CostSums(mode, q, {"per_exposure"}))),
              Products({One}, CostSums(mode, q, OnceOrRecurring)))

LEMMA Regrouped ==
  ASSUME NEW a \in Int, NEW e \in Int, NEW v \in Int, NEW k \in Int, NEW x \in Int, NEW y \in Int,
         NEW z \in Int
  PROVE  /\ k * x + a * y + (a * e) * z = k * x + a * (y + e * z)
         /\ (a * e) * v - (k * x + a * y + (a * e) * z) = a * (e * (v - z) - y) - k * x
<1> DEFINE w == e * z
           u == e * v
           p == k * x
<1>1. w \in Int /\ u \in Int /\ p \in Int /\ (a * e) * z = a * w /\ (a * e) * v = a * u
      /\ e * (v - z) = u - w
  OBVIOUS
<1> HIDE DEF w, u, p
<1>2. a * (y + w) = a * y + a * w /\ a * (u - w - y) = a * u - a * w - a * y
      /\ a * y \in Int /\ a * w \in Int /\ a * u \in Int
  BY <1>1
<1> QED BY <1>1, <1>2 DEF w, p

LEMMA NetAmounts ==
  ASSUME NEW mode \in Modes, NEW c, NEW s, NEW q, NEW estimate, Apt(c, s, q, estimate),
         q.costs # None
  PROVE  /\ Amounts(c, q, mode, estimate, "declared_costs") = DeclaredSums(mode, s, q, estimate)
         /\ Amounts(c, q, mode, estimate, "net_monetary_impact") = NetSums(mode, s, q, estimate)
<1> DEFINE A == ExposureChoices(mode, q)
           E == EffectChoices(mode, s, q, estimate)
           V == WorthChoices(mode, q)
           C == CostChoices(mode, q)
           D == Draws(mode, q, estimate)
           o(f) == CostOver(q, OnceOrRecurring, f)
           p(f) == CostOver(q, {"per_exposure"}, f)
           r(f) == CostOver(q, {"per_incremental_outcome"}, f)
           O == CostSums(mode, q, OnceOrRecurring)
           P == CostSums(mode, q, {"per_exposure"})
           R == CostSums(mode, q, {"per_incremental_outcome"})
<1>1. \A x \in D : x.cost \in C /\ \E a \in A, e \in E, v \in V : HasFactors(c, q, x, a, e, v)
  BY ChoicesHaveFactors
<1>2. \A a \in A, e \in E, v \in V, f \in C : \E x \in D : x.cost = f /\ HasFactors(c, q, x, a, e, v)
  BY ChoicesHaveFactors
<1>3. (\E a : a \in A) /\ (\E e : e \in E) /\ (\E v : v \in V) /\ (\E f : f \in C)
  BY SomeChoice
<1>4. CostsFit(q)
  BY DEF Apt, FitsSource
<1>5. \A f \in C : o(f) \in Int /\ p(f) \in Int /\ r(f) \in Int
  BY <1>4, CostOverIsNumber
<1>6. A \subseteq Int /\ E \subseteq Int /\ V \subseteq Int
  BY FactorChoicesAreNumbers
<1>7. ASSUME NEW x \in D, NEW a \in A, NEW e \in E, NEW v \in V, HasFactors(c, q, x, a, e, v)
      PROVE  Charges(c, q, x) = One * o(x.cost) + a * p(x.cost) + (a * e) * r(x.cost)
  <2>1. a \in Int /\ e \in Int /\ x.cost \in C
    BY <1>1, <1>6
  <2>2. ChargesAre(c, q, x, a, e)
    BY <1>7, <2>1, ChargesOfFactors
  <2> QED BY <2>2 DEF ChargesAre
<1>8. \A f1, f2, f3 \in C : \E f \in C : o(f) = o(f1) /\ p(f) = p(f2) /\ r(f) = r(f3)
  BY <1>4, CostsAreIndependent
<1>9. One \in Int
  BY DEF One
<1>10. /\ \A y : y \in O <=> \E f \in C : y = o(f)
       /\ \A y : y \in P <=> \E f \in C : y = p(f)
       /\ \A y : y \in R <=> \E f \in C : y = r(f)
  BY DEF CostSums
<1> HIDE DEF A, E, V, C, D, o, p, r, O, P, R
<1>11. ASSUME NEW x \in D, NEW a \in A, NEW e \in E, NEW v \in V, HasFactors(c, q, x, a, e, v)
       PROVE  /\ Charges(c, q, x) = One * o(x.cost) + a * (p(x.cost) + e * r(x.cost))
              /\ Money(c, q, x) - Charges(c, q, x)
                   = a * (e * (v - r(x.cost)) - p(x.cost)) - One * o(x.cost)
  <2>1. x.cost \in C
    BY <1>1
  <2> DEFINE i == o(x.cost)
             j == p(x.cost)
             k == r(x.cost)
  <2>2. i \in Int /\ j \in Int /\ k \in Int /\ a \in Int /\ e \in Int /\ v \in Int
    BY <1>5, <1>6, <2>1
  <2>3. Charges(c, q, x) = One * i + a * j + (a * e) * k /\ Money(c, q, x) = (a * e) * v
    BY <1>7, <1>11 DEF HasFactors
  <2> HIDE DEF i, j, k
  <2>4. /\ One * i + a * j + (a * e) * k = One * i + a * (j + e * k)
        /\ (a * e) * v - (One * i + a * j + (a * e) * k) = a * (e * (v - k) - j) - One * i
    BY <1>9, <2>2, Regrouped
  <2> QED BY <2>3, <2>4 DEF i, j, k
<1>12. {Charges(c, q, x) : x \in D} = DeclaredSums(mode, s, q, estimate)
  <2> DEFINE S == DeclaredSums(mode, s, q, estimate)
  <2>1. /\ \A y \in S : \E i \in O, a \in A, j \in P, e \in E, k \in R :
                          y = One * i + a * (j + e * k)
        /\ \A i \in O, a \in A, j \in P, e \in E, k \in R : One * i + a * (j + e * k) \in S
    <3> DEFINE ER == Products(E, R)
               PER == Sums(P, ER)
               Each_ == Products(A, PER)
               Once == Products({One}, O)
    <3>1. \A y : y \in ER <=> \E e \in E, k \in R : y = e * k
      BY DEF Products
    <3>2. S = Sums(Once, Each_)
      BY DEF DeclaredSums, O, A, P, E, R
    <3>3. \A y : y \in Once <=> \E i \in O : y = One * i
      BY DEF Products
    <3> HIDE DEF S, ER, Once
    <3>4. \A y : y \in PER <=> \E j \in P, e \in E, k \in R : y = j + e * k
      BY <3>1 DEF Sums
    <3> HIDE DEF PER
    <3>5. \A y : y \in Each_ <=> \E a \in A, j \in P, e \in E, k \in R : y = a * (j + e * k)
      BY <3>4 DEF Products
    <3> HIDE DEF Each_
    <3>6. \A y : y \in S <=> \E i \in Once, j \in Each_ : y = i + j
      BY <3>2 DEF Sums
    <3>7. ASSUME NEW y \in S PROVE
            \E i \in O, a \in A, j \in P, e \in E, k \in R : y = One * i + a * (j + e * k)
      <4>1. PICK y1 \in Once, y2 \in Each_ : y = y1 + y2
        BY <3>6
      <4>2. PICK i \in O : y1 = One * i
        BY <3>3
      <4>3. PICK a \in A, j \in P, e \in E, k \in R : y2 = a * (j + e * k)
        BY <3>5
      <4> QED BY <4>1, <4>2, <4>3, Zenon
    <3>8. ASSUME NEW i \in O, NEW a \in A, NEW j \in P, NEW e \in E, NEW k \in R
          PROVE  One * i + a * (j + e * k) \in S
      <4>1. One * i \in Once /\ a * (j + e * k) \in Each_
        BY <3>3, <3>5, Zenon
      <4> QED BY <3>6, <4>1, Zenon
    <3> QED BY <3>7, <3>8, Zenon
  <2> HIDE DEF S
  <2>2. ASSUME NEW x \in D PROVE Charges(c, q, x) \in S
    <3>1. PICK a \in A, e \in E, v \in V : HasFactors(c, q, x, a, e, v)
      BY <1>1
    <3>2. o(x.cost) \in O /\ p(x.cost) \in P /\ r(x.cost) \in R
      BY <1>1, <1>10
    <3> QED BY <1>11, <2>1, <3>1, <3>2
  <2>3. ASSUME NEW i \in O, NEW a \in A, NEW j \in P, NEW e \in E, NEW k \in R
        PROVE  \E x \in D : Charges(c, q, x) = One * i + a * (j + e * k)
    <3>1. PICK f \in C : o(f) = i /\ p(f) = j /\ r(f) = k
      BY <1>8, <1>10
    <3>2. PICK v \in V : TRUE
      BY <1>3
    <3>3. PICK x \in D : x.cost = f /\ HasFactors(c, q, x, a, e, v)
      BY <1>2
    <3> QED BY <1>11, <3>1, <3>3
  <2> QED BY <2>1, <2>2, <2>3 DEF S
<1>13. {Money(c, q, x) - Charges(c, q, x) : x \in D} = NetSums(mode, s, q, estimate)
  <2> DEFINE S == NetSums(mode, s, q, estimate)
  <2>1. /\ \A y \in S : \E a \in A, e \in E, v \in V, k \in R, j \in P, i \in O :
                          y = a * (e * (v - k) - j) - One * i
        /\ \A a \in A, e \in E, v \in V, k \in R, j \in P, i \in O :
             a * (e * (v - k) - j) - One * i \in S
    <3> DEFINE VR == Differences(V, R)
               EVR == Products(E, VR)
               PEVR == Differences(EVR, P)
               Each_ == Products(A, PEVR)
               Once == Products({One}, O)
    <3>1. \A y : y \in VR <=> \E v \in V, k \in R : y = v - k
      BY DEF Differences
    <3>2. S = Differences(Each_, Once)
      BY DEF NetSums, O, A, P, E, R, V
    <3>3. \A y : y \in Once <=> \E i \in O : y = One * i
      BY DEF Products
    <3> HIDE DEF S, VR, Once
    <3>4. \A y : y \in EVR <=> \E e \in E, v \in V, k \in R : y = e * (v - k)
      BY <3>1 DEF Products
    <3> HIDE DEF EVR
    <3>5. \A y : y \in PEVR <=> \E e \in E, v \in V, k \in R, j \in P : y = e * (v - k) - j
      BY <3>4 DEF Differences
    <3> HIDE DEF PEVR
    <3>6. \A y : y \in Each_ <=>
            \E a \in A, e \in E, v \in V, k \in R, j \in P : y = a * (e * (v - k) - j)
      BY <3>5 DEF Products
    <3> HIDE DEF Each_
    <3>7. \A y : y \in S <=> \E i \in Each_, j \in Once : y = i - j
      BY <3>2 DEF Differences
    <3>8. ASSUME NEW y \in S PROVE
            \E a \in A, e \in E, v \in V, k \in R, j \in P, i \in O :
              y = a * (e * (v - k) - j) - One * i
      <4>1. PICK y1 \in Each_, y2 \in Once : y = y1 - y2
        BY <3>7
      <4>2. PICK i \in O : y2 = One * i
        BY <3>3
      <4>3. PICK a \in A, e \in E, v \in V, k \in R, j \in P : y1 = a * (e * (v - k) - j)
        BY <3>6
      <4> QED BY <4>1, <4>2, <4>3, Zenon
    <3>9. ASSUME NEW a \in A, NEW e \in E, NEW v \in V, NEW k \in R, NEW j \in P, NEW i \in O
          PROVE  a * (e * (v - k) - j) - One * i \in S
      <4>1. One * i \in Once /\ a * (e * (v - k) - j) \in Each_
        BY <3>3, <3>6, Zenon
      <4> QED BY <3>7, <4>1, Zenon
    <3> QED BY <3>8, <3>9, Zenon
  <2> HIDE DEF S
  <2>2. ASSUME NEW x \in D PROVE Money(c, q, x) - Charges(c, q, x) \in S
    <3>1. PICK a \in A, e \in E, v \in V : HasFactors(c, q, x, a, e, v)
      BY <1>1
    <3>2. o(x.cost) \in O /\ p(x.cost) \in P /\ r(x.cost) \in R
      BY <1>1, <1>10
    <3> QED BY <1>11, <2>1, <3>1, <3>2
  <2>3. ASSUME NEW i \in O, NEW a \in A, NEW j \in P, NEW e \in E, NEW k \in R, NEW v \in V
        PROVE  \E x \in D : Money(c, q, x) - Charges(c, q, x) = a * (e * (v - k) - j) - One * i
    <3>1. PICK f \in C : o(f) = i /\ p(f) = j /\ r(f) = k
      BY <1>8, <1>10
    <3>2. PICK x \in D : x.cost = f /\ HasFactors(c, q, x, a, e, v)
      BY <1>2
    <3> QED BY <1>11, <3>1, <3>2
  <2> QED BY <2>1, <2>2, <2>3 DEF S
<1>14. /\ \A x \in D : Amount(c, q, x, "declared_costs") = Charges(c, q, x)
       /\ \A x \in D : Amount(c, q, x, "net_monetary_impact") = Money(c, q, x) - Charges(c, q, x)
  BY DEF Amount
<1> QED BY <1>12, <1>13, <1>14 DEF Amounts, D

FixedFields == {"exposed_population", "gross_incremental_outcome", "gross_monetary_impact",
                "declared_costs", "net_monetary_impact"}

\* An item has one place in the list.
LEMMA ItemHasPlace ==
  ASSUME NEW q, ScenarioOK(q), q.costs # None, NEW field \in ItemIds(q)
  PROVE  \E i \in DOMAIN q.costs.items :
           /\ q.costs.items[i] = Item(q, field)
           /\ i = CHOOSE j \in DOMAIN q.costs.items : q.costs.items[j].id = field
<1> DEFINE items == q.costs.items
           S == DOMAIN items
           ids == [i \in S |-> items[i].id]
<1>1. \A i, j \in S : items[i].id = items[j].id => i = j
  <2>1. ~Duplicated(ids)
    BY DEF ScenarioOK
  <2>2. \A i \in S : ids[i] = items[i].id
    OBVIOUS
  <2>3. PICK n \in Nat : S = 1..n
    BY DEF ScenarioOK, IsList
  <2>4. DOMAIN ids = 1..n /\ Len(ids) = n
    BY <2>3
  <2> HIDE DEF ids
  <2>5. \A i, j \in 1..n : ids[i] = ids[j] => i = j
    BY <2>1, <2>4, NotDuplicated
  <2> QED BY <2>2, <2>3, <2>5
<1>2. \E i \in S : items[i].id = field
  BY DEF ItemIds, SetOf
<1>3. PICK i \in S : items[i].id = field
  BY <1>2
<1>4. i = CHOOSE j \in S : items[j].id = field
  BY <1>1, <1>3
<1>5. \A item \in SetOf(items) : item.id = field <=> item = items[i]
  BY <1>1, <1>3 DEF SetOf
<1>6. items[i] \in SetOf(items)
  BY <1>3 DEF SetOf
<1>7. Item(q, field) = items[i]
  BY <1>5, <1>6 DEF Item
<1> QED BY <1>3, <1>4, <1>7

LEMMA ItemAmounts ==
  ASSUME NEW mode \in Modes, NEW c, NEW s, NEW q, NEW estimate, Apt(c, s, q, estimate),
         q.costs # None, NEW i \in DOMAIN q.costs.items
  PROVE  {Charge(c, q, x, i) : x \in Draws(mode, q, estimate)} =
           Products(ChoicesOf(mode, q.costs.items[i].value),
             IF q.costs.items[i].basis = "per_exposure" THEN ExposureChoices(mode, q)
             ELSE IF q.costs.items[i].basis = "per_incremental_outcome"
             THEN Products(ExposureChoices(mode, q), EffectChoices(mode, s, q, estimate))
             ELSE {One * Occurrences(q, q.costs.items[i])})
<1> DEFINE A == ExposureChoices(mode, q)
           E == EffectChoices(mode, s, q, estimate)
           V == WorthChoices(mode, q)
           C == CostChoices(mode, q)
           D == Draws(mode, q, estimate)
           U == ChoicesOf(mode, q.costs.items[i].value)
           b == q.costs.items[i].basis
           k == One * Occurrences(q, q.costs.items[i])
           F == IF b = "per_exposure" THEN A
                ELSE IF b = "per_incremental_outcome" THEN Products(A, E) ELSE {k}
<1>1. \A x \in D : x.cost \in C /\ \E a \in A, e \in E, v \in V : HasFactors(c, q, x, a, e, v)
  BY ChoicesHaveFactors
<1>2. \A a \in A, e \in E, v \in V, f \in C : \E x \in D : x.cost = f /\ HasFactors(c, q, x, a, e, v)
  BY ChoicesHaveFactors
<1>3. (\E a : a \in A) /\ (\E e : e \in E) /\ (\E v : v \in V) /\ (\E f : f \in C)
  BY SomeChoice
<1>4. CostsFit(q)
  BY DEF Apt, FitsSource
<1>5. A \subseteq Int /\ E \subseteq Int
  BY FactorChoicesAreNumbers
<1>6. ASSUME NEW x \in D, NEW a \in A, NEW e \in E, NEW v \in V, HasFactors(c, q, x, a, e, v)
      PROVE  /\ x.cost[i] \in U
             /\ Charge(c, q, x, i) = x.cost[i] * (IF b = "per_exposure" THEN a
                                       ELSE IF b = "per_incremental_outcome" THEN a * e ELSE k)
  <2>1. a \in Int /\ e \in Int /\ x.cost \in C
    BY <1>1, <1>5
  <2> QED BY <1>6, <2>1, ChargesOfFactors
<1>7. \A u \in U : \E f \in C : f[i] = u
  <2> TAKE u \in U
  <2> DEFINE S == DOMAIN q.costs.items
  <2>1. PICK g \in C : TRUE
    BY <1>3
  <2> DEFINE f == [j \in S |-> IF j = i THEN u ELSE g[j]]
  <2>2. \A j \in S : g[j] \in ChoicesOf(mode, q.costs.items[j].value)
    BY <1>4, <2>1, CostChoice
  <2>3. f = [j \in S |-> f[j]] /\ f[i] = u
    OBVIOUS
  <2>4. \A j \in S : f[j] \in ChoicesOf(mode, q.costs.items[j].value)
    BY <2>2
  <2> HIDE DEF f
  <2>5. f \in C
    BY <1>4, <2>3, <2>4, CostChoice
  <2> QED BY <2>3, <2>5
<1> HIDE DEF A, E, V, C, D, U, b, k
<1>8. \A x \in D : Charge(c, q, x, i) \in Products(U, F)
  <2> TAKE x \in D
  <2>1. PICK a \in A, e \in E, v \in V : HasFactors(c, q, x, a, e, v)
    BY <1>1
  <2> DEFINE y == IF b = "per_exposure" THEN a
                  ELSE IF b = "per_incremental_outcome" THEN a * e ELSE k
  <2>2. y \in F
    BY DEF Products
  <2>3. x.cost[i] \in U /\ Charge(c, q, x, i) = x.cost[i] * y
    BY <1>6, <2>1
  <2> HIDE DEF y, F
  <2> QED BY <2>2, <2>3 DEF Products
<1>9. ASSUME NEW u \in U, NEW y \in F PROVE \E x \in D : Charge(c, q, x, i) = u * y
  <2>1. \E a \in A, e \in E : y = IF b = "per_exposure" THEN a
                                  ELSE IF b = "per_incremental_outcome" THEN a * e ELSE k
    <3>1. CASE b = "per_exposure"
      BY <1>3, <3>1
    <3>2. CASE b = "per_incremental_outcome"
      BY <3>2 DEF Products
    <3>3. CASE b \notin {"per_exposure", "per_incremental_outcome"}
      BY <1>3, <3>3
    <3> QED BY <3>1, <3>2, <3>3
  <2>2. PICK a \in A, e \in E : y = IF b = "per_exposure" THEN a
                                    ELSE IF b = "per_incremental_outcome" THEN a * e ELSE k
    BY <2>1
  <2>3. PICK v \in V, f \in C : f[i] = u
    BY <1>3, <1>7
  <2>4. PICK x \in D : x.cost = f /\ HasFactors(c, q, x, a, e, v)
    BY <1>2
  <2> QED BY <1>6, <2>2, <2>3, <2>4
<1> HIDE DEF F
<1>10. {Charge(c, q, x, i) : x \in D} = Products(U, F)
  BY <1>8, <1>9 DEF Products
<1> QED BY <1>10 DEF D, U, F, A, E, b, k

LEMMA DeclaredAnswers ==
  ASSUME NEW mode \in Modes, NEW c, NEW s, NEW q, NEW estimate, Apt(c, s, q, estimate),
         q.costs # None
  PROVE  /\ Answers(mode, q, DeclaredIn(mode, q, ExposedIn(mode, q), EffectIn(mode, s, q, estimate)),
                    DeclaredSums(mode, s, q, estimate))
         /\ Answers(mode, q, NetIn(mode, q, ExposedIn(mode, q), EffectIn(mode, s, q, estimate)),
                    NetSums(mode, s, q, estimate))
<1> DEFINE a == ExposedIn(mode, q)
           e == EffectIn(mode, s, q, estimate)
           v == WorthIn(mode, q)
           o == CostsIn(mode, q, OnceOrRecurring)
           p == CostsIn(mode, q, {"per_exposure"})
           r == CostsIn(mode, q, {"per_incremental_outcome"})
           A == ExposureChoices(mode, q)
           E == EffectChoices(mode, s, q, estimate)
           V == WorthChoices(mode, q)
           O == CostSums(mode, q, OnceOrRecurring)
           P == CostSums(mode, q, {"per_exposure"})
           R == CostSums(mode, q, {"per_incremental_outcome"})
<1>1. Answers(mode, q, a, A) /\ Answers(mode, q, e, E) /\ Answers(mode, q, v, V)
  BY FactorsAnswer
<1>2. CostsFit(q)
  BY DEF Apt, FitsSource
<1>3. Answers(mode, q, o, O) /\ Answers(mode, q, p, P) /\ Answers(mode, q, r, R)
  BY <1>2, CostsAnswer
<1>4. One \in Int
  BY DEF One
<1>5. Answers(mode, q, Exactly(One), {One})
  BY <1>4, PointAnswers
<1>6. /\ DeclaredIn(mode, q, a, e) = Plus(Times(Exactly(One), o), Times(a, Plus(p, Times(e, r))))
      /\ NetIn(mode, q, a, e)
           = Minus(Times(a, Minus(Times(e, Minus(v, r)), p)), Times(Exactly(One), o))
      /\ DeclaredSums(mode, s, q, estimate)
           = Sums(Products({One}, O), Products(A, Sums(P, Products(E, R))))
      /\ NetSums(mode, s, q, estimate)
           = Differences(Products(A, Differences(Products(E, Differences(V, R)), P)),
                         Products({One}, O))
  BY DEF DeclaredIn, NetIn, DeclaredSums, NetSums
<1> HIDE DEF a, e, v, o, p, r, A, E, V, O, P, R
<1>7. Answers(mode, q, Times(Exactly(One), o), Products({One}, O))
  BY <1>3, <1>5, ProductAnswers
<1>8. Answers(mode, q, DeclaredIn(mode, q, a, e), DeclaredSums(mode, s, q, estimate))
  <2>1. Answers(mode, q, Times(e, r), Products(E, R))
    BY <1>1, <1>3, ProductAnswers
  <2>2. Answers(mode, q, Plus(p, Times(e, r)), Sums(P, Products(E, R)))
    BY <1>3, <2>1, SumAnswers
  <2>3. Answers(mode, q, Times(a, Plus(p, Times(e, r))), Products(A, Sums(P, Products(E, R))))
    BY <1>1, <2>2, ProductAnswers
  <2> QED BY <1>6, <1>7, <2>3, SumAnswers
<1>9. Answers(mode, q, NetIn(mode, q, a, e), NetSums(mode, s, q, estimate))
  <2>1. Answers(mode, q, Minus(v, r), Differences(V, R))
    BY <1>1, <1>3, DifferenceAnswers
  <2>2. Answers(mode, q, Times(e, Minus(v, r)), Products(E, Differences(V, R)))
    BY <1>1, <2>1, ProductAnswers
  <2>3. Answers(mode, q, Minus(Times(e, Minus(v, r)), p),
                Differences(Products(E, Differences(V, R)), P))
    BY <1>3, <2>2, DifferenceAnswers
  <2>4. Answers(mode, q, Times(a, Minus(Times(e, Minus(v, r)), p)),
                Products(A, Differences(Products(E, Differences(V, R)), P)))
    BY <1>1, <2>3, ProductAnswers
  <2> QED BY <1>6, <1>7, <2>4, DifferenceAnswers
<1> QED BY <1>8, <1>9 DEF a, e

ItemCharges(c, q, mode, estimate, i) == {Charge(c, q, x, i) : x \in Draws(mode, q, estimate)}

LEMMA ItemAnswers ==
  ASSUME NEW mode \in Modes, NEW c, NEW s, NEW q, NEW estimate, Apt(c, s, q, estimate),
         q.costs # None, NEW i \in DOMAIN q.costs.items
  PROVE  Answers(mode, q,
                 ItemIn(mode, q, ExposedIn(mode, q), EffectIn(mode, s, q, estimate), q.costs.items[i]),
                 ItemCharges(c, q, mode, estimate, i))
<1> DEFINE item == q.costs.items[i]
           a == ExposedIn(mode, q)
           e == EffectIn(mode, s, q, estimate)
           A == ExposureChoices(mode, q)
           E == EffectChoices(mode, s, q, estimate)
           b == ValueIn(mode, item.value)
           U == ChoicesOf(mode, item.value)
           k == One * Occurrences(q, item)
           y == IF item.basis = "per_exposure" THEN a
                ELSE IF item.basis = "per_incremental_outcome" THEN Times(a, e) ELSE Exactly(k)
           F == IF item.basis = "per_exposure" THEN A
                ELSE IF item.basis = "per_incremental_outcome" THEN Products(A, E) ELSE {k}
<1>1. Answers(mode, q, a, A) /\ Answers(mode, q, e, E)
  BY FactorsAnswer
<1>2. CostsFit(q)
  BY DEF Apt, FitsSource
<1>3. k \in Int
  BY <1>2 DEF CostsFit, One
<1>4. Answers(mode, q, b, U)
  <2>1. IsRange(item.value)
    BY <1>2, CostChoice
  <2>2. mode = "central" => mode \in Middling
    BY DEF Middling
  <2>3. Given(mode, q) => mode \notin Middling \/ item.value.central # None
    BY CentralsAreGiven DEF Given
  <2> QED BY <2>1, <2>2, <2>3, RangeSpans DEF Answers
<1>5. ItemCharges(c, q, mode, estimate, i) = Products(U, F)
  BY ItemAmounts DEF ItemCharges
<1>6. ItemIn(mode, q, a, e, item) = Times(b, y)
  BY DEF ItemIn
<1> HIDE DEF a, e, A, E, b, U, k
<1>7. Answers(mode, q, y, F)
  <2>1. Answers(mode, q, Times(a, e), Products(A, E))
    BY <1>1, ProductAnswers
  <2>2. Answers(mode, q, Exactly(k), {k})
    BY <1>3, PointAnswers
  <2> QED BY <1>1, <2>1, <2>2
<1> HIDE DEF y, F
<1>8. Answers(mode, q, Times(b, y), Products(U, F))
  BY <1>4, <1>7, ProductAnswers
<1> QED BY <1>5, <1>6, <1>8 DEF a, e

\* Every quantity of a scenario answers for its amounts.
LEMMA BoundsAnswer ==
  ASSUME NEW mode \in Modes, NEW c, NEW s, NEW q, NEW estimate, Apt(c, s, q, estimate),
         NEW field \in Quantities(q)
  PROVE  Answers(mode, q, BoundsIn(mode, s, q, estimate, field),
                 Amounts(c, q, mode, estimate, field))
<1> DEFINE a == ExposedIn(mode, q)
           e == EffectIn(mode, s, q, estimate)
           v == WorthIn(mode, q)
           A == ExposureChoices(mode, q)
           E == EffectChoices(mode, s, q, estimate)
           V == WorthChoices(mode, q)
           bounds == BoundsIn(mode, s, q, estimate, field)
           amounts == Amounts(c, q, mode, estimate, field)
<1>1. Answers(mode, q, a, A) /\ Answers(mode, q, e, E) /\ Answers(mode, q, v, V)
  BY FactorsAnswer
<1>2. CASE field = "exposed_population"
  <2>1. bounds = a
    BY <1>2 DEF BoundsIn
  <2> QED BY <1>1, <1>2, <2>1, GrossAmounts
<1>3. CASE field = "gross_incremental_outcome"
  <2>1. bounds = Times(a, e)
    BY <1>3 DEF BoundsIn
  <2>2. amounts = Products(A, E)
    BY <1>3, GrossAmounts
  <2> HIDE DEF a, e, A, E, bounds, amounts
  <2> QED BY <1>1, <2>1, <2>2, ProductAnswers DEF bounds, amounts
<1>4. CASE field = "gross_monetary_impact"
  <2>1. bounds = Times(Times(a, e), v)
    BY <1>4 DEF BoundsIn
  <2>2. amounts = Products(Products(A, E), V)
    BY <1>4, GrossAmounts
  <2> HIDE DEF a, e, v, A, E, V, bounds, amounts
  <2>3. Answers(mode, q, Times(a, e), Products(A, E))
    BY <1>1, ProductAnswers
  <2>4. Answers(mode, q, Times(Times(a, e), v), Products(Products(A, E), V))
    BY <1>1, <2>3, ProductAnswers
  <2> QED BY <2>1, <2>2, <2>4 DEF bounds, amounts
<1>5. field \notin {"exposed_population", "gross_incremental_outcome", "gross_monetary_impact"} =>
        q.output = "net"
  BY DEF Quantities, If
<1>6. q.output = "net" => q.costs # None
  BY DEF Apt, FitsSource
<1>7. CASE field = "declared_costs"
  <2>1. bounds = DeclaredIn(mode, q, a, e)
    BY <1>7 DEF BoundsIn
  <2>2. amounts = DeclaredSums(mode, s, q, estimate)
    BY <1>5, <1>6, <1>7, NetAmounts
  <2> QED BY <1>5, <1>6, <1>7, <2>1, <2>2, DeclaredAnswers
<1>8. CASE field = "net_monetary_impact"
  <2>1. bounds = NetIn(mode, q, a, e)
    BY <1>8 DEF BoundsIn
  <2>2. amounts = NetSums(mode, s, q, estimate)
    BY <1>5, <1>6, <1>8, NetAmounts
  <2> QED BY <1>5, <1>6, <1>8, <2>1, <2>2, DeclaredAnswers
<1>9. CASE field \notin FixedFields
  <2>1. q.output = "net" /\ q.costs # None /\ field \in ItemIds(q)
    BY <1>5, <1>6, <1>9 DEF Quantities, If, FixedFields
  <2>2. PICK i \in DOMAIN q.costs.items :
          /\ q.costs.items[i] = Item(q, field)
          /\ i = CHOOSE j \in DOMAIN q.costs.items : q.costs.items[j].id = field
    BY <2>1, ItemHasPlace DEF Apt
  <2>3. bounds = ItemIn(mode, q, a, e, Item(q, field))
    BY <1>9 DEF BoundsIn, FixedFields
  <2>4. \A x \in Draws(mode, q, estimate) : Amount(c, q, x, field) = Charge(c, q, x, i)
    BY <1>9, <2>2 DEF Amount, FixedFields
  <2>5. amounts = ItemCharges(c, q, mode, estimate, i)
    BY <2>4 DEF Amounts, ItemCharges
  <2>6. Answers(mode, q, ItemIn(mode, q, a, e, q.costs.items[i]),
                ItemCharges(c, q, mode, estimate, i))
    BY <2>1, ItemAnswers
  <2> QED BY <2>2, <2>3, <2>5, <2>6
<1> QED BY <1>2, <1>3, <1>4, <1>7, <1>8, <1>9 DEF FixedFields

\* The numbers of a scenario of a request that fits are the tightest there are.
LEMMA FittingScenario ==
  ASSUME NEW c, NEW s, Apt(c, s, c.impact.q, c.impact.estimate)
  PROVE  Banded(c, ScenarioOf(s, c.impact.q, c.impact.estimate))
<1> DEFINE q == c.impact.q
           estimate == c.impact.estimate
           result_ == ScenarioOf(s, q, estimate)
           In(mode, field) == BoundsIn(mode, s, q, estimate, field)
<1>1. /\ DOMAIN result_.numbers = Quantities(q)
      /\ \A field \in Quantities(q) : result_.numbers[field] = Quantity(s, q, estimate, field)
  BY DEF ScenarioOf
<1>2. ASSUME NEW field \in Quantities(q), NEW mode \in Modes
      PROVE  /\ In(mode, field) # None => Tight(c, q, mode, field, In(mode, field))
             /\ In(mode, field) # None /\ mode = "central" =>
                  In(mode, field) = Exactly(In(mode, field).lower)
             /\ Given(mode, q) => In(mode, field) # None
  <2> DEFINE b == In(mode, field)
  <2>1. Answers(mode, q, b, Amounts(c, q, mode, estimate, field))
    BY BoundsAnswer
  <2> HIDE DEF b
  <2>2. b # None => Tight(c, q, mode, field, b)
    BY <2>1, TightIsSpan DEF Answers, Amounts
  <2>3. b # None /\ mode = "central" => b = Exactly(b.lower)
    BY <2>1 DEF Answers, TightFor, IsPoint, Exactly
  <2>4. Given(mode, q) => b # None
    BY <2>1 DEF Answers
  <2> QED BY <2>2, <2>3, <2>4 DEF b
<1>3. ASSUME NEW field \in Quantities(q)
      PROVE  LET number == Quantity(s, q, estimate, field)
             IN  /\ Tight(c, q, "combined", field, number.combined)
                 /\ Tight(c, q, "business", field, number.business)
                 /\ number.statistical # None => Tight(c, q, "statistical", field, number.statistical)
                 /\ number.central # None => Tight(c, q, "central", field, Exactly(number.central))
                 /\ None \notin Centrals(q) => number.central # None
  <2> DEFINE number == Quantity(s, q, estimate, field)
  <2>1. /\ number.central = IF In("central", field) = None THEN None ELSE In("central", field).lower
        /\ number.statistical = IF DependsOnEffect(q, field) THEN In("statistical", field) ELSE None
        /\ number.business = In("business", field) /\ number.combined = In("combined", field)
    BY DEF Quantity
  <2>2. Given("business", q) /\ Given("combined", q) /\ (None \notin Centrals(q) => Given("central", q))
    BY DEF Given, Middling
  <2>3. \A mode \in Modes :
          /\ In(mode, field) # None => Tight(c, q, mode, field, In(mode, field))
          /\ In(mode, field) # None /\ mode = "central" =>
               In(mode, field) = Exactly(In(mode, field).lower)
          /\ Given(mode, q) => In(mode, field) # None
    BY <1>2
  <2>4. {"central", "statistical", "business", "combined"} = Modes
    BY DEF Modes
  <2>5. None \notin Centrals(q) => number.central # None
    <3>1. In("central", field) # None => In("central", field).lower \in Int
      BY <2>4, BoundsAnswer DEF Answers, TightFor
    <3> QED BY <2>1, <2>2, <2>3, <2>4, <3>1, AbsentAssumption
  <2> HIDE DEF In, number
  <2> QED BY <2>1, <2>2, <2>3, <2>4, <2>5 DEF number
<1> HIDE DEF result_
<1> QED BY <1>1, <1>3 DEF Banded, result_

\* A difference of shares is of a metric that is a share, and everybody who is
\* already exposed is counted whole.
LEMMA SourceFits ==
  ASSUME NEW s, NEW q, NEW metric, SourceMisfits(s, q, metric) = <<>>
  PROVE  Binary(s) => q.binding.unit.dimension = "proportion"
<1> DEFINE p == q.population
           b == q.binding
           t1 == Told(s.population # p.definition, "population_mismatch")
           t2 == Told(s.target # p.target, "target_mismatch")
           t3 == Told(s.group # p.group \/ s.rule # p.rule, "subgroup_mismatch")
           t4 == Told(s.unit # b.analysisUnit, "analysis_unit_mismatch")
           t5 == Told(metric.id # b.metric \/ metric.unit # b.unit, "metric_mismatch")
           t6 == Told((Binary(s) \/ b.unit.dimension = "count") /\ b.event = None, "event_missing")
           t7 == Told(~Binary(s) /\ b.event # None /\ b.unit.dimension # "count", "event_incompatible")
           t8 == Told(Binary(s) /\ b.unit.dimension # "proportion", "effect_scale_mismatch")
           t9 == Told(q.baseline # None, "unused_baseline")
           first == t1 \o t2 \o t3 \o t4 \o t5 \o t6 \o t7 \o t8
<1>1. /\ IsList(t1) /\ IsList(t2) /\ IsList(t3) /\ IsList(t4) /\ IsList(t5) /\ IsList(t6)
      /\ IsList(t7) /\ IsList(t8) /\ IsList(t9)
  BY Untold
<1>2. SetOf(t8) = {} => ~(Binary(s) /\ b.unit.dimension # "proportion")
  BY Untold
<1>3. first \o t9 = <<>>
  BY DEF SourceMisfits
<1> HIDE DEF t1, t2, t3, t4, t5, t6, t7, t8, t9
<1>4. /\ IsList(first)
      /\ SetOf(first) = UNION {SetOf(t1), SetOf(t2), SetOf(t3), SetOf(t4),
                               SetOf(t5), SetOf(t6), SetOf(t7), SetOf(t8)}
  BY <1>1, JoinEight
<1> HIDE DEF first
<1>5. first = <<>>
  BY <1>1, <1>3, <1>4, NothingJoined
<1>6. UNION {SetOf(t1), SetOf(t2), SetOf(t3), SetOf(t4),
             SetOf(t5), SetOf(t6), SetOf(t7), SetOf(t8)} = {}
  BY <1>4, <1>5, Nothing
<1>7. SetOf(t8) = {}
  BY <1>6
<1> QED BY <1>2, <1>7

LEMMA ExposureFits ==
  ASSUME NEW q, ExposureMisfits(q) = <<>>, q.population.exposure = "already_exposed"
  PROVE  {q.exposure.value.lower, q.exposure.value.central, q.exposure.value.upper} = {One}
<1> DEFINE p == q.population
           rate == q.exposure.value
           converted == q.exposureConversion
           already == p.exposure = "already_exposed"
           declared == q.exposure.meaning = "already_exposed"
           t1 == IF p.entity = q.binding.entity
                 THEN Told(converted # None, "duplicate_exposure_conversion")
                 ELSE Told(\/ converted = None
                           \/ converted.from # p.entity \/ converted.to # q.binding.entity,
                           "exposure_unit_mismatch")
           t2 == Told(already /\ ~(declared /\ {rate.lower, rate.central, rate.upper} = {One}),
                      "double_exposure")
           t3 == Told(~already /\ declared, "exposure_basis_mismatch")
<1>1. IsList(t1) /\ IsList(t2) /\ IsList(t3)
  BY Untold
<1>2. SetOf(t2) = {} => ~(already /\ ~(declared /\ {rate.lower, rate.central, rate.upper} = {One}))
  BY Untold
<1>3. t1 \o t2 \o t3 = <<>>
  BY DEF ExposureMisfits
<1> HIDE DEF t1, t2, t3
<1>4. UNION {SetOf(t1), SetOf(t2), SetOf(t3)} = {}
  BY <1>1, <1>3, JoinThree, Nothing
<1>5. SetOf(t2) = {}
  BY <1>4
<1> QED BY <1>2, <1>5

LEMMA MoneyFits ==
  ASSUME NEW s, NEW q, ScenarioOK(q), MoneyMisfits(s, q) = <<>>
  PROVE  /\ q.conversion # None => OwnCurrency(s, q) = None
         /\ q.output = "net" => q.costs # None
         /\ q.costs # None =>
              \A i \in DOMAIN q.costs.items :
                q.costs.items[i].basis = "recurring" =>
                  Repetitions(q.costs.items[i].horizon, q.horizon.basis) # None
<1> DEFINE items == q.costs.items
           F == [i \in DOMAIN items |-> CostMisfits(s, q, items[i])]
           costs == IF q.costs = None THEN <<>> ELSE FlattenSeq(F)
           t1 == Told(q.conversion # None /\ OwnCurrency(s, q) # None, "double_monetization")
           t2 == Told(q.conversion # None /\ ~PerOutcome(s, q, q.conversion), "conversion_unit_mismatch")
           t3 == Told(q.output # "outcome" /\ CurrencyOf(s, q) = None, "conversion_missing")
           t4 == Told(q.output = "net" /\ q.costs = None, "costs_missing")
           t5 == Told(q.costs # None /\ CurrencyOf(s, q) = None, "costs_without_money")
<1>1. \A item : Telling(CostMisfits(s, q, item))
  BY TellingTold, TellingJoin DEF CostMisfits, Reserved, Foreign, NoReason
<1>2. MoneyMisfits(s, q) = t1 \o t2 \o t3 \o t4 \o t5 \o costs
  BY DEF MoneyMisfits, Each
<1>3. q.costs # None =>
        /\ IsList(FlattenSeq(F))
        /\ SetOf(FlattenSeq(F)) = UNION {SetOf(F[i]) : i \in DOMAIN items}
  <2> SUFFICES ASSUME q.costs # None
               PROVE  /\ IsList(FlattenSeq(F))
                      /\ SetOf(FlattenSeq(F)) = UNION {SetOf(F[i]) : i \in DOMAIN items}
    OBVIOUS
  <2>1. IsList(items)
    BY DEF ScenarioOK
  <2>2. \A i \in DOMAIN items : IsList(F[i])
    BY <1>1 DEF Telling
  <2> HIDE DEF F, items
  <2>3. F = [i \in DOMAIN items |-> F[i]]
    BY DEF F
  <2>4. IsList(F) /\ DOMAIN F = DOMAIN items
    BY <2>1, <2>3, PartsOf
  <2> QED BY <2>2, <2>4, Flatten
<1>4. IsList(t1) /\ IsList(t2) /\ IsList(t3) /\ IsList(t4) /\ IsList(t5) /\ IsList(costs)
  <2> HIDE DEF F
  <2> QED BY <1>3, Untold, Nothing
<1>5. /\ SetOf(t1) = {} => ~(q.conversion # None /\ OwnCurrency(s, q) # None)
      /\ SetOf(t4) = {} => ~(q.output = "net" /\ q.costs = None)
  BY Untold
<1>6. SetOf(t1) = {} /\ SetOf(t4) = {} /\ SetOf(costs) = {}
  <2> HIDE DEF t1, t2, t3, t4, t5, costs
  <2>1. UNION {SetOf(t1), SetOf(t2), SetOf(t3), SetOf(t4), SetOf(t5), SetOf(costs)} = {}
    BY <1>2, <1>4, JoinSix, Nothing
  <2> QED BY <2>1
<1>7. ASSUME q.costs # None, NEW i \in DOMAIN items, items[i].basis = "recurring"
      PROVE  Repetitions(items[i].horizon, q.horizon.basis) # None
  <2> DEFINE item == items[i]
             u1 == Told(item.currency # CurrencyOf(s, q), "currency_mismatch")
             u2 == Told(IF item.basis = "recurring" THEN Repetitions(item.horizon, q.horizon.basis) = None
                        ELSE item.horizon # q.horizon.basis, "cost_horizon_mismatch")
             u3 == Told(\/ item.basis = "per_exposure" /\ item.entity # q.binding.entity
                        \/ item.basis = "per_incremental_outcome" /\ ~PerOutcome(s, q, item),
                        "cost_unit_mismatch")
  <2>1. F[i] = u1 \o u2 \o u3
    BY DEF CostMisfits
  <2>2. SetOf(F[i]) = {}
    <3> HIDE DEF F, items
    <3> QED BY <1>3, <1>6, <1>7
  <2>3. IsList(u1) /\ IsList(u2) /\ IsList(u3)
    BY Untold
  <2>4. SetOf(u2) = {}
    <3> HIDE DEF u1, u2, u3, F
    <3>1. SetOf(u1 \o u2 \o u3) = {}
      BY <2>1, <2>2
    <3>2. SetOf(u1 \o u2 \o u3) = UNION {SetOf(u1), SetOf(u2), SetOf(u3)}
      BY <2>3, JoinThree
    <3> QED BY <3>1, <3>2
  <2>5. SetOf(u2) = {} => ~(IF item.basis = "recurring"
                            THEN Repetitions(item.horizon, q.horizon.basis) = None
                            ELSE item.horizon # q.horizon.basis)
    BY Untold
  <2> QED BY <1>7, <2>4, <2>5
<1> QED BY <1>5, <1>6, <1>7

LEMMA WholeQuotient ==
  ASSUME NEW a \in Nat \ {0}, NEW b \in Nat \ {0}, a % b = 0
  PROVE  a \div b \in Nat \ {0} /\ a = (a \div b) * b
<1> DEFINE k == a \div b
<1>1. k \in Nat /\ b * k \in Nat /\ a = b * k + (a % b)
  OBVIOUS
<1> HIDE DEF k
<1>2. a = b * k
  BY <1>1
<1>3. k # 0
  BY <1>2
<1>4. b * k = k * b
  BY <1>1
<1> QED BY <1>1, <1>2, <1>3, <1>4 DEF k

\* Months are repeated as often as the days of them.
LEMMA RepetitionsDivide ==
  ASSUME NEW part, NEW whole, IsBasis(part), IsBasis(whole), Repetitions(part, whole) # None
  PROVE  /\ Repetitions(part, whole) \in Nat \ {0} /\ Length(part) \in Nat \ {0}
         /\ Length(whole) = Repetitions(part, whole) * Length(part)
<1> DEFINE Months(b) == IF b.unit = "days" THEN 1 ELSE MonthsIn[b.unit]
           Count(b) == b.count * Months(b)
           k == Count(whole) \div Count(part)
<1>1. /\ (part.unit = "days") = (whole.unit = "days") /\ Count(whole) % Count(part) = 0
      /\ Repetitions(part, whole) = k
  BY DEF Repetitions
<1>2. Count(whole) \in Nat \ {0} /\ Count(part) \in Nat \ {0}
  <2>1. \A b : IsBasis(b) => b.count \in Nat \ {0} /\ Months(b) \in {1, 3, 12}
    BY DEF IsBasis, MonthsIn
  <2>2. \A i \in Nat \ {0}, j \in {1, 3, 12} : i * j \in Nat \ {0}
    OBVIOUS
  <2> HIDE DEF Months
  <2> QED BY <2>1, <2>2
<1>3. \/ Length(part) = Count(part) /\ Length(whole) = Count(whole)
      \/ Length(part) = 4 * Count(part) /\ Length(whole) = 4 * Count(whole)
  <2>1. CASE part.unit = "days"
    BY <1>1, <2>1 DEF Length, IsBasis
  <2>2. CASE part.unit # "days"
    BY <1>1, <2>2 DEF Length, DaysInMonth, IsBasis, MonthsIn
  <2> QED BY <2>1, <2>2
<1> DEFINE l == Count(part)
           w == Count(whole)
<1>4. k \in Nat \ {0} /\ w = k * l
  <2>1. k = w \div l /\ w % l = 0 /\ w \in Nat \ {0} /\ l \in Nat \ {0}
    BY <1>1, <1>2
  <2> HIDE DEF w, l, k
  <2> QED BY <2>1, WholeQuotient
<1>5. l \in Nat \ {0} /\ 4 * l \in Nat \ {0} /\ 4 * w = k * (4 * l)
  <2> HIDE DEF w, l, k
  <2>1. 4 * (k * l) = k * (4 * l)
    BY <1>2, <1>4 DEF l
  <2> QED BY <1>2, <1>4, <2>1 DEF l
<1> HIDE DEF k, Count
<1> QED BY <1>1, <1>3, <1>4, <1>5 DEF l, w

LEMMA MultiplierFits ==
  ASSUME NEW q, ScenarioOK(q), PeriodMisfits(q) = <<>>
  PROVE  /\ MultiplierOf(q) \in Nat \ {0} /\ Length(q.population.basis) \in Nat \ {0}
         /\ Length(q.horizon.basis) = MultiplierOf(q) * Length(q.population.basis)
<1> DEFINE part == q.population.basis
           whole == q.horizon.basis
<1>1. IsBasis(part) /\ IsBasis(whole)
  BY DEF ScenarioOK
<1>2. CASE part = whole
  <2>1. Length(part) \in Nat \ {0}
    BY <1>1 DEF IsBasis, Length, DaysInMonth, MonthsIn
  <2>2. MultiplierOf(q) = 1
    BY <1>2 DEF MultiplierOf
  <2> QED BY <1>2, <2>1, <2>2
<1>3. CASE part # whole
  <2>1. MultiplierOf(q) = Repetitions(part, whole)
    BY <1>3 DEF MultiplierOf
  <2>2. Repetitions(part, whole) # None
    BY <1>3, <2>1 DEF PeriodMisfits, Told
  <2> QED BY <1>1, <2>1, <2>2, RepetitionsDivide
<1> QED BY <1>2, <1>3

\* The scale the adapter finds is the one the difference was estimated on.
LEMMA SourceScaleFits ==
  ASSUME NEW c, NEW n, SourceOf(c, n).blocks = {}
  PROVE  (Binary(SourceOf(c, n)) <=> IsShare(c)) /\ Bracketed(c.impact.estimate)
<1>1. CASE ~Observational(c)
  <2> DEFINE scale == RandomizedScale(c.req.outcome)
  <2>1. RandomizedBlocks(c, n, scale) = {} /\ SourceOf(c, n).scale = scale
    BY <1>1 DEF SourceOf, RandomizedSource
  <2>2. Bracketed(c.impact.estimate) /\ scale # None
    BY <2>1 DEF RandomizedBlocks, Blocking, If
  <2>3. scale = "absolute_binary" <=> c.req.outcome = "binary"
    BY <2>2 DEF RandomizedScale
  <2> QED BY <1>1, <2>1, <2>2, <2>3 DEF Binary, IsShare
<1>2. CASE Observational(c)
  <2> DEFINE q == c.ident
             scale == CausalScale(q)
  <2>1. CausalBlocks(c, n, scale) = {} /\ SourceOf(c, n).scale = scale
    BY <1>2 DEF SourceOf, CausalSource
  <2>2. Blocking(c, n, scale) = {}
    <3>1. c.req.method # "propensity_diagnostics" /\ c.req.method # "dowhy"
      BY <2>1 DEF CausalBlocks
    <3> HIDE DEF scale
    <3> QED BY <2>1, <3>1 DEF CausalBlocks
  <2>3. scale # None /\ Bracketed(c.impact.estimate)
    BY <2>2 DEF Blocking, If
  <2>4. scale = "absolute_binary" <=>
          q.estimand.scale = "risk_difference" \/ q.outcome.type = "binary"
    BY <2>3 DEF CausalScale
  <2> QED BY <1>2, <2>1, <2>3, <2>4 DEF Binary, IsShare
<1> QED BY <1>1, <1>2

\* A scenario that was not declined has a request that fits its source.
LEMMA RequestFits ==
  ASSUME NEW c, NEW n, ScenarioOK(c.impact.q), SourceOf(c, n).blocks = {},
         Misfits(SourceOf(c, n), c.impact.q, c.impact.metric) = <<>>
  PROVE  FitsSource(c, SourceOf(c, n), c.impact.q)
<1> DEFINE s == SourceOf(c, n)
           q == c.impact.q
<1>1. /\ SourceMisfits(s, q, c.impact.metric) = <<>> /\ ExposureMisfits(q) = <<>>
      /\ PeriodMisfits(q) = <<>> /\ MoneyMisfits(s, q) = <<>>
  BY NoMisfits
<1>2. Binary(s) <=> IsShare(c)
  BY SourceScaleFits
<1> HIDE DEF s
<1>3. q.conversion # None => q.binding.unit.currency = None
  <2>1. q.conversion # None => OwnCurrency(s, q) = None
    BY <1>1, MoneyFits
  <2>2. Binary(s) => q.binding.unit.dimension = "proportion"
    BY <1>1, SourceFits
  <2>3. q.binding.unit.currency # None <=> q.binding.unit.dimension = "currency"
    BY DEF ScenarioOK, IsMetricUnit
  <2> QED BY <2>1, <2>2, <2>3 DEF OwnCurrency
<1>4. ASSUME q.costs # None, NEW i \in DOMAIN q.costs.items
      PROVE  /\ CostOK(q.costs.items[i]) /\ Occurrences(q, q.costs.items[i]) \in Nat \ {0}
             /\ q.costs.items[i].basis = "recurring" =>
                  (One * Length(q.horizon.basis)) \div Length(q.costs.items[i].horizon)
                    = One * Occurrences(q, q.costs.items[i])
  <2> DEFINE item == q.costs.items[i]
             part == item.horizon
             whole == q.horizon.basis
             k == Repetitions(part, whole)
  <2>1. CostOK(item)
    BY <1>4 DEF ScenarioOK, SetOf
  <2>2. IsBasis(part) /\ IsBasis(whole)
    BY <2>1 DEF CostOK, ScenarioOK
  <2>3. CASE item.basis = "recurring"
    <3>1. k # None
      BY <1>1, <1>4, <2>3, MoneyFits
    <3>2. k \in Nat \ {0} /\ Length(part) \in Nat \ {0} /\ Length(whole) = k * Length(part)
      BY <2>2, <3>1, RepetitionsDivide
    <3>3. Occurrences(q, item) = k
      BY <2>3 DEF Occurrences
    <3> DEFINE l == Length(part)
    <3>4. (One * (k * l)) \div l = One * k
      <4>1. One \in Int
        BY DEF One
      <4> HIDE DEF k, l
      <4> QED BY <3>2, <4>1, Divided DEF l
    <3> HIDE DEF k, l
    <3> QED BY <2>1, <3>2, <3>3, <3>4 DEF l
  <2>4. CASE item.basis # "recurring"
    BY <2>1, <2>4 DEF Occurrences
  <2> QED BY <2>3, <2>4
<1>5. q.costs # None => CostsFit(q)
  BY <1>4 DEF CostsFit, ScenarioOK
<1>6. q.output = "net" => q.costs # None
  BY <1>1, MoneyFits
<1> QED BY <1>1, <1>2, <1>3, <1>4, <1>5, <1>6, MultiplierFits, ExposureFits DEF FitsSource, s

LEMMA ScenarioIsComputed ==
  ASSUME NEW c, ScenarioOK(c.impact.q), NEW n, NEW status,
         NEW result_ \in ImpactResults(c, n, status), result_.numbers # NoNumbers
  PROVE  result_ = ScenarioOf(SourceOf(c, n), c.impact.q, c.impact.estimate)
<1> DEFINE s == SourceOf(c, n)
           q == c.impact.q
           misfits == Misfits(s, q, c.impact.metric)
           scenario_ == ScenarioOf(s, q, c.impact.estimate)
<1>1. Disposed(s, q, scenario_)
  BY ScenarioIsDisposed DEF ScenarioOK
<1>2. \A reason : result_ # Abstention(reason)
  BY DEF Abstention
<1> HIDE DEF s, q, misfits, scenario_
<1>3. result_ \in IF status \notin {"completed", "inconclusive"} THEN {Abstention("upstream_ineligible")}
                  ELSE IF s.blocks # {} THEN {Abstention("source_ineligible")}
                  ELSE Calculated(s, q, c.impact.estimate, misfits)
  BY DEF ImpactResults, s, q, misfits
<1>4. result_ \in Calculated(s, q, c.impact.estimate, misfits)
  BY <1>2, <1>3
<1>5. result_ = scenario_
  BY <1>1, <1>2, <1>4 DEF Calculated, Computed, scenario_
<1> QED BY <1>5 DEF scenario_, s, q

\* Each number of a scenario is the smallest band that holds what the declared
\* inputs and the interval of the effect could make of it, and what has all its
\* central values has one (impact/calculation.py).
LEMMA ScenarioTight == TypedSpec => []ScenarioIsTight
<1>1. CaseIsOpen /\ ScenarioIsAsked => ScenarioIsTight
  <2> SUFFICES ASSUME CaseIsOpen, ScenarioIsAsked, scenario # NoScenario,
                      scenario.numbers # NoNumbers
               PROVE  Banded(case, scenario)
    BY DEF ScenarioIsTight
  <2> DEFINE q == case.impact.q
             s == SourceOf(case, native)
  <2>1. /\ case # NoCase /\ native # NoNative
        /\ scenario \in ImpactResults(case, native, store.status)
        /\ ScenarioOK(q)
        /\ case.impact.estimate \in [lower : Int, point : Int, upper : Int]
    BY CasesAssumption DEF CaseIsOpen, ScenarioIsAsked
  <2>2. s.blocks = {} /\ Misfits(s, q, case.impact.metric) = <<>>
    BY <2>1, ScenarioIsTold
  <2>3. FitsSource(case, s, q) /\ Bracketed(case.impact.estimate)
    BY <2>1, <2>2, RequestFits, SourceScaleFits
  <2>4. scenario = ScenarioOf(s, q, case.impact.estimate)
    BY <2>1, ScenarioIsComputed
  <2>5. Apt(case, s, q, case.impact.estimate)
    BY <2>1, <2>3 DEF Apt
  <2> QED BY <2>4, <2>5, FittingScenario
<1> QED BY <1>1, CaseTheorem, AskedTheorem, PTL

THEOREM EveryScenarioIsEarned == TypedSpec => []ScenarioIsEarned
<1>1. ScenarioIsFounded /\ ScenarioIsTight => ScenarioIsEarned
  BY DEF ScenarioIsEarned
<1> QED BY <1>1, ScenarioRests, ScenarioTight, PTL
=============================================================================
