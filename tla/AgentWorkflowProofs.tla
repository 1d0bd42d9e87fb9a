------------------------ MODULE AgentWorkflowProofs ------------------------
(***************************************************************************)
(* Proofs about one run of the agent workflow, for every set of            *)
(* experiments, stored or not, and every number of retrieved chunks.       *)
(***************************************************************************)
EXTENDS AgentWorkflow, TLAPS

\* Every node hands over to a node of the graph.
LEMMA AfterType == \A n \in {"planner"} \cup Agents : After[n] \in Agents \cup {"done"}
  BY DEF After, Agents

LEMMA RequiredType == \A i \in Intents : Required(i) \in SUBSET Agents
  BY DEF Required, Intents, Agents

\* The empty sections have the type of a section.
LEMMA DefaultTypes ==
  /\ NoReading \in Readings
  /\ NoAnalysis \in AnalysisType /\ NoImpact \in ImpactType
  /\ NoRisk \in RiskType /\ NoDecision \in DecisionType
  /\ NoApproval \in ApprovalType /\ NoSummary \in SummaryType
<1>1. NoReading \in Readings
  BY DEF NoReading, Readings, Signs
<1>2. NoAnalysis \in AnalysisType
  BY <1>1 DEF NoAnalysis, AnalysisType, Levels
<1>3. NoImpact \in ImpactType /\ NoRisk \in RiskType
  BY DEF NoImpact, NoRisk, ImpactType, RiskType, Levels, Signs
<1>4. NoDecision \in DecisionType /\ NoApproval \in ApprovalType /\ NoSummary \in SummaryType
  BY DEF NoDecision, NoApproval, NoSummary, DecisionType, ApprovalType,
         SummaryType, Recommendations, Levels, Headlines
<1> QED BY <1>1, <1>2, <1>3, <1>4

\* The lift the risk and decision agents read is a sign or absent.
LEMMA LiftType ==
  ASSUME analysis \in AnalysisType, impact \in ImpactType
  PROVE  Lift \in Signs \cup {"none"}
  BY DEF Lift, ComputedLift, Flip, AnalysisType, ImpactType, Readings, Signs

\* The risk score is a sum of points.
LEMMA RiskScoreType ==
  ASSUME analysis \in AnalysisType
  PROVE  RiskScore \in Nat
<1>1. analysis.reading.caveats \in Nat
  BY DEF AnalysisType, Readings
<1> QED BY <1>1 DEF RiskScore, Points

\* What the retrieval agent may store is a sequence of stored experiments.
LEMMA SearchableType == Searchable \subseteq Stored
  BY DEF Searchable

-----------------------------------------------------------------------------
(* Type correctness, one lemma per section that is written. *)

LEMMA AnalysisTypeStep ==
  ASSUME TypeOK, ExperimentAnalysis
  PROVE  analysis' \in AnalysisType
<1>1. PICK e \in Resolvable : \E m \in IF e = None THEN {NoReading} ELSE Readings :
                                analysis' = Analyse(e, m)
  BY DEF ExperimentAnalysis
<1>2. PICK m \in IF e = None THEN {NoReading} ELSE Readings : analysis' = Analyse(e, m)
  BY <1>1
<1>3. m \in Readings
  BY <1>2, DefaultTypes
<1>4. \A i \in DOMAIN retrieved : retrieved[i] \in Experiments
  BY DEF TypeOK
<1>5. Range(retrieved) \subseteq Experiments
  BY <1>4 DEF Range
<1>6. retrieved # <<>> => retrieved[1] \in Experiments
  BY DEF TypeOK
<1>7. e \in Experiments \cup {None}
  BY <1>6, StoredAssumption DEF Resolvable
<1>8. AnalysisConfidence(m, IF e = None THEN Range(retrieved) ELSE Range(retrieved) \cap {e}) \in Levels
  BY DEF AnalysisConfidence, Levels
<1> QED BY <1>2, <1>3, <1>5, <1>7, <1>8 DEF Analyse, AnalysisType, Levels

LEMMA CitedType ==
  ASSUME TypeOK
  PROVE  Range(retrieved) \subseteq Experiments /\ Cited \subseteq Experiments
<1>1. \A i \in DOMAIN retrieved : retrieved[i] \in Experiments
  BY DEF TypeOK
<1>2. Range(retrieved) \subseteq Experiments
  BY <1>1 DEF Range
<1> QED BY <1>2 DEF TypeOK, AnalysisType, Cited

LEMMA ImpactTypeStep ==
  ASSUME TypeOK, BusinessImpact
  PROVE  impact' \in ImpactType
<1>1. analysis.reading \in Readings /\ analysis.confidence \in Levels
  BY DEF TypeOK, AnalysisType
<1>2. ComputedLift(analysis.reading) \in Signs
  BY <1>1 DEF ComputedLift, Flip, Readings, Signs
<1>3. PICK quoted \in BOOLEAN :
        impact' = [status |-> CASE analysis.reading.complete -> "estimated"
                               [] ~analysis.reading.complete /\ quoted -> "partial_estimate"
                               [] OTHER -> "insufficient_data",
                  lift |-> IF analysis.reading.complete
                           THEN ComputedLift(analysis.reading) ELSE "none",
                  citations |-> Cited,
                  confidence |-> analysis.confidence]
  BY DEF BusinessImpact
<1> QED BY <1>1, <1>2, <1>3, CitedType DEF ImpactType

LEMMA RiskTypeStep ==
  ASSUME TypeOK, RiskAssessment
  PROVE  risk' \in RiskType
<1>1. RiskScore \in Nat
  BY RiskScoreType DEF TypeOK
<1>2. RiskLevel(RiskScore) \in Levels
  BY <1>1 DEF RiskLevel, Levels
<1>3. RiskStatus \in {"partial_assessment", "assessed"} /\ RiskConfidence \in Levels
  BY DEF RiskStatus, RiskConfidence, Levels
<1>4. (analysis.reading.guardrails = "worse") \in BOOLEAN
  OBVIOUS
<1>5. CASE HasContext
  BY <1>1, <1>2, <1>3, <1>4, <1>5, CitedType DEF RiskAssessment, RiskType
<1>6. CASE ~HasContext
  BY <1>6, CitedType, DefaultTypes DEF RiskAssessment, RiskType, NoRisk
<1> QED BY <1>5, <1>6

\* The decision table yields a decision, whatever the sections hold.
LEMMA OutcomeType ==
  ASSUME TypeOK
  PROVE  Outcome \in DecisionType
<1>1. AllCitations \subseteq Experiments
  BY CitedType DEF AllCitations, TypeOK, AnalysisType, ImpactType, RiskType
<1>2. DecisionConfidence \in Levels
  BY DEF DecisionConfidence, Levels
<1>3. \A r \in Recommendations : Decided(r) \in DecisionType
  BY <1>1, <1>2 DEF Decided, DecisionType
<1>4. \A s \in {"blocked", "insufficient_data", "needs_more_data"},
         r \in Recommendations, c \in {"low", "unknown"} :
        Undecided(s, r, c) \in DecisionType
  BY <1>1 DEF Undecided, DecisionType, Levels
<1> QED BY <1>3, <1>4 DEF Outcome, Recommendations

LEMMA ApprovalTypeStep == Approval \in ApprovalType
  BY DEF Approval, ApprovalType, Verdicts

LEMMA SummaryTypeStep ==
  ASSUME TypeOK
  PROVE  Summary \in SummaryType
<1>1. Headline \in Headlines
  BY DEF Headline, Headlines, Unapproved, Verdicts
<1>2. decision.recommendation \in Recommendations
  BY DEF TypeOK, DecisionType
<1>3. CASE NothingToReport
  BY <1>3 DEF Summary, SummaryType, Recommendations, Headlines
<1>4. CASE ~NothingToReport
  BY <1>1, <1>2, <1>4 DEF Summary, SummaryType
<1> QED BY <1>3, <1>4

-----------------------------------------------------------------------------
\* No step leaves the types: the node that runs writes one section, every
\* other section keeps its value.
LEMMA TypeStep ==
  ASSUME TypeOK, [Next]_vars
  PROVE  TypeOK'
<1> USE DEF TypeOK
<1>1. CASE Planner
  BY <1>1, AfterType, RequiredType, DefaultTypes DEF Planner, Requests
<1>2. ASSUME NEW n \in Agents, Skip(n) PROVE TypeOK'
  BY <1>2, AfterType DEF Skip, sections
<1>3. ASSUME NEW n \in Agents, Fail(n) PROVE TypeOK'
  BY <1>3, AfterType DEF Fail
<1>4. CASE Retrieval
  <2>1. pc' \in Agents \cup {"done"} /\ request' = request /\ required' = required
    BY <1>4, AfterType DEF Retrieval, Completes, Agents
  <2>2. retrieved' \in Seq(Experiments)
    <3>1. PICK n \in 0..TopK : retrieved' \in [1..n -> Searchable]
      BY <1>4 DEF Retrieval
    <3>2. n \in Nat /\ retrieved' \in [1..n -> Experiments]
      BY <3>1, SearchableType, StoredAssumption, TopKAssumption
    <3> QED BY <3>2
  <2> QED BY <1>4, <2>1, <2>2 DEF Retrieval
<1>5. CASE ExperimentAnalysis
  BY <1>5, AfterType, AnalysisTypeStep DEF ExperimentAnalysis, Completes, Agents
<1>6. CASE BusinessImpact
  BY <1>6, AfterType, ImpactTypeStep DEF BusinessImpact, Completes, Agents
<1>7. CASE RiskAssessment
  BY <1>7, AfterType, RiskTypeStep DEF RiskAssessment, Completes, Agents
<1>8. CASE Decision
  BY <1>8, AfterType, OutcomeType DEF Decision, Completes, Agents
<1>9. CASE HumanApproval
  BY <1>9, AfterType, ApprovalTypeStep DEF HumanApproval, Completes, Agents
<1>10. CASE ExecutiveSummary
  BY <1>10, AfterType, SummaryTypeStep DEF ExecutiveSummary, Completes, Agents
<1>11. CASE UNCHANGED vars
  BY <1>11 DEF vars, sections
<1> QED BY <1>1, <1>2, <1>3, <1>4, <1>5, <1>6, <1>7, <1>8, <1>9, <1>10, <1>11
        DEF Next, SkipAgent, FailAgent, Ended

\* Every section of the shared state keeps the shape state.py declares.
THEOREM TypeCorrectness == Spec => []TypeOK
<1>1. Init => TypeOK
  BY DefaultTypes DEF Init, TypeOK
<1>2. TypeOK /\ [Next]_vars => TypeOK'
  BY TypeStep
<1> QED BY <1>1, <1>2, PTL DEF Spec

-----------------------------------------------------------------------------
(* The inductive invariant.  Each part says what an agent may rely on when *)
(* it reads the sections its predecessors left.                            *)

\* A section holds its default until its agent runs, so a section once read
\* is not written again.
Untouched ==
  /\ pc \in {"planner", "retrieval"} => retrieved = <<>>
  /\ pc \in {"planner", "retrieval", "experiment_analysis"} => analysis = NoAnalysis
  /\ pc \in {"planner", "retrieval", "experiment_analysis", "business_impact"} =>
       impact = NoImpact
  /\ pc \in {"planner"} \cup Upstream => risk = NoRisk
  /\ pc \in {"planner", "decision"} \cup Upstream => decision = NoDecision
  /\ pc \in {"planner", "decision", "human_approval"} \cup Upstream =>
       approval = NoApproval
  /\ pc # "done" => summary = NoSummary

\* Only chunks of stored experiments are retrieved, and only of the pinned one.
RetrievedInScope ==
  /\ Range(retrieved) \subseteq Stored
  /\ request.pinned \in Stored => Range(retrieved) \subseteq {request.pinned}

\* Every citation was retrieved; an analysis has an experiment to compare, and
\* cites it whenever anything was retrieved.
Grounded ==
  /\ AllCitations \cup decision.citations \subseteq Range(retrieved)
  /\ analysis.status = "completed" => analysis.reading.complete /\ analysis.experiment # None
  /\ analysis.experiment # None /\ Range(retrieved) # {} =>
       analysis.experiment \in analysis.citations
  /\ request.pinned \in Stored => analysis.experiment \in {None, request.pinned}

\* The impact agent computed its lift from the values the analysis holds.
ImpactOfReading ==
  /\ impact.lift # "none" => analysis.reading.complete
                              /\ impact.lift = ComputedLift(analysis.reading)
  /\ impact.status = "estimated" => analysis.reading.complete

\* The risk level is that of the score.
LevelOfScore ==
  risk.status \in {"assessed", "partial_assessment"} => risk.level = RiskLevel(risk.score)

\* A decision asks for approval exactly when it is decided, and is decided
\* exactly when it recommends an action.
ActionNeedsApproval ==
  /\ decision.approvalRequired <=> decision.status = "decided"
  /\ decision.status = "decided" <=>
       decision.recommendation \in {"rollout", "do_not_rollout", "rollback"}
  /\ decision.status = "not_required" => decision = NoDecision

\* Once the approval agent had its turn, what it recorded follows from the
\* decision and the caller's input; a summary is only written after it.
ApprovalRecorded ==
  /\ required = Required(request.intent) \/ pc = "planner"
  /\ approval # NoApproval => approval = Approval
  /\ pc \in {"executive_summary", "done"} /\ "human_approval" \in required =>
       approval = Approval

\* What the headline says follows from the decision and the approval.
SummaryRecorded ==
  /\ summary # NoSummary => summary.headline = IF NothingToReport
                                               THEN "insufficient" ELSE Headline
  /\ summary # NoSummary => "executive_summary" \in required /\ summary.status # "not_required"
  /\ summary.status = "generated" => errors \cap Upstream = {}

IInv ==
  /\ TypeOK
  /\ Untouched
  /\ RetrievedInScope
  /\ Grounded
  /\ ImpactOfReading
  /\ LevelOfScore
  /\ ActionNeedsApproval
  /\ ApprovalRecorded
  /\ SummaryRecorded
  /\ UpstreamErrorBlocks
  /\ RolloutIsEarned

\* Where the parts of the invariant that only read the sections hold, a step
\* that writes none of them keeps them.
Evidence == /\ RetrievedInScope /\ Grounded /\ ImpactOfReading
            /\ LevelOfScore /\ ActionNeedsApproval

LEMMA EvidenceKept ==
  ASSUME Evidence, UNCHANGED <<request, retrieved, analysis, impact, risk, decision>>
  PROVE  Evidence'
  BY DEF Evidence, RetrievedInScope, Grounded, ImpactOfReading, LevelOfScore,
         ActionNeedsApproval, AllCitations, Range

\* The defaults satisfy every part that reads only the sections.
LEMMA DefaultEvidence ==
  ASSUME retrieved = <<>>, analysis = NoAnalysis, impact = NoImpact,
         risk = NoRisk, decision = NoDecision
  PROVE  Evidence
<1>1. Range(retrieved) = {}
  BY DEF Range
<1> QED BY <1>1 DEF Evidence, RetrievedInScope, Grounded, ImpactOfReading,
       LevelOfScore, ActionNeedsApproval, AllCitations,
       NoAnalysis, NoImpact, NoRisk, NoDecision, NoReading

LEMMA InitInvariant == Init => IInv
<1> SUFFICES ASSUME Init PROVE IInv
  OBVIOUS
<1>1. TypeOK
  BY DefaultTypes DEF Init, TypeOK
<1>2. Untouched
  BY DEF Init, Untouched, Upstream
<1>3. Evidence
  BY DefaultEvidence DEF Init
<1>4. ApprovalRecorded /\ SummaryRecorded
  BY DEF Init, ApprovalRecorded, SummaryRecorded, NoSummary, NoApproval, Upstream
<1>5. UpstreamErrorBlocks /\ RolloutIsEarned
  BY DEF Init, UpstreamErrorBlocks, RolloutIsEarned, NoDecision
<1> QED BY <1>1, <1>2, <1>3, <1>4, <1>5 DEF IInv, Evidence

\* Retrieval and planning find every later section at its default.
LEMMA UntouchedStep ==
  ASSUME IInv, [Next]_vars
  PROVE  Untouched'
<1> USE DEF IInv, Untouched, After, Upstream
<1>1. CASE Planner
  BY <1>1 DEF Planner
<1>2. ASSUME NEW n \in Agents, Skip(n) PROVE Untouched'
  BY <1>2 DEF Skip, sections, Agents
<1>3. ASSUME NEW n \in Agents, Fail(n) PROVE Untouched'
  BY <1>3 DEF Fail, Agents
<1>4. CASE Retrieval
  BY <1>4 DEF Retrieval, Completes
<1>5. CASE ExperimentAnalysis
  BY <1>5 DEF ExperimentAnalysis, Completes
<1>6. CASE BusinessImpact
  BY <1>6 DEF BusinessImpact, Completes
<1>7. CASE RiskAssessment
  BY <1>7 DEF RiskAssessment, Completes
<1>8. CASE Decision
  BY <1>8 DEF Decision, Completes
<1>9. CASE HumanApproval
  BY <1>9 DEF HumanApproval, Completes
<1>10. CASE ExecutiveSummary
  BY <1>10 DEF ExecutiveSummary, Completes
<1>11. CASE UNCHANGED vars
  BY <1>11 DEF vars, sections
<1> QED BY <1>1, <1>2, <1>3, <1>4, <1>5, <1>6, <1>7, <1>8, <1>9, <1>10, <1>11
        DEF Next, SkipAgent, FailAgent, Ended

\* The analysis an agent writes is of one stored experiment, cites it if it
\* can, and has both values when it is complete.
LEMMA AnalysisEvidence ==
  ASSUME IInv, ExperimentAnalysis
  PROVE  Evidence'
<1>1. pc = "experiment_analysis"
  BY DEF ExperimentAnalysis, Completes
<1>2. /\ impact = NoImpact /\ risk = NoRisk /\ decision = NoDecision
      /\ impact' = impact /\ risk' = risk /\ decision' = decision
      /\ retrieved' = retrieved /\ request' = request
  BY <1>1 DEF IInv, Untouched, Upstream, ExperimentAnalysis, Completes
<1>3. Range(retrieved)' = Range(retrieved)
  BY <1>2 DEF Range
<1>4. PICK e \in Resolvable : \E m \in IF e = None THEN {NoReading} ELSE Readings :
                                analysis' = Analyse(e, m)
  BY DEF ExperimentAnalysis
<1>5. PICK m \in IF e = None THEN {NoReading} ELSE Readings : analysis' = Analyse(e, m)
  BY <1>4
<1>6. retrieved # <<>> => retrieved[1] \in Range(retrieved)
  BY DEF IInv, TypeOK, Range
<1>7. Range(retrieved) # {} => retrieved # <<>>
  BY DEF Range
<1>8. e # None /\ Range(retrieved) # {} => e \in Range(retrieved)
  BY <1>6, <1>7, NoneAssumption, StoredAssumption
     DEF Resolvable, IInv, RetrievedInScope
<1>9. request.pinned \in Stored => e = request.pinned
  BY DEF Resolvable
<1>10. m.complete => e # None
  BY <1>5 DEF NoReading
<1>11. RetrievedInScope'
  BY <1>2, <1>3 DEF IInv, RetrievedInScope
<1>12. Grounded'
  BY <1>2, <1>3, <1>5, <1>8, <1>9, <1>10
     DEF Grounded, Analyse, AllCitations, NoImpact, NoRisk, NoDecision
<1>13. ImpactOfReading' /\ LevelOfScore' /\ ActionNeedsApproval'
  BY <1>2 DEF ImpactOfReading, LevelOfScore, ActionNeedsApproval, NoImpact,
              NoRisk, NoDecision
<1> QED BY <1>11, <1>12, <1>13 DEF Evidence

LEMMA RetrievalEvidence ==
  ASSUME IInv, Retrieval
  PROVE  Evidence'
<1>1. pc = "retrieval"
  BY DEF Retrieval, Completes
<1>2. /\ analysis = NoAnalysis /\ impact = NoImpact /\ risk = NoRisk /\ decision = NoDecision
      /\ analysis' = analysis /\ impact' = impact /\ risk' = risk /\ decision' = decision
      /\ request' = request
  BY <1>1 DEF IInv, Untouched, Upstream, Retrieval, Completes
<1>3. PICK n \in 0..TopK : retrieved' \in [1..n -> Searchable]
  BY DEF Retrieval
<1>4. Range(retrieved)' \subseteq Searchable
  BY <1>3 DEF Range
<1>5. RetrievedInScope'
  BY <1>2, <1>4, NoneAssumption, StoredAssumption DEF RetrievedInScope, Searchable
<1>6. Grounded'
  BY <1>2 DEF Grounded, AllCitations, NoAnalysis, NoImpact, NoRisk, NoDecision
<1>7. ImpactOfReading' /\ LevelOfScore' /\ ActionNeedsApproval'
  BY <1>2 DEF ImpactOfReading, LevelOfScore, ActionNeedsApproval, NoImpact,
              NoRisk, NoDecision
<1> QED BY <1>5, <1>6, <1>7 DEF Evidence

LEMMA CitedGrounded ==
  ASSUME Grounded
  PROVE  Cited \subseteq Range(retrieved)
  BY DEF Grounded, Cited, AllCitations

LEMMA ImpactEvidence ==
  ASSUME IInv, BusinessImpact
  PROVE  Evidence'
<1>1. /\ retrieved' = retrieved /\ request' = request /\ analysis' = analysis
      /\ risk' = risk /\ decision' = decision
      /\ Range(retrieved)' = Range(retrieved)
  BY DEF BusinessImpact, Completes, Range
<1>2. Cited \subseteq Range(retrieved)
  BY CitedGrounded DEF IInv
<1>3. /\ impact'.citations = Cited
      /\ impact'.lift = IF analysis.reading.complete
                        THEN ComputedLift(analysis.reading) ELSE "none"
      /\ impact'.status = "estimated" => analysis.reading.complete
  BY DEF BusinessImpact
<1>4. RetrievedInScope' /\ LevelOfScore' /\ ActionNeedsApproval'
  BY <1>1 DEF IInv, RetrievedInScope, LevelOfScore, ActionNeedsApproval
<1>5. Grounded'
  BY <1>1, <1>2, <1>3 DEF IInv, Grounded, AllCitations
<1>6. ImpactOfReading'
  BY <1>1, <1>3 DEF ImpactOfReading, ComputedLift, Flip
<1> QED BY <1>4, <1>5, <1>6 DEF Evidence

LEMMA RiskEvidence ==
  ASSUME IInv, RiskAssessment
  PROVE  Evidence'
<1>1. /\ retrieved' = retrieved /\ request' = request /\ analysis' = analysis
      /\ impact' = impact /\ decision' = decision
      /\ Range(retrieved)' = Range(retrieved)
  BY DEF RiskAssessment, Completes, Range
<1>2. Cited \subseteq Range(retrieved)
  BY CitedGrounded DEF IInv
<1>3. risk'.citations = Cited
  BY DEF RiskAssessment, NoRisk
<1>4. RetrievedInScope' /\ ImpactOfReading' /\ ActionNeedsApproval'
  BY <1>1 DEF IInv, RetrievedInScope, ImpactOfReading, ActionNeedsApproval, ComputedLift, Flip
<1>5. Grounded'
  BY <1>1, <1>2, <1>3 DEF IInv, Grounded, AllCitations
<1>6. LevelOfScore'
  BY DEF RiskAssessment, LevelOfScore, NoRisk, RiskLevel
<1> QED BY <1>4, <1>5, <1>6 DEF Evidence

\* A decision cites what its predecessors cite, and asks for approval exactly
\* for an action.
LEMMA OutcomeShape ==
  /\ Outcome.citations = AllCitations
  /\ Outcome.approvalRequired <=> Outcome.status = "decided"
  /\ Outcome.status = "decided" <=>
       Outcome.recommendation \in {"rollout", "do_not_rollout", "rollback"}
  /\ Outcome.status # "not_required"
  BY DEF Outcome, Decided, Undecided

LEMMA DecisionEvidence ==
  ASSUME IInv, Decision
  PROVE  Evidence'
<1>1. /\ retrieved' = retrieved /\ request' = request /\ analysis' = analysis
      /\ impact' = impact /\ risk' = risk
      /\ Range(retrieved)' = Range(retrieved) /\ AllCitations' = AllCitations
  BY DEF Decision, Completes, Range, AllCitations
<1>2. decision' = Outcome
  BY DEF Decision
<1>3. RetrievedInScope' /\ ImpactOfReading' /\ LevelOfScore'
  BY <1>1 DEF IInv, RetrievedInScope, ImpactOfReading, LevelOfScore, ComputedLift, Flip, RiskLevel
<1>4. Grounded'
  BY <1>1, <1>2, OutcomeShape DEF IInv, Grounded
<1>5. ActionNeedsApproval'
  BY <1>2, OutcomeShape DEF ActionNeedsApproval
<1> QED BY <1>3, <1>4, <1>5 DEF Evidence

LEMMA EvidenceStep ==
  ASSUME IInv, [Next]_vars
  PROVE  Evidence'
<1> USE DEF IInv
<1>0. Evidence
  BY DEF Evidence
<1>1. CASE Planner
  <2>1. UNCHANGED <<request, retrieved, analysis, impact, risk, decision>>
    BY <1>1 DEF Planner, Untouched
  <2> QED BY <1>0, <2>1, EvidenceKept
<1>2. ASSUME NEW n \in Agents, Skip(n) PROVE Evidence'
  BY <1>0, <1>2, EvidenceKept DEF Skip, sections
<1>3. ASSUME NEW n \in Agents, Fail(n) PROVE Evidence'
  <2>1. UNCHANGED <<request, retrieved, analysis, impact, risk, decision>>
    BY <1>3 DEF Fail, Untouched
  <2> QED BY <1>0, <2>1, EvidenceKept
<1>4. CASE HumanApproval
  BY <1>0, <1>4, EvidenceKept DEF HumanApproval, Completes
<1>5. CASE ExecutiveSummary
  BY <1>0, <1>5, EvidenceKept DEF ExecutiveSummary, Completes
<1>6. CASE UNCHANGED vars
  BY <1>0, <1>6, EvidenceKept DEF vars, sections
<1> QED BY <1>1, <1>2, <1>3, <1>4, <1>5, <1>6, RetrievalEvidence, AnalysisEvidence,
           ImpactEvidence, RiskEvidence, DecisionEvidence
        DEF Next, SkipAgent, FailAgent, Ended

-----------------------------------------------------------------------------
(* Approval, summary and the two properties the decision has to keep. *)

\* Before the decision nothing is approved or summarised.
LEMMA EarlySteps ==
  ASSUME IInv, pc \in {"planner", "decision"} \cup Upstream
  PROVE  /\ approval = NoApproval /\ summary = NoSummary
         /\ pc # "decision" => decision = NoDecision
  BY DEF IInv, Untouched, Upstream

LEMMA ApprovalStep ==
  ASSUME IInv, [Next]_vars
  PROVE  ApprovalRecorded'
<1> USE DEF IInv, ApprovalRecorded
<1>1. CASE Planner
  BY <1>1 DEF Planner, After
<1>2. ASSUME NEW n \in Agents, Skip(n) PROVE ApprovalRecorded'
  BY <1>2 DEF Skip, sections, Agents, After, Approval
<1>3. ASSUME NEW n \in Agents, Fail(n) PROVE ApprovalRecorded'
  BY <1>3 DEF Fail, Agents, After, Approval
<1>4. CASE Retrieval \/ ExperimentAnalysis \/ BusinessImpact \/ RiskAssessment \/ Decision
  <2>1. pc \in {"decision"} \cup Upstream
    BY <1>4 DEF Retrieval, ExperimentAnalysis, BusinessImpact, RiskAssessment,
                Decision, Completes, Upstream
  <2>2. /\ approval' = NoApproval /\ pc' = After[pc]
        /\ required' = required /\ request' = request
    BY <1>4, <2>1, EarlySteps
       DEF Retrieval, ExperimentAnalysis, BusinessImpact, RiskAssessment,
           Decision, Completes
  <2> QED BY <2>1, <2>2 DEF After, Upstream
<1>5. CASE HumanApproval
  BY <1>5 DEF HumanApproval, Completes, After, Approval
<1>6. CASE ExecutiveSummary
  BY <1>6 DEF ExecutiveSummary, Completes, After, Approval
<1>7. CASE UNCHANGED vars
  BY <1>7 DEF vars, sections, Approval
<1> QED BY <1>1, <1>2, <1>3, <1>4, <1>5, <1>6, <1>7 DEF Next, SkipAgent, FailAgent, Ended

\* What the summary read stays as it was.
LEMMA SummaryKept ==
  ASSUME SummaryRecorded,
         UNCHANGED <<required, retrieved, analysis, impact, risk, decision, approval, summary>>,
         errors' \cap Upstream = errors \cap Upstream
  PROVE  SummaryRecorded'
  BY DEF SummaryRecorded, NothingToReport, SummaryCitations, AllCitations, Range,
         Headline, Unapproved

LEMMA SummaryStep ==
  ASSUME IInv, [Next]_vars
  PROVE  SummaryRecorded'
<1> USE DEF IInv
<1>1. CASE pc \in Agents \cup {"planner"} /\ summary' = NoSummary
  BY <1>1 DEF SummaryRecorded, NoSummary
<1>2. CASE ExecutiveSummary
  <2>1. summary' = Summary /\ "executive_summary" \in required' 
    BY <1>2 DEF ExecutiveSummary, Completes
  <2>2. UNCHANGED <<retrieved, analysis, impact, risk, decision, approval, errors>>
    BY <1>2 DEF ExecutiveSummary
  <2>3. NothingToReport' = NothingToReport /\ Headline' = Headline
    BY <2>2 DEF NothingToReport, SummaryCitations, AllCitations, Range, Headline, Unapproved
  <2>4. Summary.headline = (IF NothingToReport THEN "insufficient" ELSE Headline)
        /\ Summary.status \in {"insufficient_data", "partial_summary", "generated"}
        /\ (Summary.status = "generated" => errors = {})
    BY DEF Summary, Partial
  <2> QED BY <2>1, <2>2, <2>3, <2>4 DEF SummaryRecorded
<1>3. CASE UNCHANGED vars
  BY <1>3, SummaryKept DEF vars, sections
<1>4. CASE Next /\ ~ExecutiveSummary /\ ~Ended
  <2>1. pc \in Agents \cup {"planner"}
    BY <1>4 DEF Next, Planner, SkipAgent, FailAgent, Skip, Fail, Retrieval,
       ExperimentAnalysis, BusinessImpact, RiskAssessment, Decision,
       HumanApproval, Completes, Agents
  <2>2. summary = NoSummary
    BY <2>1 DEF Untouched, Agents
  <2>3. summary' = NoSummary
    BY <1>4, <2>2 DEF Next, Planner, SkipAgent, FailAgent, Skip, Fail, Retrieval,
       ExperimentAnalysis, BusinessImpact, RiskAssessment, Decision,
       HumanApproval, sections
  <2> QED BY <1>1, <2>1, <2>3
<1> QED BY <1>2, <1>3, <1>4 DEF Ended

\* The decision table recommends a rollout only on complete evidence.
LEMMA RolloutOutcome ==
  ASSUME IInv, Outcome.recommendation = "rollout"
  PROVE  /\ errors = {}
         /\ analysis.status = "completed"
         /\ analysis.reading.movement = "positive" /\ Lift = "positive"
         /\ HasPValue /\ analysis.reading.guardrails # "worse"
         /\ analysis.experiment \in analysis.citations
         /\ impact.status = "estimated" /\ impact.lift = "positive"
         /\ risk.status = "assessed" /\ risk.score <= 2
<1>1. /\ ~Blocked /\ ~HarmfulGuardrails /\ ~Worsened
      /\ RequiredEvidence /\ ~NeedsMoreData
      /\ Favourable /\ risk.level \in {"low", "medium"}
  BY DEF Outcome, Decided, Undecided
<1>2. /\ errors = {} /\ analysis.status = "completed" /\ HasPValue
      /\ Lift = "positive" /\ impact.lift = "positive"
      /\ analysis.reading.guardrails # "worse" /\ AllCitations # {}
  BY <1>1 DEF Blocked, HarmfulGuardrails, RequiredEvidence, Favourable
<1>3. impact.status = "estimated" /\ risk.status = "assessed"
  BY <1>1 DEF RequiredEvidence, NeedsMoreData, IInv, TypeOK, ImpactType, RiskType
<1>4. analysis.reading.complete /\ analysis.experiment # None
  BY <1>2 DEF IInv, Grounded
<1>5. analysis.reading.movement # "negative"
  BY <1>1, <1>4 DEF Worsened
<1>6. ComputedLift(analysis.reading) = "positive"
  BY <1>2 DEF IInv, ImpactOfReading
<1>7. analysis.reading.movement = "positive"
  BY <1>5, <1>6 DEF ComputedLift, Flip
<1>8. analysis.experiment \in analysis.citations
  BY <1>2, <1>4 DEF IInv, Grounded
<1>9. risk.score <= 2
  <2>1. risk.score \in Nat
    BY DEF IInv, TypeOK, RiskType
  <2>2. RiskLevel(risk.score) # "high"
    BY <1>1, <1>3 DEF IInv, LevelOfScore
  <2> QED BY <2>1, <2>2 DEF RiskLevel
<1> QED BY <1>2, <1>3, <1>7, <1>8, <1>9

LEMMA RolloutStep ==
  ASSUME IInv, [Next]_vars
  PROVE  RolloutIsEarned'
<1> USE DEF IInv
<1>1. CASE Decision
  <2>1. decision' = Outcome
    BY <1>1 DEF Decision
  <2>2. UNCHANGED <<analysis, impact, risk, errors>>
        /\ Lift' = Lift /\ HasPValue' = HasPValue
    BY <1>1 DEF Decision, Lift, ComputedLift, Flip, HasPValue
  <2> QED BY <2>1, <2>2, RolloutOutcome DEF RolloutIsEarned
<1>2. CASE decision' = NoDecision
  BY <1>2 DEF RolloutIsEarned, NoDecision
<1>3. ASSUME UNCHANGED <<analysis, impact, risk, decision>>,
             errors' \cap Upstream = errors \cap Upstream
      PROVE  RolloutIsEarned'
  BY <1>3 DEF RolloutIsEarned, Lift, ComputedLift, Flip, HasPValue
<1>4. CASE Planner
  BY <1>2, <1>4 DEF Planner
<1>5. ASSUME NEW n \in Agents, Skip(n) PROVE RolloutIsEarned'
  BY <1>3, <1>5 DEF Skip, sections
<1>6. ASSUME NEW n \in Agents, Fail(n) PROVE RolloutIsEarned'
  <2>1. CASE n \in Upstream
    BY <1>2, <1>6, <2>1, EarlySteps DEF Fail, Upstream
  <2>2. CASE n \notin Upstream
    BY <1>3, <1>6, <2>2 DEF Fail
  <2> QED BY <2>1, <2>2
<1>7. CASE Retrieval \/ ExperimentAnalysis \/ BusinessImpact \/ RiskAssessment
  <2>1. decision' = NoDecision
    BY <1>7, EarlySteps DEF Retrieval, ExperimentAnalysis, BusinessImpact, RiskAssessment,
       Completes, Upstream
  <2> QED BY <1>2, <2>1
<1>8. CASE HumanApproval
  BY <1>3, <1>8 DEF HumanApproval, Upstream
<1>9. CASE ExecutiveSummary
  BY <1>3, <1>9 DEF ExecutiveSummary
<1>10. CASE UNCHANGED vars
  BY <1>3, <1>10 DEF vars, sections
<1> QED BY <1>1, <1>4, <1>5, <1>6, <1>7, <1>8, <1>9, <1>10
        DEF Next, SkipAgent, FailAgent, Ended

LEMMA UpstreamErrorStep ==
  ASSUME IInv, [Next]_vars
  PROVE  UpstreamErrorBlocks'
<1> USE DEF IInv
<1>1. CASE decision' = NoDecision /\ approval' = NoApproval /\ summary' = NoSummary
  BY <1>1 DEF UpstreamErrorBlocks, NoDecision, NoApproval, NoSummary
<1>2. ASSUME UNCHANGED <<decision, approval, summary>>,
             errors' \cap Upstream = errors \cap Upstream
      PROVE  UpstreamErrorBlocks'
  BY <1>2 DEF UpstreamErrorBlocks
<1>3. CASE Planner
  BY <1>1, <1>3 DEF Planner
<1>4. ASSUME NEW n \in Agents, Skip(n) PROVE UpstreamErrorBlocks'
  BY <1>2, <1>4 DEF Skip, sections
<1>5. ASSUME NEW n \in Agents, Fail(n) PROVE UpstreamErrorBlocks'
  <2>1. CASE n \in Upstream
    BY <1>1, <1>5, <2>1, EarlySteps DEF Fail, Upstream
  <2>2. CASE n \notin Upstream
    BY <1>2, <1>5, <2>2 DEF Fail
  <2> QED BY <2>1, <2>2
<1>6. CASE Retrieval \/ ExperimentAnalysis \/ BusinessImpact \/ RiskAssessment
  <2>1. decision' = NoDecision /\ approval' = NoApproval /\ summary' = NoSummary
    BY <1>6, EarlySteps DEF Retrieval, ExperimentAnalysis, BusinessImpact, RiskAssessment,
       Completes, Upstream
  <2> QED BY <1>1, <2>1
<1>7. CASE Decision
  <2>1. approval' = NoApproval /\ summary' = NoSummary /\ errors' = errors
    BY <1>7, EarlySteps DEF Decision, Completes
  <2>2. errors # {} => decision'.status = "blocked"
    BY <1>7 DEF Decision, Outcome, Blocked, Undecided
  <2> QED BY <2>1, <2>2 DEF UpstreamErrorBlocks, NoApproval, NoSummary
<1>8. CASE HumanApproval
  <2>1. approval' = Approval /\ UNCHANGED <<decision, summary>>
        /\ errors' \cap Upstream = errors \cap Upstream
    BY <1>8 DEF HumanApproval, Upstream
  <2>2. decision.status \in {"not_required", "blocked"} => Approval.status = "skipped"
    BY DEF ActionNeedsApproval, Approval
  <2> QED BY <2>1, <2>2 DEF UpstreamErrorBlocks
<1>9. CASE ExecutiveSummary
  <2>1. summary' = Summary /\ UNCHANGED <<decision, approval, errors>>
    BY <1>9 DEF ExecutiveSummary
  <2>2. ASSUME errors \cap Upstream # {}
        PROVE  /\ Summary.status # "generated"
               /\ Summary.headline \in {"none", "insufficient", "not_ready", "generic"}
    <3>1. errors # {}
      BY <2>2
    <3>2. decision.recommendation \notin {"rollout", "do_not_rollout", "rollback"}
      BY <2>2 DEF UpstreamErrorBlocks, ActionNeedsApproval
    <3>3. Headline \in {"not_ready", "generic"}
      BY <2>2, <3>2 DEF UpstreamErrorBlocks, Headline, Unapproved
    <3> QED BY <3>1, <3>3 DEF Summary, Partial
  <2> QED BY <2>1, <2>2 DEF UpstreamErrorBlocks
<1>10. CASE UNCHANGED vars
  BY <1>2, <1>10 DEF vars, sections
<1> QED BY <1>3, <1>4, <1>5, <1>6, <1>7, <1>8, <1>9, <1>10
        DEF Next, SkipAgent, FailAgent, Ended

-----------------------------------------------------------------------------
THEOREM Invariance == Spec => []IInv
<1>1. Init => IInv
  BY InitInvariant
<1>2. IInv /\ [Next]_vars => IInv'
  <2> SUFFICES ASSUME IInv, [Next]_vars PROVE IInv'
    OBVIOUS
  <2>1. TypeOK'
    BY TypeStep DEF IInv
  <2>2. Evidence'
    BY EvidenceStep
  <2> QED BY <2>1, <2>2, UntouchedStep, ApprovalStep, SummaryStep, RolloutStep,
             UpstreamErrorStep DEF IInv, Evidence
<1> QED BY <1>1, <1>2, PTL DEF Spec

\* A rollout is only ever recommended on complete, consistent evidence of one
\* experiment: the decision agent's table cannot be talked into it by a
\* section an earlier agent left half written.
THEOREM RolloutTheorem == Spec => []RolloutIsEarned
<1>1. IInv => RolloutIsEarned
  BY DEF IInv
<1> QED BY <1>1, Invariance, PTL

\* A failure of an agent before the decision blocks it, in every later state.
THEOREM UpstreamErrorTheorem == Spec => []UpstreamErrorBlocks
<1>1. IInv => UpstreamErrorBlocks
  BY DEF IInv
<1> QED BY <1>1, Invariance, PTL

\* A pinned question is answered from its experiment alone.
THEOREM ScopeTheorem == Spec => []ScopeKept
<1>1. IInv => ScopeKept
  BY DEF IInv, ScopeKept, RetrievedInScope, Grounded, SummaryCitations
<1> QED BY <1>1, Invariance, PTL

\* The headline never implies a consent that was not given.
THEOREM HeadlineTheorem == Spec => []HeadlineTellsApproval
<1>1. IInv => HeadlineTellsApproval
  <2> SUFFICES ASSUME IInv PROVE HeadlineTellsApproval
    OBVIOUS
  <2>1. CASE summary = NoSummary
    BY <2>1 DEF HeadlineTellsApproval, NoSummary, Verdicts
  <2>2. CASE summary # NoSummary
    <3>1. pc = "done" /\ "executive_summary" \in required
      BY <2>2 DEF IInv, Untouched, SummaryRecorded
    <3>2. required = Required(request.intent) /\ "human_approval" \in required
      BY <3>1 DEF IInv, ApprovalRecorded, Required, Agents
    <3>3. approval = Approval
      BY <3>1, <3>2 DEF IInv, ApprovalRecorded
    <3>4. decision.approvalRequired <=> decision.status = "decided"
      BY DEF IInv, ActionNeedsApproval
    <3>5. decision.status = "decided" => ~NothingToReport
      BY DEF NothingToReport
    <3>6. summary.headline = IF NothingToReport THEN "insufficient" ELSE Headline
      BY <2>2 DEF IInv, SummaryRecorded
    <3> QED BY <3>3, <3>4, <3>5, <3>6
            DEF HeadlineTellsApproval, Approval, Headline, Unapproved, Verdicts,
                IInv, ActionNeedsApproval
  <2> QED BY <2>1, <2>2
<1> QED BY <1>1, Invariance, PTL

-----------------------------------------------------------------------------
(* High confidence.  What the decision table takes from the risk section   *)
(* is what the sections before it say: nothing it was computed from is     *)
(* written again.                                                          *)

RiskOfSections ==
  /\ risk.status \in {"assessed", "partial_assessment"} =>
       /\ risk.status = RiskStatus /\ risk.score = RiskScore
       /\ risk.guardrailConcern = (analysis.reading.guardrails = "worse")
  /\ risk.confidence = "high" => risk.status \in {"assessed", "partial_assessment"}

ConfidenceOfReading ==
  /\ analysis.confidence = "high" => /\ analysis.reading.complete
                                     /\ analysis.reading.guardrails # "none"
  /\ analysis.reading.complete => analysis.status = "completed"

Weighed == RiskOfSections /\ ConfidenceOfReading /\ HighConfidenceIsClean

LEMMA WeighedKept ==
  ASSUME Weighed, UNCHANGED <<request, retrieved, analysis, impact, risk, decision>>
  PROVE  Weighed'
<1>1. /\ Lift' = Lift /\ HasPValue' = HasPValue
      /\ LowConfidence' = LowConfidence /\ RiskStatus' = RiskStatus
  BY DEF Lift, ComputedLift, Flip, HasPValue, LowConfidence, RiskStatus
<1>2. RiskScore' = RiskScore
  BY <1>1 DEF RiskScore
<1> QED BY <1>1, <1>2 DEF Weighed, RiskOfSections, ConfidenceOfReading, HighConfidenceIsClean

\* Without a risk and a decision only the analysis counts.
LEMMA WeighedEarly ==
  ASSUME ConfidenceOfReading, risk = NoRisk, decision = NoDecision
  PROVE  Weighed
  BY DEF Weighed, RiskOfSections, HighConfidenceIsClean, NoRisk, NoDecision

LEMMA DefaultReading ==
  ASSUME analysis = NoAnalysis
  PROVE  ConfidenceOfReading
  BY DEF ConfidenceOfReading, NoAnalysis, NoReading

\* A score of zero: none of the factors was found.
LEMMA CleanScore ==
  ASSUME analysis \in AnalysisType, RiskScore = 0
  PROVE  /\ analysis.reading.complete /\ retrieved # <<>>
         /\ analysis.reading.guardrails # "worse" /\ analysis.reading.caveats = 0
         /\ impact.status \notin {"partial_estimate", "insufficient_data"}
<1> DEFINE a == Points(analysis.experiment = None /\ request.pinned = None, 2)
           b == Points(~analysis.reading.named, 3)
           c == Points(~analysis.reading.complete, 3)
           d == Points(~HasPValue, 2)
           e == Points(LowConfidence, 2)
           f == Points(Lift \in {"negative", "none"}, 3)
           g == Points(analysis.reading.guardrails = "worse", 2)
           h == Points(retrieved = <<>>, 2)
           k == Points(impact.status \in {"partial_estimate", "insufficient_data"}, 2)
           n == analysis.reading.caveats
<1>1. RiskScore = a + b + c + d + e + f + g + h + k + 2 * n
  BY DEF RiskScore
<1>2. /\ a \in Nat /\ b \in Nat /\ c \in Nat /\ d \in Nat /\ e \in Nat
      /\ f \in Nat /\ g \in Nat /\ h \in Nat /\ k \in Nat
  BY DEF Points
<1>3. n \in Nat
  BY DEF AnalysisType, Readings
<1>4. /\ c = 0 => analysis.reading.complete
      /\ g = 0 => analysis.reading.guardrails # "worse"
      /\ h = 0 => retrieved # <<>>
      /\ k = 0 => impact.status \notin {"partial_estimate", "insufficient_data"}
  BY DEF Points
<1>5. c = 0 /\ g = 0 /\ h = 0 /\ k = 0 /\ n = 0
  <2> HIDE DEF a, b, c, d, e, f, g, h, k, n
  <2> QED BY <1>1, <1>2, <1>3
<1> QED BY <1>4, <1>5

LEMMA HighOutcome ==
  ASSUME IInv, Weighed, Outcome.confidence = "high"
  PROVE  /\ risk.status = "assessed" /\ risk.score = 0
         /\ analysis.reading.guardrails = "fine" /\ analysis.reading.caveats = 0
         /\ analysis.experiment \in analysis.citations
         /\ Outcome.recommendation # "rollback"
         /\ Outcome.recommendation = "rollout" => impact.lift = Lift
<1>1. DecisionConfidence = "high" /\ Outcome.status = "decided"
  BY DEF Outcome, Decided, Undecided, DecisionConfidence
<1>2. analysis.confidence = "high" /\ risk.confidence = "high" /\ risk.level = "low"
  BY <1>1 DEF DecisionConfidence
<1>3. risk.status \in {"assessed", "partial_assessment"}
  BY <1>2 DEF Weighed, RiskOfSections
<1>4. risk.score = 0
  BY <1>2, <1>3 DEF IInv, LevelOfScore, RiskLevel
<1>5. RiskScore = 0
  BY <1>3, <1>4 DEF Weighed, RiskOfSections
<1>6. /\ analysis.reading.complete /\ retrieved # <<>>
      /\ analysis.reading.guardrails # "worse" /\ analysis.reading.caveats = 0
      /\ impact.status \notin {"partial_estimate", "insufficient_data"}
  BY <1>5, CleanScore DEF IInv, TypeOK
<1>7. analysis.status = "completed"
  BY <1>6 DEF Weighed, ConfidenceOfReading
<1>8. risk.status = "assessed"
  BY <1>3, <1>6, <1>7 DEF Weighed, RiskOfSections, RiskStatus
<1>9. analysis.reading.guardrails = "fine"
  <2>1. analysis.reading.guardrails \in {"none", "fine", "worse"}
    BY DEF IInv, TypeOK, AnalysisType, Readings
  <2> QED BY <1>2, <1>6, <2>1 DEF Weighed, ConfidenceOfReading
<1>10. analysis.experiment \in analysis.citations
  <2>1. retrieved # <<>> => retrieved[1] \in Range(retrieved)
    BY DEF IInv, TypeOK, Range
  <2> QED BY <1>6, <1>7, <2>1 DEF IInv, Grounded
<1>11. Outcome.recommendation # "rollback"
  <2>1. ~HarmfulGuardrails
    BY <1>3, <1>6 DEF Weighed, RiskOfSections, HarmfulGuardrails
  <2>2. \A r, t, c : Undecided(t, r, c).recommendation = r
    BY DEF Undecided
  <2>3. \A r : Decided(r).recommendation = r
    BY DEF Decided
  <2> QED BY <2>1, <2>2, <2>3 DEF Outcome
<1>12. Outcome.recommendation = "rollout" => impact.lift = Lift
  BY RolloutOutcome
<1> QED BY <1>4, <1>6, <1>8, <1>9, <1>10, <1>11, <1>12

LEMMA WeighedStep ==
  ASSUME IInv, Weighed, [Next]_vars
  PROVE  Weighed'
<1> USE DEF IInv
<1>1. CASE Planner
  <2>1. UNCHANGED <<request, retrieved, analysis, impact, risk, decision>>
    BY <1>1 DEF Planner, Untouched
  <2> QED BY <2>1, WeighedKept
<1>2. ASSUME NEW n \in Agents, Skip(n) PROVE Weighed'
  BY <1>2, WeighedKept DEF Skip, sections
<1>3. ASSUME NEW n \in Agents, Fail(n) PROVE Weighed'
  <2>1. UNCHANGED <<request, retrieved, analysis, impact, risk, decision>>
    BY <1>3 DEF Fail, Untouched
  <2> QED BY <2>1, WeighedKept
<1>4. CASE Retrieval
  <2>1. analysis' = NoAnalysis /\ risk' = NoRisk /\ decision' = NoDecision
    BY <1>4 DEF Retrieval, Completes, Untouched, Upstream
  <2>2. ConfidenceOfReading'
    BY <2>1 DEF ConfidenceOfReading, NoAnalysis, NoReading
  <2> QED BY <2>1, <2>2 DEF Weighed, RiskOfSections, HighConfidenceIsClean, NoRisk, NoDecision
<1>5. CASE ExperimentAnalysis
  <2>1. risk' = NoRisk /\ decision' = NoDecision
    BY <1>5 DEF ExperimentAnalysis, Completes, Untouched, Upstream
  <2>2. PICK e \in Resolvable : \E m \in IF e = None THEN {NoReading} ELSE Readings :
                                  analysis' = Analyse(e, m)
    BY <1>5 DEF ExperimentAnalysis
  <2>3. PICK m : analysis' = Analyse(e, m)
    BY <2>2
  <2>4. ConfidenceOfReading'
    BY <2>3 DEF ConfidenceOfReading, Analyse, AnalysisConfidence
  <2> QED BY <2>1, <2>4 DEF Weighed, RiskOfSections, HighConfidenceIsClean, NoRisk, NoDecision
<1>6. CASE BusinessImpact
  <2>1. risk' = NoRisk /\ decision' = NoDecision /\ analysis' = analysis
    BY <1>6 DEF BusinessImpact, Completes, Untouched, Upstream
  <2>2. ConfidenceOfReading'
    BY <2>1 DEF Weighed, ConfidenceOfReading
  <2> QED BY <2>1, <2>2 DEF Weighed, RiskOfSections, HighConfidenceIsClean, NoRisk, NoDecision
<1>7. CASE RiskAssessment
  <2>1. UNCHANGED <<request, retrieved, analysis, impact>> /\ decision' = NoDecision
    BY <1>7 DEF RiskAssessment, Completes, Untouched, Upstream
  <2>2. Lift' = Lift /\ HasPValue' = HasPValue /\ LowConfidence' = LowConfidence
        /\ RiskStatus' = RiskStatus
    BY <2>1 DEF Lift, ComputedLift, Flip, HasPValue, LowConfidence, RiskStatus
  <2>3. RiskScore' = RiskScore
    BY <2>1, <2>2 DEF RiskScore
  <2>4. RiskOfSections'
    <3>1. CASE HasContext
      <4>1. risk' = [status |-> RiskStatus, level |-> RiskLevel(RiskScore),
                     score |-> RiskScore,
                     guardrailConcern |-> analysis.reading.guardrails = "worse",
                     citations |-> Cited, confidence |-> RiskConfidence]
        BY <1>7, <3>1 DEF RiskAssessment
      <4>2. RiskStatus \in {"assessed", "partial_assessment"}
        BY DEF RiskStatus
      <4> QED BY <2>1, <2>2, <2>3, <4>1, <4>2 DEF RiskOfSections
    <3>2. CASE ~HasContext
      BY <1>7, <3>2 DEF RiskAssessment, NoRisk, RiskOfSections
    <3> QED BY <3>1, <3>2
  <2>5. ConfidenceOfReading'
    BY <2>1 DEF Weighed, ConfidenceOfReading
  <2> QED BY <2>1, <2>4, <2>5 DEF Weighed, HighConfidenceIsClean, NoDecision
<1>8. CASE Decision
  <2>1. decision' = Outcome /\ UNCHANGED <<request, retrieved, analysis, impact, risk>>
    BY <1>8 DEF Decision, Completes
  <2>2. Lift' = Lift /\ HasPValue' = HasPValue /\ LowConfidence' = LowConfidence
        /\ RiskStatus' = RiskStatus
    BY <2>1 DEF Lift, ComputedLift, Flip, HasPValue, LowConfidence, RiskStatus
  <2>3. RiskScore' = RiskScore
    BY <2>1, <2>2 DEF RiskScore
  <2>4. RiskOfSections' /\ ConfidenceOfReading'
    BY <2>1, <2>2, <2>3 DEF Weighed, RiskOfSections, ConfidenceOfReading
  <2>5. HighConfidenceIsClean'
    BY <2>1, <2>2, HighOutcome DEF HighConfidenceIsClean
  <2> QED BY <2>4, <2>5 DEF Weighed
<1>9. CASE HumanApproval \/ ExecutiveSummary
  BY <1>9, WeighedKept DEF HumanApproval, ExecutiveSummary, Completes
<1>10. CASE UNCHANGED vars
  BY <1>10, WeighedKept DEF vars, sections
<1> QED BY <1>1, <1>2, <1>3, <1>4, <1>5, <1>6, <1>7, <1>8, <1>9, <1>10
        DEF Next, SkipAgent, FailAgent, Ended

\* A decision is called confident only when the risk agent found nothing, and
\* what it found is still what the sections say when the decision is read.
THEOREM ConfidenceTheorem == Spec => []HighConfidenceIsClean
<1>1. Init => Weighed
  BY WeighedEarly, DefaultReading DEF Init
<1>2. IInv /\ Weighed /\ [Next]_vars => Weighed'
  BY WeighedStep
<1>3. Weighed => HighConfidenceIsClean
  BY DEF Weighed
<1> QED BY <1>1, <1>2, <1>3, Invariance, PTL DEF Spec

-----------------------------------------------------------------------------
(* Refinement. *)

\* A step that changes neither the request nor the three outcomes stutters.
LEMMA Stutter ==
  ASSUME UNCHANGED <<request, decision, approval, summary>>
  PROVE  UNCHANGED Governance!govVars
  BY DEF Governance!govVars

LEMMA GovernanceStep ==
  ASSUME IInv, [Next]_vars
  PROVE  [Governance!Next]_(Governance!govVars)
<1> USE DEF IInv
<1>1. CASE UNCHANGED <<request, decision, approval, summary>>
  BY <1>1, Stutter
<1>2. CASE Planner
  <2>1. UNCHANGED <<request, decision, approval, summary>>
    BY <1>2 DEF Planner, Untouched
  <2> QED BY <1>1, <2>1
<1>3. CASE SkipAgent \/ FailAgent \/ UNCHANGED vars \/ Ended
  BY <1>1, <1>3 DEF SkipAgent, FailAgent, Skip, Fail, vars, sections, Ended
<1>4. CASE Retrieval \/ ExperimentAnalysis \/ BusinessImpact \/ RiskAssessment
  BY <1>1, <1>4 DEF Retrieval, ExperimentAnalysis, BusinessImpact, RiskAssessment, Completes
<1>5. CASE Decision
  <2>1. decision = NoDecision /\ approval = NoApproval /\ summary = NoSummary
    BY <1>5 DEF Decision, Completes, Untouched
  <2>2. decision' = Outcome /\ UNCHANGED <<request, approval, summary>>
    BY <1>5 DEF Decision, Completes
  <2>3. Outcome.status # "not_required"
        /\ (Outcome.status = "decided" =>
              Outcome.recommendation \in {"rollout", "do_not_rollout", "rollback"})
    BY OutcomeShape
  <2>4. Governance!Propose
    BY <2>1, <2>2, <2>3 DEF Governance!Propose, Governance!Actions, NoDecision,
       NoApproval, NoSummary
  <2> QED BY <2>4 DEF Governance!Next
<1>6. CASE HumanApproval
  <2>1. approval = NoApproval /\ summary = NoSummary
    BY <1>6 DEF HumanApproval, Completes, Untouched
  <2>2. approval' = Approval /\ UNCHANGED <<request, decision, summary>>
    BY <1>6 DEF HumanApproval, Completes
  <2>3. Governance!Ask
    BY <2>1, <2>2 DEF Governance!Ask, Governance!Actions, Approval,
       ActionNeedsApproval, NoApproval, NoSummary, Verdicts
  <2> QED BY <2>3 DEF Governance!Next
<1>7. CASE ExecutiveSummary
  <2>1. summary = NoSummary /\ pc = "executive_summary" /\ "executive_summary" \in required
    BY <1>7 DEF ExecutiveSummary, Completes, Untouched
  <2>2. summary' = Summary /\ UNCHANGED <<request, decision, approval>>
    BY <1>7 DEF ExecutiveSummary, Completes
  <2>3. "human_approval" \in required
    BY <2>1 DEF ApprovalRecorded, Required, Agents
  <2>4. approval = Approval
    BY <2>1, <2>3 DEF ApprovalRecorded
  <2>5. decision.status = "decided" => ~NothingToReport
    BY DEF NothingToReport
  <2>6. Summary.headline = IF NothingToReport THEN "insufficient" ELSE Headline
    BY DEF Summary
  <2>7. Governance!Announce
    BY <2>1, <2>2, <2>4, <2>5, <2>6
       DEF Governance!Announce, Governance!Announcement, Approval, Headline,
           Unapproved, ActionNeedsApproval, NoSummary, Verdicts
  <2> QED BY <2>7 DEF Governance!Next
<1> QED BY <1>2, <1>3, <1>4, <1>5, <1>6, <1>7 DEF Next

\* The seven agents together implement the governance of a proposal: one
\* proposal, one consent that the caller gave, one announcement that shows it.
THEOREM Refinement == Spec => ImplementsGovernance
<1>1. Init => Governance!Init
  BY DEF Init, Governance!Init, NoDecision, NoApproval, NoSummary,
         Verdicts, Governance!Verdicts
<1>2. IInv /\ [Next]_vars => [Governance!Next]_(Governance!govVars)
  BY GovernanceStep
<1> QED BY <1>1, <1>2, Invariance, PTL DEF Spec, ImplementsGovernance, Governance!Spec
=============================================================================
