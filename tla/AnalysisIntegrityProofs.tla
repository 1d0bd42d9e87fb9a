---------------------- MODULE AnalysisIntegrityProofs ----------------------
(***************************************************************************)
(* Proofs about a typed analysis request, whichever consumers of its       *)
(* result are injected.                                                    *)
(***************************************************************************)
EXTENDS AnalysisIntegrity, TLAPS

Early == {"planner", "retrieval", "experiment_analysis"}

\* Each section is written by its own node and not before it.
InOrder ==
  /\ pc \in Early <=> store = NoResult
  /\ pc \in Early \cup {"business_impact"} => store.business = "none"
  /\ pc \in Early \cup {"business_impact", "risk_assessment"} => risk = NoRisk
  /\ pc \in Early \cup {"business_impact", "risk_assessment", "decision"} =>
       decision = NoDecision
  /\ pc \notin {"response", "done", "raised"} => summary = NoSummary
  /\ pc # "planner" => "experiment_analysis" \in required

\* The inductive invariant: the properties need each other (the comparison
\* accuses justly because what is published is what is stored) and the order
\* in which the sections are written.
IInv ==
  /\ TypeOK
  /\ PublishedIsStored
  /\ FindingsAreJust
  /\ SectionsAgree
  /\ NothingIsAuthorized
  /\ InOrder

-----------------------------------------------------------------------------
(* Envelopes. *)

LEMMA NoResultIsNone == \A e \in Envelopes : e # NoResult
  BY DEF Envelopes, NoResult, Statuses

LEMMA OutcomeType ==
  ASSUME NEW r \in Requests, NEW e \in Outcomes(r)
  PROVE  e \in Envelopes /\ e.business = "none" /\ e.findings = {}
<1> DEFINE Fresh(x) == x \in Envelopes /\ x.business = "none" /\ x.findings = {}
<1>1. \A s \in Statuses : Fresh(Refusal(s))
  BY DEF Refusal, NoResult, Envelopes, Kinds
<1>2. Fresh(Failure)
  BY DEF Failure, NoResult, Envelopes, Kinds, Statuses
<1>3. \A s \in Statuses : Fresh(Evidence(s))
  BY DEF Evidence, NoResult, Envelopes, Kinds
<1>4. r.refused # "no" => r.refused \in Statuses
  BY DEF Requests, Statuses
<1>5. "invalid" \in Statuses /\ "abstained" \in Statuses
  BY DEF Statuses
<1> HIDE DEF Fresh
<1>6. Fresh(e)
  BY <1>1, <1>2, <1>3, <1>4, <1>5 DEF Outcomes
<1> QED BY <1>6 DEF Fresh

LEMMA WithBusinessType ==
  ASSUME NEW e \in Envelopes, NEW s \in Scenarios
  PROVE  /\ WithBusiness(e, s) \in Envelopes
         /\ WithBusiness(e, s).business = s
         /\ WithBusiness(e, s).status = e.status
         /\ WithBusiness(e, s).evidence = e.evidence
         /\ WithBusiness(e, s).findings = e.findings
         /\ e.artifacts \subseteq WithBusiness(e, s).artifacts
  BY DEF WithBusiness, Envelopes, Kinds

\* Two results that differ at most in their findings.
Alike(e, f) ==
  /\ e.status = f.status /\ e.evidence = f.evidence /\ e.diagnosed = f.diagnosed
  /\ e.business = f.business /\ e.artifacts = f.artifacts

LEMMA WithFindingType ==
  ASSUME NEW e \in Envelopes, NEW n \in Consumers \cup {"response"}
  PROVE  /\ WithFinding(e, n) \in Envelopes
         /\ Alike(WithFinding(e, n), e)
         /\ WithFinding(e, n).findings = e.findings \cup {n}
  BY DEF WithFinding, Envelopes, Alike

\* What the built-in agents write does not depend on the findings.
LEMMA AlikeSections ==
  ASSUME NEW e \in Envelopes, NEW f \in Envelopes, Alike(e, f)
  PROVE  /\ Sources(e) = Sources(f) /\ Shown(e) = Shown(f)
         /\ Eligible(e) <=> Eligible(f)
  BY DEF Alike, Sources, Shown, Eligible

-----------------------------------------------------------------------------
(* The protection of one update. *)

\* An agent that saw what the protection compares with is accused exactly
\* when it departed from it.
LEMMA ConflictIsDeparture ==
  ASSUME store \in Envelopes, result = store,
         NEW n \in Consumers, NEW p \in Proposals(n),
         NEW x, Forged(x) # x
  PROVE  Conflict(p, x, x) <=> Departs(p)
<1>1. /\ p.own \in {"absent", "seen", "forged"} /\ p.foreign \in BOOLEAN
      /\ p.result \in {"absent", "seen", "forged"}
  <2>1. CASE n \in Injected
    BY <2>1 DEF Proposals
  <2>2. CASE n \notin Injected
    <3>1. p = BuiltIn
      BY <2>2 DEF Proposals
    <3> QED BY <3>1 DEF BuiltIn
  <2> QED BY <2>1, <2>2
<1>2. Forged(result) # store
  BY DEF Forged, Envelopes, Statuses
<1> QED BY <1>1, <1>2 DEF Conflict, Departs

LEMMA ProtectStep ==
  ASSUME store \in Envelopes, result = store, FindingsAreJust,
         NEW n \in Consumers, NEW p \in Proposals(n),
         NEW x, Forged(x) # x, Protect(n, p, x, x)
  PROVE  /\ store' \in Envelopes /\ Alike(store', store)
         /\ store.findings \subseteq store'.findings
         /\ PublishedIsStored'
         /\ FindingsAreJust'
<1>1. Conflict(p, x, x) <=> Departs(p)
  BY ConflictIsDeparture
<1>2. CASE Departs(p)
  <2>1. store' = WithFinding(store, n) /\ accusable' = accusable \cup {n}
    BY <1>1, <1>2 DEF Protect
  <2>2. store' \in Envelopes /\ Alike(store', store)
        /\ store'.findings = store.findings \cup {n}
    BY <2>1, WithFindingType
  <2> QED BY <2>1, <2>2 DEF Protect, PublishedIsStored, FindingsAreJust, Alike
<1>3. CASE ~Departs(p)
  <2>1. store' = store /\ accusable' = accusable
    BY <1>1, <1>3 DEF Protect
  <2> QED BY <2>1 DEF Protect, PublishedIsStored, FindingsAreJust, Alike
<1> QED BY <1>2, <1>3

-----------------------------------------------------------------------------
(* The steps. *)

\* Once there is a result it is an envelope; the sections that are written
\* can be told from forged ones.
LEMMA Stored == IInv /\ pc \notin Early => store \in Envelopes /\ result = store
  BY DEF IInv, TypeOK, InOrder, PublishedIsStored

LEMMA HonestSections ==
  ASSUME TypeOK, store \in Envelopes
  PROVE  /\ Forged(RiskOf(store)) # RiskOf(store)
         /\ Forged(DecisionOf(store, decision, approval)) # DecisionOf(store, decision, approval)
         /\ Forged(ApprovalOf(decision)) # ApprovalOf(decision)
         /\ Forged(SummaryOf(store, store.artifacts, decision))
              # SummaryOf(store, store.artifacts, decision)
<1>1. Forged(RiskOf(store)) # RiskOf(store)
  BY DEF Forged, RiskOf
<1>2. Forged(DecisionOf(store, decision, approval)) # DecisionOf(store, decision, approval)
  BY DEF Forged, DecisionOf
<1>3. Forged(ApprovalOf(decision)) # ApprovalOf(decision)
  <2>1. CASE ~decision.approvalRequired
    BY <2>1 DEF Forged, ApprovalOf
  <2>2. CASE decision.approvalRequired
    BY <2>2 DEF Forged, ApprovalOf, Verdicts
  <2> QED BY <2>1, <2>2
<1>4. Forged(SummaryOf(store, store.artifacts, decision)) # SummaryOf(store, store.artifacts, decision)
  BY DEF Forged, SummaryOf
<1> QED BY <1>1, <1>2, <1>3, <1>4

LEMMA Start == Init => IInv
<1> SUFFICES ASSUME Init PROVE IInv
  OBVIOUS
<1>1. TypeOK
  BY DEF Init, TypeOK, NoResult, NoRisk, NoDecision, NoApproval, NoSummary, Shown,
         Nodes, Kinds, Statuses, Scenarios, Verdicts
<1>2. PublishedIsStored /\ FindingsAreJust
  BY DEF Init, PublishedIsStored, FindingsAreJust, NoResult
<1>3. SectionsAgree /\ NothingIsAuthorized
  BY DEF Init, SectionsAgree, NothingIsAuthorized, NoRisk, NoDecision, NoApproval
<1>4. InOrder
  BY DEF Init, InOrder, Early, NoResult
<1> QED BY <1>1, <1>2, <1>3, <1>4 DEF IInv

\* The steps that leave the result and every section as they are.
LEMMA QuietStep ==
  ASSUME IInv, Planner \/ SkipNode \/ Raise \/ Respond \/ UNCHANGED vars
  PROVE  /\ UNCHANGED <<request, store, result, citations, risk, decision, approval,
                       summary, errors, accusable>>
         /\ IInv'
<1>1. result = store /\ citations = store.artifacts
  BY DEF IInv, PublishedIsStored
<1>2. UNCHANGED <<request, store, result, citations, risk, decision, approval,
                  summary, errors, accusable>>
  BY <1>1 DEF Planner, SkipNode, Skip, Raise, Respond, vars, published
<1>3. required' \in SUBSET Nodes
  <2>1. \A r : Plan(r) \in SUBSET Nodes
    BY DEF Plan, Nodes, Consumers
  <2> QED BY <2>1 DEF IInv, TypeOK, Planner, SkipNode, Skip, Raise, Respond, vars
<1>4. pc' \in Nodes \cup {"planner", "response", "done", "raised"} /\ InOrder'
  <2>1. CASE Planner
    BY <2>1, <1>2 DEF Planner, Plan, After, IInv, InOrder, Early, Nodes
  <2>2. CASE SkipNode
    <3>1. PICK n \in Nodes : pc = n /\ n \notin required /\ pc' = After[n]
      BY <2>2 DEF SkipNode, Skip
    <3>2. pc # "experiment_analysis" /\ pc # "planner"
      BY <3>1 DEF IInv, InOrder, Nodes, Consumers
    <3>3. "experiment_analysis" \in required'
      BY <3>2, <2>2 DEF SkipNode, Skip, IInv, InOrder
    <3>4. pc' \in Nodes \cup {"response"} /\ pc' # "planner"
      BY <3>1 DEF After, Nodes, Consumers
    <3> QED BY <3>1, <3>2, <3>3, <3>4, <1>2 DEF After, IInv, InOrder, Early, Nodes, Consumers
  <2>3. CASE Raise
    BY <2>3, <1>2, InjectedAssumption DEF Raise, IInv, InOrder, Early, Consumers
  <2>4. CASE Respond
    BY <2>4, <1>2 DEF Respond, IInv, InOrder, Early, TypeOK
  <2>5. CASE UNCHANGED vars
    BY <2>5 DEF vars, published, IInv, InOrder, TypeOK
  <2> QED BY <2>1, <2>2, <2>3, <2>4, <2>5
<1> QED BY <1>2, <1>3, <1>4 DEF IInv, TypeOK, PublishedIsStored, FindingsAreJust,
           SectionsAgree, NothingIsAuthorized

LEMMA AnalysisStep == IInv /\ ExperimentAnalysis => IInv'
<1> SUFFICES ASSUME IInv, ExperimentAnalysis PROVE IInv'
  OBVIOUS
<1>1. PICK e \in Outcomes(request) : Save(e)
  BY DEF ExperimentAnalysis
<1>2. e \in Envelopes /\ e.business = "none" /\ e.findings = {}
  BY <1>1, OutcomeType DEF IInv, TypeOK
<1>3. /\ pc = "experiment_analysis" /\ pc' = "business_impact"
      /\ UNCHANGED <<request, required, risk, decision, approval, summary, errors, accusable>>
  BY DEF ExperimentAnalysis, Completes, After
<1>4. store = NoResult /\ risk = NoRisk /\ decision = NoDecision /\ summary = NoSummary
  BY <1>3 DEF IInv, InOrder, Early
<1>5. e \in Envelopes /\ e.artifacts \in SUBSET Kinds /\ e # NoResult
  BY <1>2, NoResultIsNone DEF Envelopes
<1>6. TypeOK'
  BY <1>1, <1>3, <1>5 DEF IInv, TypeOK, Save, Nodes
<1>7. PublishedIsStored' /\ FindingsAreJust'
  BY <1>1, <1>2, <1>3, <1>4 DEF IInv, Save, PublishedIsStored, FindingsAreJust, NoResult
<1>8. SectionsAgree' /\ NothingIsAuthorized'
  BY <1>3, <1>4 DEF IInv, SectionsAgree, NothingIsAuthorized, NoDecision
<1>9. InOrder'
  BY <1>1, <1>2, <1>3, <1>4, <1>5 DEF IInv, InOrder, Early, Save
<1> QED BY <1>6, <1>7, <1>8, <1>9 DEF IInv

LEMMA BusinessStep == IInv /\ BusinessImpact => IInv'
<1> SUFFICES ASSUME IInv, BusinessImpact PROVE IInv'
  OBVIOUS
<1>1. PICK s \in Business(request, store) : Save(WithBusiness(store, s))
  BY DEF BusinessImpact
<1>2. /\ pc = "business_impact" /\ pc' = "risk_assessment"
      /\ UNCHANGED <<request, required, risk, decision, approval, summary, errors, accusable>>
  BY DEF BusinessImpact, Completes, After
<1>3. store \in Envelopes /\ result = store
  BY <1>2, Stored DEF Early
<1>4. risk = NoRisk /\ decision = NoDecision /\ summary = NoSummary
  BY <1>2 DEF IInv, InOrder, Early
<1>5. s \in Scenarios
  BY <1>1 DEF Business, Scenarios
<1>6. /\ store' \in Envelopes /\ store'.artifacts \in SUBSET Kinds /\ store' # NoResult
      /\ store'.findings = store.findings
  BY <1>1, <1>3, <1>5, WithBusinessType, NoResultIsNone DEF Save, Envelopes
<1>7. TypeOK'
  BY <1>1, <1>2, <1>6 DEF IInv, TypeOK, Save, Nodes, Consumers
<1>8. PublishedIsStored' /\ FindingsAreJust'
  BY <1>1, <1>2, <1>6 DEF IInv, Save, PublishedIsStored, FindingsAreJust
<1>9. SectionsAgree' /\ NothingIsAuthorized'
  BY <1>2, <1>4 DEF IInv, SectionsAgree, NothingIsAuthorized, NoDecision
<1>10. InOrder'
  BY <1>2, <1>4, <1>6 DEF IInv, InOrder, Early
<1> QED BY <1>7, <1>8, <1>9, <1>10 DEF IInv

\* What the four consumers have in common: the result gains at most a finding.
LEMMA ConsumerStep ==
  ASSUME IInv, pc \in Consumers, NEW p \in Proposals(pc), NEW x, Forged(x) # x,
         Protect(pc, p, x, x)
  PROVE  /\ store \in Envelopes /\ store' \in Envelopes /\ store' # NoResult
         /\ result = store /\ citations = store.artifacts
         /\ result' = store' /\ citations' = store'.artifacts
         /\ Alike(store', store) /\ store.findings \subseteq store'.findings
         /\ citations' \in SUBSET Kinds /\ accusable' \in SUBSET Consumers
         /\ PublishedIsStored' /\ FindingsAreJust'
<1>1. store \in Envelopes /\ result = store /\ citations = store.artifacts
  BY Stored DEF Early, Consumers, IInv, PublishedIsStored
<1>2. /\ store' \in Envelopes /\ Alike(store', store)
      /\ store.findings \subseteq store'.findings
      /\ PublishedIsStored' /\ FindingsAreJust'
  BY <1>1, ProtectStep DEF IInv
<1>3. store'.artifacts \in SUBSET Kinds
  BY <1>2 DEF Envelopes
<1>4. accusable' \in SUBSET Consumers
  BY DEF Protect, IInv, TypeOK
<1> QED BY <1>1, <1>2, <1>3, <1>4, NoResultIsNone DEF PublishedIsStored

LEMMA RiskStep == IInv /\ RiskAssessment => IInv'
<1> SUFFICES ASSUME IInv, RiskAssessment PROVE IInv'
  OBVIOUS
<1>1. /\ pc = "risk_assessment" /\ pc' = "decision"
      /\ decision' = decision /\ risk' = RiskOf(store)
      /\ UNCHANGED <<request, required, approval, summary, errors>>
  BY DEF RiskAssessment, Completes, After, Isolated
<1>2. store \in Envelopes /\ result = store
  BY <1>1, Stored DEF Early
<1>3. PICK p \in Proposals(pc) : Protect(pc, p, RiskOf(store), RiskOf(store))
  BY <1>1, <1>2 DEF RiskAssessment
<1>4. Forged(RiskOf(store)) # RiskOf(store)
  BY <1>2, HonestSections DEF IInv
<1>5. /\ store' \in Envelopes /\ store' # NoResult /\ Alike(store', store)
      /\ result' = store' /\ citations' \in SUBSET Kinds /\ accusable' \in SUBSET Consumers
      /\ PublishedIsStored' /\ FindingsAreJust'
  BY <1>1, <1>3, <1>4, ConsumerStep DEF Consumers
<1>6. TypeOK'
  BY <1>1, <1>5 DEF IInv, TypeOK, Nodes, Consumers, RiskOf, Sources
<1>7. decision = NoDecision /\ summary = NoSummary
  BY <1>1 DEF IInv, InOrder, Early
<1>8. SectionsAgree' /\ NothingIsAuthorized'
  BY <1>1, <1>2, <1>5, <1>7, AlikeSections
  DEF IInv, SectionsAgree, NothingIsAuthorized, RiskOf, NoDecision
<1>9. InOrder'
  BY <1>1, <1>5, <1>7 DEF IInv, InOrder, Early
<1> QED BY <1>5, <1>6, <1>8, <1>9 DEF IInv

LEMMA DecisionStep == IInv /\ Decision => IInv'
<1> SUFFICES ASSUME IInv, Decision PROVE IInv'
  OBVIOUS
<1>1. /\ pc = "decision" /\ pc' = "human_approval"
      /\ decision' = DecisionOf(store, decision, approval)
      /\ UNCHANGED <<request, required, risk, approval, summary, errors>>
  BY DEF Decision, Completes, After, Isolated
<1>2. store \in Envelopes /\ result = store
  BY <1>1, Stored DEF Early
<1>3. PICK p \in Proposals(pc) : Protect(pc, p, decision', decision')
  BY <1>1, <1>2 DEF Decision, Isolated
<1>4. Forged(decision') # decision'
  BY <1>1, <1>2, HonestSections DEF IInv
<1>5. /\ store' \in Envelopes /\ store' # NoResult /\ Alike(store', store)
      /\ result' = store' /\ citations' \in SUBSET Kinds /\ accusable' \in SUBSET Consumers
      /\ PublishedIsStored' /\ FindingsAreJust'
  BY <1>1, <1>3, <1>4, ConsumerStep DEF Consumers
<1>6. decision = NoDecision /\ summary = NoSummary /\ ~approval.required
  BY <1>1 DEF IInv, InOrder, Early, NothingIsAuthorized
<1>7. decision' = [status |-> IF Eligible(store) THEN "needs_more_data" ELSE "blocked",
                   recommendation |-> "needs_more_data", approvalRequired |-> FALSE]
  BY <1>1, <1>6 DEF DecisionOf, NoDecision
<1>8. TypeOK'
  BY <1>1, <1>5, <1>7 DEF IInv, TypeOK, Nodes, Consumers
<1>9. SectionsAgree' /\ NothingIsAuthorized'
  BY <1>1, <1>2, <1>5, <1>6, <1>7, AlikeSections
  DEF IInv, SectionsAgree, NothingIsAuthorized
<1>10. InOrder'
  BY <1>1, <1>5, <1>6 DEF IInv, InOrder, Early
<1> QED BY <1>5, <1>8, <1>9, <1>10 DEF IInv

LEMMA ApprovalStep == IInv /\ HumanApproval => IInv'
<1> SUFFICES ASSUME IInv, HumanApproval PROVE IInv'
  OBVIOUS
<1>1. /\ pc = "human_approval" /\ pc' = "executive_summary"
      /\ decision' = decision /\ approval' = ApprovalOf(decision)
      /\ errors' = IF request.input = "invalid" THEN errors \cup {"human_approval"} ELSE errors
      /\ UNCHANGED <<request, required, risk, summary>>
  BY DEF HumanApproval, Completes, After, Isolated
<1>2. PICK p \in Proposals(pc) : Protect(pc, p, approval', approval')
  BY <1>1 DEF HumanApproval, Isolated
<1>3. Forged(approval') # approval' /\ store \in Envelopes /\ result = store
  BY <1>1, Stored, HonestSections DEF IInv, Early
<1>4. /\ store' \in Envelopes /\ store' # NoResult /\ Alike(store', store)
      /\ result' = store' /\ citations' \in SUBSET Kinds /\ accusable' \in SUBSET Consumers
      /\ PublishedIsStored' /\ FindingsAreJust'
  BY <1>1, <1>2, <1>3, ConsumerStep DEF Consumers
<1>5. approval' = [status |-> "skipped", required |-> FALSE] /\ summary = NoSummary
  BY <1>1 DEF IInv, NothingIsAuthorized, ApprovalOf, InOrder
<1>6. TypeOK'
  BY <1>1, <1>4, <1>5 DEF IInv, TypeOK, Nodes, Consumers
<1>7. SectionsAgree' /\ NothingIsAuthorized'
  BY <1>1, <1>3, <1>4, <1>5, AlikeSections DEF IInv, SectionsAgree, NothingIsAuthorized
<1>8. InOrder'
  BY <1>1, <1>4, <1>5 DEF IInv, InOrder, Early
<1> QED BY <1>4, <1>6, <1>7, <1>8 DEF IInv

LEMMA SummaryStep == IInv /\ ExecutiveSummary => IInv'
<1> SUFFICES ASSUME IInv, ExecutiveSummary PROVE IInv'
  OBVIOUS
<1>1. /\ pc = "executive_summary" /\ pc' = "response"
      /\ decision' = decision /\ summary' = SummaryOf(store, store.artifacts, decision)
      /\ UNCHANGED <<request, required, risk, approval, errors>>
  BY DEF ExecutiveSummary, Completes, After, Isolated
<1>2. store \in Envelopes /\ result = store /\ citations = store.artifacts
  BY <1>1, Stored DEF Early, IInv, PublishedIsStored
<1>3. PICK p \in Proposals(pc) : Protect(pc, p, summary', summary')
  BY <1>1, <1>2 DEF ExecutiveSummary, Isolated
<1>4. Forged(summary') # summary'
  BY <1>1, <1>2, HonestSections DEF IInv
<1>5. /\ store' \in Envelopes /\ store' # NoResult /\ Alike(store', store)
      /\ result' = store' /\ citations' = store'.artifacts
      /\ citations' \in SUBSET Kinds /\ accusable' \in SUBSET Consumers
      /\ PublishedIsStored' /\ FindingsAreJust'
  BY <1>1, <1>3, <1>4, ConsumerStep DEF Consumers
<1>6. TypeOK'
  <2>1. Shown(store) \in [status : Statuses \cup {"none"}, evidence : BOOLEAN,
                           business : Scenarios \cup {"none"}, artifacts : SUBSET Kinds]
    BY <1>2 DEF Shown, Envelopes
  <2>2. store.artifacts \in SUBSET Kinds
    BY <1>2 DEF Envelopes
  <2> QED BY <1>1, <1>5, <2>1, <2>2 DEF IInv, TypeOK, Nodes, Consumers, SummaryOf
<1>7. SectionsAgree' /\ NothingIsAuthorized'
  <2>1. summary'.status = "generated" <=> Eligible(store)
    BY <1>1 DEF SummaryOf
  <2>2. /\ summary'.shows = Shown(store) /\ summary'.citations = store.artifacts
        /\ summary'.rationale = decision.status
    BY <1>1 DEF SummaryOf
  <2>3. store'.artifacts = store.artifacts
    BY <1>5 DEF Alike
  <2> QED BY <1>1, <1>2, <1>5, <2>1, <2>2, <2>3, AlikeSections
          DEF IInv, SectionsAgree, NothingIsAuthorized
<1>8. InOrder'
  BY <1>1, <1>5 DEF IInv, InOrder, Early
<1> QED BY <1>5, <1>6, <1>7, <1>8 DEF IInv

LEMMA Step == IInv /\ [Next]_vars => IInv'
  BY QuietStep, AnalysisStep, BusinessStep, RiskStep, DecisionStep, ApprovalStep,
     SummaryStep DEF Next, Ended

-----------------------------------------------------------------------------
\* Every typed run, whoever its agents are, keeps the invariant.
THEOREM Invariance == Spec => []IInv
  BY Start, Step, PTL DEF Spec

\* The shared state always has the declared shapes (packages/agents/state.py).
THEOREM TypeCorrectness == Spec => []TypeOK
<1>1. IInv => TypeOK
  BY DEF IInv
<1> QED BY <1>1, Invariance, PTL

\* What is published as the result is at every step what the service holds.
THEOREM PublicationTheorem == Spec => []PublishedIsStored
<1>1. IInv => PublishedIsStored
  BY DEF IInv
<1> QED BY <1>1, Invariance, PTL

\* The findings accuse exactly the agents that departed from what they saw.
THEOREM JusticeTheorem == Spec => []FindingsAreJust
<1>1. IInv => FindingsAreJust
  BY DEF IInv
<1> QED BY <1>1, Invariance, PTL

\* The sections of an answer speak of the result it carries.
THEOREM AgreementTheorem == Spec => []SectionsAgree
<1>1. IInv => SectionsAgree
  BY DEF IInv
<1> QED BY <1>1, Invariance, PTL

\* No structured analysis authorizes an action or records a consent.
THEOREM NoAuthorityTheorem == Spec => []NothingIsAuthorized
<1>1. IInv => NothingIsAuthorized
  BY DEF IInv
<1> QED BY <1>1, Invariance, PTL

-----------------------------------------------------------------------------
(* What a step may do to the result. *)

Consumed == RiskAssessment \/ Decision \/ HumanApproval \/ ExecutiveSummary

LEMMA ConsumedKeeps ==
  ASSUME IInv, Consumed
  PROVE  /\ store # NoResult /\ store \in Envelopes /\ result = store /\ result' = store'
         /\ Alike(store', store) /\ store.findings \subseteq store'.findings
<1>1. PICK n \in Consumers : /\ pc = n
                             /\ store' \in {store, WithFinding(store, n)}
                             /\ result' = store'
  BY DEF Consumed, RiskAssessment, Decision, HumanApproval, ExecutiveSummary,
         Completes, Protect, Consumers
<1>2. store \in Envelopes /\ result = store
  BY <1>1, Stored DEF Early, Consumers
<1> QED BY <1>1, <1>2, WithFindingType, NoResultIsNone DEF Alike

Final ==
  store # NoResult =>
    /\ store'.status = store.status /\ store'.evidence = store.evidence
    /\ store.artifacts \subseteq store'.artifacts
    /\ store.findings \subseteq store'.findings
    /\ store.business # "none" => store'.business = store.business

LEMMA FinalStep == IInv /\ [Next]_vars => [Final]_vars
<1> SUFFICES ASSUME IInv, [Next]_vars PROVE Final
  OBVIOUS
<1>1. CASE Planner \/ SkipNode \/ Raise \/ Respond \/ UNCHANGED vars
  BY <1>1, QuietStep DEF Final
<1>2. CASE ExperimentAnalysis
  BY <1>2 DEF ExperimentAnalysis, Completes, IInv, InOrder, Early, Final
<1>3. CASE BusinessImpact
  <2>1. PICK s \in Business(request, store) : store' = WithBusiness(store, s)
    BY <1>3 DEF BusinessImpact, Save
  <2>2. store \in Envelopes /\ store.business = "none"
    BY <1>3, Stored DEF BusinessImpact, Completes, Early, IInv, InOrder
  <2>3. s \in Scenarios
    BY <2>1 DEF Business, Scenarios
  <2> QED BY <2>1, <2>2, <2>3, WithBusinessType DEF Final
<1>4. CASE Consumed
  BY <1>4, ConsumedKeeps DEF Final, Alike
<1> QED BY <1>1, <1>2, <1>3, <1>4 DEF Next, Ended, Consumed

\* Evidence is written once, whatever the agents behind it return.
THEOREM FinalTheorem == Spec => EvidenceIsFinal
  BY Invariance, FinalStep, PTL DEF Spec, EvidenceIsFinal, Final

-----------------------------------------------------------------------------
(* The answer is an authoritative report. *)

LEMMA NoSummaryIsBlank == summary = NoSummary => Answer!Open
<1> SUFFICES ASSUME summary = NoSummary PROVE Answer!Open
  OBVIOUS
<1>1. /\ summary.shows.status = "none" /\ summary.shows.business = "none"
      /\ summary.rationale = "not_required"
  BY DEF NoSummary, Shown, NoResult
<1>2. (summary.status = "generated") = FALSE
  BY DEF NoSummary
<1> QED BY <1>1, <1>2 DEF Answer!Open, Answer!Blank

LEMMA AnswerInit == Init => Answer!Init
<1> SUFFICES ASSUME Init PROVE Answer!Init
  OBVIOUS
<1>1. result.status = "none" /\ result.business = "none" /\ decision.status = "not_required"
  BY DEF Init, NoResult, NoDecision
<1> QED BY <1>1, NoSummaryIsBlank DEF Init, Answer!Init, Answer!Open

LEMMA StillOpen == IInv /\ pc \notin {"response", "done", "raised"} => Answer!Open
  BY NoSummaryIsBlank DEF IInv, InOrder

LEMMA AnswerStep == IInv /\ [Next]_vars => [Answer!Next]_(Answer!reportVars)
<1> SUFFICES ASSUME IInv, [Next]_vars PROVE [Answer!Next]_(Answer!reportVars)
  OBVIOUS
<1>1. CASE Planner \/ SkipNode \/ Raise \/ Respond \/ UNCHANGED vars
  BY <1>1, QuietStep DEF Answer!reportVars
<1>2. CASE ExperimentAnalysis
  <2>1. PICK e \in Outcomes(request) : Save(e)
    BY <1>2 DEF ExperimentAnalysis
  <2>2. e \in Envelopes /\ e.business = "none"
    BY <2>1, OutcomeType DEF IInv, TypeOK
  <2>3. pc = "experiment_analysis" /\ UNCHANGED <<decision, summary>>
    BY <1>2 DEF ExperimentAnalysis, Completes
  <2>4. result.status = "none" /\ result.business = "none"
    BY <2>3 DEF IInv, InOrder, Early, PublishedIsStored, NoResult
  <2>5. result'.status \in Answer!Statuses /\ result'.business = "none"
    BY <2>1, <2>2 DEF Save, Envelopes, Statuses, Answer!Statuses
  <2>6. Answer!Publish
    BY <2>3, <2>4, <2>5, StillOpen DEF Answer!Publish
  <2> QED BY <2>6 DEF Answer!Next
<1>3. CASE BusinessImpact
  <2>1. PICK s \in Business(request, store) : Save(WithBusiness(store, s))
    BY <1>3 DEF BusinessImpact
  <2>2. pc = "business_impact" /\ UNCHANGED <<decision, summary>>
    BY <1>3 DEF BusinessImpact, Completes
  <2>3. store \in Envelopes /\ result = store /\ store.business = "none"
    BY <2>2, Stored DEF Early, IInv, InOrder
  <2>4. s \in Scenarios
    BY <2>1 DEF Business, Scenarios
  <2>5. result'.business = s /\ result'.status = result.status /\ result.status # "none"
    BY <2>1, <2>3, <2>4, WithBusinessType DEF Save, Envelopes, Statuses
  <2>6. s \in IF Answer!Usable THEN {"completed", "inconclusive", "abstained", "failed"}
              ELSE {"abstained"}
    BY <2>1, <2>3 DEF Business, Eligible, Scenarios, Answer!Usable
  <2>7. Answer!Project
    BY <2>2, <2>3, <2>5, <2>6, StillOpen DEF Answer!Project
  <2> QED BY <2>7 DEF Answer!Next
<1>4. CASE Consumed
  <2>1. /\ store \in Envelopes /\ result = store
        /\ result'.status = result.status /\ result'.business = result.business
        /\ result.status # "none"
    BY <1>4, ConsumedKeeps DEF Alike, Envelopes, Statuses
  <2>2. CASE RiskAssessment \/ HumanApproval
    BY <2>1, <2>2 DEF RiskAssessment, HumanApproval, Isolated, Answer!reportVars
  <2>3. CASE Decision
    <3>1. /\ pc = "decision" /\ summary' = summary
          /\ decision'.status = IF Eligible(store) THEN "needs_more_data" ELSE "blocked"
      BY <2>3 DEF Decision, Completes, Isolated, DecisionOf
    <3>2. decision.status = "not_required"
      BY <3>1 DEF IInv, InOrder, Early, NoDecision
    <3>3. Answer!Decide
      BY <2>1, <3>1, <3>2, StillOpen DEF Answer!Decide, Answer!Usable, Eligible
    <3> QED BY <3>3 DEF Answer!Next
  <2>4. CASE ExecutiveSummary
    <3>1. /\ pc = "executive_summary" /\ decision' = decision
          /\ summary' = SummaryOf(store, store.artifacts, decision)
      BY <2>4 DEF ExecutiveSummary, Completes, Isolated
    <3>2. /\ summary'.shows.status = result.status /\ summary'.shows.business = result.business
          /\ summary'.rationale = decision.status
          /\ (summary'.status = "generated") = Answer!Usable
      BY <2>1, <3>1 DEF SummaryOf, Shown, Eligible, Answer!Usable
    <3>3. Answer!Report
      BY <2>1, <3>1, <3>2, StillOpen DEF Answer!Report
    <3> QED BY <3>3 DEF Answer!Next
  <2> QED BY <1>4, <2>2, <2>3, <2>4 DEF Consumed
<1> QED BY <1>1, <1>2, <1>3, <1>4 DEF Next, Ended, Consumed

\* What a reader sees is an authoritative report, whatever the agents return.
THEOREM Refinement == Spec => ImplementsReport
  BY Invariance, AnswerInit, AnswerStep, PTL DEF Spec, ImplementsReport, Answer!Spec
=============================================================================
