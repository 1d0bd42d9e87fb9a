--------------------------- MODULE AgentWorkflow ---------------------------
(***************************************************************************)
(* One run of the agent workflow behind POST /ask for a question without a *)
(* typed analysis request (packages/agents): the planner, then seven       *)
(* agents in a fixed order over one shared state.  Each agent is skipped   *)
(* when the plan does not name it, else it runs once and either writes its *)
(* section of the state or, if it raised, an error.                        *)
(*                                                                         *)
(* Texts, scores and floats are abstracted to what the agents branch on:   *)
(* the sign of a lift, whether a p-value is stored, which experiments the  *)
(* citations belong to.  What the database answers is chosen afresh at     *)
(* every read, because each agent opens a session of its own.              *)
(***************************************************************************)
EXTENDS Integers, Sequences, FiniteSets

CONSTANTS
  Experiments,  \* experiment ids a caller can name
  Stored,       \* the experiments that have a row in the database
  None,         \* no experiment
  TopK          \* bound on the chunks a search returns

ASSUME StoredAssumption == Stored \subseteq Experiments
ASSUME NoneAssumption == None \notin Experiments
ASSUME TopKAssumption == TopK \in Nat \ {0}

Agents == {"retrieval", "experiment_analysis", "business_impact",
           "risk_assessment", "decision", "human_approval",
           "executive_summary"}

\* The edges of the graph: who runs after whom.
After == [planner             |-> "retrieval",
          retrieval           |-> "experiment_analysis",
          experiment_analysis |-> "business_impact",
          business_impact     |-> "risk_assessment",
          risk_assessment     |-> "decision",
          decision            |-> "human_approval",
          human_approval      |-> "executive_summary",
          executive_summary   |-> "done"]

Intents == {"general_question", "experiment_lookup", "decision_support",
            "risk_assessment", "business_impact", "executive_summary",
            "unknown"}

Required(intent) ==
  CASE intent = "unknown" -> {}
    [] intent \in {"general_question", "experiment_lookup"} -> {"retrieval"}
    [] intent = "risk_assessment" ->
         {"retrieval", "experiment_analysis", "risk_assessment"}
    [] intent = "business_impact" ->
         {"retrieval", "experiment_analysis", "business_impact"}
    [] OTHER -> Agents

Signs == {"negative", "flat", "positive"}
Flip(sign) == CASE sign = "negative" -> "positive"
                [] sign = "positive" -> "negative"
                [] OTHER -> sign

Levels == {"low", "medium", "high"}
Verdicts == {"approved", "rejected", "revision_requested"}

(***************************************************************************)
(* A request: the intent the planner reads from the question, the          *)
(* experiment id that came with it, whether the question names known       *)
(* experiments (hints), and the caller's raw approval input.  A question   *)
(* with hints is never "unknown", a lookup always has one.                 *)
(***************************************************************************)
Requests ==
  {r \in [intent : Intents, pinned : Experiments \cup {None},
          hinted : BOOLEAN, input : Verdicts \cup {"absent", "invalid"}] :
     /\ r.intent = "unknown" => ~r.hinted
     /\ r.intent = "experiment_lookup" => r.hinted}

\* What the metrics stored for an experiment say: whether the primary metric
\* is named and has both variants, the sign of its movement and of its
\* control value, the stored lift_vs_control if any, the stored p-value if any
\* as is_significant reads it, how the guardrails moved, and how many of the documented caveats
\* match a data-quality or a rollout term (0, 1, or several).
Readings ==
  {m \in [named : BOOLEAN, complete : BOOLEAN, movement : Signs,
          negativeBase : BOOLEAN, storedLift : Signs \cup {"none"},
          pValue : {"none", "insignificant", "significant"},
          guardrails : {"none", "fine", "worse"},
          caveats : 0..2] :
     /\ m.complete => m.named
     /\ ~m.complete => /\ m.movement = "flat" /\ m.storedLift = "none"
                       /\ ~m.negativeBase /\ m.pValue = "none"
                       /\ m.guardrails = "none"}

NoReading == [named |-> FALSE, complete |-> FALSE, movement |-> "flat",
              negativeBase |-> FALSE, storedLift |-> "none",
              pValue |-> "none", guardrails |-> "none", caveats |-> 0]

\* The lift computed from the two values: against a zero base only the
\* absolute difference remains, which has the sign of the movement.
ComputedLift(m) == IF m.negativeBase THEN Flip(m.movement) ELSE m.movement

VARIABLES
  request,    \* the caller's input
  pc,         \* the node that runs next
  required,   \* the agents the plan names
  retrieved,  \* the experiments of the retrieved chunks, in rank order
  analysis, impact, risk, decision, approval, summary,  \* the sections
  errors      \* the agents that recorded an error

sections == <<retrieved, analysis, impact, risk, decision, approval, summary>>
vars == <<request, pc, required, sections, errors>>

NoAnalysis == [status |-> "not_applicable", experiment |-> None,
               reading |-> NoReading, citations |-> {}, confidence |-> "low"]
NoImpact == [status |-> "not_required", lift |-> "none",
             citations |-> {}, confidence |-> "low"]
NoRisk == [status |-> "not_required", level |-> "unknown", score |-> 0,
           guardrailConcern |-> FALSE, citations |-> {}, confidence |-> "low"]
NoDecision == [status |-> "not_required", recommendation |-> "unknown",
               confidence |-> "unknown", approvalRequired |-> FALSE,
               citations |-> {}]
NoApproval == [status |-> "not_requested", required |-> FALSE]
NoSummary == [status |-> "not_required", headline |-> "none",
              recommendation |-> "none"]

-----------------------------------------------------------------------------
Range(s) == {s[i] : i \in DOMAIN s}

\* A node the plan does not name changes nothing.
Skip(n) ==
  /\ pc = n /\ n \notin required
  /\ pc' = After[n]
  /\ UNCHANGED <<request, required, sections, errors>>

\* An agent that ran; an agent whose work raised, which leaves its section alone.
Completes(n) ==
  /\ pc = n /\ n \in required
  /\ pc' = After[n]
  /\ UNCHANGED <<request, required>>

Fail(n) ==
  /\ pc = n /\ n \in required
  /\ n # "human_approval"
  /\ pc' = After[n]
  /\ errors' = errors \cup {n}
  /\ retrieved' = IF n = "retrieval" THEN <<>> ELSE retrieved
  /\ UNCHANGED <<request, required, analysis, impact, risk, decision,
                 approval, summary>>

Init ==
  /\ request \in Requests
  /\ pc = "planner"
  /\ required = {}
  /\ retrieved = <<>>
  /\ analysis = NoAnalysis /\ impact = NoImpact /\ risk = NoRisk
  /\ decision = NoDecision /\ approval = NoApproval /\ summary = NoSummary
  /\ errors = {}

\* The planner resets every section and names the agents to run.
Planner ==
  /\ pc = "planner"
  /\ pc' = After[pc]
  /\ required' = Required(request.intent)
  /\ retrieved' = <<>>
  /\ analysis' = NoAnalysis /\ impact' = NoImpact /\ risk' = NoRisk
  /\ decision' = NoDecision /\ approval' = NoApproval /\ summary' = NoSummary
  /\ errors' = {}
  /\ UNCHANGED request

-----------------------------------------------------------------------------
(* Retrieval. *)

\* The keys the chunker writes into a chunk's metadata.
ChunkMetadataKeys == {"section", "section_chunk_index", "chunk_index"}

\* The planner's filters: the hints, when the question has some.
Filters == IF request.hinted THEN {"experiment_hints"} ELSE {}

SearchableUnscoped ==  \* mutant: the pin is not added to the query
  IF Filters \subseteq ChunkMetadataKeys THEN Stored ELSE {}

\* The rows the vector search may rank: of the pinned experiment if there is
\* one, and only chunks whose metadata contains every filter.
Searchable ==
  IF ~(Filters \subseteq ChunkMetadataKeys) THEN {}
  ELSE IF request.pinned = None THEN Stored
  ELSE Stored \cap {request.pinned}

Retrieval ==
  /\ Completes("retrieval")
  /\ \E n \in 0..TopK : retrieved' \in [1..n -> Searchable]
  /\ UNCHANGED <<analysis, impact, risk, decision, approval, summary, errors>>

-----------------------------------------------------------------------------
(* Experiment analysis. *)

\* The experiment to analyse: the pinned one if it is stored, else that of
\* the best ranked chunk, else a stored one whose name matches a hint.
Resolvable ==
  IF request.pinned \in Stored THEN {request.pinned}
  ELSE IF retrieved # <<>> THEN {retrieved[1]}
  ELSE IF request.hinted THEN Stored \cup {None} ELSE {None}

AnalysisConfidence(m, cited) ==
  CASE m.pValue # "none" /\ cited # {} /\ m.guardrails # "none" -> "high"
    [] m.pValue # "none" \/ m.guardrails # "none" -> "medium"
    [] OTHER -> "low"

\* Without both variants of the primary metric the analysis is insufficient;
\* a resolved experiment keeps only its own citations.
Analyse(e, m) ==
  LET cited == IF e = None THEN Range(retrieved) ELSE Range(retrieved) \cap {e}
  IN  [status |-> IF m.complete THEN "completed" ELSE "insufficient_data",
       experiment |-> e, reading |-> m, citations |-> cited,
       confidence |-> IF m.complete THEN AnalysisConfidence(m, cited) ELSE "low"]

ExperimentAnalysis ==
  /\ Completes("experiment_analysis")
  /\ \E e \in Resolvable :
       \E m \in IF e = None THEN {NoReading} ELSE Readings :
         analysis' = Analyse(e, m)
  /\ UNCHANGED <<retrieved, impact, risk, decision, approval, summary, errors>>

-----------------------------------------------------------------------------
(* Business impact. *)

\* The analysis' own citations, or everything retrieved when it has none.
Cited == IF analysis.citations # {} THEN analysis.citations ELSE Range(retrieved)

\* Without both values, an amount quoted in a chunk still makes the estimate
\* partial.
BusinessImpact ==
  /\ Completes("business_impact")
  /\ \E quoted \in (IF retrieved = <<>> THEN {FALSE} ELSE BOOLEAN) :
       impact' = [status |-> CASE analysis.reading.complete -> "estimated"
                               [] ~analysis.reading.complete /\ quoted -> "partial_estimate"
                               [] OTHER -> "insufficient_data",
                  lift |-> IF analysis.reading.complete
                           THEN ComputedLift(analysis.reading) ELSE "none",
                  citations |-> Cited,
                  confidence |-> analysis.confidence]
  /\ UNCHANGED <<retrieved, analysis, risk, decision, approval, summary, errors>>

-----------------------------------------------------------------------------
(* Risk assessment. *)

\* The lift the risk and decision agents read: the stored or computed
\* relative lift, or the computed one the impact section carries.
Lift ==
  CASE analysis.reading.complete /\ analysis.reading.storedLift # "none" ->
         analysis.reading.storedLift
    [] analysis.reading.complete /\ analysis.reading.storedLift = "none" ->
         ComputedLift(analysis.reading)
    [] OTHER -> impact.lift

\* The agents take the significance record's presence for significance: it is
\* there whenever a p-value is stored, whatever its is_significant says.
HasPValue == analysis.reading.pValue # "none"

Points(present, severity) == IF present THEN severity ELSE 0

LowConfidence ==
  \/ analysis.confidence = "low"
  \/ analysis.confidence # "high" /\ impact.confidence = "low"

\* The sum of the severity points (medium 2, high 3) of the factors found.
RiskScore ==
    Points(analysis.experiment = None /\ request.pinned = None, 2)
  + Points(~analysis.reading.named, 3)
  + Points(~analysis.reading.complete, 3)
  + Points(~HasPValue, 2)
  + Points(LowConfidence, 2)
  + Points(Lift \in {"negative", "none"}, 3)
  + Points(analysis.reading.guardrails = "worse", 2)
  + Points(retrieved = <<>>, 2)
  + Points(impact.status \in {"partial_estimate", "insufficient_data"}, 2)
  + 2 * analysis.reading.caveats

RiskLevel(score) == CASE score >= 3 -> "high" [] score = 0 -> "low" [] OTHER -> "medium"

RiskStatus ==
  IF analysis.status = "insufficient_data"
     \/ impact.status \in {"partial_estimate", "insufficient_data"}
  THEN "partial_assessment" ELSE "assessed"

RiskConfidence ==
  CASE RiskScore = 0 /\ analysis.confidence = "high" /\ impact.confidence = "high"
         /\ HasPValue /\ Cited # {} -> "high"
    [] RiskStatus = "partial_assessment" -> "low"
    [] OTHER -> "medium"

HasContext == \/ analysis.experiment # None \/ analysis.reading.named
              \/ retrieved # <<>> \/ request.pinned # None \/ request.hinted

RiskAssessment ==
  /\ Completes("risk_assessment")
  /\ risk' = IF HasContext
             THEN [status |-> RiskStatus, level |-> RiskLevel(RiskScore),
                   score |-> RiskScore,
                   guardrailConcern |-> analysis.reading.guardrails = "worse",
                   citations |-> Cited, confidence |-> RiskConfidence]
             ELSE [NoRisk EXCEPT !.status = "insufficient_data",
                                 !.citations = Cited]
  /\ UNCHANGED <<retrieved, analysis, impact, decision, approval, summary, errors>>

-----------------------------------------------------------------------------
(* Decision. *)

AllCitations ==
  analysis.citations \cup impact.citations \cup risk.citations \cup Range(retrieved)

NothingToDecideOn ==
  /\ analysis.status \in {"not_applicable", "insufficient_data"}
  /\ impact.status \in {"not_required", "insufficient_data"}
  /\ AllCitations = {}

BlockedUnlessRetrieval ==  \* mutant: a failed search is not an error to stop at
  errors \ {"retrieval"} # {}

Blocked == errors # {}

HarmfulGuardrails == risk.guardrailConcern \/ analysis.reading.guardrails = "worse"

Worsened ==
  \/ Lift = "negative"
  \/ analysis.reading.complete /\ analysis.reading.movement = "negative"

FavourableEither ==  \* mutant: one positive signal is enough
  Lift = "positive" \/ impact.lift = "positive"

Favourable == Lift = "positive" /\ impact.lift = "positive"

RequiredEvidence ==
  /\ analysis.status = "completed"
  /\ impact.status \notin {"not_required", "insufficient_data"}
  /\ risk.status \notin {"not_required", "insufficient_data"}
  /\ HasPValue
  /\ AllCitations # {}

NeedsMoreData ==
  \/ analysis.status # "completed"
  \/ impact.status \in {"partial_estimate", "insufficient_data"}
  \/ risk.status \in {"partial_assessment", "insufficient_data"}
  \/ risk.level = "unknown"
  \/ ~HasPValue

DecisionConfidenceOfAnalysis ==  \* mutant: only the analysis' confidence counts
  IF analysis.confidence = "high" THEN "high" ELSE "medium"

DecisionConfidence ==
  IF /\ analysis.confidence = "high" /\ impact.confidence = "high"
     /\ risk.confidence = "high" /\ risk.level = "low"
     /\ HasPValue /\ AllCitations # {}
  THEN "high" ELSE "medium"

\* A verdict a human has to approve; an outcome that recommends no change.
Decided(recommendation) ==
  [status |-> "decided", recommendation |-> recommendation,
   confidence |-> DecisionConfidence, approvalRequired |-> TRUE,
   citations |-> AllCitations]

Undecided(status, recommendation, confidence) ==
  [status |-> status, recommendation |-> recommendation,
   confidence |-> confidence, approvalRequired |-> FALSE,
   citations |-> AllCitations]

\* The decision table, first match wins.
Outcome ==
  IF Blocked THEN Undecided("blocked", "needs_more_data", "low")
  ELSE IF NothingToDecideOn
    THEN Undecided("insufficient_data", "needs_more_data", "unknown")
  ELSE IF HarmfulGuardrails THEN Decided("rollback")
  ELSE IF Worsened THEN Decided("do_not_rollout")
  ELSE IF ~RequiredEvidence \/ NeedsMoreData
    THEN Undecided("needs_more_data",
                   IF Favourable THEN "continue_experiment" ELSE "needs_more_data",
                   "low")
  ELSE IF Favourable /\ risk.level \in {"low", "medium"} THEN Decided("rollout")
  ELSE Undecided("needs_more_data", "needs_more_data", "low")

Decision ==
  /\ Completes("decision")
  /\ decision' = Outcome
  /\ UNCHANGED <<retrieved, analysis, impact, risk, approval, summary, errors>>

-----------------------------------------------------------------------------
(* Human approval: never waits, it only records what came with the request. *)

ApprovalAsGiven ==  \* mutant: the caller's status is not validated
  IF ~decision.approvalRequired THEN [status |-> "skipped", required |-> FALSE]
  ELSE [status |-> IF request.input # "absent" THEN request.input ELSE "pending",
        required |-> TRUE]

ApprovalByDefault ==  \* mutant: silence is consent
  IF ~decision.approvalRequired THEN [status |-> "skipped", required |-> FALSE]
  ELSE [status |-> IF request.input \in Verdicts THEN request.input ELSE "approved",
        required |-> TRUE]

Approval ==
  IF ~decision.approvalRequired THEN [status |-> "skipped", required |-> FALSE]
  ELSE [status |-> IF request.input \in Verdicts THEN request.input ELSE "pending",
        required |-> TRUE]

HumanApproval ==
  /\ Completes("human_approval")
  /\ approval' = Approval
  /\ errors' = IF request.input = "invalid"
               THEN errors \cup {"human_approval"} ELSE errors
  /\ UNCHANGED <<retrieved, analysis, impact, risk, decision, summary>>

-----------------------------------------------------------------------------
(* Executive summary. *)

SummaryCitations == AllCitations \cup decision.citations

NothingToReport ==
  /\ analysis.status \in {"not_applicable", "insufficient_data"}
  /\ impact.status \in {"not_required", "insufficient_data"}
  /\ risk.status \in {"not_required", "insufficient_data"}
  /\ decision.status \in {"not_required", "insufficient_data"}
  /\ SummaryCitations = {}

Partial ==
  \/ impact.status # "estimated"
  \/ risk.status # "assessed"
  \/ decision.status \in {"needs_more_data", "blocked", "insufficient_data"}
  \/ analysis.status # "completed"
  \/ errors # {}

UnapprovedIfRefused ==  \* mutant: a pending approval is not headlined
  approval.status \in {"rejected", "revision_requested"}

Unapproved == approval.status \in {"rejected", "revision_requested", "pending"}

\* The headline, first match wins; named after what its text says.
Headline ==
  IF Unapproved THEN approval.status
  ELSE IF approval.status = "approved" /\ decision.recommendation = "rollout"
    THEN "rollout_approved"
  ELSE IF \/ decision.status \in {"needs_more_data", "blocked", "insufficient_data"}
          \/ decision.recommendation \in {"continue_experiment", "needs_more_data"}
    THEN "not_ready"
  ELSE IF decision.recommendation \in {"do_not_rollout", "rollback", "rollout"}
    THEN decision.recommendation
  ELSE "generic"

Summary ==
  IF NothingToReport
  THEN [status |-> "insufficient_data", headline |-> "insufficient",
        recommendation |-> "needs_more_data"]
  ELSE [status |-> IF Partial THEN "partial_summary" ELSE "generated",
        headline |-> Headline,
        recommendation |-> decision.recommendation]

ExecutiveSummary ==
  /\ Completes("executive_summary")
  /\ summary' = Summary
  /\ UNCHANGED <<retrieved, analysis, impact, risk, decision, approval, errors>>

-----------------------------------------------------------------------------
SkipAgent == \E n \in Agents : Skip(n)
FailAgent == \E n \in Agents : Fail(n)

\* The graph has ended; the state is the answer.
Ended == pc = "done" /\ UNCHANGED vars

Next ==
  \/ Planner \/ SkipAgent \/ FailAgent
  \/ Retrieval \/ ExperimentAnalysis \/ BusinessImpact \/ RiskAssessment
  \/ Decision \/ HumanApproval \/ ExecutiveSummary
  \/ Ended

Spec == Init /\ [][Next]_vars

-----------------------------------------------------------------------------
Recommendations == {"unknown", "needs_more_data", "continue_experiment",
                    "rollout", "do_not_rollout", "rollback"}

AnalysisType == [status : {"not_applicable", "insufficient_data", "completed"},
                 experiment : Experiments \cup {None}, reading : Readings,
                 citations : SUBSET Experiments, confidence : Levels]
ImpactType == [status : {"not_required", "insufficient_data",
                         "partial_estimate", "estimated"},
               lift : Signs \cup {"none"}, citations : SUBSET Experiments,
               confidence : Levels]
RiskType == [status : {"not_required", "insufficient_data",
                       "partial_assessment", "assessed"},
             level : Levels \cup {"unknown"}, score : Nat,
             guardrailConcern : BOOLEAN, citations : SUBSET Experiments,
             confidence : Levels]
DecisionType == [status : {"not_required", "blocked", "insufficient_data",
                           "needs_more_data", "decided"},
                 recommendation : Recommendations,
                 confidence : Levels \cup {"unknown"},
                 approvalRequired : BOOLEAN, citations : SUBSET Experiments]
ApprovalType == [status : {"not_requested", "skipped", "pending"} \cup Verdicts,
                 required : BOOLEAN]
Headlines == {"none", "insufficient", "pending", "rollout_approved",
              "not_ready", "do_not_rollout", "rollback", "rollout", "generic"}
             \cup Verdicts
SummaryType == [status : {"not_required", "insufficient_data",
                          "partial_summary", "generated"},
                headline : Headlines, recommendation : Recommendations \cup {"none"}]

\* The shapes of the shared state's sections (packages/agents/state.py).
TypeOK ==
  /\ request \in Requests
  /\ pc \in {"planner", "done"} \cup Agents
  /\ required \in SUBSET Agents
  /\ retrieved \in Seq(Experiments)
  /\ analysis \in AnalysisType
  /\ impact \in ImpactType
  /\ risk \in RiskType
  /\ decision \in DecisionType
  /\ approval \in ApprovalType
  /\ summary \in SummaryType
  /\ errors \in SUBSET Agents

Upstream == {"retrieval", "experiment_analysis", "business_impact", "risk_assessment"}

\* A rollout is recommended only on evidence of one and the same experiment:
\* its two variants were compared and the treatment is better both by value
\* and by the lift the agents read, a p-value is stored, no guardrail got
\* worse, a cited chunk belongs to it, the impact was computed and not
\* quoted, at most one caveat was found, and no agent before the decision
\* failed (the decision agent's table over the sections of four agents).
RolloutIsEarned ==
  decision.recommendation = "rollout" =>
    /\ errors \cap Upstream = {}
    /\ analysis.status = "completed"
    /\ analysis.reading.movement = "positive" /\ Lift = "positive"
    /\ HasPValue /\ analysis.reading.guardrails # "worse"
    /\ analysis.experiment \in analysis.citations
    /\ impact.status = "estimated" /\ impact.lift = "positive"
    /\ risk.status = "assessed" /\ risk.score <= 2

\* A question pinned to a stored experiment is answered from that experiment
\* only, whatever the search ranks and whatever hints the question contains:
\* no chunk, no analysis and no citation of another one reaches the answer.
ScopeKept ==
  request.pinned \in Stored =>
    /\ analysis.experiment \in {None, request.pinned}
    /\ Range(retrieved) \cup SummaryCitations \subseteq {request.pinned}

\* A failure before the decision is never argued away downstream: no decision
\* is made, no approval is asked for, and no summary reads as complete.
UpstreamErrorBlocks ==
  errors \cap Upstream # {} =>
    /\ decision.status \in {"not_required", "blocked"}
    /\ approval.status \in {"not_requested", "skipped"}
    /\ summary.status # "generated"
    /\ summary.headline \in {"none", "insufficient", "not_ready", "generic"}

\* The headline never implies a consent that was not given: it announces an
\* approved rollout only when the decision is a rollout and the caller sent
\* an approval, and shows every other state of a required approval.
HeadlineTellsApproval ==
  /\ summary.headline = "rollout_approved" =>
       decision.recommendation = "rollout" /\ request.input = "approved"
  /\ summary.headline \in Verdicts => request.input = summary.headline
  /\ summary.status # "not_required" /\ approval.required
       /\ request.input # "approved" => summary.headline = approval.status
  /\ summary.headline # "rollout"

\* A decision with high confidence rests on a clean record: nothing the risk
\* agent scores was found, guardrails were measured, the experiment's own
\* chunks are cited; it is never a rollback, and never one for an experiment
\* whose stored and computed lifts disagree unless it says do not roll out.
HighConfidenceIsClean ==
  decision.confidence = "high" =>
    /\ risk.status = "assessed" /\ risk.score = 0
    /\ analysis.reading.guardrails = "fine" /\ analysis.reading.caveats = 0
    /\ analysis.experiment \in analysis.citations
    /\ decision.recommendation # "rollback"
    /\ decision.recommendation = "rollout" => impact.lift = Lift

\* The workflow seen as the governance of a proposal.  A failed summary
\* announces nothing; a headline of a run without a decided action is
\* "no_action" whatever its text.
Governance == INSTANCE RolloutGovernance WITH
  answer    <- IF request.input \in Verdicts THEN request.input ELSE "silent",
  proposal  <- CASE decision.status = "not_required" -> "none"
                 [] decision.status = "decided" -> decision.recommendation
                 [] OTHER -> "hold",
  consent   <- IF approval.status = "not_requested" THEN "none" ELSE approval.status,
  announced <- IF summary.headline \in {"insufficient", "not_ready", "generic"}
               THEN "no_action" ELSE summary.headline

\* The agents implement that governance: every step of the run makes one
\* proposal, records one consent, announces, or changes none of the three.
ImplementsGovernance == Governance!Spec

\* The decision agent itself says that statistical support is to be established
\* before a rollout, and lists a missing "statistical_significance" among the
\* reasons against one: a rollout rests on a significant p-value.
RolloutIsSignificant ==
  decision.recommendation = "rollout" => analysis.reading.pValue = "significant"

\* The retrieval design has the agent pass the planner's filters to the search
\* as a metadata filter because this "keeps the Retrieval Agent compatible
\* with the current planner output": a search about stored experiments can
\* find their chunks.
FiltersMatchChunks ==
  pc = "retrieval" /\ "retrieval" \in required
    /\ Stored # {} /\ request.pinned \in Stored \cup {None} => Searchable # {}
=============================================================================
