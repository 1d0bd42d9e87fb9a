--------------------------- MODULE AnswerEvaluations ---------------------------
(***************************************************************************)
(* The evaluations of the two answer paths: questions to the legacy RAG    *)
(* service (evaluator.py, metrics.py), cases run by the agent workflow     *)
(* (agent_evaluator.py, agent_metrics.py) and cases sent to the /ask       *)
(* endpoint (agent_e2e.py).  Each takes what the program answered, None    *)
(* when it raised, and gives the report the quality policy reads.          *)
(***************************************************************************)
EXTENDS ReportMetrics

\* The average of some values, each at its index; of nothing it is nothing.
Average(values) ==
  IF DOMAIN values = {} THEN 0 ELSE SumFunction(values) \div Cardinality(DOMAIN values)

Share(part, whole) == IF whole = 0 THEN 0 ELSE (1000 * part) \div whole
Truth(b) == IF b THEN 1000 ELSE 0
Least(a, b) == IF a < b THEN a ELSE b

(***************************************************************************)
(* Questions.  A sample is [question, response]; a response has the        *)
(* documents it cites and the chunks it was given, as sets of words.       *)
(***************************************************************************)
CitationCoverage(question, response) ==
  Share(Cardinality(question.documents \cap response.citations), Cardinality(question.documents))

RetrievalSuccess(question, response) ==
  /\ response.chunks # {}
  /\ \/ CitationCoverage(question, response) > 0
     \/ question.keywords \cap UNION response.chunks # {}

\* A rate as the report shows it: a percentage with one decimal.
Percent(values) ==
  LET n == Cardinality(DOMAIN values)
  IN IF n = 0 THEN 0 ELSE (2 * SumFunction(values) + n) \div (2 * n)

\* A question that raised has no metrics and is left out of every average.
Answered(samples) == {i \in DOMAIN samples : samples[i].response # None}

RagReport(samples) ==
  LET of == Answered(samples)
  IN [questions_evaluated |-> Cardinality(of),
      retrieval_success_rate |->
        Percent([i \in of |-> Truth(RetrievalSuccess(samples[i].question, samples[i].response))]),
      average_citation_coverage |->
        Percent([i \in of |-> CitationCoverage(samples[i].question, samples[i].response)]),
      average_retrieval_latency_ms |-> Average([i \in of |-> samples[i].response.retrieval_ms]),
      average_llm_latency_ms |-> Average([i \in of |-> samples[i].response.llm_ms])]

(***************************************************************************)
(* Agent cases.  A sample is [case, observation, answer]; the answer is    *)
(* the analysis of the response when the case is an analysis case.         *)
(***************************************************************************)
RoutingAccuracy(expected, actual) ==
  IF expected \cup actual = {} THEN 1000
  ELSE Share(Cardinality(expected \cap actual), Cardinality(expected \cup actual))

EnoughCitations(expected, actual) ==
  IF expected \in {None, 0} \/ actual >= expected THEN 1000 ELSE Share(actual, expected)

\* What a case expects and does not say is not compared.
Differs(expected, actual) == expected # None /\ expected # actual

FailureReasons(case, seen) ==
  LET reasons ==
        [intent |-> seen.intent # case.intent,
         routing |-> RoutingAccuracy(case.agents, seen.agents) < 1000,
         citations |-> EnoughCitations(case.citations, seen.citations) < 1000,
         decision |-> Differs(case.decision, seen.decision),
         recommendation |-> Differs(case.recommendation, seen.recommendation),
         approval |-> Differs(case.approval, seen.approval),
         summary |-> Differs(case.summary, seen.summary),
         workflow |-> ~seen.success]
  IN {r \in DOMAIN reasons : reasons[r]}

ChecksFailed(checks) == {c \in DOMAIN checks : checks[c].status = "fail"}

SampleChecks(sample) ==
  IF sample.case.analysis = None \/ sample.observation = None THEN <<>>
  ELSE AnalysisChecks(sample.case.analysis, sample.answer)

\* An analysis case that fails a check has not succeeded either.
SampleMetrics(sample) ==
  LET reasons == FailureReasons(sample.case, sample.observation)
                   \cup ChecksFailed(SampleChecks(sample))
  IN [passed |-> reasons = {},
      success |-> IF sample.case.analysis = None THEN sample.observation.success
                  ELSE reasons = {},
      intent |-> Truth(sample.observation.intent = sample.case.intent),
      routing |-> RoutingAccuracy(sample.case.agents, sample.observation.agents),
      citations |-> EnoughCitations(sample.case.citations, sample.observation.citations),
      trace |-> sample.observation.trace,
      latency |-> sample.observation.latency_ms,
      tool_failures |-> sample.observation.tool_failures,
      recommendation |->
        IF sample.case.recommendation = None THEN None
        ELSE Truth(sample.observation.recommendation = sample.case.recommendation)]

NamedSamples(samples, checks) ==
  [i \in DOMAIN samples |->
     [identity |-> IF samples[i].case.analysis = None THEN None ELSE samples[i].case.analysis.id,
      checks |-> checks[i]]]

\* Cases that raised count as failed, unless every one did: then nothing is
\* counted at all.
AgentSummary(samples) ==
  LET run == {i \in DOMAIN samples : samples[i].observation # None}
      metrics == [i \in run |-> SampleMetrics(samples[i])]
      rated == {i \in run : metrics[i].recommendation # None}
      averaged(field, over) == Average([i \in over |-> metrics[i][field]])
      count == IF run = {} THEN 0 ELSE Len(samples)
      passed == Cardinality({i \in run : metrics[i].passed})
  IN [sample_count |-> Count(count), pass_count |-> Count(passed),
      fail_count |-> Count(count - passed),
      workflow_success_rate |->
        Number(Average([i \in run |-> Truth(metrics[i].success)])),
      average_workflow_latency_ms |-> Count(averaged("latency", run)),
      average_trace_completeness |-> Number(averaged("trace", run)),
      planner_intent_accuracy |-> Number(averaged("intent", run)),
      routing_accuracy |-> Number(averaged("routing", run)),
      citation_coverage |-> Number(averaged("citations", run)),
      recommendation_coverage |-> Number(averaged("recommendation", rated)),
      total_tool_failures |->
        Count(SumFunction([i \in run |-> metrics[i].tool_failures]))]

AgentReport(samples) ==
  [summary |-> AgentSummary(samples),
   samples |-> NamedSamples(samples, [i \in DOMAIN samples |-> SampleChecks(samples[i])])]

(***************************************************************************)
(* Requests to the endpoint.  A sample is [case, response]; the mode of a  *)
(* case is the configured path, and the services of the other path fail    *)
(* when they are called.                                                   *)
(***************************************************************************)
UsedAgentWorkflow(case, response) ==
  /\ case.mode = "agent_workflow"
  /\ IF response.code = 200
     THEN response.model = "agent-workflow" /\ response.intent # None
     ELSE response.detail # None /\ response.detail = case.detail

UsedLegacyFallback(case, response) ==
  /\ case.mode = "legacy_rag" /\ response.code = 200
  /\ response.model # "agent-workflow"
  /\ response.intent = None /\ response.decision = None /\ response.summary = None

Unmade == {"", "not_required"}
HasDecision(response) ==
  response.decision # None /\ response.decision.status \notin Unmade \cup {"unknown"}
HasSummary(response) == response.summary # None /\ response.summary \notin Unmade

\* The nodes that were finished, in the order in which they were.
FinishedNodes(trace) ==
  LET finished == SelectSeq(trace, LAMBDA e : e.event \in {"planned", "completed", "skipped"})
  IN [i \in DOMAIN finished |-> finished[i].node]

LegacyFailures(response) ==
  LET reasons == [intent |-> response.intent # None, decision |-> response.decision # None,
                  summary |-> response.summary # None, trace |-> response.trace # <<>>,
                  metrics |-> response.metrics # {}]
  IN {r \in DOMAIN reasons : reasons[r]}

WorkflowMetricNames ==
  {"experiment_analysis", "business_impact", "risk_assessment", "decision", "human_approval",
   "executive_summary", "retrieval"}

AgentFailures(case, response) ==
  LET reasons ==
        [intent |-> Differs(case.intent, response.intent),
         routing |-> case.agents # <<>> /\ response.agents # case.agents,
         citations |-> response.citations < case.citations,
         decision |-> case.expect_decision
                        /\ (~HasDecision(response)
                              \/ Differs(case.decision, response.decision.status)),
         recommendation |-> case.expect_decision /\ response.decision # None
                              /\ Differs(case.recommendation, response.decision.recommendation),
         summary |-> case.expect_summary
                       /\ (~HasSummary(response) \/ Differs(case.summary, response.summary)),
         approval |-> Differs(case.approval, response.approval),
         trace |-> case.expect_trace
                     /\ (response.trace = <<>>
                           \/ (case.nodes # <<>> /\ FinishedNodes(response.trace) # case.nodes)),
         metrics |-> case.expect_metrics /\ ~(WorkflowMetricNames \subseteq response.metrics)]
  IN {r \in DOMAIN reasons : reasons[r]}

ValidateSample(case, response) ==
  (IF response.code = case.code THEN {} ELSE {"code"})
    \cup (IF \/ case.mode = "agent_workflow" /\ ~UsedAgentWorkflow(case, response)
             \/ case.mode = "legacy_rag" /\ ~UsedLegacyFallback(case, response)
          THEN {"route"} ELSE {})
    \cup (IF response.code # 200
          THEN IF Differs(case.detail, response.detail) THEN {"detail"} ELSE {}
          ELSE IF case.mode = "legacy_rag" THEN LegacyFailures(response)
          ELSE AgentFailures(case, response))

EndpointChecks(sample) ==
  IF sample.case.analysis = None THEN <<>>
  ELSE AnalysisChecks(sample.case.analysis,
                      IF sample.response.code = 200 THEN sample.response.answer ELSE None)

\* What a case does not ask for counts as found.
EnoughCited(case, response) ==
  IF case.citations = 0 THEN 1000 ELSE Least(Share(response.citations, case.citations), 1000)

EndpointSummary(samples) ==
  LET of == DOMAIN samples
      passed == {i \in of : /\ ValidateSample(samples[i].case, samples[i].response) = {}
                            /\ ChecksFailed(EndpointChecks(samples[i])) = {}}
      moded(m) == {i \in of : samples[i].case.mode = m}
      succeeded == {i \in of : samples[i].response.code = 200}
      share(part, whole) == Number(Share(Cardinality(part \cap whole), Cardinality(whole)))
      deciding == {i \in succeeded : samples[i].case.expect_decision}
      summarizing == {i \in succeeded : samples[i].case.expect_summary}
      approving == {i \in succeeded : samples[i].case.approval # None}
  IN [sample_count |-> Count(Len(samples)), pass_count |-> Count(Cardinality(passed)),
      fail_count |-> Count(Len(samples) - Cardinality(passed)),
      default_agent_workflow_coverage |->
        share({i \in of : UsedAgentWorkflow(samples[i].case, samples[i].response)},
              moded("agent_workflow")),
      legacy_fallback_coverage |->
        share({i \in of : UsedLegacyFallback(samples[i].case, samples[i].response)},
              moded("legacy_rag")),
      intent_accuracy |->
        share({i \in of : ~Differs(samples[i].case.intent, samples[i].response.intent)}, succeeded),
      citation_coverage |->
        Number(Average([i \in succeeded |-> EnoughCited(samples[i].case, samples[i].response)])),
      routing_accuracy |->
        share({i \in of : samples[i].case.agents \in {<<>>, samples[i].response.agents}},
              succeeded),
      decision_coverage |-> share({i \in of : HasDecision(samples[i].response)}, deciding),
      executive_summary_coverage |->
        share({i \in of : HasSummary(samples[i].response)}, summarizing),
      approval_status_coverage |->
        share({i \in of : samples[i].response.approval = samples[i].case.approval}, approving),
      average_latency_ms |-> Count(Average([i \in of |-> samples[i].response.latency_ms]))]

\* A request that raises ends the evaluation: there is no report then.
EndpointReport(samples) ==
  IF \E i \in DOMAIN samples : samples[i].response = None THEN None
  ELSE [summary |-> EndpointSummary(samples),
        samples |-> NamedSamples(samples, [i \in DOMAIN samples |-> EndpointChecks(samples[i])])]
=============================================================================
