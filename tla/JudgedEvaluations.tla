-------------------------- MODULE JudgedEvaluations --------------------------
(***************************************************************************)
(* The evaluations that score answers metric by metric: RAGAS              *)
(* (run_ragas.py, ragas_adapter.py), DeepEval (run_deepeval.py,            *)
(* deepeval_adapter.py) and the comparison of two versions of a prompt     *)
(* (prompt_regression.py, run_prompt_regression.py).                       *)
(*                                                                         *)
(* A judge is a model outside the program: a function that gives for a     *)
(* metric either None (the call raised) or a score per case, None where    *)
(* it has none.  Offline there is no judge.                                *)
(***************************************************************************)
EXTENDS AnswerEvaluations

(***************************************************************************)
(* RAGAS.  Two metrics compare identifiers and need no model; the others   *)
(* are skipped without one.                                                *)
(***************************************************************************)
RagasJudgeMetrics == {"context_precision", "context_recall", "faithfulness", "answer_relevancy"}

IdPrecision(sample) ==
  Share(Cardinality(sample.response.retrieved \cap sample.question.documents),
        Cardinality(sample.response.retrieved))
IdRecall(sample) ==
  Share(Cardinality(sample.response.retrieved \cap sample.question.documents),
        Cardinality(sample.question.documents))

RagasResult(name, status, average) == [name |-> name, status |-> status, average |-> average]

\* A question that raised is excluded, not scored.
OfflineRagas(name, eligible, score) ==
  IF eligible = {} THEN RagasResult(name, "skipped", None)
  ELSE RagasResult(name, "computed", Number(Average(score)))

\* A judge that gives no score at all still counts as computed, with no average.
JudgedRagas(name, eligible, judge) ==
  IF judge = None \/ eligible = {} THEN RagasResult(name, "skipped", None)
  ELSE IF judge[name] = None THEN RagasResult(name, "failed", None)
  ELSE LET scored == {i \in DOMAIN judge[name] : judge[name][i] # None}
       IN RagasResult(name, "computed",
                      IF scored = {} THEN None
                      ELSE Number(Average([i \in scored |-> judge[name][i]])))

RagasReport(samples, judge) ==
  LET eligible == Answered(samples)
  IN [metric_results |->
        {OfflineRagas("id_based_context_precision", eligible,
                      [i \in eligible |-> IdPrecision(samples[i])]),
         OfflineRagas("id_based_context_recall", eligible,
                      [i \in eligible |-> IdRecall(samples[i])])}
          \cup {JudgedRagas(name, eligible, judge) : name \in RagasJudgeMetrics}]

(***************************************************************************)
(* DeepEval.  A prepared case holds what the metrics look at: the citation *)
(* coverage, whether there is an answer and evidence, what a workflow case *)
(* expected and saw.                                                       *)
(***************************************************************************)
\* A question that raised is kept here, with nothing answered.
PreparedQuestion(sample) ==
  LET answered == sample.response # None
  IN [coverage |-> IF answered THEN CitationCoverage(sample.question, sample.response) ELSE 0,
      text |-> answered, evidence |-> answered /\ sample.response.chunks # {},
      code |-> 200, expected_code |-> 200, raised |-> ~answered,
      needs_citation |-> sample.question.citation_required,
      cited |-> answered /\ sample.response.chunks # {},
      agent |-> FALSE, legacy |-> FALSE, intent |-> None, plain |-> TRUE,
      detail |-> None, expected_detail |-> None]

PreparedRequest(sample) ==
  LET r == sample.response
      c == sample.case
  IN [coverage |-> EnoughCited(c, r),
      text |-> r.text, evidence |-> r.citations > 0,
      code |-> r.code, expected_code |-> c.code, raised |-> r.code # 200 /\ r.detail # None,
      needs_citation |-> c.citations > 0, cited |-> r.citations > 0,
      agent |-> UsedAgentWorkflow(c, r), legacy |-> UsedLegacyFallback(c, r),
      intent |-> r.intent,
      plain |-> /\ r.intent = None
                /\ r.decision = None \/ r.decision.status \in {None, ""}
                /\ r.summary \in {None, ""},
      detail |-> r.detail, expected_detail |-> c.detail]

Compatible(case) == case.legacy /\ case.plain

\* The fields a complete answer has are counted; nothing is asked of an error.
FieldCompleteness(case) ==
  LET asked == [text |-> TRUE, cited |-> case.needs_citation, intent |-> case.agent,
                compatible |-> case.legacy]
      given == [text |-> case.text, cited |-> case.cited, intent |-> case.intent # None,
                compatible |-> Compatible(case)]
      of == {f \in DOMAIN asked : asked[f]}
  IN Share(Cardinality({f \in of : given[f]}), Cardinality(of))

ErrorCorrect(case) ==
  /\ case.code = case.expected_code
  /\ ~Differs(case.expected_detail, case.detail)
  /\ case.expected_code = 200 \/ case.detail # None

\* The deterministic scores of a response; a metric that does not apply is left out.
ResponseScores(case) ==
  [m \in {"citation_coverage"}
           \cup (IF case.expected_code = 200 THEN {"response_field_completeness"} ELSE {})
           \cup (IF case.expected_code # 200 \/ case.raised
                 THEN {"error_state_correctness"} ELSE {})
           \cup (IF case.legacy THEN {"fallback_compatibility"} ELSE {}) |->
     CASE m = "citation_coverage" -> case.coverage
       [] m = "response_field_completeness" -> FieldCompleteness(case)
       [] m = "error_state_correctness" -> Truth(ErrorCorrect(case))
       [] OTHER -> Truth(Compatible(case))]

\* The scores of a workflow case; one that raised has nothing to show.
WorkflowScores(sample) ==
  LET case == sample.case
      seen == sample.observation
      ran == seen # None
      expected == [decision_status_match |-> case.decision, approval_status_match |-> case.approval,
                   summary_status_match |-> case.summary]
      shown == [decision_status_match |-> ran /\ seen.decision = case.decision,
                approval_status_match |-> ran /\ seen.approval = case.approval,
                summary_status_match |-> ran /\ seen.summary = case.summary]
      always == {"citation_coverage", "routing_accuracy", "trace_completeness"}
  IN [m \in always \cup {x \in DOMAIN expected : expected[x] # None}
              \cup (IF case.guarded THEN {"unsupported_claim_avoidance"} ELSE {}) |->
        CASE m \in always /\ ~ran -> 0
          [] m = "citation_coverage" /\ ran -> EnoughCitations(case.citations, seen.citations)
          [] m = "routing_accuracy" /\ ran -> RoutingAccuracy(case.agents, seen.agents)
          [] m = "trace_completeness" /\ ran -> seen.trace
          [] m \in DOMAIN expected -> Truth(shown[m])
          [] m = "unsupported_claim_avoidance" -> Truth(~sample.claims)]

DeepevalJudgeMetrics ==
  {"answer_relevancy", "faithfulness", "hallucination", "contextual_relevancy"}

\* What a judge is not asked: an answer that is missing, or evidence that is.
JudgeSkips(metric, case) ==
  \/ ~case.text
  \/ metric # "answer_relevancy" /\ ~case.evidence

DeepevalScore(sample, metric, skipped, score) ==
  [sample |-> sample, metric |-> metric, skipped |-> skipped, score |-> score]

JudgedDeepeval(id, case, metric, judge) ==
  IF judge = None \/ JudgeSkips(metric, case) THEN DeepevalScore(id, metric, TRUE, None)
  ELSE DeepevalScore(id, metric, FALSE, IF judge[metric] = None THEN None ELSE judge[metric][id])

\* A request that raises ends this evaluation too.
DeepevalReport(questions, requests, workflows, judge) ==
  LET asked == {<<"question", i>> : i \in DOMAIN questions}
                 \cup {<<"request", i>> : i \in DOMAIN requests}
      responses == [id \in asked |->
                      IF id[1] = "question" THEN PreparedQuestion(questions[id[2]])
                      ELSE PreparedRequest(requests[id[2]])]
      scores == [id \in asked \cup {<<"workflow", i>> : i \in DOMAIN workflows} |->
                   IF id[1] = "workflow" THEN WorkflowScores(workflows[id[2]])
                   ELSE ResponseScores(responses[id])]
  IN IF \E i \in DOMAIN requests : requests[i].response = None THEN None
     ELSE [metric_results |->
             (UNION {{DeepevalScore(id, m, FALSE, scores[id][m]) : m \in DOMAIN scores[id]} :
                       id \in DOMAIN scores})
               \cup UNION {{JudgedDeepeval(id, responses[id], m, judge) :
                              m \in DeepevalJudgeMetrics} : id \in asked}]

(***************************************************************************)
(* Two versions of a prompt.  What the baseline retrieved is recorded and  *)
(* replayed to the candidate, so that only the prompt differs; a retrieval *)
(* that failed was not recorded, and its replay fails too.  A sample has   *)
(* the retrieval of the baseline and, per version, the output of the model *)
(* or None.                                                                *)
(***************************************************************************)
Versions == {"baseline", "candidate"}

Output(sample, version) == IF sample.retrieved THEN sample[version] ELSE None

\* Keywords and documents are looked for in the text of the answer.
Found(expected, words) ==
  IF expected = {} THEN 1000 ELSE Share(Cardinality(expected \cap words), Cardinality(expected))

AnswerScores(question, output) ==
  LET made == output # None
      words == IF made THEN output.words ELSE {}
  IN [prompt_rendering_success |-> Truth(made),
      answer_generated |-> Truth(made /\ output.text),
      keyword_coverage |-> Found(question.keywords, words),
      document_reference_coverage |-> Found(question.documents, words),
      citation_coverage |-> IF made THEN CitationCoverage(question, output) ELSE 0,
      retrieval_consistency |-> 1000,
      forbidden_hallucination_markers |-> Truth(~made \/ ~output.markers)]

\* The legacy path of the endpoint: an error body is still a body.
LegacyAskScores(output) ==
  LET made == output # None
  IN [prompt_rendering_success |-> Truth(made),
      answer_generated |-> Truth(made /\ output.text),
      legacy_fallback_compatibility |-> Truth(~made \/ output.plain),
      structured_output_validity |-> Truth(made /\ output.structured),
      document_reference_coverage |->
        IF made THEN Found(output.citations, output.words) ELSE 1000,
      forbidden_hallucination_markers |-> Truth(~made \/ ~output.markers)]

\* A case in which one version raised makes its retrieval differ from the other's.
CaseScores(sample) ==
  LET of(version) ==
        IF sample.ask THEN LegacyAskScores(Output(sample, version))
        ELSE AnswerScores(sample.question, Output(sample, version))
      same == (Output(sample, "baseline") = None) = (Output(sample, "candidate") = None)
  IN [version \in Versions |->
        IF sample.ask THEN of(version)
        ELSE [of(version) EXCEPT !.retrieval_consistency = Truth(same)]]

Regressed(scores) ==
  \E m \in DOMAIN scores["baseline"] : scores["candidate"][m] < scores["baseline"][m]

\* A case fails when either version of the prompt raised, whatever the scores.
CaseFails(sample) == \E version \in Versions : Output(sample, version) = None

PromptComparison(name, cases) ==
  LET of == {i \in DOMAIN cases : name \in DOMAIN cases[i]["baseline"]}
      average(version) == Average([i \in of |-> cases[i][version][name]])
  IN [name |-> name, baseline |-> Number(average("baseline")),
      candidate |-> Number(average("candidate")),
      delta |-> Number(average("candidate") - average("baseline"))]

PromptRegressionReport(samples) ==
  LET cases == [i \in DOMAIN samples |-> CaseScores(samples[i])]
      regressed == {i \in DOMAIN samples : Regressed(cases[i])}
      failed == {i \in DOMAIN samples : CaseFails(samples[i])}
  IN [summary |-> [cases_run |-> Len(samples), regressions |-> Cardinality(regressed),
                   failures |-> Cardinality(failed), passed |-> regressed \cup failed = {}],
      metrics |-> {PromptComparison(name, cases) :
                     name \in UNION {DOMAIN cases[i]["baseline"] : i \in DOMAIN cases}}]
=============================================================================
