---------------------------- MODULE MCQualityGate ----------------------------
(***************************************************************************)
(* A small dataset of every kind, the policy that is shipped, one sound    *)
(* revision and revisions that each change one answer, one setting or one  *)
(* command.  A root is used for one revision, or for a second one with     *)
(* what the first has left there.                                          *)
(***************************************************************************)
EXTENDS QualityGate

CONSTANTS W_sound, W_warned, W_raising, W_unrepeatable, W_fabricated, W_misrouted, W_failing,
          W_drifting, W_altered, W_estimated, W_unguarded, W_unseeded, W_exporting

MCWorlds == {W_sound, W_warned, W_raising, W_unrepeatable, W_fabricated, W_misrouted, W_failing,
             W_drifting, W_altered, W_estimated, W_unguarded, W_unseeded, W_exporting}
MCRevisions ==
  {<<w>> : w \in MCWorlds}
    \cup {<<W_sound, W_failing>>, <<W_misrouted, W_sound>>}

(***************************************************************************)
(* Workflow cases: an estimate, a refusal that must not estimate, and one  *)
(* of an optional package.                                                 *)
(***************************************************************************)
Interval(lower, upper) ==
  [lower |-> Number(lower), upper |-> Number(upper), level |-> 950, kind |-> "confidence_interval"]
Shared == [assumptions |-> Listed({"random_assignment"}), diagnostics |-> Listed({}),
           provenance |-> Listed({"dataset"}), estimand |-> Text("average"),
           evidence_limitations |-> Listed({})]
Estimated(path) == [p \in {path} |-> Estimate(Number(500), Interval(400, 600))] @@ Shared
Refused(reason) == [abstention_reason |-> Text(reason)] @@ Shared

WorkflowCaseOf(id, method, case_status, package, reference) ==
  [id |-> id, identity |-> <<"experiment", id>>, family |-> method, method |-> method,
   status |-> case_status, package |-> package, control |-> None, refusal |-> None,
   business |-> None, reference |-> reference,
   numerical |-> IF case_status = "completed"
                 THEN {[path |-> CHOOSE p \in DOMAIN reference : p \notin DOMAIN Shared,
                        value |-> 500, tolerance |-> 5]}
                 ELSE {},
   required |-> {"provenance"}, forbidden |-> {}, calls |-> {}]
RandomizedCase ==
  WorkflowCaseOf("randomized", "randomized_fixed_horizon", "completed", None,
                 Estimated("test_result"))
RefusedCase ==
  WorkflowCaseOf("dml-post-treatment", "dml", "abstained", None, Refused("post_treatment"))
OptionalCase ==
  WorkflowCaseOf("econml", "econml_dml", "completed", "econml", Estimated("inference"))
MCWorkflowCases == {RandomizedCase, RefusedCase, OptionalCase}

AnswerOf(case) ==
  [method |-> case.method, status |-> case.status, evidence |-> case.reference,
   abstention |-> IF case.status = "completed" THEN None ELSE "reason", diagnostics |-> {},
   business |-> None, grounded |-> TRUE, leaves |-> {<<"method", "text">>}]

Span(name, parent, method, children) ==
  [name |-> name, parent |-> parent, trace |-> "t", ended |-> TRUE, method |-> method,
   children |-> children]
SpansOf(method) ==
  [request |-> Span("ask_request", None, None, <<"workflow", "response">>),
   workflow |-> Span("workflow", "request", None, <<"analysis">>),
   response |-> Span("response_serialization", "request", None, <<>>),
   analysis |-> Span("analysis", "workflow", None, <<"validation", "estimator">>),
   validation |-> Span("validation", "analysis", None, <<>>),
   estimator |-> Span("estimator", "analysis", method, <<>>)]

RunOf(answer) ==
  [answer |-> answer, state |-> answer, code |-> 200, reasons |-> {},
   calls |-> [dml |-> 0, ipw |-> 0, business |-> 0], spans |-> SpansOf(answer.method),
   roots |-> <<"request">>, leaves |-> {<<"status", "text">>}, dropped |-> 0]
Twice(run) == <<run, run>>

MCInjectionSpecs ==
  {[id |-> "status", case |-> RandomizedCase, part |-> "status", path |-> None,
    value |-> "abstained"],
   [id |-> "estimand", case |-> RandomizedCase, part |-> "evidence", path |-> "estimand",
    value |-> Text("other")],
   [id |-> "native", case |-> RandomizedCase, part |-> "native", path |-> None, value |-> None]}

Installed == [p \in {"econml"} |-> [state |-> "installed", versioned |-> TRUE]]
NotInstalled == [p \in {"econml"} |-> [state |-> "unavailable", versioned |-> FALSE]]
Suite ==
  [packages |-> Installed, cases |-> MCWorkflowCases, injections |-> MCInjectionSpecs,
   provider |-> RandomizedCase,
   runs |->
     [id \in {c.id : c \in MCWorkflowCases} |-> Twice(RunOf(AnswerOf(CaseNamed(id))))]
       @@ [id \in {"status", "estimand"} |-> Twice(RunOf(AnswerOf(RandomizedCase)))]
       @@ [id \in {"native"} |->
             Twice(RunOf([AnswerOf(RandomizedCase) EXCEPT !.status = "failed", !.evidence = None,
                                                          !.abstention = "reason"]))]
       @@ [id \in {"export-failure"} |->
             Twice([RunOf(AnswerOf(RandomizedCase)) EXCEPT !.dropped = 1])],
   old |-> [legacy |-> [passed |-> TRUE, analysis |-> FALSE], retrievals |-> 1,
            samples |-> 2, failed |-> 0,
            ask |-> [passed |-> TRUE, analysis |-> FALSE, traced |-> TRUE],
            registry_valid |-> TRUE, guarded |-> TRUE,
            findings |-> {"fabricated_revenue_or_roi"}]]

(***************************************************************************)
(* Reference cases: four native ones and two implementations of one        *)
(* cross-fitted estimate.                                                  *)
(***************************************************************************)
ReferenceCase(id, capability, category, case_status, case_reason) ==
  [id |-> id, capability |-> capability, category |-> category, declared |-> <<>>,
   expected_status |-> case_status, method |-> None,
   expected |-> IF case_status = "completed"
                THEN {[path |-> "point", value |-> Number(500), tolerance |-> 5]} ELSE {},
   diagnostics |-> {}, advisories |-> {}, abstains |-> case_status = "abstained",
   reason |-> case_reason, assumptions |-> {}, estimand |-> "average", population |-> "all",
   coverage |-> None, advanced |-> None]
Advanced(id, package, adapter) ==
  [advanced |-> [capability |-> [id |-> id, adapter |-> adapter, method |-> "dml",
                                 package |-> package],
                 scenario |-> "success", seed |-> 7, controlled |-> FALSE],
   source_estimand |-> "average", request |-> "request", configuration |-> "configuration",
   assignment |-> None, group_counts |-> None, seed_matters |-> TRUE, signature |-> "average"]
     @@ ReferenceCase(id, "advanced_causal", "reference", "completed", None)

Cases == {ReferenceCase("difference", "randomized_continuous", "reference", "completed", None),
          ReferenceCase("lift", "randomized_continuous", "reference", "completed", None),
          ReferenceCase("early_look", "sequential", "abstention", "abstained", "too_early"),
          ReferenceCase("second_look", "sequential", "abstention", "abstained", "too_early"),
          Advanced("repository_dml", None, "repository"),
          Advanced("econml_dml", "econml", "econml")}
MCFixtures ==
  {[id |-> c.id, capability |-> c.capability, category |-> c.category, declared |-> c.declared,
    expected_status |-> c.expected_status,
    advanced |-> IF c.advanced = None THEN None
                 ELSE [capability |-> c.advanced.capability.id,
                       package |-> c.advanced.capability.package, controlled |-> FALSE]] :
     c \in Cases}

NativeOutcome ==
  [status |-> "completed", method |-> "welch", reason |-> None, diagnostics |-> <<>>,
   warnings |-> <<>>, assumptions |-> {},
   values |-> [point |-> Number(500), standard_error |-> Number(50), p_value |-> Number(10),
               interval |-> Interval(400, 600), level |-> Number(950)],
   parts |-> {"method", "estimand", "treatment_count", "control_count"}, telemetry |-> {},
   estimand |-> None, population |-> None, formula |-> None, configured |-> {},
   recorded |-> {}, weighted |-> FALSE, plan_integrity |-> "valid"]
EarlyLook == [NativeOutcome EXCEPT !.status = "abstain", !.reason = "too_early",
                                   !.values = <<>>, !.parts = {}]

Plan == [folds |-> <<{1, 2}, {3}>>, seed |-> 7, sound |-> TRUE]
Fitted(k) == [train |-> Cardinality(RowsOf(Plan) \ Plan.folds[k]),
              score |-> Cardinality(Plan.folds[k]), converged |-> TRUE]
Calls == [role \in Roles |-> <<[train |-> <<3>>, score |-> <<1, 2>>],
                               [train |-> <<1, 2>>, score |-> <<3>>]>>]
AdvancedResult(adapter) ==
  [boundary |-> {}, valid |-> TRUE, status |-> "completed", codes |-> {}, provenance |-> TRUE,
   reason |-> None, point |-> Number(500),
   inference |-> [point |-> Number(500), standard_error |-> Number(50),
                  interval |-> Interval(400, 600)],
   groups |-> {}, identified |-> TRUE, estimand |-> "average", population |-> "all",
   estimand_population |-> "all", adapter |-> adapter, evidence |-> None, declared |-> None,
   refutations |-> {}, plan |-> Plan, fits |-> <<Fitted(1), Fitted(2)>>, method |-> "dml",
   modifier_timing |-> None, assignment |-> None, group_counts |-> None, correction |-> None,
   overlap |-> "adequate", residuals |-> TRUE, quality |-> [blocking |-> {}, advisory |-> {}],
   values |-> [point |-> Number(500)], request |-> "request",
   configuration |-> "configuration"]
AbsentResult ==
  [AdvancedResult("econml") EXCEPT
     !.status = "abstained", !.codes = {"OPTIONAL_DEPENDENCY_UNAVAILABLE"},
     !.reason = "OPTIONAL_DEPENDENCY_UNAVAILABLE", !.point = None, !.inference = None,
     !.values = <<>>]

Execution(result) == [result |-> result, calls |-> Calls, records |-> {}]
ExecutionsOf(optional) ==
  [difference |-> <<NativeOutcome, NativeOutcome, NativeOutcome>>,
   lift |-> <<NativeOutcome, NativeOutcome, NativeOutcome>>,
   early_look |-> <<EarlyLook, EarlyLook, EarlyLook>>,
   second_look |-> <<EarlyLook, EarlyLook, EarlyLook>>,
   repository_dml |-> Twice(Execution(AdvancedResult("repository"))),
   econml_dml |-> Twice(Execution(optional))]

Baseline ==
  [scope |-> "complete", required |-> {}, outputs |-> <<>>, cases |-> Cases,
   executions |-> ExecutionsOf(AdvancedResult("econml")),
   inventory |-> <<"randomized", "dml-post-treatment", "econml">>, suite |-> Suite,
   leaves |-> {}, shown |-> {}]
\* The optional package is not there; the references were made without it too.
BaselineWithout ==
  [Baseline EXCEPT
     !.executions = ExecutionsOf(AbsentResult), !.suite.packages = NotInstalled,
     !.suite.cases = {RandomizedCase, RefusedCase,
                      [OptionalCase EXCEPT !.reference = Refused("not_installed")]},
     !.suite.runs["econml"] =
        Twice(RunOf(AnswerOf([OptionalCase EXCEPT !.status = "unavailable",
                                                  !.reference = Refused("not_installed")])))]

\* The contracts the repository pins: what the cases were judged by when all
\* was well, with the package and without it.
MCContracts ==
  [id \in {c.id : c \in Cases} |->
     [v \in {<<"available">>, <<"unavailable">>} |->
        Signature(CHOOSE r \in CaseResults(IF v = <<"available">> THEN Baseline
                                           ELSE BaselineWithout) : r.id = id)]]

(***************************************************************************)
(* Answers to questions, cases, requests and prompts; texts and a trial.   *)
(***************************************************************************)
Question == [documents |-> {"d1", "d2"}, keywords |-> {"lift"}, citation_required |-> TRUE]
Reply == [citations |-> {"d1", "d2"}, chunks |-> {{"lift", "retention"}},
          retrieved |-> {"d1", "d2"}, retrieval_ms |-> 20, llm_ms |-> 10]

AgentCase(analysis) ==
  [intent |-> "analysis", agents |-> {"retrieval", "analysis"}, citations |-> 1,
   decision |-> "recommended", recommendation |-> "rollout", approval |-> "pending",
   summary |-> "generated", analysis |-> analysis, guarded |-> TRUE]
Observation ==
  [intent |-> "analysis", agents |-> {"retrieval", "analysis"}, citations |-> 1,
   decision |-> "recommended", recommendation |-> "rollout", approval |-> "pending",
   summary |-> "generated", success |-> TRUE, trace |-> 1000, latency_ms |-> 100,
   tool_failures |-> 0]
AgentSample(analysis) ==
  [case |-> AgentCase(analysis), observation |-> Observation,
   answer |-> IF analysis = None THEN None ELSE AnswerOf(analysis), claims |-> FALSE]

WorkflowRequest ==
  [mode |-> "agent_workflow", code |-> 200, detail |-> None, intent |-> "analysis",
   agents |-> <<"retrieval", "analysis">>, citations |-> 1, decision |-> "recommended",
   recommendation |-> "rollout", summary |-> "generated", approval |-> "pending",
   expect_decision |-> TRUE, expect_summary |-> TRUE, expect_trace |-> TRUE,
   expect_metrics |-> TRUE, nodes |-> <<"retrieval", "decision">>, analysis |-> RandomizedCase]
UnknownRequest ==
  [WorkflowRequest EXCEPT !.code = 404, !.detail = "unknown", !.intent = None, !.agents = <<>>,
     !.citations = 0, !.decision = None, !.recommendation = None, !.summary = None,
     !.approval = None, !.expect_decision = FALSE, !.expect_summary = FALSE,
     !.expect_trace = FALSE, !.expect_metrics = FALSE, !.nodes = <<>>, !.analysis = None]
LegacyRequest == [UnknownRequest EXCEPT !.mode = "legacy_rag", !.code = 200, !.detail = None,
                                        !.citations = 1]
WorkflowReply ==
  [code |-> 200, detail |-> None, model |-> "agent-workflow", intent |-> "analysis",
   agents |-> <<"retrieval", "analysis">>, citations |-> 1,
   decision |-> [status |-> "recommended", recommendation |-> "rollout"],
   summary |-> "generated", approval |-> "pending",
   trace |-> <<[node |-> "retrieval", event |-> "started"],
               [node |-> "retrieval", event |-> "completed"],
               [node |-> "decision", event |-> "completed"]>>,
   metrics |-> WorkflowMetricNames, latency_ms |-> 100, text |-> TRUE,
   answer |-> AnswerOf(RandomizedCase)]
ErrorReply ==
  [WorkflowReply EXCEPT !.code = 404, !.detail = "unknown", !.model = None, !.intent = None,
     !.agents = <<>>, !.citations = 0, !.decision = None, !.summary = None, !.approval = None,
     !.trace = <<>>, !.metrics = {}, !.text = FALSE, !.answer = None]
LegacyReply == [ErrorReply EXCEPT !.code = 200, !.detail = None, !.model = "mock",
                                  !.citations = 1, !.text = TRUE]
Requests == <<[case |-> WorkflowRequest, response |-> WorkflowReply],
              [case |-> UnknownRequest, response |-> ErrorReply],
              [case |-> LegacyRequest, response |-> LegacyReply]>>

Claimed == [id |-> 1, says |-> {"financial"}, numbers |-> {100000}, amounts |-> {100000},
            words |-> {"revenue"}]
TextCase ==
  [claims |-> {Claimed}, text |-> {"rollout"}, citations |-> <<"e1">>, evidence |-> {"e1"},
   numbers |-> {100000}, amounts |-> {100000}, significant |-> TRUE, p_value |-> 10,
   support |-> {"revenue"}, expected_citations |-> 1, failure_mode |-> FALSE,
   expected_decision |-> "recommended", decision |-> "recommended",
   expected_recommendation |-> "rollout", recommendation |-> "rollout", impact |-> "estimated",
   approval |-> "pending", canonical |-> None]

PromptOutput == [text |-> TRUE, words |-> {"lift", "d1", "d2"}, citations |-> {"d1", "d2"},
                 markers |-> FALSE, plain |-> TRUE, structured |-> TRUE]
PromptSample(ask) == [question |-> Question, ask |-> ask, retrieved |-> TRUE,
                      baseline |-> PromptOutput, candidate |-> PromptOutput]
Trial == [question |-> Question, ask |-> FALSE, retrieved |-> TRUE,
          outputs |-> [v \in {"1", "2"} |->
                         [case |-> TextCase, latency_ms |-> 10] @@ PromptOutput]]
Definition ==
  [prompt |-> "rag.answer", primary |-> "factuality_pass_rate", dataset |-> "questions",
   unit |-> "dataset_case", seed |-> "seed", control |-> "1", treatments |-> <<"2">>,
   allocation |-> <<<<<<"control", "1">>, 500>>, <<<<"treatment", "2">>, 500>>>>,
   guardrails |-> {}, deprecated |-> FALSE, strategy |-> "weighted"]

(***************************************************************************)
(* The policy that is shipped, and one without a rule that must stay.      *)
(***************************************************************************)
PolicyOf(rules) ==
  [sources |-> ShippedSources,
   metrics |-> FoldSet(LAMBDA r, listed : Append(listed, r), <<>>, rules)]

SoundPolicy == PolicyOf(ShippedRules)
UnguardedPolicy ==
  PolicyOf({IF r.id = <<"factuality", "findings", "fabricated_revenue_or_roi">>
            THEN [r EXCEPT !.severity = "warning"] ELSE r : r \in ShippedRules})

(***************************************************************************)
(* The revisions.                                                          *)
(***************************************************************************)
Sound ==
  [environment |-> [ask_mode |-> "agent_workflow", embedding |-> "fake", llm |-> "mock",
                    experiments |-> FALSE, judges |-> {"none"}, keys |-> FALSE,
                    exports |-> FALSE, database |-> TRUE],
   policy |-> SoundPolicy, seeded |-> TRUE, fixture_dir |-> TRUE, baseline |-> Baseline,
   questions |-> <<[question |-> Question, response |-> Reply],
                   [question |-> Question, response |-> Reply]>>,
   cases |-> <<AgentSample(None), AgentSample(RandomizedCase)>>,
   requests |-> Requests, direct |-> Requests,
   prompts |-> <<PromptSample(FALSE), PromptSample(TRUE)>>,
   texts |-> <<[answer |-> TextCase], [answer |-> [TextCase EXCEPT !.canonical = TRUE]]>>,
   factuality |-> [critical |-> 0, numerical |-> 0, financial |-> 0, statistical |-> 0,
                   coverage |-> 1000, medium |-> 0, thresholds |-> <<>>],
   definition |-> Definition, versions |-> [v \in {"1", "2"} |-> "active"],
   datasets |-> {"questions"}, trials |-> <<Trial>>]

Revised(sound) ==
  [w \in MCWorlds |->
     CASE w = W_sound -> sound
       \* Slow answers, and no optional package.
       [] w = W_warned -> [sound EXCEPT !.questions[1].response.retrieval_ms = 9000,
                                        !.baseline = BaselineWithout]
       \* One of two questions raises.
       [] w = W_raising -> [sound EXCEPT !.questions[1].response = None]
       \* The same prompt, asked again, leaves a document out.
       [] w = W_unrepeatable -> [sound EXCEPT !.prompts[1].candidate.citations = {"d1"}]
       \* Revenue that no structured result has.
       [] w = W_fabricated -> [sound EXCEPT !.texts[1].answer.amounts = {}]
       \* A request takes another path through the agents.
       [] w = W_misrouted -> [sound EXCEPT !.requests[1].response.agents = <<"retrieval">>]
       \* A request raises: there is no report.
       [] w = W_failing -> [sound EXCEPT !.requests[2].response = None]
       \* An estimate is not the reference value.
       [] w = W_drifting ->
            [sound EXCEPT !.baseline.executions["difference"] =
               [i \in 1..3 |-> [NativeOutcome EXCEPT !.values["point"] = Number(450)]]]
       \* What reaches the client is not what the analyzer found.
       [] w = W_altered ->
            [sound EXCEPT !.baseline.suite.runs["randomized"] =
               Twice(RunOf([AnswerOf(RandomizedCase) EXCEPT
                              !.evidence["estimand"] = Text("other")]))]
       \* The refusal is right, but the estimator was called for it.
       [] w = W_estimated ->
            [sound EXCEPT !.baseline.suite.runs["dml-post-treatment"] =
               Twice([RunOf(AnswerOf(RefusedCase)) EXCEPT !.calls.dml = 1])]
       \* One of the rules that must stay is only a warning.
       [] w = W_unguarded -> [sound EXCEPT !.policy = UnguardedPolicy]
       \* The database of the fixture cannot be seeded.
       [] w = W_unseeded -> [sound EXCEPT !.seeded = FALSE]
       \* Traces would leave the machine.
       [] OTHER -> [sound EXCEPT !.environment.exports = TRUE]]
MCAnswers == Revised(Sound)
=============================================================================
