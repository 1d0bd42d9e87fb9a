------------------------------ MODULE QualityGate ------------------------------
(***************************************************************************)
(* The AI quality gate (scripts/run_ai_quality_gate.py): one command after *)
(* the other evaluates the program and writes its reports below one        *)
(* artifact root, the last applies the quality policy to what lies there,  *)
(* and the gate turns all of it into an exit code, a result file and a     *)
(* summary.  A command may fail or hang, a gate may be killed, and the     *)
(* root may hold what earlier runs left there.  When the gate is over, the *)
(* report a pull request shows is made of what lies below the root         *)
(* (run_ci_report.py, ci_reporting/aggregator.py).                         *)
(*                                                                         *)
(* A world is a revision of the program: everything the commands meet when *)
(* they run.  See MCQualityGate for one in full.                           *)
(***************************************************************************)
EXTENDS PromptExperiments, StatisticalBaseline

CONSTANTS
  Worlds,         \* the revisions, each by its name
  Answers,        \* what a revision answers, and its configuration
  Revisions,      \* the sequences of revisions a root is used for
  MaxRuns         \* how often a gate is started on the root
ASSUME RunsAssumption ==
  /\ MaxRuns \in Nat \ {0}
  /\ \A s \in Revisions : s \in Seq(Worlds) /\ Len(s) <= MaxRuns

\* Every baseline knows where it writes and what, and has cases by their names; a
\* native one is executed three times, unless it raised, an advanced one twice.
\* None is not the name of a failure.
BaselineOK(b) ==
  /\ {"outputs", "scope"} \subseteq DOMAIN b
  /\ IsFiniteSet(b.cases) /\ \A c, d \in b.cases : c.id = d.id => c = d
  /\ \A c \in b.cases :
       LET executions == b.executions[c.id]
       IN IF c.advanced # None THEN DOMAIN executions = 1..2
          ELSE executions = None \/ (DOMAIN executions = 1..3 /\ executions[1] # None)

\* What is evaluated comes in order, and what is counted of it is finite; the
\* retrieved documents are those of the chunks.
SamplesOK(w) ==
  /\ \A name \in {"questions", "cases", "requests", "direct", "prompts", "texts"} :
       w[name] \in Seq(ToSet(w[name]))
  /\ \A s \in ToSet(w.questions) :
       /\ IsFiniteSet(s.question.documents)
       /\ s.response # None /\ s.response.chunks = {} => s.response.retrieved = {}
  /\ \A s \in ToSet(w.cases) :
       /\ IsFiniteSet(s.case.agents) /\ s.case.citations \in Nat \cup {None}
       /\ s.observation # None =>
            IsFiniteSet(s.observation.agents) /\ s.observation.citations \in Nat
  /\ \A s \in ToSet(w.direct) :
       s.case.citations \in Nat /\ (s.response # None => s.response.citations \in Nat)
  /\ \A s \in ToSet(w.prompts) :
       IsFiniteSet(s.question.documents) /\ IsFiniteSet(s.question.keywords)
  /\ \A s \in ToSet(w.texts) :
       s.answer # None =>
         /\ IsFiniteSet(s.answer.claims) /\ s.answer.citations \in Seq(ToSet(s.answer.citations))
         /\ s.answer.canonical \in {None, TRUE, FALSE}
ASSUME AnswersAssumption ==
  /\ \A w \in Worlds : BaselineOK(Answers[w].baseline) /\ SamplesOK(Answers[w])
  /\ None \notin {"missing_required_report", "malformed_report",
                   "quality_gate_infrastructure_error"}
  /\ None \notin Int

(***************************************************************************)
(* The commands, in order, and the reports each writes, in order.          *)
(***************************************************************************)
Commands ==
  <<"seed_integration_fixture", "validate_prompt_registry", "validate_prompt_experiment",
    "custom_rag_evaluation", "custom_agent_evaluation", "end_to_end_evaluation",
    "prompt_regression", "factuality", "prompt_experiment_sample", "ragas_offline",
    "deepeval_offline", "phase4_statistical_baseline", "quality_policy">>

\* The reports of the commands that evaluate answers: markdown, then JSON.
SuiteReports ==
  [custom_rag_evaluation |-> <<"evaluation.md", "evaluation.json">>,
   custom_agent_evaluation |-> <<"agent_evaluation.md", "agent_evaluation.json">>,
   end_to_end_evaluation |-> <<"agent_e2e_evaluation.md", "agent_e2e_evaluation.json">>,
   prompt_regression |-> <<"prompt_regression.md", "prompt_regression.json">>,
   factuality |-> <<"factuality_report.md", "factuality_report.json">>,
   prompt_experiment_sample |-> <<"prompt_experiment.md", "prompt_experiment.json">>,
   ragas_offline |-> <<"ragas_report.md", "ragas_report.json">>,
   deepeval_offline |-> <<"deepeval_report.md", "deepeval_report.json">>]
BaselineOutputs == <<"statistical_baseline.json", "statistical_baseline.md",
                     "phase4/quality_policy.json", "phase4/github_summary.md">>
PolicyReports == <<"quality_policy.md", "quality_policy.json">>
\* The report of the pull request, in the order it is written.
CiReports == <<"pr_quality_report.json", "pr_quality_report.md", "pr_comment.md">>

OwnReports == {"ci_environment.json", "ai_quality_gate.json", "github_summary.md"}
Manifest == "artifact_manifest.json"
OptionalReports == ToSet(SuiteReports["prompt_experiment_sample"])
Reports == (UNION {ToSet(SuiteReports[c]) : c \in DOMAIN SuiteReports})
             \cup ToSet(BaselineOutputs) \cup ToSet(PolicyReports) \cup OwnReports
RequiredReports == Reports \ OptionalReports

(***************************************************************************)
(* The policy the repository ships (config/evaluation/quality_policy.yaml) *)
(* with a file by its name alone and without the weights of the rules.     *)
(***************************************************************************)
ShippedSources ==
  [rag |-> [path |-> "evaluation.md", format |-> "rag_markdown"],
   agent |-> [path |-> "agent_evaluation.json", format |-> "agent_json"],
   agent_e2e |-> [path |-> "agent_e2e_evaluation.json", format |-> "agent_e2e_json"],
   ragas |-> [path |-> "ragas_report.json", format |-> "ragas_json"],
   deepeval |-> [path |-> "deepeval_report.json", format |-> "deepeval_json"],
   prompt_regression |-> [path |-> "prompt_regression.json", format |-> "prompt_regression_json"],
   factuality |-> [path |-> "factuality_report.json", format |-> "factuality_json"],
   statistics |-> [path |-> "statistical_baseline.json", format |-> "statistical_baseline_json"]]

\* The same rule for each of some metrics of a source.
Ruled(source, category, names, operator, value, severity, required) ==
  {[id |-> name, source |-> source, category |-> category, operator |-> operator,
    value |-> value, severity |-> severity, required |-> required, tolerance |-> 0] :
     name \in names}
Full(source, category, names) ==
  Ruled(source, category, names, "gte", Number(1000), "fail", TRUE)
Zero(source, category, names, severity) ==
  Ruled(source, category, names, "lte", Count(0), severity, TRUE)
Of(source, names) == {<<source, n>> : n \in names}
Scored(names) == {<<"deepeval", m, "average_score">> : m \in names}

RetrievalRules ==
  UNION {Full("rag", "Retrieval", Of("rag", {"retrieval_success_rate",
                                             "average_citation_coverage"})),
         Full("ragas", "Retrieval", Of("ragas", {"id_based_context_precision",
                                                 "id_based_context_recall"})),
         Full("deepeval", "Retrieval", Scored({"citation_coverage"}))}
AnswerRules ==
  UNION {Full("deepeval", "Answer Quality", Scored({"response_field_completeness"})),
         Ruled("ragas", "Answer Quality", Of("ragas", {"answer_relevancy", "faithfulness"}),
               "gte", Number(500), "warning", FALSE),
         Ruled("deepeval", "Answer Quality", Scored(DeepevalJudgeMetrics),
               "gte", Number(500), "warning", FALSE)}
WorkflowRules ==
  UNION {Ruled("statistics", "Workflow", {<<"analysis", "scope">>}, "eq", Text("complete"),
               "fail", TRUE),
         Ruled("statistics", "Workflow", {<<"analysis", "case_count">>}, "gte", Count(6),
               "fail", TRUE),
         Ruled("statistics", "Workflow",
               {<<"analysis", "failures", c>> : c \in CheckCodes \cup {"case_inventory"}},
               "eq", Count(0), "fail", TRUE),
         Full("agent", "Workflow",
              Of("agent", {"workflow_success_rate", "routing_accuracy", "trace_completeness",
                           "recommendation_coverage"})),
         Ruled("agent_e2e", "Workflow", Of("agent_e2e", {"default_agent_workflow_coverage"}),
               "gte", Number(1000), "critical", TRUE),
         Full("agent_e2e", "Workflow",
              Of("agent_e2e", {"legacy_fallback_coverage", "routing_accuracy",
                               "decision_coverage", "executive_summary_coverage",
                               "approval_status_coverage"})),
         Full("deepeval", "Workflow",
              Scored({"routing_accuracy", "decision_status_match", "approval_status_match",
                      "summary_status_match", "trace_completeness", "fallback_compatibility"}))}
PromptRules ==
  UNION {Full("prompt_regression", "Prompt", {<<"prompt_regression", "summary", "pass_rate">>}),
         Zero("prompt_regression", "Prompt",
              {<<"prompt_regression", "summary", n>> : n \in {"regressions", "failures"}}, "fail"),
         Full("prompt_regression", "Prompt",
              {<<"prompt_regression", "metric", m, "candidate">> :
                 m \in {"prompt_rendering_success", "legacy_fallback_compatibility",
                        "citation_coverage"}})}
FactualityRules ==
  UNION {Ruled("factuality", "Factuality", {<<"factuality", "policy_status">>}, "eq",
               Text("pass"), "fail", TRUE),
         Zero("factuality", "Factuality",
              Guarded \cup {<<"factuality", "findings", c>> :
                              c \in {"citation_missing", "citation_does_not_support_claim"}},
              "critical"),
         Zero("factuality", "Factuality",
              {<<"factuality", "findings", "answer_generated_when_abstention_was_expected">>,
               <<"factuality", "case_status", "fail">>}, "fail")}
ReliabilityRules ==
  UNION {UNION {Ruled(m[1], "Reliability", {m}, "lte", Count(3000), "warning", TRUE) :
                  m \in {<<"rag", "average_retrieval_latency_ms">>,
                         <<"agent", "average_workflow_latency_ms">>,
                         <<"agent_e2e", "average_workflow_latency_ms">>}},
         Zero("agent", "Reliability", Of("agent", {"fail_count", "total_tool_failures"}), "fail"),
         Zero("agent_e2e", "Reliability", Of("agent_e2e", {"fail_count"}), "fail")}

\* The baseline judges itself: only its inventory of cases is required.
Unrequired(category, names, severity) ==
  Ruled("statistics", category, names, "lte", Count(0), severity, FALSE)
StatisticalFailures(names) == {<<"statistics", "failures", n>> : n \in names}
StatisticsRules ==
  UNION {Ruled("statistics", "Statistical Reliability", Of("statistics", {"overall_status"}),
               "eq", Text("pass"), "warning", FALSE),
         Ruled("statistics", "Statistical Reliability",
               Of("statistics", {"minimum_cases_per_capability"}), "gte", Count(2), "warning",
               FALSE),
         Unrequired("Statistical Reliability",
                    {<<"statistics", "cases_advisory">>,
                     <<"statistics", "performance", "advisory_findings">>}, "warning"),
         Unrequired("Statistical Reliability",
                    {<<"statistics", "cases_failed">>}
                      \cup StatisticalFailures({"diagnostics", "determinism", "status"}), "fail"),
         Unrequired("Statistical Reliability",
                    StatisticalFailures({"reference_accuracy", "abstention", "uncertainty",
                                         "assumptions", "plan_integrity", "telemetry_privacy",
                                         "bayesian_semantics", "nonfinite"}), "critical"),
         Unrequired("Causal Reliability",
                    StatisticalFailures({"identification", "estimand", "provenance",
                                         "heterogeneity_safety"}), "critical"),
         Unrequired("Advanced Causal Conformance",
                    StatisticalFailures({"interface_leakage", "exception_normalization",
                                         "unsupported_inference", "data_leakage",
                                         "dependency"}), "critical"),
         Zero("statistics", "Statistical Reliability", StatisticalFailures({"case_inventory"}),
              "critical")}

ShippedRules ==
  UNION {RetrievalRules, AnswerRules, WorkflowRules, PromptRules, FactualityRules,
         ReliabilityRules, StatisticsRules}

(***************************************************************************)
(* What a command does in a revision: what it writes, where, in which      *)
(* order, and how it exits.  A command that raised has written nothing.    *)
(***************************************************************************)
Exits(succeeds) == [writes |-> <<>>, exit |-> IF succeeds THEN 0 ELSE 1]
Reporting(command, report) ==
  IF report = None THEN Exits(FALSE)
  ELSE [writes |-> [i \in 1..2 |-> <<SuiteReports[command][i], report>>], exit |-> 0]

\* The baseline writes its JSON twice; its writes replace whole files.
BaselineResult(world) ==
  BaselineCommand([Answers[world].baseline EXCEPT !.outputs = BaselineOutputs,
                                                  !.scope = "complete"],
                  Answers[world].policy)

Outcome(world, command) ==
  LET w == Answers[world]
  IN CASE command = "seed_integration_fixture" -> Exits(w.seeded)
       [] command = "validate_prompt_registry" -> Exits(w.baseline.suite.old.registry_valid)
       [] command = "validate_prompt_experiment" ->
            Exits(ValidDefinition(w.definition, w.versions, w.datasets))
       [] command = "custom_rag_evaluation" -> Reporting(command, RagReport(w.questions))
       [] command = "custom_agent_evaluation" -> Reporting(command, AgentReport(w.cases))
       [] command = "end_to_end_evaluation" -> Reporting(command, EndpointReport(w.requests))
       [] command = "prompt_regression" -> Reporting(command, PromptRegressionReport(w.prompts))
       [] command = "factuality" ->
            Reporting(command, FactualityReport(w.texts, w.factuality, {}))
       [] command = "prompt_experiment_sample" ->
            Reporting(command, ExperimentReport(w.definition, w.versions, w.datasets, w.trials))
       [] command = "ragas_offline" -> Reporting(command, RagasReport(w.questions, None))
       [] command = "deepeval_offline" ->
            Reporting(command, DeepevalReport(w.questions, w.direct, w.cases, None))
       [] OTHER -> BaselineResult(world)

\* Every revision is evaluated once.
Outcomes ==
  {[world |-> w, command |-> c, result |-> Outcome(w, c)] :
     w \in Worlds, c \in ToSet(Commands) \ {"quality_policy"}}
OutcomeIn(outcomes, world, command) ==
  (CHOOSE o \in outcomes : o.world = world /\ o.command = command).result

\* validate_ci_environment, validate_policy_invariants, _validate_inputs.
EnvironmentValid(env) ==
  /\ env.ask_mode = "agent_workflow" /\ env.embedding = "fake" /\ env.llm = "mock"
  /\ ~env.experiments /\ env.judges \subseteq {"none"} /\ ~env.keys /\ ~env.exports
  /\ env.database

InputsValid(world) ==
  LET w == Answers[world]
  IN /\ PolicyOK(w.policy) /\ KeepsInvariants(w.policy)
     /\ ValidDefinition(w.definition, w.versions, w.datasets)
     /\ w.questions # <<>> /\ w.fixture_dir

(***************************************************************************)
(* The artifact root and the gate that runs on it.  A file is absent, cut  *)
(* short, or [run, nth, verdict]: the nth write of its command in that run *)
(* and what the policy, the baseline or the gate decided.                  *)
(***************************************************************************)
VARIABLES
  artifacts,       \* what lies below the artifact root
  revision,        \* the revision of every run so far
  upcoming,        \* the revisions of the runs to come
  phase,           \* where the gate is
  current,         \* the command that runs, as its place in the order, or 0
  written,         \* how many writes it has done
  doing,           \* what the running command has come to: the paths it writes,
                   \* the policy's verdict and the exit code; None before that
  failed4,         \* the statistical baseline exited with 1
  command_results, \* the exit codes of the commands that have ended
  gate_status,     \* status of the gate
  exit             \* exit code it will end with; None when it has none
vars == <<artifacts, revision, upcoming, phase, current, written, doing, failed4,
          command_results, gate_status, exit>>

Run == Len(revision)
World == revision[Run]
Command == Commands[current]

File(nth, told) == [run |-> Run, nth |-> nth, verdict |-> told]
\* No file, and a file that no run has finished.
NoFile == [run |-> 0, nth |-> 0, verdict |-> None]
CutShort == [run |-> 0, nth |-> 1, verdict |-> None]

\* What the policy reads in a file.
Content(path, outcomes) ==
  CASE artifacts[path] = NoFile -> None
    [] artifacts[path] = CutShort -> Broken
    [] OTHER ->
       LET world == revision[artifacts[path].run]
           producer == IF path \in ToSet(BaselineOutputs) THEN "phase4_statistical_baseline"
                       ELSE CHOOSE c \in DOMAIN SuiteReports : path \in ToSet(SuiteReports[c])
       IN OutcomeIn(outcomes, world, producer).writes[artifacts[path].nth][2]

\* What is read again of the policy's report.
Payload(report, rules) ==
  [overall_status |-> report.overall_status, violations |-> report.violations,
   warnings |-> report.warnings,
   critical |-> report.violations \cap {m.id : m \in {r \in rules : r.severity = "critical"}},
   ruled |-> {m.id[1] : m \in rules}]

Ruling(result, rules) ==
  [paths |-> IF result.report = None THEN <<>> ELSE PolicyReports,
   told |-> IF result.report = None THEN <<>>
            ELSE [i \in 1..2 |-> Payload(result.report, rules)],
   exit |-> result.exit]

PolicyOutcome(outcomes) ==
  LET policy == Answers[World].policy
  IN Ruling(PolicyCommand(policy,
              [p \in {policy.sources[s].path : s \in DOMAIN policy.sources} |-> Content(p, outcomes)],
              [warning_policy |-> "allow", warn_only |-> FALSE]),
            ToSet(policy.metrics))

\* The status of a statistical report: one without a status is a failure,
\* and so is one with a workflow case that failed.
StatisticalStatus(report) ==
  IF "overall_status" \notin DOMAIN report THEN "fail"
  ELSE IF \E r \in report.workflow : \E code \in DOMAIN r.checks : r.checks[code].status = "fail"
  THEN "fail" ELSE report.overall_status

Ran(result) ==
  [paths |-> [i \in DOMAIN result.writes |-> result.writes[i][1]],
   told |-> [i \in DOMAIN result.writes |->
               IF result.writes[i][1] = "statistical_baseline.json"
               THEN StatisticalStatus(result.writes[i][2]) ELSE None],
   exit |-> result.exit]

Destination == doing.paths[written + 1]
Atomic == Command = "phase4_statistical_baseline"

Init ==
  /\ artifacts = [p \in Reports \cup ToSet(CiReports) \cup {Manifest} |-> NoFile]
  /\ revision = <<>>
  /\ upcoming \in Revisions
  /\ phase = "ended" /\ current = 0 /\ written = 0 /\ doing = None
  /\ failed4 = FALSE /\ command_results = <<>> /\ gate_status = None /\ exit = None

(***************************************************************************)
(* Checking the environment and the inputs.  Whatever goes wrong there or  *)
(* in a command that does not end in time is an infrastructure failure,    *)
(* and the results of the commands are forgotten.                          *)
(***************************************************************************)
Infrastructure ==
  /\ phase' = "provisional" /\ gate_status' = "infrastructure_fail" /\ exit' = 2
  /\ command_results' = <<>> /\ current' = 0 /\ written' = 0 /\ doing' = None

StartGate ==
  /\ phase = "ended" /\ upcoming # <<>>
  /\ revision' = Append(revision, Head(upcoming)) /\ upcoming' = Tail(upcoming)
  /\ phase' = "environment"
  /\ current' = 0 /\ written' = 0 /\ doing' = None /\ failed4' = FALSE
  /\ command_results' = <<>> /\ gate_status' = None /\ exit' = None
  /\ UNCHANGED artifacts

CheckEnvironment ==
  /\ phase = "environment"
  /\ \/ /\ EnvironmentValid(Answers[World].environment)
        /\ artifacts' = [artifacts EXCEPT !["ci_environment.json"] = File(1, None)]
        /\ phase' = "inputs"
        /\ UNCHANGED <<current, written, doing, command_results, gate_status, exit>>
     \/ ~EnvironmentValid(Answers[World].environment) /\ Infrastructure /\ UNCHANGED artifacts
  /\ UNCHANGED <<revision, upcoming, failed4>>

CheckInputs ==
  /\ phase = "inputs"
  /\ \/ /\ InputsValid(World)
        /\ phase' = "running" /\ current' = 1
        /\ UNCHANGED <<written, doing, command_results, gate_status, exit>>
     \/ ~InputsValid(World) /\ Infrastructure
  /\ UNCHANGED <<artifacts, revision, upcoming, failed4>>

(***************************************************************************)
(* The running command.                                                    *)
(***************************************************************************)
\* Everything a command reads it reads before it writes.
Result(outcomes) ==
  IF Command = "quality_policy" THEN PolicyOutcome(outcomes)
  ELSE Ran(OutcomeIn(outcomes, World, Command))

Evaluate ==
  /\ phase = "running" /\ doing = None
  /\ doing' = Result(Outcomes)
  /\ UNCHANGED <<artifacts, revision, upcoming, phase, current, written, failed4,
                 command_results, gate_status, exit>>

CommandWrites ==
  /\ phase = "running" /\ doing # None /\ written < Len(doing.paths)
  /\ artifacts' = [artifacts EXCEPT ![Destination] = File(written + 1, doing.told[written + 1])]
  /\ written' = written + 1
  /\ UNCHANGED <<revision, upcoming, phase, current, doing, failed4, command_results,
                 gate_status, exit>>

StatusOf(command, code) ==
  CASE code = 0 -> "pass"
    [] code = 1 /\ command \in {"quality_policy", "phase4_statistical_baseline"} -> "quality_fail"
    [] OTHER -> "infrastructure_fail"

\* mutant: the command is still the current one when the gate decides.
KeepsCurrent(command, code) ==
  /\ phase' = "provisional" /\ current' = current
  /\ gate_status' = StatusOf(command, code) /\ exit' = code

Decide(command, code) ==
  /\ phase' = "provisional" /\ current' = 0
  /\ gate_status' = StatusOf(command, code) /\ exit' = code

\* mutant: every command that exits with 1 is passed over, as the baseline is.
ContinuesOnOne(command, code) == code \in {0, 1}

\* A failed baseline is remembered, and the commands after it run all the same.
Continues(command, code) == code = 0 \/ (command = "phase4_statistical_baseline" /\ code = 1)

CommandExits ==
  /\ phase = "running" /\ doing # None /\ written = Len(doing.paths)
  /\ command_results' = Append(command_results, doing.exit)
  /\ written' = 0 /\ doing' = None
  /\ failed4' = (failed4 \/ (Command = "phase4_statistical_baseline" /\ doing.exit = 1))
  /\ CASE ~Continues(Command, doing.exit) -> Decide(Command, doing.exit)
       [] current < Len(Commands) /\ Continues(Command, doing.exit) ->
            current' = current + 1 /\ UNCHANGED <<phase, gate_status, exit>>
       [] OTHER -> IF failed4 THEN Decide("phase4_statistical_baseline", 1)
                   ELSE Decide(None, 0)
  /\ UNCHANGED <<artifacts, revision, upcoming>>

\* A command that is stopped may leave the file it is writing cut short,
\* unless it replaces whole files.
Cut ==
  {artifacts} \cup IF phase # "running" THEN {}
               ELSE IF Atomic \/ doing = None \/ written = Len(doing.paths) THEN {}
               ELSE {[artifacts EXCEPT ![Destination] = CutShort]}

\* mutant: a command whose time is up is started again.
Retries ==
  /\ phase = "running"
  /\ artifacts' \in Cut
  /\ written' = 0 /\ doing' = None
  /\ UNCHANGED <<revision, upcoming, phase, current, failed4, command_results, gate_status,
                 exit>>

TimeOut ==
  /\ phase = "running"
  /\ artifacts' \in Cut
  /\ Infrastructure
  /\ UNCHANGED <<revision, upcoming, failed4>>

\* The gate is killed, and the command with it.
Kill ==
  /\ phase # "ended"
  /\ artifacts' \in Cut
  /\ phase' = "ended" /\ current' = 0 /\ written' = 0 /\ doing' = None
  /\ gate_status' = None /\ exit' = None
  /\ UNCHANGED <<revision, upcoming, failed4, command_results>>

(***************************************************************************)
(* The conclusion.  The result of the gate is written before the summary   *)
(* is made, which reads the policy's JSON; the files that must be there    *)
(* are looked for last.                                                    *)
(***************************************************************************)
GateResult(told) == File(1, [status |-> told, results |-> command_results])

\* mutant: the summary is what the policy says, and no more.
PolicySummary(told) ==
  LET payload == artifacts["quality_policy.json"]
  IN File(1, [shown |-> [run |-> payload.run,
                         told |-> IF payload = NoFile THEN None
                                  ELSE payload.verdict.overall_status],
              infrastructure |-> FALSE])

\* The policy's own words, whoever wrote them, and the gate's.
Summary(told) ==
  LET payload == artifacts["quality_policy.json"]
  IN File(1, [shown |-> [run |-> payload.run,
                         told |-> IF payload = NoFile THEN None
                                  ELSE payload.verdict.overall_status],
              infrastructure |-> told = "infrastructure_fail"])

WriteProvisional ==
  /\ phase = "provisional"
  /\ artifacts' = [artifacts EXCEPT !["ai_quality_gate.json"] = GateResult(gate_status)]
  /\ phase' = "summary"
  /\ UNCHANGED <<revision, upcoming, current, written, doing, failed4, command_results,
                 gate_status, exit>>

\* JSON that was cut short ends the gate with the exit code of a traceback.
WriteSummary ==
  /\ phase = "summary"
  /\ \/ /\ artifacts["quality_policy.json"] # CutShort
        /\ artifacts' = [artifacts EXCEPT !["github_summary.md"] = Summary(gate_status)]
        /\ phase' = "manifest"
        /\ UNCHANGED exit
     \/ /\ artifacts["quality_policy.json"] = CutShort
        /\ phase' = "ended" /\ exit' = 1
        /\ UNCHANGED artifacts
  /\ UNCHANGED <<revision, upcoming, current, written, doing, failed4, command_results,
                 gate_status>>

Missing == {p \in RequiredReports : artifacts[p] = NoFile}
NotThere == Missing \cup {p \in OptionalReports : artifacts[p] = NoFile}

WriteManifest ==
  /\ phase = "manifest"
  /\ artifacts' = [artifacts EXCEPT ![Manifest] = File(1, NotThere)]
  /\ gate_status' = IF Missing = {} THEN gate_status ELSE "infrastructure_fail"
  /\ exit' = IF Missing = {} THEN exit ELSE 2
  /\ phase' = "result"
  /\ UNCHANGED <<revision, upcoming, current, written, doing, failed4, command_results>>

WriteResult ==
  /\ phase = "result"
  /\ artifacts' = [artifacts EXCEPT !["ai_quality_gate.json"] = GateResult(gate_status)]
  /\ phase' = "telling"
  /\ UNCHANGED <<revision, upcoming, current, written, doing, failed4, command_results,
                 gate_status, exit>>

Tell ==
  /\ phase = "telling"
  /\ artifacts' = [artifacts EXCEPT !["github_summary.md"] = Summary(gate_status)]
  /\ phase' = "ended"
  /\ UNCHANGED <<revision, upcoming, current, written, doing, failed4, command_results,
                 gate_status, exit>>

(***************************************************************************)
(* The report of the pull request.  It says what the policy said, unless   *)
(* the gate failed for another reason or the statistical baseline says     *)
(* worse; each suite has the status of its rules.                          *)
(***************************************************************************)
\* The rules of a suite by the first part of their names, and its report.
SuiteNames ==
  [rag |-> "evaluation.json", agent |-> "agent_evaluation.json",
   agent_e2e |-> "agent_e2e_evaluation.json", prompt_regression |-> "prompt_regression.json",
   factuality |-> "factuality_report.json", ragas |-> "ragas_report.json",
   deepeval |-> "deepeval_report.json"]

\* What is read first: two reports that must be there, two that may be.
ReadFailure ==
  LET needed == <<"quality_policy.json", "ai_quality_gate.json", Manifest, "ci_environment.json">>
      unread == {i \in 1..4 : artifacts[needed[i]] \in (IF i <= 2 THEN {NoFile, CutShort} ELSE {CutShort})}
  IN IF unread = {} THEN None
     ELSE IF artifacts[needed[Min(unread)]] = NoFile THEN "missing_required_report"
     ELSE "malformed_report"

\* The files the manifest lists as absent; it may be there or not.
ListedAbsent == IF artifacts[Manifest] = NoFile THEN {} ELSE artifacts[Manifest].verdict

\* The worst its rules came to.
SuiteStatus(suite) ==
  LET payload == artifacts["quality_policy.json"].verdict
      present == IF artifacts[Manifest] = NoFile THEN artifacts[SuiteNames[suite]] # NoFile
                 ELSE SuiteNames[suite] \notin ListedAbsent
  IN IF ~present THEN "skipped"
     ELSE IF \E id \in payload.violations : id[1] = suite THEN "fail"
     ELSE IF \E id \in payload.warnings : id[1] = suite THEN "warning"
     ELSE IF suite \in payload.ruled THEN "pass" ELSE "incomplete"

\* None when there is no statistical suite.
StatisticalSuite ==
  CASE artifacts["statistical_baseline.json"] = NoFile -> None
    [] artifacts["statistical_baseline.json"] = CutShort -> "fail"
    [] OTHER -> artifacts["statistical_baseline.json"].verdict

SuitesShown ==
  LET named == {SuiteNames[s] : s \in DOMAIN SuiteNames}
  IN [p \in named \cup (IF artifacts[Manifest] = NoFile THEN {} ELSE OptionalReports) |->
        IF p \in named THEN SuiteStatus(CHOOSE s \in DOMAIN SuiteNames : SuiteNames[s] = p)
        ELSE IF p \in ListedAbsent THEN "skipped" ELSE "pass"]

CiStatus(payload, gate) ==
  IF gate.status = "infrastructure_fail" THEN "infrastructure_error"
  ELSE IF payload.overall_status \in {"pass", "warning", "fail"} THEN payload.overall_status
  ELSE IF gate.status = "quality_fail" THEN "fail" ELSE "incomplete"

WithStatistics(told, statistics) ==
  IF statistics = "fail" THEN "fail"
  ELSE IF statistics = "warning" /\ told = "pass" THEN "warning" ELSE told

InfrastructureReport(failure) ==
  [overall_status |-> "infrastructure_error", failure_type |-> failure,
   statistics |-> None, suites |-> <<>>, critical |-> {}]

\* build_ci_quality_report.
CiReport ==
  LET payload == artifacts["quality_policy.json"].verdict
      gate == artifacts["ai_quality_gate.json"].verdict
  IN IF ReadFailure # None THEN InfrastructureReport(ReadFailure)
     ELSE IF ListedAbsent \cap RequiredReports # {}
     THEN InfrastructureReport("missing_required_report")
     ELSE [overall_status |-> WithStatistics(CiStatus(payload, gate), StatisticalSuite),
           failure_type |-> IF gate.status = "infrastructure_fail"
                            THEN "quality_gate_infrastructure_error" ELSE None,
           statistics |-> StatisticalSuite, suites |-> SuitesShown,
           critical |-> payload.critical]

\* Whatever became of the gate: the report is made once for each run.
Reported == artifacts[CiReports[3]].run = Run

BuildCiReport ==
  /\ phase = "ended" /\ revision # <<>> /\ ~Reported
  /\ artifacts' = [p \in DOMAIN artifacts |-> IF p \in ToSet(CiReports) THEN File(1, CiReport)
                                              ELSE artifacts[p]]
  /\ UNCHANGED <<revision, upcoming, phase, current, written, doing, failed4,
                 command_results, gate_status, exit>>

(***************************************************************************)
(* The gate's own steps are taken, and a command that hangs is stopped in  *)
(* the end; nothing is assumed of the commands.                            *)
(***************************************************************************)
GateSteps ==
  \/ CheckEnvironment \/ CheckInputs
  \/ WriteProvisional \/ WriteSummary \/ WriteManifest \/ WriteResult \/ Tell
CommandSteps == Evaluate \/ CommandWrites \/ CommandExits

Next ==
  \/ StartGate \/ GateSteps \/ CommandSteps \/ TimeOut \/ Kill
  \/ BuildCiReport

Spec == Init /\ [][Next]_vars /\ WF_vars(GateSteps) /\ WF_vars(TimeOut)

(***************************************************************************)
(* What the gate stands for, said of the answers of a revision and not of  *)
(* metrics, rules or reports.                                              *)
(***************************************************************************)
AnalysisHolds(case, answer) ==
  case # None =>
    /\ answer # None
    /\ <<answer.method, answer.status>> = <<case.method, case.status>>
    /\ answer.evidence = case.reference

QuestionHolds(sample) ==
  /\ sample.response # None /\ sample.response.chunks # {}
  /\ sample.question.documents \subseteq sample.response.citations

CaseHolds(sample) ==
  /\ sample.observation # None /\ sample.observation.success
  /\ <<sample.observation.intent, sample.observation.agents>>
       = <<sample.case.intent, sample.case.agents>>
  /\ AnalysisHolds(sample.case.analysis, sample.answer)

RequestHolds(sample) ==
  /\ sample.response # None /\ sample.response.code = sample.case.code
  /\ sample.response.code = 200 =>
       /\ sample.case.agents \in {<<>>, sample.response.agents}
       /\ AnalysisHolds(sample.case.analysis, sample.response.answer)

\* What the accepted version of a prompt says the candidate says too.
PromptHolds(sample) ==
  /\ sample.retrieved /\ sample.baseline # None /\ sample.candidate # None
  /\ ~sample.ask =>
       /\ sample.question.keywords \subseteq sample.baseline.words
            => sample.question.keywords \subseteq sample.candidate.words
       /\ sample.question.documents \subseteq sample.baseline.citations
            => sample.question.documents \subseteq sample.candidate.citations

\* No amount of money and no significance that the results do not have.
TextHolds(sample) ==
  LET case == sample.answer
  IN case # None =>
       IF case.canonical # None THEN case.canonical
       ELSE \A c \in case.claims :
              "abstains" \notin c.says =>
                /\ "financial" \in c.says =>
                     case.amounts # {} /\ \A a \in c.amounts : Grounded(a, case.amounts)
                /\ "significant" \in c.says => case.significant

\* What the workflow kept is what it answered, and the answer is right.
WorkflowHolds(asked, run) ==
  /\ run # None /\ run.state = run.answer
  /\ AnalysisHolds(asked, run.answer)
  /\ \A name \in ForbiddenCalls(asked) : run.calls[name] = 0

ReferenceHolds(case, executions) ==
  /\ \A i \in DOMAIN executions : executions[i] # None
  /\ case.advanced = None =>
       /\ \A i \in 2..3 : executions[i] = executions[1]
       /\ \A v \in case.expected :
            LET o == ValueAt(executions[1], v.path)
            IN IF v.tolerance = None THEN o = v.value
               ELSE Finite(o) /\ o[2] - v.value[2] \in -v.tolerance..v.tolerance
  /\ case.advanced # None =>
       executions[1].result = executions[2].result /\ executions[1].result.boundary = {}

\* An analysis without its package is to refuse, with the reference's evidence.
StatisticsHold(world) ==
  LET b == Answers[world].baseline
  IN /\ \A c \in b.suite.cases :
          WorkflowHolds(EffectiveCase(c, b.suite.packages), b.suite.runs[c.id][1])
     /\ \A c \in b.cases : ReferenceHolds(c, b.executions[c.id])

SamplesHold(world) ==
  LET w == Answers[world]
  IN /\ \A s \in ToSet(w.questions) : QuestionHolds(s)
     /\ \A s \in ToSet(w.cases) : CaseHolds(s)
     /\ \A s \in ToSet(w.requests) : RequestHolds(s)
     /\ \A s \in ToSet(w.prompts) : PromptHolds(s)
     /\ \A s \in ToSet(w.texts) : TextHolds(s)
AnswersHold(world) == SamplesHold(world) /\ StatisticsHold(world)

\* The policy of the revision has every rule that is shipped, and may have more.
KeepsRules(world) ==
  LET policy == Answers[world].policy
  IN policy.sources = ShippedSources /\ ShippedRules \subseteq ToSet(policy.metrics)

(***************************************************************************)
(* Properties.                                                             *)
(***************************************************************************)
FileOK(f) == f \in {NoFile, CutShort} \/ (f.run \in 1..Run /\ f.nth \in 1..5)

\* The state has its types (what _run_commands and main keep between steps).
TypeOK ==
  /\ revision \in Seq(Worlds) /\ upcoming \in Seq(Worlds) /\ Run + Len(upcoming) <= MaxRuns
  /\ \A p \in DOMAIN artifacts : FileOK(artifacts[p])
  /\ phase \in {"environment", "inputs", "running", "provisional", "summary", "manifest",
                 "result", "telling", "ended"}
  /\ current \in 0..Len(Commands) /\ (current # 0 <=> phase = "running")
  /\ written \in 0..5 /\ failed4 \in BOOLEAN
  /\ command_results \in Seq(0..2) /\ Len(command_results) <= Len(Commands)
  /\ gate_status \in {None, "pass", "quality_fail", "infrastructure_fail"}
  /\ exit \in {None, 0, 1, 2}

Concluded == phase = "ended" /\ exit # None

FailedSuites(report) == {p \in DOMAIN report.suites : report.suites[p] = "fail"}

\* A gate that applies the shipped rules says pass only of a revision whose
\* answers are right, and one that blames the quality does so only of one whose
\* answers are not, whatever earlier runs left below the root; then the report
\* of the pull request names a suite that failed (_run_commands, the
\* evaluations, the adapters, quality_policy.yaml, the rules, _suites).
VerdictIsEarned ==
  Concluded =>
    /\ gate_status = "pass" /\ KeepsRules(World) => AnswersHold(World)
    /\ gate_status = "quality_fail" =>
         /\ ~AnswersHold(World)
         /\ Reported => \A p \in ToSet(CiReports) :
                          \/ FailedSuites(artifacts[p].verdict) # {}
                          \/ artifacts[p].verdict.statistics = "fail"

StatusAgrees(report) ==
  /\ report.overall_status \in {"pass", "warning"} <=> gate_status = "pass"
  /\ report.failure_type # None <=> gate_status = "infrastructure_fail"
  /\ gate_status = "pass" => FailedSuites(report) = {} /\ report.critical = {}

ResultIsKept ==
  LET told == artifacts["ai_quality_gate.json"]
  IN /\ told.run = Run /\ told.verdict = [status |-> gate_status, results |-> command_results]
     /\ exit = 0 <=> gate_status = "pass"
     /\ gate_status = "quality_fail" => exit = 1

PassIsComplete == gate_status = "pass" => \A p \in RequiredReports : artifacts[p].run = Run

SummaryIsOwn ==
  LET summary == artifacts["github_summary.md"]
      shown == summary.verdict.shown
  IN summary.run = Run =>
       \/ summary.verdict.infrastructure
       \/ /\ shown.run = Run
          /\ gate_status = "quality_fail" <=> shown.told = "fail" \/ command_results[12] = 1

ReportAgrees == Reported => \A p \in ToSet(CiReports) : StatusAgrees(artifacts[p].verdict)

\* How a gate ends says what it found: the exit code is 0 exactly when its
\* result file says pass; a pass leaves every required report behind, each
\* written by this run; a verdict of an earlier run is never shown without
\* the line that the infrastructure failed (run_ai_quality_gate.py main).
\* What the pull request shows of a gate that has ended agrees with it: it
\* says pass or warning of a gate that passed and of no other, then shows no
\* suite that failed, and it names a failure of the infrastructure as one
\* (build_ci_quality_report).
FailureIsTold ==
  Concluded => ResultIsKept /\ PassIsComplete /\ SummaryIsOwn /\ ReportAgrees

\* Every gate comes to an end, whatever its commands do: each is stopped when
\* its time is up (_run_commands, subprocess.run with a timeout).
EveryGateEnds == phase # "ended" ~> phase = "ended"
=============================================================================
