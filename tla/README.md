# A verification project for ExperimentOS

ExperimentOS answers questions about product experiments and analyses their
data. This directory holds TLA+ modules translated from its source, the TLC
configurations that model-check them on small instances, and theorems about
them that TLAPS checks. `PROJECT.json` lists the components, the runs, the
source lines every definition stands for, the hazards of the code and the
theorems.

Check a module with `tlc -config <cfg> <MC module>.tla`, its proofs with
`tlapm <module>Proofs.tla`.

## 1. Inventory

The backend is Python (`packages/`, `apps/api`), the front end Next.js
(`apps/web`). The parts that carry the program's logic:

| Component | State it keeps | Operations | Interacts with |
|---|---|---|---|
| Agent workflow (`packages/agents`) | one `ExperimentOSState` per question: plan, a section per agent, errors | `planner`, seven agents in a fixed order, each skipped, completed or failed | vector retrieval, the database (a session per read), the caller's approval input |
| Sequential monitoring (`analysis/randomized/sequential`) | the looks evaluated so far, the status, deviations; nothing across calls | `plan`, `analyze`: a loop over the supplied looks | randomized analysis of each table |
| Typed analysis orchestration (`analysis/orchestration`) | a request-local store of authoritative results | `analyze`, `analyze_business`, `record_integrity`, protection of every agent's update and of the response | the agent workflow wraps its nodes in it |
| Ingestion (`packages/ingestion`) | rows of an experiment, its documents, chunks and metrics | read files, embed, replace in a transaction | the database; readers in other sessions |
| Retrieval and legacy RAG (`packages/retrieval`, `packages/qa`) | `last_metrics`, shared by requests | search, answer | database, LLM client |
| Observability (`packages/observability`) | open spans, buffered children of a trace | start, finish, record error, emit | every request; the providers behind it |
| Ask API (`apps/api`) | the root span and outcome of a request | `POST /ask`, ingestion and analysis routes | the workflow, observability |
| Statistics (validation, randomized, CUPED, Bayesian, causal) | none beyond a call | pure estimators | typed orchestration, sequential monitoring |
| Business impact (`analysis/impact`) | none beyond a call | adapt a result, align declared inputs, compute bands | the results of the estimators; typed orchestration |
| Evaluations (`packages/evals`) | the report of one command | RAG, agent, end-to-end, judged, prompt, factuality and statistical evaluations | every answer path; the quality policy reads the reports |
| Quality gate (`scripts/run_ai_quality_gate.py`, `packages/evals/policy`) | results of the sub-commands so far, the artifact root | run commands with a timeout, apply the policy, tell | CI |
| Web application (`apps/web`) | the form, the pending mutation, the last result | submit, settle, reset, change experiment | the API |

Behaviours that make them hard, and what makes them correct:

- **Agent workflow.** Any agent may raise and the ones behind it still run;
  what the database answers differs from read to read; two agents compute the
  same lift from different fields; the approval arrives with the question,
  before the decision exists. Correct: a rollout rests on complete evidence of
  one experiment, a failure is never argued away, no consent is announced that
  nobody gave.
- **Sequential monitoring.** A caller hands in looks in any order, again,
  with gaps, after a stop, with edited tables. Correct: the tables of a history
  are snapshots of one growing experiment, the error budget is never exceeded,
  reported results are final.
- **Typed orchestration.** Agents receive copies of the state and may return
  anything; a handler may raise. Correct: what is published is what the
  store holds, a contradicting agent leaves a finding and nothing else.
- **Ingestion.** Concurrent ingests of one experiment and readers between their
  transactions. Correct: an experiment is always of one version, a reader
  does not combine two, no ingest waits for ever.
- **Observability and ask.** Providers fail, spans stay open, shared
  metrics are read after an await. Correct: each request emits its trace
  once, with its own metrics, and a provider does not change the answer.
- **Business impact.** Inputs are declared one by one and have to agree on
  population, period, unit, event and currency. Correct: a number is the tightest
  band of what it stands for, of an effect that was observed or is said to last.
- **Evaluations and gate.** An average over the answers there were, a report an
  earlier run left, a time-out between two commands. Correct: pass is said only of a
  revision whose answers are right, and a failure is told.
- **Web.** Late answers, remounts. Correct: no answer under another question.

`PROJECT.json` lists the hazards with their lines and the properties that would
catch each.

## 2. Plan

| # | Modules | Abstract specification | Status |
|---|---|---|---|
| 1 | `AgentWorkflow`, `AgentWorkflowProofs` | `RolloutGovernance` | done |
| 2 | `SequentialMonitoring`, `SequentialMonitoringProofs` | `AlphaSpending` | done |
| 3 | `AnalysisIntegrity`, `AnalysisIntegrityProofs` | `AuthoritativeReport` | done |
| 4 | `Ingestion`, `IngestionProofs` | `EvidenceStore` | done |
| 5 | `Spans`, and `AskRequest` composing it | part of the next | done |
| 6 | `AskWorkspace`, `AskWorkspaceProofs`, over `AskRequest`, with the time-out of a call as fairness | `EvidenceView` | done |
| 7 | `AnalysisTable`, `Eligibility`, `RandomizedEstimators`, and `TypedAnalysis` putting them behind `AnalysisIntegrity`; `EligibilityProofs`, `TypedAnalysisProofs` | `AnalysisIntegrity` itself | done |
| 8 | `Identification`, `DifferenceInDifferences`, `PropensityWeighting`, `CrossFitting`, `CausalEstimators`, composed by `TypedAnalysis` too | `AnalysisIntegrity` itself | done |
| 9 | `WorkflowSuite`, `ReferenceCases`, `AdvancedCases`, `AnswerEvaluations`, `JudgedEvaluations`, `FactualityChecks`, `PromptExperiments`, `StatisticalBaseline` (the evaluations), `ReportMetrics`, and `QualityGate` running them; `QualityGateProofs` | `AnswersHold` in `QualityGate` | done |
| 10 | `ImpactScenario`, composed by `TypedAnalysis` | `Founded` and `Banded` in it | done |

Runs: one passing run per component for its invariants, action properties and
refinement, one further run per disagreement between code and documentation.
Theorems worth proving: type correctness and the inductive invariant of every
component, its main safety property, its refinement. These are proved for 1 to 8 and 10,
and for the gate itself in 9 with the statistical half of its verdict (section 5); the rest of
the verdict is model-checked.

## 3. What is modelled

### 3.1 `AgentWorkflow` - a question through the agents

Source: `packages/agents/{workflow,nodes,planner}.py` and the seven agent
modules. The variables are the fields of the shared state: `required` (the
plan), the sections `retrieved`, `analysis`, `impact`, `risk`, `decision`,
`approval`, `summary`, and `errors`; `pc` is the node LangGraph runs next, and
`request` the caller's input. One action per node. `Skip` is
`run_or_skip` for an agent the plan does not name; `Fail` is the same wrapper
when the agent raised.

What the agents branch on is kept, the rest abstracted:

- `Readings` is what the stored metrics say of an experiment: both variants
  present, the sign of the difference, a negative control, a stored lift, a
  p-value and whether it is significant, the guardrails, the number of caveats. The
  lift is computed from it as the code does, so a stored lift may contradict
  the computed one.
- A search returns any ranked sequence of chunks inside the SQL scope
  (`Searchable`), at most `TopK`.
- Each agent's database read is an independent choice, because each opens a
  session.
- A NaN lift falls through all comparisons and is the sign "flat". Guardrails
  whose name matches none of the adverse terms count as "fine". More than one
  worse guardrail, or more than two caveats, change no branch.
- Left out: tool output of another shape than the built-in tools', traces, latency
  metrics, wording.

`RolloutGovernance` is the promise: one proposal, consent asked for exactly
when it is an action, an announcement that shows the consent.
`AgentWorkflow!Governance` maps the sections to it; a failed summary announces
nothing.

### 3.2 `SequentialMonitoring` - looks at a registered plan

Source: `analysis/randomized/sequential/{service,boundaries,models}.py`. `looks`,
`status` and `deviated` are the locals of the loop in `analyze`; `plan` is its
argument, `result` says whether the history was built or its validator raised.
The loop's iterations are the actions: `RefusePlan` (fingerprint mismatch),
`RefuseLook` (`_validate_declared_look`), `RefuseTable` (missing
columns), `RefuseRows` (planned counts, cumulative history) and `Look`
(a look evaluated and retained). `Return` builds `SequentialHistory`, with the
validator's conditions in `Contract`. After each iteration the state equals
what `analyze` returns for that prefix of looks, so a run also stands for a
caller who asks again after every look.

- A table is its units with arm and outcome, and possibly one repeated row.
- Alpha is counted in integer units. `Shape` is the raw
  O'Brien-Fleming-shaped spending, any non-decreasing sequence; the clamp to the
  total and the last look's remainder are the code's.
- p-values are abstracted to whether a score reaches the boundary; the randomized
  analysis abstains by itself on a repeated unit or an empty arm and may abstain
  for other reasons.
- Diagnostics are abstracted to whether one is a deviation.

`AlphaSpending` is the promise about the error budget; `Budget` maps the looks
to payments.

### 3.3 `AnalysisIntegrity` - a typed analysis request through the agents

Source: `analysis/orchestration/{service,integrity,business,requests,results}.py` and
the branches for a typed request in `packages/agents`. `store` is the service's
request-local result, `result` and `citations` what the shared state publishes,
`risk`, `decision`, `approval`, `summary` and `errors` the other sections, `pc` the
node that runs next. One action per node, each the whole of handler and
`protect_update`; `Skip` is a node the plan does not name, `Raise` a replaced
agent that raises, `Respond` is `protect_response`.

- `AgentWorkflowService.run` installs its own analysis and business agents for a typed
  request, so only the four consumers can be replaced (`Injected`). A replaced
  agent returns its section as it follows from what it saw, a different one or
  none; a value for another key; the result it saw, another one or none; and it
  may write into the nested state it was handed (`Rewrites`).
- An envelope keeps its status, whether it has evidence and diagnostics, the status
  of its scenario, the kinds of its artifacts and the accused nodes. Evidence is any
  native status; diagnostics are the places they come from.
- `accusable` is history: the nodes whose agent departed from what it saw. No
  action reads it.
- The reference of the protection is always the published result: the service's
  own agents bring the first one, and a published one wins over a candidate, so
  no unknown id is looked up.
- Left out: which handler a method goes to, dataset resolution, the native
  results' projection, metrics and trace. The abstention for an unsupported
  method (which the boundary refuses before) is one of `Outcomes`.

`AuthoritativeReport` is what a reader is promised; `Answer` maps the published
sections to it, whatever the replaced agents return.

### 3.4 `Ingestion` - concurrent ingests of one experiment

Source: `packages/ingestion/load_experiment.py`, with the constraints of
`packages/db/models.py` and the two reads of
`RuntimeExperimentAnalysisRepository`. Each member of `Ingesters` is one call of
`ingest_experiment_dir`, `files` what it has read, `pc` the statement it runs next.
`Refuse` is everything that raises before the session is opened; `Select`, `Save`
(the flush that inserts the row or updates its changed columns), `Find` and `Delete`
(the two halves of a DELETE), `Insert` and `Commit` are the statements of the
transaction; `Rollback` undoes it after a violation (`Save`, `Insert`), a lost connection
(`Abort`) or a deadlock (`Victim`).

- The transactions are PostgreSQL's READ COMMITTED, marked external in the map: a
  statement sees the rows committed when it starts, waits for the
  transactions that hold one of its rows or keys, then goes on with
  those of its rows that are left. An unchanged row of the experiment is not
  written, hence not locked.
- A row is known by the ingest that wrote it. `experiment` keeps per column who wrote
  it: `config` stands for description and configuration (both repeat the metadata),
  `status` for a column that may be equal in different metadata.
- A document and its chunks are written by one transaction after the other
  documents are gone, so they are one row here. Metrics and documents are flushed in
  either order, since neither depends on the other.
- `at` is history: the position in the order of commits.
- `analyst` is one analysis with a session for the experiment and one for its metrics.
- Left out: parsing and validation of the files, chunking, embeddings.

`EvidenceStore` is the promise to a reader: documents and metrics of one ingest,
replaced together and once per ingest.

`OneEvidence` holds for two groups of inputs, and the run has both: ingests that each
bring metadata of their own queue behind the row of the experiment, and ingests of
one directory, whose metadata may be equal, queue behind the unique key of the
document. Where neither holds it fails: ingests of the same metadata from two
directories do not queue, and a DELETE misses what is committed while it waits, so
that two documents stay where the test of repeated ingestion expects one.

### 3.5 `Spans`, `AskRequest`, `AskWorkspace` - a question from the page and back

Source: `packages/observability`, `apps/api/{main,ask_service}.py`,
`packages/qa`, `packages/retrieval/service.py`, and in `apps/web`
`features/ask-experiment`, `services/http-ask-service.ts`, `services/errors.ts`.

`Spans` is the tree of a request: what a span that ends hands to its parent, what
the root that ends hands to which provider (`Emit`), sampling, the composite that
stops at the first strict failure, and the safe wrapper. `AskRequest` is the handler of
`POST /ask` in both modes, with `pc` the await a request is at; what is between two
awaits is one step, and a workflow runs in its thread. `AskWorkspace` adds the
browser: `view` is the mounted workspace, `call` the calls that were made, `wire` whether
each has settled. A handler with its state updates is one step, since React renders
between events.

- `lastMetrics` is a field per retrieval client: the workflow builds a client per
  run, and the legacy path reads its client's before it awaits again.
- TanStack's mutation is external: reset or unmounted, it forgets its call.
- A question is named by the request that first asked it. An answer is its question,
  its experiment, the experiments of its evidence, and whose metrics it shows.
- Left out: redaction, wire formats, the SDK's batches, prompts, the pages without
  calls, the routes that start no span.

`EvidenceView` is the reader's view of the page: empty, loading, an answer or a
problem, and what is loading is concluded or left.

Observed beside the properties: the workflow opens a retrieval span around the one its
tool opens, so OpenTelemetry counts a search twice; the OpenTelemetry and Phoenix
providers override `_finish_root` and ignore `always_trace_errors`
(`docs/phase3/phoenix_observability.md:215` says otherwise); an exception the
handler does not know leaves no trace
(`docs/phase3/langsmith_observability.md:132`), which `OneTrace` delimits.

### 3.6 Randomized estimators behind the typed request

Source: `analysis/validation`, `analysis/randomized`, the contracts in `analysis/`.
The modules are pure and layered as the code calls them: `AnalysisTable` (a request, a
binding and a table with their validators), `Eligibility` (the rules of the
declarations, of the data and of the design in the order they report, the early
returns, the aggregated status and primary reason),
`RandomizedEstimators` (fixed horizon, CUPED, Bayesian). `TypedAnalysis` is
`AnalysisIntegrity` with a service behind the analysis node: `Dispatch`, `Estimate`
and `Store` replace what was any outcome, `native` is the service's own result.

- A cell is missing (`None`), a text, an infinite number or an integer. A row has a
  cell per role it may play.
- A result is its status, its reason, the *rows* its estimates were computed from and
  the kinds of estimates. Where rounding, overflow or a p-value decides, `Results`
  is a set with every way it may go.
- Left out: a payload that does not parse, the missingness thresholds (off by default),
  summaries, spans, quadrature, the numbers.

`EstimateIsEarned` does not repeat the rules: it states of the rows behind an
estimate what the rules are there for (measured, independent, on one side, in the
period, enough, none dropped, nothing leaking through a covariate).
`ServicesAgree` compares the three services, each of which validates with a request
or a policy of its own making.

Observed beside the properties:

- A constant outcome makes the Bayesian eligibility "ineligible", so the codes that ask
  for more data are skipped and a posterior is computed (`bayesian/service.py:167`, against
  `docs/phase4/bayesian_ab_testing.md:3`): `Shadowed` in `InTime` is that case.
- Two constant arms may differ from zero variance by rounding, and then Welch's test
  completes (`docs/phase4/unadjusted_randomized_analysis.md:40`); so may a
  constant covariate of CUPED (`docs/phase4/cuped_covariate_adjustment.md:57`).
- The randomized estimators ignore clustering, repeated rows of different times
  and the segment of a request.
- A binary outcome of floats `0.0`, `1.0` passes validation and the Bayesian service,
  and the fixed-horizon service abstains with `invalid_binary_outcome`.
- CUPED with a bound time column and no clustering never completes.

### 3.7 Causal estimators behind the typed request

Source: `analysis/causal`. `Identification` is `CausalIdentificationService`: design,
variables, timing, graph, adjustment, assumptions, and the order of its diagnostics.
`DifferenceInDifferences`, `PropensityWeighting` (with inverse-probability
weights) and `CrossFitting` (double machine learning and heterogeneous effects)
validate their declarations and rows, call it, and return a result of the same kind
as above; a result of the cross-fitted ones also says which units trained the
model that predicted each row. `CausalEstimators` dispatches, and says in `Earned`
what an estimate of each design takes for granted.

- A number of a row is one that a float can hold: an integer beyond that raises already in
  the validators that convert it (`_finite_real`, `_is_finite_real`).
- Fitted scores are any function into `ScoreValues`; overlap, balance, the fit of a
  nuisance model and inference may go either way (their results are sets).
- `DidPolicy` holds the cluster minima; `rank` is the stable hash order of the
  units that the folds are dealt in.
- A subgroup is estimated or refused with its own
  reason, and an abstained result may still carry the estimates of the supported ones.
- The adapters of `dispatch_optional.py` are there with their gates, the codes of their
  failures and what they return: EconML behind the validation and the folds of
  `CrossFitting` (`EconmlDml`, `EconmlHte`), DoWhy in
  `CausalEstimators` (`DowhyResults`). Whether a library is installed and what it
  answers is open; the back-door set DoWhy finds is any set of observed variables
  that the treatment does not bring about (`BackdoorSets`, external).
- Left out: sensitivity summaries, numbers, what a refutation says.

Its part `HeldOut` compares two runs: the same table from its last row to its first
gives the same training sets.

Observed beside the properties:

- `nodes_by_variable` (`causal/service.py:560`) keeps the last node of a variable, so
  descendants of an earlier node of the treatment are not found.
- `_noncompleted_result` of difference in differences takes the alphabetically first
  code as reason, so the warning `did.few_clusters` hides the error beside it.
- Trimming that removes an arm raises instead of refusing (`ipw/validation.py:365`;
  `docs/phase4/ipw_treatment_effects.md:44`), and so does a missing treatment or unit
  declaration of a panel.
- Validation accepts any finite number, and the arithmetic on it may still raise where the
  service catches only errors of its own: the powers of `dml/numerics.py:207` and `:257`
  for outcomes of about 1e154 and more, in `dml` and `hte` alike (`dml/service.py:197`,
  `hte/service.py:208`), sums of the panel regression (`did/numerics.py:95`),
  the standardization, balance and weights of the propensity model
  (`propensity/encoding.py:57`, `propensity/numerics.py:177`) and of the comparison, a
  percentage of CUPED that is not finite (`cuped/service.py:930`), a root finder that does not
  converge (`bayesian/numerics.py:229`). Each is a result `Raised` (`Interrupted` of a
  randomized service) that the workflow stores as a failure.
- A result raised is not an estimate, so `ResultContract` says what it may be: of a service
  that does not catch what its numbers raise (`Guarded` names the others), and of a request and
  rows that an estimate would have been earned by (`RequestInOrder`), not of one that should
  have been refused.
- The EconML adapter answers a fold plan that cannot be made with `invalid` and
  `INVALID_DATA_SHAPE` (`econml/dml.py:301`), which the estimator without a library
  abstains from; it records a minimum of four training rows (`econml/nuisance.py:213`)
  and enforces none. The subgroup service without a library records `analysis_version` and
  does not look at it.
- DoWhy's rows are checked at the columns of the binding (`dowhy/adapter.py:270`), but the
  library reads the columns named as the variables are; the covariates of the binding are
  not compared with the adjustment set, nor is the set of the second identification, on the
  table, with that of the first, which is the one that is reported. So `DowhyIsSound` speaks
  of numbers and arms only for a binding to the columns of the same names.
- The effect modifier is not looked up in the graph, and the subgroup service has no
  check for insufficient assumptions as the cross-fitted one has.

### 3.8 `ImpactScenario` - what an effect is worth

Source: `analysis/impact`, `orchestration/business.py`. The module is pure. `SourceOf`
is what an adapter makes of a result (`source_randomized.py`, `source_causal.py`),
`Misfits` the cross-checks of the declared inputs with the source and with each other
in the order of `validation.py`, `BoundsIn` the interval arithmetic of `calculation.py`
in its four modes, `Disposed` the validator of the result. In `TypedAnalysis` a case
that asks for a scenario keeps its native result for the business node: `Assess`
computes, `Attach` stores, as `_analyze_business` does.

- Exposure is counted in halves (`One` is 2), the numbers of an estimate and of the
  inputs are small integers, a month has four days. That floats may overflow
  (`nonfinite_arithmetic`) is a choice.
- Evidence of an input is measured or assumed; the search of repository records,
  the symbols of units, derivations and the legacy projection are left out.
- An adapter's check of what the result repeats of its request (units, echoes,
  overlap, balance, versions) cannot fail for the results of the modelled services. What
  DoWhy estimates has no interval and gives no scenario.

`Banded` defines the numbers of a scenario without bounds, repetitions or adapters: every
choice of the inputs in their ranges gives an amount, and a band is the smallest
that holds all of them. Whether a difference is counted (`IsShare`) is said by what was
estimated; the dimension of the metric's unit does not say it, for a continuous metric may be
told in shares (the case `Proportion` of `MCTypedAnalysis`). `Founded` says of every day of the horizon that the effect was
observed or is declared to persist, and that the effect is identified.

Observed beside the properties:

- No result of the modelled estimators gives a completed scenario
  (`docs/phase4/business_impact_scenarios.md` describes one): a randomized result
  always has an assumption nobody assessed, and a causal source is conditional
  by definition (`source_causal.py`).
- No adapter yields `relative_binary`, so a declared baseline is always
  `unused_baseline`.
- An inconclusive CUPED result passes the envelope's gate and is then refused by its
  adapter.
- The difference in differences that finding 4 lets through has no scenario: the adapter
  identifies the request again and refuses it.

### 3.9 Evaluations, quality policy and gate

Source: `packages/evals`, `scripts/run_ai_quality_gate.py`. A *world* is a revision of
the program as the evaluations meet it: the answers of each path to each case, the
versions of a prompt, the policy file, the environment. `Answers` gives a world's
answers, and they are data: what the evaluations do with them is the code.

- `WorkflowSuite` (cases at the API boundary, injections, compatibility),
  `ReferenceCases` (native estimators against pinned references, repeated and
  reordered), `AdvancedCases` (adapters of optional packages, seen and said),
  `AnswerEvaluations` (RAG, agent, end to end), `JudgedEvaluations` (RAGAS,
  DeepEval, prompt regression, with and without a judge), `FactualityChecks`,
  `PromptExperiments`, `StatisticalBaseline`: from answers to the report of a command.
- `ReportMetrics` is the adapters from a report to metrics, with the recomputation of
  the statistical report, the policy file's rules, their application and the command.
- `QualityGate` is the machine: `StartGate`, `CheckEnvironment`, `CheckInputs`, then per
  command `Evaluate`, `CommandWrites` once per file and `CommandExits`, or `TimeOut`;
  `Kill` at any time; then `WriteProvisional`, `WriteSummary`, `WriteManifest`,
  `WriteResult`, `Tell`. `artifacts` is the root, which nobody clears: a file is the
  n-th write of its command in some run, so a later run may read it.
- `BuildCiReport` is the step after it (`ci-report build`), whatever became of the gate:
  the policy's status, `infrastructure_error` before it and a failed statistical baseline
  over both, and a status for each suite from the rules named after it. Its three files
  are written in one step, for nothing reads them meanwhile. `FailureIsTold` says that
  what the pull request shows agrees with the exit code that decides the merge,
  `VerdictIsEarned` that it names a suite that failed when the quality did.
- A metric is an integer in thousandths; texts are the sets of phrases the checks
  look for. A model that judges is external (any score or an exception).
- Left out: the deltas against a baseline report, the publishing of the comment
  (`ci_reporting/github.py`, the host's API), the Markdown adapters but that of the RAG report, wording, the numerics of
  fixtures and references, what only the optional packages can raise.

`AnswersHold` says of a world, without reports, metrics or rules, what right
answers are; `VerdictIsEarned` compares the gate's verdict with it, when the policy has
the rules that are shipped (`KeepsRules`). These are in `QualityGate` as
`quality_policy.yaml` has them, all 106 with their operators, thresholds and severities,
only without weights and with a file by its name alone (`ShippedSources`, `ShippedRules`).
`SamplesOK` says what the evaluations rely on: cases come in order, what is counted is finite, and
without a chunk there is no retrieved document.

Observed beside the properties:

- The RAG evaluation drops a sample that raised, DeepEval counts it as 0; the agent's
  `fail_count` counts errors except when every case raised; the end-to-end coverages
  are over responses with code 200 only.
- A suite that exits with 1 ends a gate on a fresh root with 2, for its reports are
  missing, and on a used root with 1 (`docs/phase3/ci_quality_gates.md:97`).
- A `quality_policy.json` that was cut short crashes the gate with exit code 1 and only the
  provisional result written; a time-out loses `command_results`; a killed gate leaves
  the previous result, which may say pass, in `ai_quality_gate.json`; a summary may show
  the policy of an earlier run, with the line on the infrastructure.
- The report of the pull request is made also of a gate that was killed: on a used root,
  or after the provisional result, it may say pass while the job fails by the exit code,
  so `FailureIsTold` speaks of gates that came to an end. A failed baseline turns
  `infrastructure_error` into `fail`; the failure's type stays. A suite whose rules were all
  skipped is shown as pass, a policy whose rules were all skipped as incomplete.
- `validate_policy_invariants` does not look at a rule's tolerance or source; no shipped rule
  reads `analysis.failures.*` of the agent reports; percentages round to one decimal
  before the RAG rules read them.
- An empty list of repeated diagnostics is compared with the first execution itself; a
  required optional dependency is enforced by the method the answer names.
- Prompt regression counts a failing candidate as regression and as failure, so the
  pass rate can be negative.
- In prompt experiments `guardrail_metrics` are never read; a primary metric that is a
  latency or a rate of unsupported claims recommends the treatment when it rises; one that
  is not measured is always inconclusive.
- Numerical grounding is skipped for a case without structured numbers.

### 3.10 Not modelled

Phase 3 verification reads the artifacts after the gate and decides nothing in it; the older baseline command is not run by the gate. What the estimators
compute is floating-point numerics over SciPy and statsmodels, beyond a model
checker: their guards and outcomes are modelled, their numbers not. LLM and embedding
clients are external. Generators, configuration and the rendering pages keep no state.

## 4. Runs

| Run | Instance | Shows |
|---|---|---|
| `agent_workflow` | two stored experiments, one unknown id, searches of up to 2 chunks | `TypeOK`, `RolloutIsEarned`, `ScopeKept`, `UpstreamErrorBlocks`, `HeadlineTellsApproval`, `HighConfidenceIsClean`, `ImplementsGovernance` hold |
| `rollout_significance` | same | violation of `RolloutIsSignificant` |
| `question_filters` | same | violation of `FiltersMatchChunks` |
| `sequential_monitoring` | 3 looks, 2 units, 2 outcomes, 2 bindings, clock 0..1 | `TypeOK`, `CumulativeEvidence`, `EfficacyIsEarned`, `OnlyRoundingRaises`, `HistoryIsFinal`, `ImplementsAlphaSpending` hold |
| `sequential_chronology` | same | violation of `TimesChronological` |
| `analysis_integrity` | all four consumers replaced; 17,042 cases of the randomized and causal services, 576 of them with a scenario | the workflow: `TypeOK`, `PublishedIsStored`, `FindingsAreJust`, `SectionsAgree`, `NothingIsAuthorized`, `EvidenceIsFinal`, `ImplementsReport`, `ImplementsIntegrity`; the services: `EstimateIsEarned`, `ServicesAgree`, `ResultContract`, `ScenarioIsEarned` hold |
| `did_identified` | same | violation of `DidIsIdentified` |
| `ask_path` | two requests, two known experiments and one unknown, three kinds of process, 3 mounts | `TypeOK`, `ShownIsAsked`, `MetricsAreOwn`, `OneTrace`, `ErrorsAreKept`, `ImplementsView` hold |
| `ingestion` | 3 ingests after a possible seed; own metadata from two directories, or any metadata from one | `TypeOK`, `OneEvidence`, `MetricsNotOlder`, `ImplementsReplacement` hold |
| `ingestion_ends` | 3 ingests of equal metadata from two directories | `EveryIngestEnds` holds |
| `ingestion_version` | 3 ingests of one directory | violation of `OneVersion` |
| `quality_gate` | 13 revisions, each alone in a fresh root; a failing one after a sound, a sound one after a misrouted | `TypeOK`, `VerdictIsEarned`, `FailureIsTold`, `EveryGateEnds` hold |

Bounds. Two stored experiments let a search mix experiments, a third id names no
row; two chunks give a best ranked one and another. The risk score saturates at 3
("high"), so two caveats reach every level. Three looks are the least with a look
between two others, which the neighbour-only comparisons of the code need to be
questioned; the shape `<<0, 3, 6>>` under a budget of 5 gives a first look without
budget, an ordinary one, and one the shape would overshoot. Two units let each arm be
filled, lost, swapped. The stored experiments, and the units, outcomes and
bindings, are only compared for equality: the symmetry sets are theirs.

The typed workflow has no bound but the set of replaced agents: what a built-in
agent returns is among the proposals of a replaced one, so replacing all four
includes every other choice.

A case is an experiment every service accepts with one change of its table and one of
its request (where a result is a large set, one of either): a rule can hide
another only in a case that breaks both. Eight rows are two more than the total the
policy calls too few to be firm, so that losing a row, two, an arm or half
changes the verdict; a panel of four customers loses its minimum with one. Scores of
0, 30, 60, 100 are one at either end, which a weight cannot have, and two within. One
question brings all cases, for no service reads the question; the other questions
go the way `AnalysisIntegrity` has always gone.

A case with a scenario asks for a month of orders with a cost of every basis, or for
a quarter of which one month was observed; each edit breaks or bends one declaration, and
every estimator brings its own source. Ranges of width one, on both sides of the
centre, are the least in which a product of bounds differs from the bounds of
a product. A month of four days keeps the horizons countable and days apart from months.

The revisions of `quality_gate` are a sound one, one with warnings only, and eleven that
are wrong in one place each, a place per command or check: an answer that raises, is
not repeated, is made up, takes another path, is altered on the way or estimated against
a refusal; a number that drifts; a policy without a guard; an environment or a
fixture that is not as it must be. Two runs are the least in which a root holds what
another revision left.

Two requests are one that outlives its workspace and one that replaces it, or two in
the server together; three mounts let a reader leave an experiment and come back.

Three ingests and a seed are the least in which a DELETE waits for a transaction that
waits for a third, and in which the waiting can close to a circle only the server
breaks (`Victim`); four metadata keep them apart, two paths and two metric names
make keys clash or not. An ingest runs once: a retry is another ingest.

Fairness. The workflow, the looks and the typed request are sequential calls that
return or raise: no fairness is assumed, no liveness claimed, and each model
ends in a state that only stutters (`Ended`). In `Ingestion` every transaction that
is open goes on when it can (`WF` of its statements): its coroutine awaits nothing
but the server, and the server looks for deadlocks. Nothing obliges
an ingest to open its session, to fail, or an analysis to read. In `AskWorkspace`
only the time-out of a call is fair: its timer runs in the browser, and nothing is
assumed of the server, the network or the reader. In `QualityGate` the gate's own
steps are fair, being sequential code, and the time-out of a command, which
`subprocess.run` enforces; nothing is assumed of the commands, which may hang, or of
`Kill`. Deadlock is checked in every run but `ask_path`, where a reader who has used up
the requests and mounts stops, and `quality_gate`, where a root whose runs are used
up is left alone.

### Disagreements found

1. **A rollout without significance** (`rollout_significance`):
   `decision_agent.py:205` tests whether the significance record exists, which it
   does whenever a p-value is stored; a p-value of 0.9 supports a rollout.
2. **Hints filter everything out** (`question_filters`): the planner's
   `experiment_hints` are passed to the vector search as a metadata filter, and no
   chunk has that key.
3. **Order of looks in time** (`sequential_chronology`): only the look just before is
   compared, so a look without a time hides the one before it, against
   `docs/phase4/sequential_testing.md`.
4. **An effect that is not identified** (`did_identified`): the validation of difference in
   differences forgives every identification that holds a reversed timing, taking it
   for the reversal of the periods it reports itself (`did/validation.py:225`); a
   measurement period that contradicts the start of treatment has the same code.
5. **Metadata of another version** (`ingestion_version`): an ingest that finds its metadata
   unchanged does not write the row of the experiment, so it neither waits for nor
   replaces the metadata a concurrent ingest is writing, against
   `docs/architecture.md:113`.

Not a disagreement but worth knowing: an information time within the tolerance
passes the look check and fails the exact comparison of the history's validator
(`sequential/models.py:397`), so `analyze` raises; `OnlyRoundingRaises` says that
nothing else makes it raise.

## 5. Proofs

The theorems hold for every value of the constants that satisfies the module's
assumptions (any number of experiments, chunks, looks and units, any budget and
shape).

`AgentWorkflowProofs`. `TypeCorrectness` from `TypeOK` alone.
`Invariance` proves an inductive invariant that says, per section, which node has
written it and from what: sections of nodes still to run are at their
defaults, and those written keep the relations between analysis, impact, risk,
decision and approval that the decision table read. The properties do
not follow from themselves: `RolloutIsEarned` speaks of a decision made three
nodes after the analysis it rests on. From it follow `RolloutTheorem`,
`UpstreamErrorTheorem`, `ScopeTheorem`, `HeadlineTheorem` and `Refinement`
(every step is a step of `RolloutGovernance` or a stutter). `ConfidenceTheorem` adds
`Weighed`: the recorded risk score is still the score of the sections it was
computed from when the decision reads it, so a low level means that no factor
was found (`CleanScore`).

`SequentialMonitoringProofs`. The invariant is `TypeOK` with: the retained looks
carry consecutive indices (`InTurn`), the status is that of the last look
(`StatusTold`), only the last look crossed (`CrossedLast`), `CumulativeEvidence`
and `OnlyRoundingRaises`. Cumulative evidence between any two looks is the
transitive closure of the neighbour comparison the code makes; the lemmas on
`Grows` and on the monotone schedule carry it. From it follow the theorems on
evidence, efficacy, finality, the contract, and `Refinement` of
`AlphaSpending`.

`AnalysisIntegrityProofs`. The invariant is `TypeOK` and the four invariants of the
run, with `InOrder`: a section has its initial value until its own node has run.
`SectionsAgree` needs it, since the scenario changes what the risks and the summary
should say, and `FindingsAreJust` needs `PublishedIsStored`, since an agent is
judged by the stored result and computes from the published one. The lemma
`ConflictIsDeparture` says that under these two the comparison in
`protect_update` is exact. `FinalTheorem` and `Refinement` follow, for every set of
replaced agents.

`IngestionProofs`. `TypeCorrectness` needs one fact beside the types, `Selected`: a
row that was selected is there to stay, so that the columns an ingest leaves
alone are columns of a row. The other theorems assume `Queues`: every input is of
metadata of their own or of one directory (without it `OneEvidence` is false,
section 3.4; the inputs of the run `ingestion` satisfy it, which
`MCInputsQueue` has TLC check). `OneEvidence` speaks of commits only and is not
inductive; the invariant says whose turn it is. An ingest `Holds` when it
has written the row of the experiment or deleted the document. At most one does
(`Exclusive`), only one that does gets its document in (`InTurn`), and what it has
found and deleted is all that a reader sees (`Whole`). The two queues enter in two
lemmas, `Alone` for the row and `DocumentTaken` with `KeyTaken` for the document. The
step of a rollback, and so of every failure and deadlock, is one lemma.
`CommitReplaces` carries `Refinement`; `MetricsNotOlder` needs in addition that what
is visible is the latest (`Latest`).

`AskWorkspaceProofs`. The invariant has a part for the server and one for the page.
The server's says what a handler holds at each of its awaits: which spans are open
and that the rest of its tree is finished (`SpansAreKept`), that nothing is told of a
request before it is answered (`InOrder`), that metrics and evidence are its own
(`LocalsAreOwn`, `AnswersFit`). `OneTrace` and `ErrorsAreKept` speak of the end only; they
need to know the tree a root closes. The page's part says that the call the workspace
observes is about what it shows (`CallIsObserved`, `PageIsCoherent`) and that what arrives is
what was asked (`CallsAreAsked`), which ties the two. `Refinement` is the safety part of
`ImplementsView`.

`EligibilityProofs`. A rule is a list of codes. Lemmas about lists (what is told by
`Told`, `Each`, `FlattenSeq`, the first of a kind) give, rule by rule, which codes a table can
cause, and from them `EligibilityIsCoherent`: the aggregated result keeps its contract for
every request, binding and table. The converses serve the services: an eligible
experiment has measured rows of both arms, enough of them, one row per unit.

`TypedAnalysisProofs`. `CaseIsOpen` is the inductive invariant of the machine: what is kept
of a case is a result of the service it was sent to. The rest is about those results, for
every table and declaration, with one lemma per service. `ServicesImplement` carries the theorems on
`AnalysisIntegrity` over (`IntegrityHolds`, `ReportHolds`). `ContractOfResults` follows the
returns of all services, and for one that raises shows of the request it had come to
what an estimate of it would rest on, by the lemmas of `EveryEstimateIsEarned`. `AgreementOfServices` shows that what one service accepts
passes the rules the other reports, which it asks with a request of its own making. In
`EveryEstimateIsEarned` the rows of an estimate are followed back through validation,
identification, trimming and folds; its hard part is `HeldOut`, that a table read from its
last row to its first gives the same training sets. There the mirrored table is shown
to have the same declarations, the same faults and the same ranks, and so the same folds
(`DmlReflects`, `HteReflects`). `EveryScenarioIsEarned` has
two halves. `ScenarioRests` is about what a scenario rests on. A scenario with numbers had nothing amiss (`Misfits`), so each check of the
source, of the periods and of the repetitions was passed; `DaysAreAccounted` follows a day
of the horizon to the observed or the declared days through the comparison of periods,
and `PeriodDivides` turns the divisibility of scaled counts into that of lengths.

The other half, `ScenarioTight`, is that every number is the tightest band there is, for any ranges
and any list of costs. A request with nothing amiss fits its source (`RequestFits`): the lengths of
the periods are multiples, each recurring cost is repeated a whole number of times, the scale of the
adapter is the one of the estimate. Then a band that is tight for some numbers (`TightFor`) stays so
through a product, a sum and a difference (`TimesSpans`, `PlusSpans`, `MinusSpans`), provided the
operands are chosen independently. That is so because `NetIn` takes exposure and effect once, and
because the costs of different bases can be chosen apart (`CostsAreIndependent`); `NetAmounts`
regroups what is charged item by item into that form, and the mutant of `NetIn`, which takes
them twice, is tight no longer. Sums over the costs are folds, and what they are is shown by
a smallest set of items on which a claim fails (`SmallestPart`): that they exist, that they are
linear in their terms and that they grow with them (`SumIsLinear`, `SumIsMonotone`).

The assumptions are those of the modules: that the cases are well formed (`CasesAssumption`,
which TLC evaluates), and that `None` and the like are no numbers and no bounds
(`AbsentAssumption`).

`QualityGateProofs`. What a command comes to is the subject of the first half: for every
world, each command writes its own files and no other (`Typed`, `Disjoint`), all of them when it
lets the gate go on, and the two that decide say in their JSON how they exit
(`Comes`). For the baseline this is `StatusIsRead`: the report of the pull request reads
a failed workflow case as a failure whatever the stored status says, and the exit code was
made of a status that such a case makes fail. For the policy it is `PolicyIsJudged`: a
verdict other than a failure has no violation. `Evaluate` has this for the state
(`ResultComes`). `FailureIsTold` speaks of the end only; the invariant follows the files
there. While the commands run, what has ended has left files of this run behind and
what runs has written a prefix of its own (`RunningKept`); a verdict that is no failure of
the infrastructure rests on all thirteen (`VerdictKept`, `Settled`), and neither the gate's
own writes nor those of the report touch them (`SettledStays`). `ManifestKept` is why the
report of such a gate finds nothing missing, `SummaryKept` why a summary of an earlier
run is not taken for this one's when the gate crashes. `GateTypes` and `EndsAreTold`
follow.

The next part is about answers, and first about the suite whose verdict no rule can
change. `StatisticsAreEarned`: a gate that passes has statistical answers that hold
(`StatisticsHold`), for any rules and thresholds. A check that does not fail means what it is named
for (`AnalysisPasses`, `ExpectedPasses`); what a supplement, a replay or a required package
adds to the checks takes none of them back (`ChecksAreKept`, `EnforcedPasses`), and neither does the
comparison of two implementations (`ComparisonIsAdvice`); a count of failures that is zero
means that none failed (`NoneFails`); so a baseline that exits with 0 has none
(`BaselinePasses`). `OutcomesKept` adds to the invariant that the exit codes the gate keeps are those
of the commands of this run, on this revision. Assumed are the bound on the runs, which the model and not the code has, that a
baseline is told where to write, that its cases have names of their own and as many executions as
its evaluators make, and that `None` is not the name of a failure.

`FailuresAreNamed` is what a pull request is told of a failure, for any policy: a suite that
failed or the statistical baseline, unless a violated rule is named after no suite. A
policy that failed has a violation (`PolicyIsJudged`); a violated rule fails the suite it is named
after, since the report of that suite is listed as there (`SuiteFails`); what has failed for its
quality was told by one of the two commands that decide (`FailureHasName`), and the report
keeps it (`NamesKept`).

`PassIsEarned` is the half of `VerdictIsEarned` about passing, for every revision, every history
of the artifact root and every policy with the shipped rules. It goes backwards along the code.
A policy that exits with 0 has no rule of severity `fail` or `critical` unmet, for a source that
is absent or broken fails the required ones or the command (`RulesAreMet`); the report that a
source is read from is the one the suite's command wrote in this run from this revision's
answers, whatever an earlier run left (`NumbersKept`, `AnswersKept`, the inductive part); the
adapter takes from the report the metric the rule names (`SuiteMeets` and a lemma for each
suite); and a metric at its threshold means a right answer of every sample. That last step is
about averages: values of at most 1000 with an average of 1000 are all 1000, by a least
counterexample among the finite sets summed over, since the fold has no induction theorem the
provers can use. Which rules it rests on is itself a result (`ShippedHas` lists eleven): the RAG
rules are not among them, for the Markdown report they read is rounded to a tenth of a percent,
so that among a few thousand questions a wrong one passes; the same questions pass through RAGAS
and DeepEval, whose JSON has the exact averages.

Left to TLC:

- `EveryIngestEnds`, `EveryGateEnds` and the liveness of `ImplementsView`, for liveness under
  fairness and ENABLED are out of the prover's reach.
- The half of `VerdictIsEarned` about blame. That some answer is wrong after a failure is about
  the policy and the sound answers of the instance: a policy may have more rules than
  the shipped ones, and a threshold an answer that is right does not meet, a citation
  beyond those asked for or a judge's score. The name of a failure is proved up to
  `FailuresAreNamed`.
- What a recursive definition computes for every input; no module here has a RECURSIVE
  operator, and where an induction over numbers was needed a least counterexample did
  (`LeastElement`), where one over sets a smallest part (`SmallestPart`).
