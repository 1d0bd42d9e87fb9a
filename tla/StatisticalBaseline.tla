-------------------------- MODULE StatisticalBaseline --------------------------
(***************************************************************************)
(* The command statistical-baseline (run_statistical_baseline.py): the     *)
(* reference cases and the workflow cases are evaluated, the statistical   *)
(* rules of the central policy are applied to the report, and four         *)
(* artifacts are written.  An exception of any stage is told in all four.  *)
(*                                                                         *)
(* A baseline is what the command finds:                                   *)
(*   scope, required     its arguments                                     *)
(*   outputs             <<json, markdown, policy json, summary>>          *)
(*   cases, executions   the reference cases and what executing them gave  *)
(*   inventory           the ids of the workflow cases it read, in order   *)
(*   suite               the workflow suite and the installed packages     *)
(*   leaves, shown       what is in the report, and in its renderings      *)
(* What it does is a sequence of writes <<path, content>> and an exit code.*)
(***************************************************************************)
EXTENDS AdvancedCases, ReportMetrics

\* evaluate: None when a native case raised; an adapter may raise.
Attached(cases, first, executions) ==
  {AttachComparison(c, cases, first[c.id], first, executions) : c \in cases}

CaseResults(baseline) ==
  LET cases == baseline.cases
      named(id) == CHOOSE c \in cases : c.id = id
  IN IF \E c \in cases : c.advanced = None /\ baseline.executions[c.id] = None THEN None
     ELSE Attached(cases,
            [id \in {c.id : c \in cases} |->
               IF named(id).advanced = None
               THEN EvaluateNativeCase(named(id), baseline.executions[id])
               ELSE EvaluateAdvancedCase(named(id), baseline.executions[id],
                                         baseline.suite.packages, baseline.required)],
            baseline.executions)

Tallied(results, status) == Cardinality({r \in results : r.evaluation_status = status})

NativeReport(results) ==
  [schema |-> "2", run_status |-> "completed", scope |-> "complete", workflow |-> {},
   workflow_case_count |-> 0, workflow_quality_status |-> "skipped",
   overall_status |-> IF Tallied(results, "fail") > 0 THEN "fail" ELSE "pass",
   counts |->
     [dataset_size |-> Cardinality(results), cases_passed |-> Tallied(results, "pass"),
      cases_failed |-> Tallied(results, "fail"), cases_advisory |-> Tallied(results, "advisory"),
      cases_skipped |-> Tallied(results, "skipped"),
      cases_invalid |-> Cardinality({r \in results : r.category = "invalid_input"}),
      cases_abstained |-> Cardinality({r \in results : r.actual_status = "abstained"})],
   results |-> results,
   capabilities |->
     {[capability |-> c,
       cases |-> Cardinality({r \in results : r.capability = c}),
       passed |-> Tallied({r \in results : r.capability = c}, "pass"),
       failed |-> Tallied({r \in results : r.capability = c}, "fail"),
       advisory |-> Tallied({r \in results : r.capability = c}, "advisory")] :
        c \in {r.capability : r \in results}}]

\* The optional adapters alone, or everything.
InScope(baseline) ==
  IF baseline.scope = "complete" THEN baseline
  ELSE [baseline EXCEPT
          !.cases = {c \in @ : c.advanced # None /\ c.advanced.capability.package # None},
          !.suite.cases = {c \in @ : c.method \in DOMAIN PackageOf}]

WorkflowStatus(workflow) ==
  Rollup(UNION {{r.checks[code].status : code \in DOMAIN r.checks} : r \in workflow})

WithWorkflow(report, scope, workflow) ==
  [report EXCEPT !.scope = scope, !.workflow = workflow,
                 !.workflow_case_count = Cardinality(workflow),
                 !.workflow_quality_status = WorkflowStatus(workflow)]

\* The rules of the central policy about this report, for this scope.
StatisticalPolicy(policy, scope, path) ==
  LET own == {i \in DOMAIN policy.metrics : policy.metrics[i].source = "statistics"}
  IN IF "statistics" \notin DOMAIN policy.sources \/ own = {} THEN None
     ELSE [sources |-> [s \in {"statistics"} |-> [policy.sources[s] EXCEPT !.path = path]],
           metrics |-> [i \in own |->
                          IF policy.metrics[i].id = <<"analysis", "scope">>
                          THEN [policy.metrics[i] EXCEPT !.value = Text(scope)]
                          ELSE policy.metrics[i]]]

BaselineStatus(report, verdict) ==
  IF "fail" \in {report.overall_status, verdict.overall_status, report.workflow_quality_status}
  THEN "fail"
  ELSE IF \/ "warning" \in {verdict.overall_status, report.workflow_quality_status}
          \/ report.counts.cases_advisory > 0
  THEN "warning" ELSE "pass"

(***************************************************************************)
(* What is written.  A failure keeps the report as far as it had come.     *)
(***************************************************************************)
BaselineFailure(stage, report) ==
  [schema |-> "2", run_status |-> "infrastructure_fail", stage |-> stage, evaluation |-> report]

Failing(outputs, before, stage, report) ==
  LET failure == BaselineFailure(stage, report)
      message == Text(<<"infrastructure_fail", stage>>)
  IN [exit |-> 2,
      writes |-> before \o <<<<outputs[1], failure>>, <<outputs[3], failure>>,
                             <<outputs[2], message>>, <<outputs[4], message>>>>]

\* From the report on: it is written before the policy reads it.
Applying(own, report, output) ==
  IF own = None THEN None ELSE EvaluatePolicy(own, [p \in {output} |-> report])

Concluding(baseline, report, verdict) ==
  LET outputs == baseline.outputs
      provisional == <<<<outputs[1], report>>>>
      final == [report EXCEPT !.overall_status = BaselineStatus(report, verdict)]
  IN IF verdict = None THEN Failing(outputs, provisional, "policy", report)
     ELSE IF PrivacyViolations(baseline.shown) # {}
     THEN Failing(outputs, provisional, "rendering", final)
     ELSE [exit |-> IF final.overall_status = "fail" THEN 1 ELSE 0,
           writes |-> provisional
                        \o <<<<outputs[1], final>>, <<outputs[2], Text(final.overall_status)>>,
                             <<outputs[3], verdict>>,
                             <<outputs[4], Text(final.overall_status)>>>>]

Judging(baseline, policy, report) ==
  Concluding(baseline, report,
             Applying(StatisticalPolicy(policy, baseline.scope, baseline.outputs[1]), report,
                      baseline.outputs[1]))

Assessing(baseline, policy, results, suite) ==
  LET report == WithWorkflow(NativeReport(results), baseline.scope, suite.results)
  IN IF results = None THEN Failing(baseline.outputs, <<>>, "native", None)
     ELSE IF PrivacyViolations(baseline.leaves) # {}
     THEN Failing(baseline.outputs, <<>>, "workflow", None)
     ELSE IF suite.errors # {} THEN Failing(baseline.outputs, <<>>, "workflow", report)
     ELSE Judging(baseline, policy, report)

Evaluating(baseline, policy) ==
  Assessing(baseline, policy, CaseResults(baseline),
            WorkflowSuiteOf(baseline.suite, baseline.scope, baseline.required))

ValidInventory(ids) == ids # <<>> /\ IsInjective(ids) /\ CaseIds \subseteq ToSet(ids)

BaselineCommand(baseline, policy) ==
  IF ~IsInjective(baseline.outputs) \/ ~PolicyOK(policy)
  THEN Failing(baseline.outputs, <<>>, "configuration", None)
  ELSE IF ~ValidInventory(baseline.inventory)
  THEN Failing(baseline.outputs, <<>>, "fixtures", None)
  ELSE Evaluating(InScope(baseline), policy)
=============================================================================
