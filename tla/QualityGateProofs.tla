--------------------------- MODULE QualityGateProofs ---------------------------
(***************************************************************************)
(* What the gate keeps, whatever its commands do and wherever it is        *)
(* stopped (QualityGate): its types, and that how it ends is what its      *)
(* files say.  Then that what it passes is right: what each evaluation     *)
(* measures is full only of samples that hold, the shipped rules ask for   *)
(* it, and a policy that is met was met by the reports of this run.        *)
(***************************************************************************)
EXTENDS QualityGate, FiniteSetTheorems, NaturalsInduction, WellFoundedInduction, TLAPS

(***************************************************************************)
(* The files.  Every command has its own, and none is the gate's or one of *)
(* the report of the pull request.                                         *)
(***************************************************************************)
Owned ==
  <<{}, {}, {}, {"evaluation.md", "evaluation.json"},
    {"agent_evaluation.md", "agent_evaluation.json"},
    {"agent_e2e_evaluation.md", "agent_e2e_evaluation.json"},
    {"prompt_regression.md", "prompt_regression.json"},
    {"factuality_report.md", "factuality_report.json"},
    {"prompt_experiment.md", "prompt_experiment.json"},
    {"ragas_report.md", "ragas_report.json"},
    {"deepeval_report.md", "deepeval_report.json"},
    {"statistical_baseline.json", "statistical_baseline.md",
     "phase4/quality_policy.json", "phase4/github_summary.md"},
    {"quality_policy.md", "quality_policy.json"}>>
Told == {"pr_quality_report.json", "pr_quality_report.md", "pr_comment.md"}
Root == Reports \cup Told \cup {Manifest}

LEMMA Places ==
  /\ Len(Commands) = 13 /\ Commands[12] = "phase4_statistical_baseline"
  /\ Commands[13] = "quality_policy"
  /\ \A k \in 1..13 : k # 12 => Commands[k] # "phase4_statistical_baseline"
  /\ \A k \in 1..13 : k # 13 => Commands[k] # "quality_policy"
  BY DEF Commands

LEMMA Told3 == ToSet(CiReports) = Told /\ CiReports[3] \in Told
  BY DEF CiReports, ToSet, Told

LEMMA SuitePlaces ==
  \A k \in 4..11 : /\ DOMAIN SuiteReports[Commands[k]] = 1..2
                   /\ Owned[k] = {SuiteReports[Commands[k]][1], SuiteReports[Commands[k]][2]}
  BY DEF Commands, SuiteReports, Owned

LEMMA SuiteDomain == DOMAIN SuiteReports = {Commands[k] : k \in 4..11}
  BY DEF Commands, SuiteReports

LEMMA Disjoint ==
  /\ \A j, k \in 1..13 : j # k => Owned[j] \cap Owned[k] = {}
  /\ \A k \in 1..13 : Owned[k] \cap (OwnReports \cup Told \cup {Manifest}) = {}
  /\ Told \cap (OwnReports \cup {Manifest}) = {} /\ Manifest \notin OwnReports
  BY DEF Owned, OwnReports, Told, Manifest

LEMMA ReportPlaces ==
  /\ \A p : p \in Reports <=> p \in OwnReports \/ \E k \in 1..13 : p \in Owned[k]
  /\ RequiredReports \subseteq Reports
<1> DEFINE S == UNION {ToSet(SuiteReports[c]) : c \in DOMAIN SuiteReports}
<1>1. \A k \in 4..11 : ToSet(SuiteReports[Commands[k]]) = Owned[k]
  BY SuitePlaces DEF ToSet
<1>2. ASSUME NEW p PROVE p \in S <=> \E k \in 4..11 : p \in Owned[k]
  <2>1. \A c \in DOMAIN SuiteReports : \E k \in 4..11 : c = Commands[k]
    BY SuiteDomain
  <2>2. \A k \in 4..11 : Commands[k] \in DOMAIN SuiteReports
    BY SuiteDomain
  <2>3. p \in S <=> \E c \in DOMAIN SuiteReports : p \in ToSet(SuiteReports[c])
    OBVIOUS
  <2> HIDE DEF S
  <2>4. ASSUME p \in S PROVE \E k \in 4..11 : p \in Owned[k]
    BY <1>1, <2>1, <2>3, <2>4
  <2>5. ASSUME NEW k \in 4..11, p \in Owned[k] PROVE p \in S
    BY <1>1, <2>2, <2>3, <2>5
  <2> QED BY <2>4, <2>5
<1>3. ToSet(BaselineOutputs) = Owned[12] /\ ToSet(PolicyReports) = Owned[13]
  BY DEF ToSet, BaselineOutputs, PolicyReports, Owned
<1>4. Owned[1] = {} /\ Owned[2] = {} /\ Owned[3] = {}
  BY DEF Owned
<1>5. Reports = (((S \cup Owned[12]) \cup Owned[13]) \cup OwnReports)
  BY <1>3 DEF Reports
<1> HIDE DEF S
<1>6. RequiredReports \subseteq Reports
  BY DEF RequiredReports
<1>7. ASSUME NEW p PROVE p \in Reports <=> p \in OwnReports \/ \E k \in 1..13 : p \in Owned[k]
  BY <1>2, <1>4, <1>5
<1> QED BY <1>6, <1>7

(***************************************************************************)
(* What a command comes to: how it exits, and which of its files it has    *)
(* written then.  The baseline says in the file that remains how it exits, *)
(* and so does the policy.                                                 *)
(***************************************************************************)
Finished(k, code) == code = 0 \/ (k \in {12, 13} /\ code = 1)

Decided(told, code) ==
  /\ told.overall_status = "fail" <=> code = 1
  /\ code = 0 => /\ told.overall_status \in {"pass", "warning"}
                 /\ told.violations = {} /\ told.critical = {}
  /\ code = 1 => told.violations # {}

Typed(k, d) ==
  /\ d.exit \in 0..2
  /\ d.paths \in Seq(Owned[k]) /\ Len(d.paths) <= 5
  /\ Finished(k, d.exit) => \A p \in Owned[k] : \E i \in 1..Len(d.paths) : d.paths[i] = p

BaselineSays(d) ==
  d.exit \in {0, 1} =>
    /\ Len(d.paths) >= 2 /\ d.paths[2] = "statistical_baseline.json"
    /\ \A i \in 3..Len(d.paths) : d.paths[i] # "statistical_baseline.json"
    /\ d.told[2] = "fail" <=> d.exit = 1

PolicySays(d) ==
  d.exit \in {0, 1} =>
    /\ Len(d.paths) = 2 /\ d.paths[2] = "quality_policy.json"
    /\ Decided(d.told[2], d.exit)

Comes(k, d) ==
  /\ Typed(k, d)
  /\ k = 12 => BaselineSays(d)
  /\ k = 13 => PolicySays(d)

LEMMA NothingWritten ==
  ASSUME NEW k \in 1..13, NEW d, d.paths = <<>>, d.exit \in 0..2,
         Finished(k, d.exit) => Owned[k] = {}
  PROVE  Typed(k, d)
<1> DEFINE S == Owned[k]
           s == d.paths
<1>1. s = <<>>
  OBVIOUS
<1> HIDE DEF S, s
<1>2. s \in Seq(S) /\ Len(s) = 0
  BY <1>1
<1> QED BY <1>2 DEF Typed, S, s

LEMMA ExitComes ==
  ASSUME NEW k \in 1..3, NEW b
  PROVE  Typed(k, Ran(Exits(b)))
<1> DEFINE r == Exits(b)
<1>1. r.writes = <<>> /\ r.exit \in {0, 1}
  BY DEF Exits
<1> HIDE DEF r
<1>2. Ran(r).paths = <<>> /\ Ran(r).exit \in {0, 1}
  BY <1>1 DEF Ran
<1>3. Owned[k] = {}
  BY DEF Owned
<1>4. Typed(k, Ran(r))
  BY <1>2, <1>3, NothingWritten
<1> QED BY <1>4 DEF r

LEMMA ReportComes ==
  ASSUME NEW k \in 4..11, NEW report
  PROVE  Typed(k, Ran(Reporting(Commands[k], report)))
<1> DEFINE r == Reporting(Commands[k], report)
           a == SuiteReports[Commands[k]][1]
           b == SuiteReports[Commands[k]][2]
<1>1. Owned[k] = {a, b}
  BY SuitePlaces
<1>2. CASE report = None
  <2>1. r.writes = <<>> /\ r.exit = 1
    BY <1>2 DEF Reporting, Exits
  <2> HIDE DEF r
  <2>2. Ran(r).paths = <<>> /\ Ran(r).exit = 1
    BY <2>1 DEF Ran
  <2>3. ~Finished(k, 1)
    BY DEF Finished
  <2>4. Typed(k, Ran(r))
    BY <2>2, <2>3, NothingWritten
  <2> QED BY <2>4 DEF r
<1>3. CASE report # None
  <2>1. r.writes = [i \in 1..2 |-> <<SuiteReports[Commands[k]][i], report>>] /\ r.exit = 0
    BY <1>3 DEF Reporting
  <2> HIDE DEF r
  <2>2. Ran(r).paths = [i \in 1..2 |-> SuiteReports[Commands[k]][i]] /\ Ran(r).exit = 0
    BY <2>1 DEF Ran
  <2> DEFINE s == Ran(r).paths
  <2>3. s = <<a, b>>
    BY <2>2
  <2>4. Ran(r).paths = s /\ Ran(r).exit = 0
    BY <2>2
  <2> HIDE DEF s, a, b
  <2>5. s \in Seq({a, b}) /\ Len(s) = 2 /\ s[1] = a /\ s[2] = b
    BY <2>3
  <2>6. \A p \in {a, b} : \E i \in 1..Len(s) : s[i] = p
    BY <2>5
  <2>7. Typed(k, Ran(r))
    BY <1>1, <2>4, <2>5, <2>6 DEF Typed
  <2> QED BY <2>7 DEF r
<1> QED BY <1>2, <1>3

\* What is kept of a command's writes, each of them to one of the paths S.
RanInto(S, r) ==
  /\ Ran(r).exit = r.exit
  /\ Ran(r).paths \in Seq(S) /\ Len(Ran(r).paths) = Len(r.writes)
  /\ \A i \in 1..Len(r.writes) : Ran(r).paths[i] = r.writes[i][1]
  /\ \A i \in 1..Len(r.writes) :
       r.writes[i][1] = "statistical_baseline.json" =>
         Ran(r).told[i] = StatisticalStatus(r.writes[i][2])

LEMMA RanPaths ==
  ASSUME NEW X, NEW S, NEW r, r.writes \in Seq(X), \A x \in X : x[1] \in S
  PROVE  RanInto(S, r)
<1> DEFINE w == r.writes
           n == Len(w)
           s == [i \in 1..n |-> w[i][1]]
<1>1. w \in Seq(X) /\ n \in Nat /\ DOMAIN w = 1..n
  OBVIOUS
<1>2. /\ Ran(r).exit = r.exit /\ Ran(r).paths = s
      /\ \A i \in 1..n : w[i][1] = "statistical_baseline.json" =>
                           Ran(r).told[i] = StatisticalStatus(w[i][2])
  BY <1>1 DEF Ran
<1>3. \A i \in 1..n : w[i] \in X
  BY <1>1
<1> HIDE DEF w, n
<1>4. s \in Seq(S) /\ Len(s) = n /\ \A i \in 1..n : s[i] = w[i][1]
  BY <1>1, <1>3
<1> QED BY <1>2, <1>4 DEF w, n, RanInto

\* The writes of a failure follow on what has been written before.
LEMMA FailureComes ==
  ASSUME NEW before, NEW stage, NEW report, NEW X,
         before \in Seq(X), Len(before) <= 1, \A x \in X : x[1] \in Owned[12]
  PROVE  Comes(12, Ran(Failing(BaselineOutputs, before, stage, report)))
<1> DEFINE o == BaselineOutputs
           f == BaselineFailure(stage, report)
           m == Text(<<"infrastructure_fail", stage>>)
           a == <<o[1], f>>
           b == <<o[3], f>>
           c == <<o[2], m>>
           d == <<o[4], m>>
           r == Failing(o, before, stage, report)
           Y == X \cup {a, b, c, d}
<1>1. r.exit = 2 /\ r.writes = before \o <<a, b, c, d>>
  BY DEF Failing
<1>2. a[1] \in Owned[12] /\ b[1] \in Owned[12] /\ c[1] \in Owned[12] /\ d[1] \in Owned[12]
  BY DEF BaselineOutputs, Owned
<1> HIDE DEF o, f, m, a, b, c, d, r
<1>3. \A y \in Y : y[1] \in Owned[12]
  BY <1>2
<1>4. before \in Seq(Y) /\ <<a, b, c, d>> \in Seq(Y) /\ Len(<<a, b, c, d>>) = 4
  OBVIOUS
<1> DEFINE e == <<a, b, c, d>>
<1> HIDE DEF e, Y
<1>5. r.writes \in Seq(Y) /\ Len(r.writes) = Len(before) + 4
  BY <1>1, <1>4 DEF e
<1>6. /\ Ran(r).exit = 2
      /\ Ran(r).paths \in Seq(Owned[12]) /\ Len(Ran(r).paths) = Len(r.writes)
  <2> DEFINE S == Owned[12]
  <2>1. \A y \in Y : y[1] \in S
    BY <1>3
  <2> HIDE DEF S
  <2>2. r.writes \in Seq(Y)
    BY <1>5
  <2>3. RanInto(S, r)
    BY <2>1, <2>2, RanPaths
  <2> QED BY <1>1, <2>3 DEF S, RanInto
<1>7. Len(Ran(r).paths) <= 5
  BY <1>5, <1>6
<1>8. Comes(12, Ran(r))
  BY <1>6, <1>7 DEF Comes, Typed, BaselineSays, Finished
<1> QED BY <1>8 DEF r, o

\* A check that failed makes the status of the report, so what is read of the
\* report when it is shown is what the exit code was made of.
LEMMA StatusIsRead ==
  ASSUME NEW results, NEW scope, NEW workflow, NEW verdict
  PROVE  LET report == WithWorkflow(NativeReport(results), scope, workflow)
             final == [report EXCEPT !.overall_status = BaselineStatus(report, verdict)]
         IN StatisticalStatus(final) = "fail" <=> final.overall_status = "fail"
<1> DEFINE report == WithWorkflow(NativeReport(results), scope, workflow)
           status == BaselineStatus(report, verdict)
           final == [report EXCEPT !.overall_status = status]
           failed == \E r \in workflow : \E code \in DOMAIN r.checks :
                       r.checks[code].status = "fail"
<1>1. /\ report.workflow = workflow /\ report.workflow_quality_status = WorkflowStatus(workflow)
      /\ {"overall_status", "workflow"} \subseteq DOMAIN report
  BY DEF WithWorkflow, NativeReport
<1>2. failed => WorkflowStatus(workflow) = "fail"
  <2> DEFINE all == UNION {{r.checks[code].status : code \in DOMAIN r.checks} : r \in workflow}
  <2>1. failed => "fail" \in all
    OBVIOUS
  <2>2. WorkflowStatus(workflow) = Rollup(all)
    BY DEF WorkflowStatus
  <2> HIDE DEF all
  <2> QED BY <2>1, <2>2 DEF Rollup
<1>3. failed => status = "fail"
  BY <1>1, <1>2 DEF BaselineStatus
<1> HIDE DEF report, status
<1>4. /\ final.overall_status = status /\ final.workflow = workflow
      /\ "overall_status" \in DOMAIN final
  BY <1>1
<1> HIDE DEF final
<1>5. StatisticalStatus(final) = IF failed THEN "fail" ELSE status
  BY <1>4 DEF StatisticalStatus
<1>6. StatisticalStatus(final) = "fail" <=> final.overall_status = "fail"
  BY <1>3, <1>4, <1>5
<1> QED BY <1>6 DEF final, report, status

LEMMA ConclusionComes ==
  ASSUME NEW baseline, NEW results, NEW workflow, NEW verdict,
         baseline.outputs = BaselineOutputs
  PROVE  Comes(12, Ran(Concluding(baseline,
                         WithWorkflow(NativeReport(results), baseline.scope, workflow), verdict)))
<1> DEFINE report == WithWorkflow(NativeReport(results), baseline.scope, workflow)
           final == [report EXCEPT !.overall_status = BaselineStatus(report, verdict)]
           o == BaselineOutputs
           p == <<o[1], report>>
           a == <<o[1], final>>
           b == <<o[2], Text(final.overall_status)>>
           c == <<o[3], verdict>>
           d == <<o[4], Text(final.overall_status)>>
           r == Concluding(baseline, report, verdict)
           S == Owned[12]
           J == "statistical_baseline.json"
<1>1. o[1] = J /\ S = {o[1], o[2], o[3], o[4]} /\ o[2] # J /\ o[3] # J /\ o[4] # J
  BY DEF BaselineOutputs, Owned
<1>2. StatisticalStatus(final) = "fail" <=> final.overall_status = "fail"
  BY StatusIsRead
<1>3. \/ \E stage, rep : r = Failing(o, <<p>>, stage, rep)
      \/ /\ r.exit = IF final.overall_status = "fail" THEN 1 ELSE 0
         /\ r.writes = <<p>> \o <<a, b, c, d>>
  <2> DEFINE g == Concluding(baseline, report, verdict)
  <2>1. CASE verdict = None
    BY <2>1, Zenon DEF Concluding
  <2>2. CASE verdict # None /\ PrivacyViolations(baseline.shown) # {}
    BY <2>2, Zenon DEF Concluding
  <2>3. CASE verdict # None /\ PrivacyViolations(baseline.shown) = {}
    <3>1. r = [exit |-> IF final.overall_status = "fail" THEN 1 ELSE 0,
               writes |-> <<p>> \o <<a, b, c, d>>]
      BY <2>3, Zenon DEF Concluding
    <3> HIDE DEF r, final, p, a, b, c, d
    <3> QED BY <3>1
  <2> QED BY <2>1, <2>2, <2>3
<1>4. /\ p = <<o[1], report>> /\ a = <<o[1], final>>
      /\ p[1] = o[1] /\ a[1] = o[1] /\ a[2] = final /\ b[1] = o[2] /\ c[1] = o[3] /\ d[1] = o[4]
  OBVIOUS
<1> DEFINE X == {p, a, b, c, d}
           w == <<p>> \o <<a, b, c, d>>
<1>5. \A x \in X : x[1] \in S
  BY <1>1, <1>4
<1> HIDE DEF p, a, b, c, d, final, report
<1>6. /\ w \in Seq(X) /\ Len(w) = 5
      /\ w[1] = p /\ w[2] = a /\ w[3] = b /\ w[4] = c /\ w[5] = d
  OBVIOUS
<1>7. <<p>> \in Seq(X) /\ Len(<<p>>) = 1
  OBVIOUS
<1> HIDE DEF o, X, w, r, S
<1>8. CASE \E stage, rep : r = Failing(o, <<p>>, stage, rep)
  <2>1. PICK stage, rep : r = Failing(o, <<p>>, stage, rep)
    BY <1>8
  <2> DEFINE first == <<p>>
  <2>2. first \in Seq(X) /\ Len(first) <= 1 /\ \A x \in X : x[1] \in Owned[12]
    BY <1>5, <1>7 DEF S
  <2> HIDE DEF first
  <2>3. Comes(12, Ran(Failing(BaselineOutputs, first, stage, rep)))
    BY <2>2, FailureComes
  <2> QED BY <2>1, <2>3 DEF first, o, r, report
<1>9. CASE /\ r.exit = IF final.overall_status = "fail" THEN 1 ELSE 0
           /\ r.writes = w
  <2> DEFINE u == Ran(r)
  <2>1. /\ u.exit = r.exit /\ u.paths \in Seq(S) /\ Len(u.paths) = 5
        /\ \A i \in 1..5 : u.paths[i] = w[i][1]
        /\ \A i \in 1..5 : w[i][1] = J => u.told[i] = StatisticalStatus(w[i][2])
    <3>1. r.writes \in Seq(X) /\ Len(r.writes) = 5
      BY <1>6, <1>9
    <3>2. RanInto(S, r)
      BY <3>1, <1>5, RanPaths
    <3>3. r.writes = w
      BY <1>9
    <3> QED BY <3>1, <3>2, <3>3 DEF RanInto
  <2> HIDE DEF u
  <2>2. /\ u.paths[1] = o[1] /\ u.paths[2] = o[1] /\ u.paths[3] = o[2] /\ u.paths[4] = o[3]
        /\ u.paths[5] = o[4] /\ u.told[2] = StatisticalStatus(final)
    BY <2>1, <1>1, <1>4, <1>6
  <2>3. u.exit \in {0, 1} /\ (u.exit = 1 <=> final.overall_status = "fail")
    BY <2>1, <1>9
  <2>4. \A q \in S : \E i \in 1..5 : u.paths[i] = q
    BY <2>2, <1>1
  <2>5. BaselineSays(u)
    BY <2>1, <2>2, <2>3, <1>1, <1>2 DEF BaselineSays
  <2>6. Typed(12, u)
    BY <2>1, <2>3, <2>4 DEF Typed, S
  <2>7. Comes(12, u)
    BY <2>5, <2>6 DEF Comes
  <2> QED BY <2>7 DEF u, r, report
<1> QED BY <1>3, <1>8, <1>9 DEF w, o

LEMMA EarlyFailureComes ==
  ASSUME NEW stage, NEW report
  PROVE  Comes(12, Ran(Failing(BaselineOutputs, <<>>, stage, report)))
<1> DEFINE b == <<>>
<1>1. b \in Seq({}) /\ Len(b) <= 1 /\ \A x \in {} : x[1] \in Owned[12]
  OBVIOUS
<1> HIDE DEF b
<1>2. Comes(12, Ran(Failing(BaselineOutputs, b, stage, report)))
  BY <1>1, FailureComes
<1> QED BY <1>2 DEF b

LEMMA AssessmentComes ==
  ASSUME NEW c, NEW policy, NEW results, NEW suite, c.outputs = BaselineOutputs
  PROVE  Comes(12, Ran(Assessing(c, policy, results, suite)))
<1> DEFINE report == WithWorkflow(NativeReport(results), c.scope, suite.results)
           r == Assessing(c, policy, results, suite)
<1>1. CASE r = Failing(c.outputs, <<>>, "native", None)
  BY <1>1, EarlyFailureComes, Zenon
<1>2. CASE r = Failing(c.outputs, <<>>, "workflow", None)
  BY <1>2, EarlyFailureComes, Zenon
<1>3. CASE r = Failing(c.outputs, <<>>, "workflow", report)
  BY <1>3, EarlyFailureComes, Zenon
<1>4. CASE r = Judging(c, policy, report)
  <2>1. PICK verdict : r = Concluding(c, report, verdict)
    BY <1>4, Zenon DEF Judging
  <2>2. Comes(12, Ran(Concluding(c, report, verdict)))
    BY ConclusionComes
  <2> QED BY <2>1, <2>2, Zenon
<1> QED BY <1>1, <1>2, <1>3, <1>4, Zenon DEF Assessing

LEMMA BaselineComes ==
  ASSUME NEW w \in Worlds
  PROVE  Comes(12, Ran(BaselineResult(w)))
<1> DEFINE given == Answers[w].baseline
           outputs == BaselineOutputs
           b == [given EXCEPT !.outputs = outputs, !.scope = "complete"]
           policy == Answers[w].policy
           c == InScope(b)
<1>1. b.outputs = BaselineOutputs /\ "outputs" \in DOMAIN b
  <2>1. {"outputs", "scope"} \subseteq DOMAIN given
    BY AnswersAssumption DEF BaselineOK
  <2> HIDE DEF given, outputs
  <2>2. b.outputs = outputs /\ "outputs" \in DOMAIN b
    BY <2>1
  <2> QED BY <2>2 DEF outputs
<1>2. BaselineResult(w) = BaselineCommand(b, policy)
  BY DEF BaselineResult
<1> HIDE DEF b, policy
<1>3. c.outputs = BaselineOutputs
  BY <1>1 DEF InScope
<1> HIDE DEF c
<1>4. CASE BaselineCommand(b, policy) = Failing(b.outputs, <<>>, "configuration", None)
  BY <1>1, <1>2, <1>4, EarlyFailureComes, Zenon
<1>5. CASE BaselineCommand(b, policy) = Failing(b.outputs, <<>>, "fixtures", None)
  BY <1>1, <1>2, <1>5, EarlyFailureComes, Zenon
<1>6. CASE BaselineCommand(b, policy) = Evaluating(c, policy)
  <2>1. PICK results, suite : Evaluating(c, policy) = Assessing(c, policy, results, suite)
    BY Zenon DEF Evaluating
  <2>2. Comes(12, Ran(Assessing(c, policy, results, suite)))
    BY <1>3, AssessmentComes
  <2> QED BY <1>2, <1>6, <2>1, <2>2, Zenon
<1> QED BY <1>4, <1>5, <1>6, Zenon DEF BaselineCommand, c

LEMMA OutcomeComes ==
  ASSUME NEW w \in Worlds, NEW k \in 1..12
  PROVE  Comes(k, Ran(Outcome(w, Commands[k])))
<1>1. CASE k \in 1..3
  <2>1. Commands[k] \in {"seed_integration_fixture", "validate_prompt_registry",
                         "validate_prompt_experiment"}
    BY <1>1 DEF Commands
  <2>2. PICK b : Outcome(w, Commands[k]) = Exits(b)
    <3>1. CASE Commands[k] = "seed_integration_fixture"
      BY <3>1, Zenon DEF Outcome
    <3>2. CASE Commands[k] = "validate_prompt_registry"
      BY <3>2, SMT DEF Outcome
    <3>3. CASE Commands[k] = "validate_prompt_experiment"
      BY <3>3, SMT DEF Outcome
    <3> QED BY <2>1, <3>1, <3>2, <3>3
  <2>3. Typed(k, Ran(Exits(b)))
    BY <1>1, ExitComes
  <2> QED BY <1>1, <2>2, <2>3 DEF Comes
<1>2. CASE k \in 4..11
  <2> DEFINE c == Commands[k]
  <2>1. c \in {"custom_rag_evaluation", "custom_agent_evaluation", "end_to_end_evaluation",
               "prompt_regression", "factuality", "prompt_experiment_sample", "ragas_offline",
               "deepeval_offline"}
    BY <1>2 DEF Commands
  <2> HIDE DEF c
  <2>2. \E report : Outcome(w, c) = Reporting(c, report)
    <3>1. CASE c = "custom_rag_evaluation"
      BY <3>1, SMT DEF Outcome
    <3>2. CASE c = "custom_agent_evaluation"
      BY <3>2, SMT DEF Outcome
    <3>3. CASE c = "end_to_end_evaluation"
      BY <3>3, SMT DEF Outcome
    <3>4. CASE c = "prompt_regression"
      BY <3>4, SMT DEF Outcome
    <3>5. CASE c = "factuality"
      BY <3>5, SMT DEF Outcome
    <3>6. CASE c = "prompt_experiment_sample"
      BY <3>6, SMT DEF Outcome
    <3>7. CASE c = "ragas_offline"
      BY <3>7, SMT DEF Outcome
    <3>8. CASE c = "deepeval_offline"
      BY <3>8, SMT DEF Outcome
    <3> QED BY <2>1, <3>1, <3>2, <3>3, <3>4, <3>5, <3>6, <3>7, <3>8
  <2>3. PICK report : Outcome(w, c) = Reporting(c, report)
    BY <2>2
  <2>4. Typed(k, Ran(Reporting(c, report)))
    BY <1>2, ReportComes DEF c
  <2> QED BY <1>2, <2>3, <2>4 DEF Comes, c
<1>3. CASE k = 12
  <2>1. Outcome(w, Commands[12]) = BaselineResult(w)
    BY Places, SMT DEF Outcome
  <2> QED BY <1>3, <2>1, BaselineComes, Zenon
<1> QED BY <1>1, <1>2, <1>3

LEMMA OutcomeIsOwn ==
  ASSUME NEW w \in Worlds, NEW k \in 1..12
  PROVE  OutcomeIn(Outcomes, w, Commands[k]) = Outcome(w, Commands[k])
<1> DEFINE c == Commands[k]
           o == [world |-> w, command |-> c, result |-> Outcome(w, c)]
           S == ToSet(Commands) \ {"quality_policy"}
<1>1. c \in S
  BY DEF Commands, ToSet
<1>2. \A x \in Outcomes : x.result = Outcome(x.world, x.command)
  BY DEF Outcomes
<1>3. \E x \in Outcomes : x.world = w /\ x.command = c
  <2> HIDE DEF c
  <2>1. o \in Outcomes
    BY <1>1 DEF Outcomes
  <2>2. o.world = w /\ o.command = c
    OBVIOUS
  <2> QED BY <2>1, <2>2
<1> HIDE DEF c
<1>4. OutcomeIn(Outcomes, w, c) = Outcome(w, c)
  <2> DEFINE x == CHOOSE x \in Outcomes : x.world = w /\ x.command = c
  <2>1. x \in Outcomes /\ x.world = w /\ x.command = c
    BY <1>3
  <2>2. x.result = Outcome(w, c)
    BY <1>2, <2>1
  <2>3. OutcomeIn(Outcomes, w, c) = x.result
    BY DEF OutcomeIn
  <2> QED BY <2>2, <2>3
<1> QED BY <1>4 DEF c

\* A rule that must stay is judged, so a policy that keeps its rules is never
\* skipped; and whatever is violated fails its category, and with it the whole,
\* which nothing else fails.
LEMMA PolicyIsJudged ==
  ASSUME NEW policy, NEW loaded, NEW sources, KeepsInvariants(policy)
  PROVE  LET result == PolicyResult(policy.metrics, RuleResults(policy.metrics, loaded), sources)
         IN /\ result.overall_status \in {"pass", "warning", "fail"}
            /\ result.overall_status = "fail" <=> result.violations # {}
<1> DEFINE rules == policy.metrics
           status(i) == RuleStatus(rules[i], (CHOOSE l \in loaded : l[1] = rules[i].source)[2])
           judged == RuleResults(rules, loaded)
           own(c) == {j[2] : j \in {k \in judged : rules[k[1]].category = c}}
           categories == [c \in {rules[i].category : i \in DOMAIN rules} |-> Rollup(own(c))]
           all == {categories[c] : c \in DOMAIN categories}
           violations == {rules[j[1]].id : j \in {k \in judged : k[2] = "fail"}}
           result == PolicyResult(rules, judged, sources)
<1>1. result.overall_status = Rollup(all) /\ result.violations = violations
  BY DEF PolicyResult
<1>2. judged = {<<i, status(i)>> : i \in DOMAIN rules}
  BY DEF RuleResults
<1> HIDE DEF result, judged
<1>3. PICK i \in DOMAIN rules : rules[i].required /\ rules[i].severity = "critical"
  <2>1. <<"factuality", "findings", "fabricated_revenue_or_roi">> \in Guarded
    BY DEF Guarded
  <2> QED BY <2>1 DEF KeepsInvariants
<1>4. status(i) \in {"pass", "fail"}
  BY <1>3 DEF RuleStatus
<1> HIDE DEF status
<1>5. ASSUME NEW j \in DOMAIN rules
      PROVE  /\ status(j) \in own(rules[j].category)
             /\ Rollup(own(rules[j].category)) \in all
  <2>1. <<j, status(j)>> \in judged
    BY <1>2
  <2>2. status(j) \in own(rules[j].category)
    BY <2>1
  <2>3. rules[j].category \in DOMAIN categories
    OBVIOUS
  <2>4. categories[rules[j].category] = Rollup(own(rules[j].category))
    BY <2>3
  <2> HIDE DEF own, categories
  <2> QED BY <2>2, <2>3, <2>4
<1> HIDE DEF own, all, categories
<1>6. Rollup(own(rules[i].category)) \in {"pass", "warning", "fail"}
  BY <1>4, <1>5 DEF Rollup
<1>7. Rollup(all) \in {"pass", "warning", "fail"}
  BY <1>5, <1>6 DEF Rollup
<1>8. ASSUME violations # {} PROVE Rollup(all) = "fail"
  <2>1. PICK j \in judged : j[2] = "fail"
    BY <1>8
  <2>2. PICK n \in DOMAIN rules : j = <<n, status(n)>>
    BY <1>2, <2>1
  <2>3. status(n) = "fail"
    BY <2>1, <2>2
  <2>4. Rollup(own(rules[n].category)) = "fail"
    BY <2>3, <1>5 DEF Rollup
  <2>5. "fail" \in all
    BY <2>4, <1>5
  <2> QED BY <2>5 DEF Rollup
<1>9. ASSUME Rollup(all) = "fail" PROVE violations # {}
  <2>1. "fail" \in all
    BY <1>9 DEF Rollup
  <2>2. PICK c \in DOMAIN categories : categories[c] = "fail"
    BY <2>1 DEF all
  <2>3. "fail" \in own(c)
    <3>1. categories[c] = Rollup(own(c))
      BY DEF categories
    <3> QED BY <2>2, <3>1 DEF Rollup
  <2>4. PICK j \in judged : j[2] = "fail"
    BY <2>3 DEF own
  <2> QED BY <2>4
<1>10. /\ result.overall_status \in {"pass", "warning", "fail"}
       /\ result.overall_status = "fail" <=> result.violations # {}
  BY <1>1, <1>7, <1>8, <1>9
<1> QED BY <1>10 DEF result, judged

LEMMA PolicyComes ==
  ASSUME NEW outcomes, InputsValid(World)
  PROVE  Comes(13, PolicyOutcome(outcomes))
<1> DEFINE policy == Answers[World].policy
           files == [p \in {policy.sources[s].path : s \in DOMAIN policy.sources} |->
                       Content(p, outcomes)]
           arguments == [warning_policy |-> "allow", warn_only |-> FALSE]
           report == EvaluatePolicy(policy, files)
           c == PolicyCommand(policy, files, arguments)
           rules == ToSet(policy.metrics)
           d == Ruling(c, rules)
<1>1. PolicyOK(policy) /\ KeepsInvariants(policy)
  BY DEF InputsValid
<1>2. PolicyOutcome(outcomes) = d
  BY DEF PolicyOutcome
<1>3. c.report = report /\ c.exit = PolicyExit(report, arguments)
  BY <1>1 DEF PolicyCommand, PolicyOutcomeOf
<1>4. report # None => /\ report.overall_status \in {"pass", "warning", "fail"}
                       /\ report.overall_status = "fail" <=> report.violations # {}
  <2> DEFINE loaded == {<<s, LoadSource(policy.sources[s], files)>> : s \in DOMAIN policy.sources}
             sources == {l[1] : l \in {k \in loaded : k[2] # None}}
  <2>1. report = Applied(policy.metrics, loaded)
    BY DEF EvaluatePolicy
  <2>2. report # None =>
          report = PolicyResult(policy.metrics, RuleResults(policy.metrics, loaded), sources)
    BY <2>1, Zenon DEF Applied
  <2> HIDE DEF report, loaded, sources, policy
  <2> QED BY <1>1, <2>2, PolicyIsJudged
<1> HIDE DEF report
<1>5. c.exit = IF report = None THEN 2 ELSE IF report.overall_status = "fail" THEN 1 ELSE 0
  BY <1>3 DEF PolicyExit
<1> HIDE DEF c, rules
<1>6. /\ d.exit = c.exit
      /\ d.paths = IF report = None THEN <<>> ELSE PolicyReports
  BY <1>3 DEF Ruling
<1>7. report # None => d.told[2] = Payload(report, rules)
  BY <1>3 DEF Ruling
<1> HIDE DEF d
<1>8. report # None => Decided(Payload(report, rules), c.exit)
  <2> SUFFICES ASSUME report # None PROVE Decided(Payload(report, rules), c.exit)
    OBVIOUS
  <2> DEFINE t == Payload(report, rules)
  <2>1. /\ t.overall_status = report.overall_status /\ t.violations = report.violations
        /\ report.violations = {} => t.critical = {}
    BY DEF Payload
  <2> HIDE DEF t
  <2>2. Decided(t, c.exit)
    BY <1>4, <1>5, <2>1 DEF Decided
  <2> QED BY <2>2 DEF t
<1>9. Typed(13, d)
  <2>1. CASE report = None
    <3>1. d.paths = <<>> /\ d.exit = 2
      BY <1>5, <1>6, <2>1
    <3>2. ~Finished(13, 2)
      BY DEF Finished
    <3> QED BY <3>1, <3>2, NothingWritten
  <2>2. CASE report # None
    <3>1. d.paths = PolicyReports /\ d.exit \in {0, 1}
      BY <1>5, <1>6, <2>2
    <3>2. /\ PolicyReports \in Seq(Owned[13]) /\ Len(PolicyReports) = 2
          /\ \A p \in Owned[13] : \E i \in 1..2 : PolicyReports[i] = p
      BY DEF PolicyReports, Owned
    <3> HIDE DEF Owned
    <3> QED BY <3>1, <3>2 DEF Typed
  <2> QED BY <2>1, <2>2
<1>10. PolicySays(d)
  <2>1. CASE report = None
    BY <2>1, <1>5, <1>6 DEF PolicySays
  <2>2. CASE report # None
    <3>1. d.paths = PolicyReports /\ d.exit = c.exit
      BY <1>6, <2>2
    <3>2. Decided(d.told[2], d.exit)
      BY <1>6, <1>7, <1>8, <2>2
    <3>3. Len(d.paths) = 2 /\ d.paths[2] = "quality_policy.json"
      BY <3>1 DEF PolicyReports
    <3> QED BY <3>2, <3>3 DEF PolicySays
  <2> QED BY <2>1, <2>2
<1>11. Comes(13, d)
  BY <1>9, <1>10 DEF Comes
<1> QED BY <1>2, <1>11, Zenon

\* Whatever runs, and whatever it finds.
LEMMA ResultComes ==
  ASSUME InputsValid(World), World \in Worlds, current \in 1..13
  PROVE  Comes(current, Result(Outcomes))
<1>1. CASE current = 13
  BY <1>1, PolicyComes, Places DEF Result, Command
<1>2. CASE current # 13
  <2>1. Result(Outcomes) = Ran(OutcomeIn(Outcomes, World, Commands[current]))
    BY <1>2, Places DEF Result, Command
  <2>2. OutcomeIn(Outcomes, World, Commands[current]) = Outcome(World, Commands[current])
    BY <1>2, OutcomeIsOwn
  <2>3. Comes(current, Ran(Outcome(World, Commands[current])))
    BY <1>2, OutcomeComes
  <2> QED BY <2>1, <2>2, <2>3, Zenon
<1> QED BY <1>1, <1>2

-----------------------------------------------------------------------------
(***************************************************************************)
(* The invariant.  While the commands run, the files of those that have    *)
(* ended are this run's, and the baseline's says how it exited; a verdict  *)
(* other than a failure of the infrastructure rests on the files of all    *)
(* thirteen; and what the gate writes afterwards touches none of them.     *)
(***************************************************************************)
Deciding == {"provisional", "summary", "manifest", "result", "telling"}

RootKept == DOMAIN artifacts = Root

Kept(k) == \A p \in Owned[k] : artifacts[p].run = Run
EnvironmentKept == artifacts["ci_environment.json"].run = Run

BaselineKept(code) ==
  LET file == artifacts["statistical_baseline.json"]
  IN file.nth = 2 /\ (file.verdict = "fail" <=> code = 1)
PolicyKept(code) ==
  LET file == artifacts["quality_policy.json"]
  IN file.nth = 2 /\ Decided(file.verdict, code)

FreshKept ==
  /\ phase # "ended" \/ Concluded => Run >= 1
  /\ phase \in {"environment", "inputs"} =>
       ~failed4 /\ written = 0 /\ doing = None /\ command_results = <<>>
  /\ phase = "inputs" => EnvironmentKept

\* Of the running command.
DoingKept ==
  /\ doing = None => written = 0
  /\ doing # None =>
       /\ Comes(current, doing) /\ written <= Len(doing.paths)
       /\ \A i \in 1..written : artifacts[doing.paths[i]].run = Run
       /\ current \in {12, 13} /\ doing.exit \in {0, 1} /\ written >= 2 =>
            artifacts[doing.paths[2]] = File(2, doing.told[2])

EarlierKept ==
  /\ InputsValid(World) /\ EnvironmentKept
  /\ Len(command_results) = current - 1
  /\ \A k \in 1..current - 1 : Finished(k, command_results[k]) /\ Kept(k)
  /\ failed4 <=> current = 13 /\ command_results[12] = 1
  /\ current = 13 => BaselineKept(command_results[12])

RunningKept == phase = "running" => EarlierKept /\ DoingKept

Settled ==
  /\ Len(command_results) = 13 /\ EnvironmentKept
  /\ \A k \in 1..13 : Finished(k, command_results[k]) /\ Kept(k)
  /\ BaselineKept(command_results[12]) /\ PolicyKept(command_results[13])
  /\ gate_status = "quality_fail" <=> command_results[12] = 1 \/ command_results[13] = 1

VerdictKept ==
  phase \in Deciding \/ Concluded =>
    /\ gate_status \in {"pass", "quality_fail", "infrastructure_fail"}
    /\ exit = 0 <=> gate_status = "pass"
    /\ gate_status = "quality_fail" => exit = 1
    /\ gate_status # "infrastructure_fail" => Settled

ResultKept ==
  phase \in {"summary", "manifest", "telling"} \/ Concluded =>
    artifacts["ai_quality_gate.json"] = GateResult(gate_status)

ManifestKept ==
  phase \in {"result", "telling"} \/ (Concluded /\ gate_status # "infrastructure_fail") =>
    /\ artifacts[Manifest].run = Run
    /\ gate_status # "infrastructure_fail" =>
         artifacts[Manifest].verdict \cap RequiredReports = {}

SummaryKept ==
  /\ phase \in {"environment", "inputs", "running", "provisional", "summary"} =>
       artifacts["github_summary.md"].run # Run
  /\ phase \in {"manifest", "result", "telling"}
       \/ (Concluded /\ gate_status # "infrastructure_fail") =>
       artifacts["github_summary.md"].run = Run
  /\ Concluded => SummaryIsOwn

ReportKept ==
  /\ phase # "ended" => \A p \in Told : artifacts[p].run # Run
  /\ Concluded => ReportAgrees

IInv ==
  /\ TypeOK /\ RootKept /\ FreshKept /\ RunningKept /\ VerdictKept
  /\ ResultKept /\ ManifestKept /\ SummaryKept /\ ReportKept

USE DEF FileOK

LEMMA Special ==
  /\ {"ci_environment.json", "ai_quality_gate.json", "github_summary.md", Manifest} \subseteq Root
  /\ Told \subseteq Root /\ \A k \in 1..13 : Owned[k] \subseteq Root
  /\ Manifest \notin Told /\ Manifest \notin OwnReports /\ Told \cap OwnReports = {}
  /\ \A k \in 1..13 : Owned[k] \cap (OwnReports \cup Told \cup {Manifest}) = {}
  /\ "statistical_baseline.json" \in Owned[12] /\ "quality_policy.json" \in Owned[13]
<1>1. \A k \in 1..13 : Owned[k] \subseteq Root
  BY ReportPlaces DEF Root
<1>2. OwnReports \subseteq Root
  BY ReportPlaces DEF Root
<1>3. "statistical_baseline.json" \in Owned[12] /\ "quality_policy.json" \in Owned[13]
  BY DEF Owned
<1> QED BY <1>1, <1>2, <1>3, Disjoint DEF Root, OwnReports

LEMMA InitInv == Init => IInv
<1> SUFFICES ASSUME Init PROVE IInv
  OBVIOUS
<1>1. TypeOK
  <2>1. /\ upcoming \in Seq(Worlds) /\ Len(upcoming) <= MaxRuns /\ Run = 0
        /\ revision \in Seq(Worlds) /\ command_results \in Seq(0..2) /\ Len(command_results) = 0
    BY RunsAssumption DEF Init, Run
  <2>2. \A p \in DOMAIN artifacts : FileOK(artifacts[p])
    BY DEF Init
  <2>3. /\ phase = "ended" /\ current = 0 /\ written = 0 /\ ~failed4 /\ failed4 \in BOOLEAN
        /\ gate_status = None /\ exit = None
    BY DEF Init
  <2>4. Run + Len(upcoming) <= MaxRuns
    BY <2>1, RunsAssumption
  <2>5. /\ current \in 0..Len(Commands) /\ written \in 0..5
        /\ Len(command_results) <= Len(Commands)
    BY <2>1, <2>3, Places
  <2> QED BY <2>1, <2>2, <2>3, <2>4, <2>5 DEF TypeOK
<1>2. RootKept
  BY Told3 DEF Init, RootKept, Root
<1>3. ~Concluded /\ phase = "ended"
  BY DEF Init, Concluded
<1> QED BY <1>1, <1>2, <1>3
        DEF IInv, FreshKept, RunningKept, VerdictKept, ResultKept, ManifestKept, SummaryKept,
            ReportKept, Deciding

LEMMA StartStep ==
  ASSUME IInv, StartGate PROVE IInv'
<1> USE DEF IInv
<1>1. /\ Run \in Nat /\ Run' = Run + 1 /\ revision' \in Seq(Worlds)
      /\ upcoming' \in Seq(Worlds) /\ Len(upcoming') = Len(upcoming) - 1
  BY DEF StartGate, TypeOK, Run
<1>2. /\ phase' = "environment" /\ current' = 0 /\ written' = 0 /\ doing' = None /\ ~failed4'
      /\ command_results' = <<>> /\ gate_status' = None /\ exit' = None /\ artifacts' = artifacts
  BY DEF StartGate
<1>3. TypeOK'
  <2>1. (\A p \in DOMAIN artifacts : FileOK(artifacts[p]))'
    BY <1>1, <1>2 DEF TypeOK
  <2>2. Run' + Len(upcoming') <= MaxRuns
    BY <1>1, RunsAssumption DEF TypeOK
  <2>3. command_results' \in Seq(0..2) /\ Len(command_results') = 0
    BY <1>2
  <2>4. /\ current' \in 0..Len(Commands) /\ written' \in 0..5
        /\ Len(command_results') <= Len(Commands)
    BY <1>2, <2>3, Places
  <2>5. /\ phase' = "environment" /\ current' = 0 /\ failed4' \in BOOLEAN
        /\ gate_status' = None /\ exit' = None
    BY DEF StartGate
  <2> QED BY <1>1, <2>1, <2>2, <2>3, <2>4, <2>5 DEF TypeOK
<1>4. \A p \in Root : artifacts'[p].run # Run'
  BY <1>1, <1>2 DEF TypeOK, RootKept, NoFile, CutShort
<1> QED BY <1>1, <1>2, <1>3, <1>4, Special
        DEF RootKept, FreshKept, RunningKept, VerdictKept, ResultKept, ManifestKept, SummaryKept,
            ReportKept, Deciding, Concluded

\* What neither the gate's own writes nor those of the report touch.
Private == {"ai_quality_gate.json", "github_summary.md", Manifest} \cup Told

LEMMA InfrastructureStep ==
  ASSUME IInv, phase \in {"environment", "inputs", "running"}, Infrastructure,
         UNCHANGED <<revision, upcoming, failed4>>,
         DOMAIN artifacts' = DOMAIN artifacts,
         \A p \in DOMAIN artifacts : artifacts'[p] \in {artifacts[p], CutShort},
         \A p \in Private : artifacts'[p] = artifacts[p]
  PROVE  IInv'
<1> USE DEF IInv
<1>1. Run' = Run /\ Run \in Nat /\ Run >= 1
  BY DEF TypeOK, Run, FreshKept
<1>2. /\ phase' = "provisional" /\ gate_status' = "infrastructure_fail" /\ exit' = 2
      /\ command_results' = <<>> /\ current' = 0 /\ written' = 0 /\ doing' = None
  BY DEF Infrastructure
<1>3. TypeOK'
  <2>1. (\A p \in DOMAIN artifacts : FileOK(artifacts[p]))'
    <3>1. \A p \in DOMAIN artifacts : FileOK(artifacts[p])
      BY DEF TypeOK
    <3> QED BY <1>1, <3>1
  <2>2. command_results' \in Seq(0..2) /\ Len(command_results') = 0
    BY <1>2
  <2>3. /\ current' \in 0..Len(Commands) /\ written' \in 0..5
        /\ Len(command_results') <= Len(Commands)
    BY <1>2, <2>2, Places
  <2> QED BY <1>1, <1>2, <2>1, <2>2, <2>3 DEF TypeOK
<1>4. RootKept'
  BY DEF RootKept
<1>5. FreshKept' /\ RunningKept' /\ ResultKept' /\ ManifestKept'
  BY <1>1, <1>2 DEF FreshKept, RunningKept, ResultKept, ManifestKept, Concluded
<1>6. VerdictKept'
  BY <1>2 DEF VerdictKept
<1>7. SummaryKept' /\ ReportKept'
  BY <1>1, <1>2 DEF SummaryKept, ReportKept, Concluded, Private
<1> QED BY <1>3, <1>4, <1>5, <1>6, <1>7

LEMMA EnvironmentStep ==
  ASSUME IInv, CheckEnvironment PROVE IInv'
<1> USE DEF IInv
<1> DEFINE e == "ci_environment.json"
<1>1. CASE ~EnvironmentValid(Answers[World].environment) /\ Infrastructure /\ UNCHANGED artifacts
  BY <1>1, InfrastructureStep DEF CheckEnvironment
<1>2. CASE /\ artifacts' = [artifacts EXCEPT ![e] = File(1, None)]
           /\ phase' = "inputs"
           /\ UNCHANGED <<current, written, doing, command_results, gate_status, exit>>
  <2>1. /\ Run' = Run /\ Run \in Nat /\ Run >= 1 /\ phase = "environment" /\ phase' = "inputs"
        /\ UNCHANGED <<revision, upcoming, failed4, current, written, doing, command_results,
                       gate_status, exit>>
    BY <1>2 DEF TypeOK, Run, FreshKept, CheckEnvironment
  <2>2. /\ DOMAIN artifacts' = DOMAIN artifacts /\ e \in DOMAIN artifacts
        /\ artifacts'[e] = File(1, None)
        /\ \A p \in DOMAIN artifacts : p # e => artifacts'[p] = artifacts[p]
    BY <1>2, Special DEF RootKept
  <2>3. TypeOK'
    <3>1. FileOK(File(1, None))'
      BY <2>1 DEF File
    <3>2. (\A p \in DOMAIN artifacts : FileOK(artifacts[p]))'
      <4>1. \A p \in DOMAIN artifacts : FileOK(artifacts[p])
        BY DEF TypeOK
      <4>2. File(1, None).run = Run /\ File(1, None).nth = 1
        BY DEF File
      <4> QED BY <2>1, <2>2, <4>1, <4>2
    <3> QED BY <2>1, <3>2 DEF TypeOK
  <2>4. RootKept' /\ artifacts'[e].run = Run'
    BY <2>1, <2>2 DEF RootKept, File
  <2>5. FreshKept'
    BY <2>1, <2>4 DEF FreshKept, EnvironmentKept
  <2>6. \A p \in Private : artifacts'[p] = artifacts[p]
    BY <2>2, Special DEF Private, RootKept, OwnReports
  <2>7. /\ RunningKept' /\ VerdictKept' /\ ResultKept' /\ ManifestKept' /\ SummaryKept'
        /\ ReportKept'
    BY <2>1, <2>6 DEF RunningKept, VerdictKept, ResultKept, ManifestKept, SummaryKept, ReportKept,
                      Deciding, Concluded, Private
  <2> QED BY <2>3, <2>4, <2>5, <2>7
<1> QED BY <1>1, <1>2 DEF CheckEnvironment

LEMMA InputsStep ==
  ASSUME IInv, CheckInputs PROVE IInv'
<1> USE DEF IInv
<1>1. CASE Infrastructure
  BY <1>1, InfrastructureStep DEF CheckInputs
<1>2. CASE /\ InputsValid(World) /\ phase' = "running" /\ current' = 1
           /\ UNCHANGED <<written, doing, command_results, gate_status, exit>>
  <2>1. /\ Run' = Run /\ Run \in Nat /\ Run >= 1 /\ phase = "inputs" /\ phase' = "running"
        /\ World' = World /\ current' = 1
        /\ UNCHANGED <<artifacts, revision, upcoming, failed4, written, doing, command_results,
                       gate_status, exit>>
    BY <1>2 DEF TypeOK, Run, FreshKept, CheckInputs, World
  <2>2. TypeOK' /\ RootKept' /\ FreshKept'
    BY <2>1, Places DEF TypeOK, RootKept, FreshKept
  <2>3. RunningKept'
    <3>1. /\ InputsValid(World)' /\ EnvironmentKept' /\ ~failed4' /\ written' = 0 /\ doing' = None
          /\ command_results' = <<>>
      <4>1. InputsValid(World)'
        BY <1>2, <2>1 DEF InputsValid
      <4> QED BY <2>1, <4>1 DEF FreshKept, EnvironmentKept
    <3>2. Len(command_results') = 0
      BY <3>1
    <3> QED BY <2>1, <3>1, <3>2 DEF RunningKept, EarlierKept, DoingKept
  <2>4. /\ VerdictKept' /\ ResultKept' /\ ManifestKept' /\ SummaryKept' /\ ReportKept'
    BY <2>1 DEF VerdictKept, ResultKept, ManifestKept, SummaryKept, ReportKept,
                      Deciding, Concluded
  <2> QED BY <2>2, <2>3, <2>4
<1> QED BY <1>1, <1>2 DEF CheckInputs

LEMMA EvaluateStep ==
  ASSUME IInv, Evaluate PROVE IInv'
<1> USE DEF IInv
<1>1. /\ Run' = Run /\ Run \in Nat /\ Run >= 1 /\ phase = "running" /\ World \in Worlds
      /\ current \in 1..13 /\ doing = None /\ doing' = Result(Outcomes)
      /\ UNCHANGED <<artifacts, revision, upcoming, phase, current, written, failed4,
                     command_results, gate_status, exit>>
  BY Places DEF TypeOK, Run, FreshKept, Evaluate, World
<1>2. TypeOK' /\ RootKept' /\ FreshKept'
  BY <1>1, Places DEF TypeOK, RootKept, FreshKept
<1>3. EarlierKept /\ DoingKept
  BY <1>1 DEF RunningKept
<1>4. EarlierKept'
  <2>1. InputsValid(World)'
    BY <1>1, <1>3 DEF EarlierKept, InputsValid, World
  <2> QED BY <1>1, <1>3, <2>1 DEF EarlierKept, EnvironmentKept, Kept, BaselineKept
<1>5. DoingKept'
  <2>1. Comes(current, Result(Outcomes))
    BY <1>1, <1>3, ResultComes DEF EarlierKept
  <2>2. written' = 0 /\ doing' = Result(Outcomes) /\ current' = current
    BY <1>1, <1>3 DEF DoingKept
  <2> DEFINE d == Result(Outcomes)
  <2>3. Len(d.paths) \in Nat
    BY <2>1 DEF Comes, Typed
  <2>4. Comes(current', doing')
    BY <2>1, <2>2
  <2> HIDE DEF d
  <2>5. written' <= Len(doing'.paths)
    BY <2>2, <2>3 DEF d
  <2> QED BY <2>2, <2>4, <2>5 DEF DoingKept
<1>6. /\ RunningKept' /\ VerdictKept' /\ ResultKept' /\ ManifestKept' /\ SummaryKept'
      /\ ReportKept'
  BY <1>1, <1>4, <1>5 DEF RunningKept, VerdictKept, ResultKept, ManifestKept, SummaryKept,
                          ReportKept, Deciding, Concluded
<1> QED BY <1>2, <1>6

LEMMA WritesStep ==
  ASSUME IInv, CommandWrites PROVE IInv'
<1> USE DEF IInv
<1> DEFINE k == current
           w == written + 1
           d == doing.paths[w]
<1>1. /\ Run' = Run /\ Run \in Nat /\ Run >= 1 /\ phase = "running" /\ World \in Worlds
      /\ k \in 1..13 /\ doing # None /\ written' = w /\ written \in Nat
      /\ UNCHANGED <<revision, upcoming, phase, current, doing, failed4, command_results,
                     gate_status, exit>>
  BY Places DEF TypeOK, Run, FreshKept, CommandWrites, World
<1>2. EarlierKept /\ DoingKept /\ Comes(k, doing)
  BY <1>1 DEF RunningKept, DoingKept
<1>3. /\ doing.paths \in Seq(Owned[k]) /\ Len(doing.paths) <= 5 /\ Len(doing.paths) \in Nat
      /\ w \in 1..Len(doing.paths) /\ w \in 1..5 /\ d \in Owned[k]
  <2>1. doing.paths \in Seq(Owned[k]) /\ Len(doing.paths) <= 5
    BY <1>2 DEF Comes, Typed
  <2>2. written < Len(doing.paths)
    BY DEF CommandWrites
  <2> QED BY <1>1, <2>1, <2>2
<1>4. /\ DOMAIN artifacts' = DOMAIN artifacts /\ d \in DOMAIN artifacts
      /\ artifacts'[d] = File(w, doing.told[w])
      /\ \A p \in DOMAIN artifacts : p # d => artifacts'[p] = artifacts[p]
  <2>1. d \in DOMAIN artifacts
    BY <1>1, <1>3, Special DEF RootKept
  <2> QED BY <2>1 DEF CommandWrites, Destination
<1> HIDE DEF d, w, k
<1>5. File(w, doing.told[w]).run = Run /\ File(w, doing.told[w]).nth = w
  BY DEF File
<1>6. TypeOK' /\ RootKept' /\ FreshKept'
  <2>1. (\A p \in DOMAIN artifacts : FileOK(artifacts[p]))'
    <3>1. \A p \in DOMAIN artifacts : FileOK(artifacts[p])
      BY DEF TypeOK
    <3> QED BY <1>1, <1>3, <1>4, <1>5, <3>1
  <2>2. w \in 0..5
    BY <1>3
  <2>3. TypeOK'
    BY <1>1, <2>1, <2>2 DEF TypeOK
  <2>4. RootKept' /\ FreshKept'
    BY <1>1, <1>4 DEF RootKept, FreshKept
  <2> QED BY <2>3, <2>4
<1>7. \A j \in 1..13 : j # k => \A p \in Owned[j] : artifacts'[p] = artifacts[p]
  BY <1>1, <1>3, <1>4, Special, Disjoint DEF RootKept
<1>8. /\ \A p \in Private : artifacts'[p] = artifacts[p]
      /\ artifacts'["ci_environment.json"] = artifacts["ci_environment.json"]
  BY <1>1, <1>3, <1>4, Special DEF Private, RootKept, OwnReports
<1>9. EarlierKept'
  <2>1. InputsValid(World)'
    BY <1>1, <1>2 DEF EarlierKept, InputsValid, World
  <2>2. EnvironmentKept'
    BY <1>1, <1>2, <1>8 DEF EarlierKept, EnvironmentKept
  <2>3. \A j \in 1..current - 1 : Kept(j)'
    <3> TAKE j \in 1..current - 1
    <3>1. j \in 1..13 /\ j # k
      BY <1>1 DEF k
    <3>2. Kept(j)
      BY <1>2 DEF EarlierKept
    <3> QED BY <3>1, <3>2, <1>1, <1>7 DEF Kept
  <2>4. k = 13 => BaselineKept(command_results[12])'
    <3>1. k = 13 => artifacts'["statistical_baseline.json"] = artifacts["statistical_baseline.json"]
      BY <1>7, Special
    <3> QED BY <1>1, <1>2, <3>1 DEF EarlierKept, BaselineKept, k
  <2> QED BY <1>1, <1>2, <2>1, <2>2, <2>3, <2>4 DEF EarlierKept, k
<1>10. DoingKept'
  <2>1. Comes(current, doing)'
    BY <1>1, <1>2 DEF k
  <2>2. \A i \in 1..w : artifacts'[doing.paths[i]].run = Run
    <3> TAKE i \in 1..w
    <3>1. CASE doing.paths[i] = d
      BY <3>1, <1>4, <1>5
    <3>2. CASE doing.paths[i] # d
      <4>1. i \in 1..written /\ i \in 1..Len(doing.paths)
        BY <3>2, <1>1, <1>3 DEF d, w
      <4>2. doing.paths[i] \in DOMAIN artifacts
        <5>1. doing.paths[i] \in Owned[k]
          BY <4>1, <1>3
        <5> QED BY <5>1, <1>1, Special DEF RootKept
      <4> QED BY <4>1, <4>2, <3>2, <1>1, <1>2, <1>4 DEF DoingKept
    <3> QED BY <3>1, <3>2
  <2>3. ASSUME k \in {12, 13}, doing.exit \in {0, 1}, w >= 2
        PROVE  artifacts'[doing.paths[2]] = File(2, doing.told[2])
    <3>1. CASE w = 2
      BY <3>1, <1>4 DEF d
    <3>2. CASE w # 2
      <4>1. w \in 3..Len(doing.paths) /\ k = 12
        <5>1. k = 13 => Len(doing.paths) = 2
          BY <2>3, <1>2 DEF Comes, PolicySays
        <5> DEFINE n == Len(doing.paths)
        <5>2. w \in 1..n /\ n \in Nat
          BY <1>3
        <5> HIDE DEF n
        <5>3. w \in 3..n /\ n # 2
          BY <5>2, <3>2, <2>3
        <5> QED BY <5>1, <5>3, <2>3 DEF n
      <4>2. doing.paths[2] # d
        BY <4>1, <2>3, <1>2 DEF Comes, BaselineSays, d
      <4>3. doing.paths[2] \in DOMAIN artifacts
        <5>1. doing.paths[2] \in Owned[k]
          BY <4>1, <1>3
        <5> QED BY <5>1, <1>1, Special DEF RootKept
      <4>4. written >= 2
        BY <4>1, <1>1 DEF w
      <4> QED BY <4>2, <4>3, <4>4, <2>3, <1>1, <1>2, <1>4 DEF DoingKept, k
    <3> QED BY <3>1, <3>2
  <2>4. \A i, t : File(i, t)' = File(i, t)
    BY <1>1 DEF File
  <2> QED BY <1>1, <1>3, <2>1, <2>2, <2>3, <2>4 DEF DoingKept, k
<1>11. /\ RunningKept' /\ VerdictKept' /\ ResultKept' /\ ManifestKept' /\ SummaryKept'
       /\ ReportKept'
  BY <1>1, <1>8, <1>9, <1>10 DEF RunningKept, VerdictKept, ResultKept, ManifestKept, SummaryKept,
                          ReportKept, Deciding, Concluded, Private
<1> QED BY <1>6, <1>11

LEMMA ExitsStep ==
  ASSUME IInv, CommandExits PROVE IInv'
<1> USE DEF IInv
<1> DEFINE k == current
           code == doing.exit
           results == Append(command_results, code)
<1>1. /\ Run' = Run /\ Run \in Nat /\ Run >= 1 /\ phase = "running" /\ World \in Worlds
      /\ k \in 1..13 /\ doing # None /\ written = Len(doing.paths) /\ command_results' = results
      /\ written' = 0 /\ doing' = None
      /\ failed4' = (failed4 \/ (Command = "phase4_statistical_baseline" /\ code = 1))
      /\ UNCHANGED <<artifacts, revision, upcoming>>
  <2>1. /\ phase = "running" /\ doing # None /\ written = Len(doing.paths)
        /\ command_results' = results /\ written' = 0 /\ doing' = None
        /\ failed4' = (failed4 \/ (Command = "phase4_statistical_baseline" /\ code = 1))
        /\ UNCHANGED <<artifacts, revision, upcoming>>
    BY DEF CommandExits
  <2>2. k \in 1..13 /\ revision \in Seq(Worlds)
    BY <2>1, Places DEF TypeOK
  <2>3. Run' = Run /\ Run \in Nat /\ Run >= 1
    BY <2>1, <2>2 DEF Run, FreshKept
  <2>4. World \in Worlds
    BY <2>2, <2>3 DEF Run, World
  <2> QED BY <2>1, <2>2, <2>3, <2>4
<1>2. EarlierKept /\ DoingKept /\ Comes(k, doing) /\ code \in 0..2
  BY <1>1 DEF RunningKept, DoingKept, Comes, Typed
<1>3. /\ results \in Seq(0..2) /\ Len(results) = k /\ results[k] = code
      /\ \A j \in 1..k - 1 : results[j] = command_results[j]
  <2>1. command_results \in Seq(0..2) /\ Len(command_results) = k - 1
    BY <1>2 DEF TypeOK, EarlierKept
  <2> HIDE DEF code, k
  <2> QED BY <2>1, <1>1, <1>2
<1>4. Continues(Command, code) <=> code = 0 \/ (k = 12 /\ code = 1)
  BY <1>1, Places DEF Continues, Command
<1>5. failed4' <=> failed4 \/ (k = 12 /\ code = 1)
  BY <1>1, Places DEF Command
<1>6. Finished(k, code) => Kept(k)
  <2> SUFFICES ASSUME Finished(k, code), NEW p \in Owned[k] PROVE artifacts[p].run = Run
    BY DEF Kept
  <2>1. PICK i \in 1..Len(doing.paths) : doing.paths[i] = p
    BY <1>2 DEF Comes, Typed
  <2> QED BY <2>1, <1>1, <1>2 DEF DoingKept
<1>7. k = 12 /\ code \in {0, 1} => BaselineKept(code)
  <2> SUFFICES ASSUME k = 12, code \in {0, 1} PROVE BaselineKept(code)
    OBVIOUS
  <2>1. BaselineSays(doing)
    BY <1>2 DEF Comes
  <2>2. artifacts["statistical_baseline.json"] = File(2, doing.told[2])
    BY <2>1, <1>1, <1>2 DEF DoingKept, BaselineSays
  <2> QED BY <2>1, <2>2 DEF BaselineSays, BaselineKept, File
<1>8. k = 13 /\ code \in {0, 1} => PolicyKept(code)
  <2> SUFFICES ASSUME k = 13, code \in {0, 1} PROVE PolicyKept(code)
    OBVIOUS
  <2>1. PolicySays(doing)
    BY <1>2 DEF Comes
  <2>2. artifacts["quality_policy.json"] = File(2, doing.told[2])
    BY <2>1, <1>1, <1>2 DEF DoingKept, PolicySays
  <2> QED BY <2>1, <2>2 DEF PolicySays, PolicyKept, File
<1>9. failed4 <=> k = 13 /\ command_results[12] = 1
  BY <1>2 DEF EarlierKept
<1>10. /\ InputsValid(World) /\ EnvironmentKept
       /\ \A j \in 1..k - 1 : Finished(j, command_results[j]) /\ Kept(j)
       /\ k = 13 => BaselineKept(command_results[12])
  BY <1>2 DEF EarlierKept
<1> HIDE DEF k, code, results
<1>11. ASSUME Finished(k, code)
       PROVE  \A j \in 1..k : Finished(j, results[j]) /\ Kept(j)
  <2> TAKE j \in 1..k
  <2>1. CASE j = k
    BY <2>1, <1>11, <1>3, <1>6
  <2>2. CASE j # k
    <3>1. j \in 1..k - 1
      BY <2>2, <1>1
    <3> QED BY <3>1, <1>3, <1>10
  <2> QED BY <2>1, <2>2
<1>12. CASE current' = current + 1 /\ UNCHANGED <<phase, gate_status, exit>>
            /\ current < Len(Commands) /\ Continues(Command, doing.exit)
  <2>1. k < 13 /\ Finished(k, code) /\ current' = k + 1
    BY <1>4, <1>12, <1>1, Places DEF k, code, Finished
  <2>2. TypeOK' /\ RootKept' /\ FreshKept'
    <3>1. (\A p \in DOMAIN artifacts : FileOK(artifacts[p]))'
      BY <1>1 DEF TypeOK
    <3>2. /\ current' \in 0..Len(Commands) /\ written' \in 0..5 /\ current' # 0
          /\ Len(command_results') <= Len(Commands) /\ command_results' \in Seq(0..2)
      BY <1>1, <1>3, <2>1, Places
    <3>3. failed4' \in BOOLEAN
      BY <1>5 DEF TypeOK
    <3>4. TypeOK'
      BY <1>1, <1>12, <3>1, <3>2, <3>3 DEF TypeOK
    <3> QED BY <3>4, <1>1, <1>12 DEF RootKept, FreshKept
  <2>3. EarlierKept'
    <3>1. InputsValid(World)' /\ EnvironmentKept'
      BY <1>1, <1>10 DEF InputsValid, World, EnvironmentKept
    <3>2. Len(command_results') = current' - 1
      BY <1>1, <1>3, <2>1
    <3>3. \A j \in 1..current' - 1 : Finished(j, command_results'[j]) /\ Kept(j)'
      BY <1>1, <1>11, <2>1 DEF Kept
    <3>4. failed4' <=> current' = 13 /\ command_results'[12] = 1
      BY <1>1, <1>3, <1>5, <1>9, <2>1
    <3>5. current' = 13 => BaselineKept(command_results[12])'
      <4>1. k = 12 => BaselineKept(code) /\ results[12] = code
        BY <1>3, <1>7, <2>1 DEF Finished
      <4> QED BY <4>1, <1>1, <2>1 DEF BaselineKept
    <3> QED BY <3>1, <3>2, <3>3, <3>4, <3>5 DEF EarlierKept
  <2>4. DoingKept'
    BY <1>1 DEF DoingKept
  <2>5. /\ RunningKept' /\ VerdictKept' /\ ResultKept' /\ ManifestKept' /\ SummaryKept'
        /\ ReportKept'
    BY <1>1, <1>12, <2>3, <2>4 DEF RunningKept, VerdictKept, ResultKept, ManifestKept,
                                   SummaryKept, ReportKept, Deciding, Concluded
  <2> QED BY <2>2, <2>5
<1>13. ASSUME phase' = "provisional", current' = 0, exit' \in 0..2,
              gate_status' \in {"pass", "quality_fail", "infrastructure_fail"},
              exit' = 0 <=> gate_status' = "pass", gate_status' = "quality_fail" => exit' = 1,
              gate_status' # "infrastructure_fail" =>
                /\ k = 13 /\ code \in {0, 1}
                /\ gate_status' = "quality_fail" <=> failed4 \/ code = 1
       PROVE  IInv'
  <2>1. TypeOK' /\ RootKept' /\ FreshKept'
    <3>1. (\A p \in DOMAIN artifacts : FileOK(artifacts[p]))'
      BY <1>1 DEF TypeOK
    <3>2. /\ current' \in 0..Len(Commands) /\ written' \in 0..5
          /\ Len(command_results') <= Len(Commands) /\ command_results' \in Seq(0..2)
      BY <1>1, <1>3, <1>13, Places
    <3>3. failed4' \in BOOLEAN
      BY <1>5 DEF TypeOK
    <3>4. exit' \in {None, 0, 1, 2}
      BY <1>13
    <3>5. TypeOK'
      BY <1>1, <1>13, <3>1, <3>2, <3>3, <3>4 DEF TypeOK
    <3> QED BY <3>5, <1>1, <1>13 DEF RootKept, FreshKept
  <2>2. VerdictKept'
    <3> SUFFICES ASSUME gate_status' # "infrastructure_fail" PROVE Settled'
      BY <1>13 DEF VerdictKept
    <3>1. /\ k = 13 /\ code \in {0, 1} /\ Finished(k, code)
          /\ gate_status' = "quality_fail" <=> failed4 \/ code = 1
      BY <1>13 DEF Finished
    <3>2. /\ Len(command_results') = 13 /\ command_results'[13] = code
          /\ command_results'[12] = command_results[12]
      BY <1>1, <1>3, <3>1
    <3>3. EnvironmentKept'
      BY <1>1, <1>10 DEF EnvironmentKept
    <3>4. \A j \in 1..13 : Finished(j, command_results'[j]) /\ Kept(j)'
      BY <1>1, <1>11, <3>1 DEF Kept
    <3>5. BaselineKept(command_results[12])' /\ PolicyKept(command_results[13])'
      BY <1>1, <1>8, <1>10, <3>1, <3>2 DEF BaselineKept, PolicyKept
    <3>6. gate_status' = "quality_fail" <=> command_results'[12] = 1 \/ command_results'[13] = 1
      BY <1>9, <3>1, <3>2
    <3> QED BY <3>2, <3>3, <3>4, <3>5, <3>6 DEF Settled
  <2>3. /\ RunningKept' /\ ResultKept' /\ ManifestKept' /\ SummaryKept' /\ ReportKept'
    BY <1>1, <1>13 DEF RunningKept, ResultKept, ManifestKept,
                                   SummaryKept, ReportKept, Concluded
  <2> QED BY <2>1, <2>2, <2>3
<1>14. CASE ~Continues(Command, doing.exit) /\ Decide(Command, doing.exit)
  <2>1. /\ code # 0 /\ ~(k = 12 /\ code = 1) /\ phase' = "provisional" /\ current' = 0
        /\ exit' = code /\ gate_status' = StatusOf(Command, code)
    BY <1>4, <1>14 DEF Decide, code
  <2>2. gate_status' = IF k = 13 /\ code = 1 THEN "quality_fail" ELSE "infrastructure_fail"
    BY <2>1, <1>1, <1>2, Places DEF StatusOf, Command, k
  <2> QED BY <2>1, <2>2, <1>2, <1>13 DEF code
<1>15. CASE /\ ~(current < Len(Commands)) /\ Continues(Command, doing.exit)
            /\ IF failed4 THEN Decide("phase4_statistical_baseline", 1) ELSE Decide(None, 0)
  <2>1. k = 13 /\ code = 0
    BY <1>1, <1>4, <1>15, Places DEF k, code
  <2>2. CASE failed4
    <3>1. /\ phase' = "provisional" /\ current' = 0 /\ exit' = 1 /\ gate_status' = "quality_fail"
      BY <2>2, <1>15 DEF Decide, StatusOf
    <3> QED BY <2>1, <2>2, <3>1, <1>13
  <2>3. CASE ~failed4
    <3>1. /\ phase' = "provisional" /\ current' = 0 /\ exit' = 0 /\ gate_status' = "pass"
      BY <2>3, <1>15 DEF Decide, StatusOf
    <3> QED BY <2>1, <2>3, <3>1, <1>13
  <2> QED BY <2>2, <2>3
<1> QED BY <1>12, <1>14, <1>15 DEF CommandExits

\* A command that is stopped spoils no file but its own.
LEMMA CutKeeps ==
  ASSUME IInv, artifacts' \in Cut
  PROVE  /\ DOMAIN artifacts' = DOMAIN artifacts
         /\ \A p \in DOMAIN artifacts : artifacts'[p] \in {artifacts[p], CutShort}
         /\ \A p \in Private : artifacts'[p] = artifacts[p]
<1>1. CASE artifacts' = artifacts
  BY <1>1
<1>2. CASE /\ phase = "running" /\ doing # None /\ written # Len(doing.paths)
           /\ artifacts' = [artifacts EXCEPT ![Destination] = CutShort]
  <2> DEFINE d == Destination
  <2>1. current \in 1..13 /\ DoingKept /\ written \in Nat /\ DOMAIN artifacts = Root
    BY <1>2, Places DEF IInv, TypeOK, RunningKept, RootKept
  <2>2. doing.paths \in Seq(Owned[current]) /\ written <= Len(doing.paths)
    BY <1>2, <2>1 DEF DoingKept, Comes, Typed
  <2>3. written + 1 \in 1..Len(doing.paths)
    BY <1>2, <2>1, <2>2
  <2>4. d \in Owned[current]
    BY <2>2, <2>3 DEF Destination
  <2> HIDE DEF d
  <2>5. \A p \in DOMAIN artifacts : artifacts'[p] = IF p = d THEN CutShort ELSE artifacts[p]
    BY <1>2 DEF d
  <2>6. \A p \in Private : p # d /\ p \in Root
    BY <2>1, <2>4, Special DEF Private, OwnReports
  <2> QED BY <1>2, <2>1, <2>5, <2>6
<1> QED BY <1>1, <1>2 DEF Cut

LEMMA TimeOutStep ==
  ASSUME IInv, TimeOut PROVE IInv'
  BY CutKeeps, InfrastructureStep DEF TimeOut

LEMMA KillStep ==
  ASSUME IInv, Kill PROVE IInv'
<1> USE DEF IInv
<1>1. /\ Run' = Run /\ phase' = "ended" /\ current' = 0 /\ written' = 0 /\ doing' = None
      /\ gate_status' = None /\ exit' = None /\ ~Concluded'
      /\ UNCHANGED <<revision, upcoming, failed4, command_results>>
  BY DEF Kill, Run, Concluded
<1>2. /\ DOMAIN artifacts' = DOMAIN artifacts
      /\ \A p \in DOMAIN artifacts : artifacts'[p] \in {artifacts[p], CutShort}
  BY CutKeeps DEF Kill
<1>3. TypeOK'
  <2>1. (\A p \in DOMAIN artifacts : FileOK(artifacts[p]))'
    <3>1. \A p \in DOMAIN artifacts : FileOK(artifacts[p])
      BY DEF TypeOK
    <3> QED BY <1>1, <1>2, <3>1
  <2>2. current' \in 0..Len(Commands) /\ written' \in 0..5
    BY <1>1, Places
  <2> QED BY <1>1, <2>1, <2>2 DEF TypeOK
<1> QED BY <1>1, <1>2, <1>3
        DEF RootKept, FreshKept, RunningKept, VerdictKept, ResultKept, ManifestKept, SummaryKept,
            ReportKept, Deciding

-----------------------------------------------------------------------------
(***************************************************************************)
(* The conclusion.                                                         *)
(***************************************************************************)
LEMMA SettledStays ==
  ASSUME Settled, UNCHANGED <<revision, command_results, gate_status>>, RootKept,
         \A p \in Root \ Private : artifacts'[p] = artifacts[p]
  PROVE  Settled'
<1>1. Run' = Run
  BY DEF Run
<1>2. /\ \A k \in 1..13 : \A p \in Owned[k] : artifacts'[p] = artifacts[p]
      /\ artifacts'["ci_environment.json"] = artifacts["ci_environment.json"]
  BY Special DEF Private, OwnReports, Manifest
<1>3. /\ artifacts'["statistical_baseline.json"] = artifacts["statistical_baseline.json"]
      /\ artifacts'["quality_policy.json"] = artifacts["quality_policy.json"]
  BY <1>2, Special
<1>4. EnvironmentKept' /\ \A k \in 1..13 : Kept(k)'
  BY <1>1, <1>2 DEF Settled, EnvironmentKept, Kept
<1>5. BaselineKept(command_results[12])' /\ PolicyKept(command_results[13])'
  BY <1>3 DEF Settled, BaselineKept, PolicyKept
<1> QED BY <1>4, <1>5 DEF Settled

\* One of the gate's own files is written, and nothing else.
LEMMA FilesStay ==
  ASSUME IInv, UNCHANGED revision, Run >= 1,
         NEW q \in {"ai_quality_gate.json", "github_summary.md", Manifest},
         NEW STATE file, file.run = Run, file.nth = 1,
         artifacts' = [artifacts EXCEPT ![q] = file]
  PROVE  /\ RootKept' /\ Run' = Run /\ artifacts'[q] = file
         /\ (\A p \in DOMAIN artifacts : FileOK(artifacts[p]))'
         /\ \A p \in Root : p # q => artifacts'[p] = artifacts[p]
<1>1. q \in DOMAIN artifacts /\ DOMAIN artifacts = Root
  BY Special DEF IInv, RootKept
<1>2. /\ DOMAIN artifacts' = DOMAIN artifacts /\ artifacts'[q] = file
      /\ \A p \in Root : p # q => artifacts'[p] = artifacts[p]
  BY <1>1
<1>3. Run' = Run /\ Run \in Nat
  BY DEF Run, IInv, TypeOK
<1>4. (\A p \in DOMAIN artifacts : FileOK(artifacts[p]))'
  <2>1. \A p \in DOMAIN artifacts : FileOK(artifacts[p])
    BY DEF IInv, TypeOK
  <2>2. file.run \in 1..Run /\ file.nth \in 1..5
    BY <1>3
  <2> QED BY <1>1, <1>2, <1>3, <2>1, <2>2
<1> QED BY <1>1, <1>2, <1>3, <1>4 DEF RootKept

LEMMA ProvisionalStep ==
  ASSUME IInv, WriteProvisional PROVE IInv'
<1> USE DEF IInv
<1> DEFINE q == "ai_quality_gate.json"
           file == GateResult(gate_status)
<1>1. /\ phase = "provisional" /\ phase' = "summary" /\ Run >= 1
      /\ artifacts' = [artifacts EXCEPT ![q] = file]
      /\ file.run = Run /\ file.nth = 1
      /\ UNCHANGED <<revision, upcoming, current, written, doing, failed4, command_results,
                     gate_status, exit>>
  BY DEF WriteProvisional, FreshKept, GateResult, File
<1>2. /\ RootKept' /\ Run' = Run /\ artifacts'[q] = file
      /\ (\A p \in DOMAIN artifacts : FileOK(artifacts[p]))'
      /\ \A p \in Root : p # q => artifacts'[p] = artifacts[p]
  BY <1>1, FilesStay
<1>3. TypeOK' /\ FreshKept' /\ RunningKept'
  BY <1>1, <1>2 DEF TypeOK, FreshKept, RunningKept
<1>4. VerdictKept'
  <2>1. Settled => Settled'
    BY <1>1, <1>2, SettledStays DEF Private
  <2> QED BY <1>1, <2>1 DEF VerdictKept, Deciding
<1>5. ResultKept'
  <2>1. file' = file
    BY <1>1, <1>2 DEF GateResult, File
  <2> QED BY <1>2, <2>1 DEF ResultKept
<1>6. ManifestKept' /\ SummaryKept' /\ ReportKept'
  BY <1>1, <1>2, Special DEF ManifestKept, SummaryKept, ReportKept, Concluded, OwnReports
<1> QED BY <1>2, <1>3, <1>4, <1>5, <1>6

LEMMA SummaryStep ==
  ASSUME IInv, WriteSummary PROVE IInv'
<1> USE DEF IInv
<1> DEFINE q == "github_summary.md"
           file == Summary(gate_status)
<1>1. /\ phase = "summary" /\ Run >= 1 /\ Run' = Run
      /\ file.run = Run /\ file.nth = 1
      /\ UNCHANGED <<revision, upcoming, current, written, doing, failed4, command_results,
                     gate_status>>
  BY DEF WriteSummary, FreshKept, Summary, File, Run
<1>2. CASE artifacts' = [artifacts EXCEPT ![q] = file] /\ phase' = "manifest" /\ exit' = exit
  <2>1. /\ RootKept' /\ Run' = Run /\ artifacts'[q] = file
        /\ (\A p \in DOMAIN artifacts : FileOK(artifacts[p]))'
        /\ \A p \in Root : p # q => artifacts'[p] = artifacts[p]
    BY <1>1, <1>2, FilesStay
  <2>2. TypeOK' /\ FreshKept' /\ RunningKept'
    BY <1>1, <1>2, <2>1 DEF TypeOK, FreshKept, RunningKept
  <2>3. VerdictKept'
    <3>1. Settled => Settled'
      BY <1>1, <1>2, <2>1, SettledStays DEF Private
    <3> QED BY <1>1, <1>2, <3>1 DEF VerdictKept, Deciding
  <2>4. ResultKept'
    <3>1. GateResult(gate_status)' = GateResult(gate_status)
      BY <1>1 DEF GateResult, File
    <3> QED BY <1>1, <2>1, <3>1, Special DEF ResultKept
  <2>5. ManifestKept' /\ SummaryKept' /\ ReportKept'
    BY <1>1, <1>2, <2>1, Special DEF ManifestKept, SummaryKept, ReportKept, Concluded, OwnReports
  <2> QED BY <2>1, <2>2, <2>3, <2>4, <2>5
<1>3. CASE /\ artifacts["quality_policy.json"] = CutShort /\ phase' = "ended" /\ exit' = 1
           /\ artifacts' = artifacts
  <2>1. gate_status = "infrastructure_fail"
    BY <1>1, <1>3 DEF VerdictKept, Deciding, Settled, PolicyKept, CutShort
  <2>2. TypeOK' /\ RootKept' /\ FreshKept' /\ RunningKept'
    BY <1>1, <1>3 DEF TypeOK, RootKept, FreshKept, RunningKept
  <2>3. VerdictKept' /\ ManifestKept'
    BY <1>1, <1>3, <2>1 DEF VerdictKept, ManifestKept
  <2>4. ResultKept'
    <3>1. GateResult(gate_status)' = GateResult(gate_status)
      BY <1>1 DEF GateResult, File
    <3> QED BY <1>1, <1>3, <3>1 DEF ResultKept
  <2>5. SummaryKept' /\ ReportKept'
    <3>1. artifacts[q].run # Run /\ \A p \in Told : artifacts[p].run # Run
      BY <1>1 DEF SummaryKept, ReportKept
    <3>2. SummaryIsOwn' /\ ReportAgrees'
      BY <1>1, <1>3, <3>1, Told3 DEF SummaryIsOwn, ReportAgrees, Reported
    <3> QED BY <1>1, <1>3, <2>1, <3>2 DEF SummaryKept, ReportKept, Concluded
  <2> QED BY <2>2, <2>3, <2>4, <2>5
<1> QED BY <1>2, <1>3 DEF WriteSummary

LEMMA ManifestStep ==
  ASSUME IInv, WriteManifest PROVE IInv'
<1> USE DEF IInv
<1> DEFINE q == Manifest
           file == File(1, NotThere)
<1>1. /\ phase = "manifest" /\ phase' = "result" /\ Run >= 1
      /\ artifacts' = [artifacts EXCEPT ![q] = file]
      /\ file.run = Run /\ file.nth = 1 /\ file.verdict = NotThere
      /\ gate_status' = IF Missing = {} THEN gate_status ELSE "infrastructure_fail"
      /\ exit' = IF Missing = {} THEN exit ELSE 2
      /\ UNCHANGED <<revision, upcoming, current, written, doing, failed4, command_results>>
  BY DEF WriteManifest, FreshKept, File
<1>2. /\ RootKept' /\ Run' = Run /\ artifacts'[q] = file
      /\ (\A p \in DOMAIN artifacts : FileOK(artifacts[p]))'
      /\ \A p \in Root : p # q => artifacts'[p] = artifacts[p]
  BY <1>1, FilesStay
<1>3. Missing = {} => NotThere \cap RequiredReports = {}
  BY DEF NotThere, RequiredReports
<1> HIDE DEF file
<1>4. TypeOK' /\ FreshKept' /\ RunningKept'
  <2>1. TypeOK'
    BY <1>1, <1>2 DEF TypeOK
  <2> QED BY <1>1, <1>2, <2>1 DEF FreshKept, RunningKept
<1>5. VerdictKept'
  <2>1. Settled /\ gate_status' = gate_status => Settled'
    BY <1>1, <1>2, SettledStays DEF Private
  <2> QED BY <1>1, <2>1 DEF VerdictKept, Deciding
<1>6. ResultKept' /\ ManifestKept'
  BY <1>1, <1>2, <1>3 DEF ResultKept, ManifestKept, Concluded
<1>7. SummaryKept' /\ ReportKept'
  BY <1>1, <1>2, Special DEF SummaryKept, ReportKept, Concluded, OwnReports
<1> QED BY <1>2, <1>4, <1>5, <1>6, <1>7

LEMMA ResultStep ==
  ASSUME IInv, WriteResult PROVE IInv'
<1> USE DEF IInv
<1> DEFINE q == "ai_quality_gate.json"
           file == GateResult(gate_status)
<1>1. /\ phase = "result" /\ phase' = "telling" /\ Run >= 1
      /\ artifacts' = [artifacts EXCEPT ![q] = file]
      /\ file.run = Run /\ file.nth = 1
      /\ UNCHANGED <<revision, upcoming, current, written, doing, failed4, command_results,
                     gate_status, exit>>
  BY DEF WriteResult, FreshKept, GateResult, File
<1>2. /\ RootKept' /\ Run' = Run /\ artifacts'[q] = file
      /\ (\A p \in DOMAIN artifacts : FileOK(artifacts[p]))'
      /\ \A p \in Root : p # q => artifacts'[p] = artifacts[p]
  BY <1>1, FilesStay
<1>3. TypeOK' /\ FreshKept' /\ RunningKept'
  BY <1>1, <1>2 DEF TypeOK, FreshKept, RunningKept
<1>4. VerdictKept'
  <2>1. Settled => Settled'
    BY <1>1, <1>2, SettledStays DEF Private
  <2> QED BY <1>1, <2>1 DEF VerdictKept, Deciding
<1>5. ResultKept'
  <2>1. file' = file
    BY <1>1, <1>2 DEF GateResult, File
  <2> QED BY <1>2, <2>1 DEF ResultKept
<1>6. ManifestKept' /\ SummaryKept' /\ ReportKept'
  BY <1>1, <1>2, Special DEF ManifestKept, SummaryKept, ReportKept, Concluded, OwnReports
<1> QED BY <1>2, <1>3, <1>4, <1>5, <1>6

LEMMA TellStep ==
  ASSUME IInv, Tell PROVE IInv'
<1> USE DEF IInv
<1> DEFINE q == "github_summary.md"
           file == Summary(gate_status)
           payload == artifacts["quality_policy.json"]
<1>1. /\ phase = "telling" /\ phase' = "ended" /\ Run >= 1
      /\ artifacts' = [artifacts EXCEPT ![q] = file]
      /\ file.run = Run /\ file.nth = 1
      /\ UNCHANGED <<revision, upcoming, current, written, doing, failed4, command_results,
                     gate_status, exit>>
  BY DEF Tell, FreshKept, Summary, File
<1>2. /\ RootKept' /\ Run' = Run /\ artifacts'[q] = file
      /\ (\A p \in DOMAIN artifacts : FileOK(artifacts[p]))'
      /\ \A p \in Root : p # q => artifacts'[p] = artifacts[p]
  BY <1>1, FilesStay
<1>3. /\ file.verdict.infrastructure = (gate_status = "infrastructure_fail")
      /\ file.verdict.shown.run = payload.run
      /\ payload # NoFile => file.verdict.shown.told = payload.verdict.overall_status
  BY DEF Summary, File
<1>4. Settled => Settled'
  BY <1>1, <1>2, SettledStays DEF Private
<1>5. gate_status # "infrastructure_fail" => Settled
  BY <1>1 DEF VerdictKept, Deciding
<1>6. SummaryIsOwn'
  <2>1. CASE gate_status = "infrastructure_fail"
    BY <2>1, <1>1, <1>2, <1>3 DEF SummaryIsOwn
  <2>2. CASE gate_status # "infrastructure_fail"
    <3>1. Settled
      BY <1>5, <2>2
    <3>2. payload.run = Run /\ payload.nth = 2 /\ Decided(payload.verdict, command_results[13])
      BY <3>1, Special DEF Settled, Kept, PolicyKept
    <3>3. file.verdict.shown.run = Run /\ file.verdict.shown.told = payload.verdict.overall_status
      BY <3>2, <1>3 DEF NoFile
    <3>4. gate_status = "quality_fail" <=>
            file.verdict.shown.told = "fail" \/ command_results[12] = 1
      BY <3>1, <3>2, <3>3 DEF Settled, Decided
    <3> HIDE DEF file
    <3> QED BY <3>3, <3>4, <1>1, <1>2 DEF SummaryIsOwn
  <2> QED BY <2>1, <2>2
<1> HIDE DEF file
<1>7. TypeOK' /\ FreshKept' /\ RunningKept'
  BY <1>1, <1>2 DEF TypeOK, FreshKept, RunningKept
<1>8. VerdictKept'
  BY <1>1, <1>4 DEF VerdictKept, Deciding
<1>9. ResultKept'
  <2>1. GateResult(gate_status)' = GateResult(gate_status)
    BY <1>1, <1>2 DEF GateResult, File
  <2> QED BY <1>1, <1>2, <2>1, Special DEF ResultKept
<1>10. ManifestKept'
  BY <1>1, <1>2, Special DEF ManifestKept, OwnReports
<1>11. SummaryKept'
  BY <1>1, <1>2, <1>6 DEF SummaryKept
<1>12. ReportKept'
  <2>1. \A p \in Told : artifacts'[p].run # Run'
    BY <1>1, <1>2, Special DEF ReportKept, OwnReports
  <2>2. ReportAgrees'
    BY <2>1, Told3 DEF ReportAgrees, Reported
  <2> QED BY <1>1, <2>2 DEF ReportKept
<1> QED BY <1>2, <1>7, <1>8, <1>9, <1>10, <1>11, <1>12

-----------------------------------------------------------------------------
(***************************************************************************)
(* The report of the pull request.                                         *)
(***************************************************************************)
\* Of a gate whose infrastructure failed it never says pass or warning.
LEMMA FailureIsShown ==
  ASSUME IInv, Concluded, gate_status = "infrastructure_fail"
  PROVE  StatusAgrees(CiReport)
<1> DEFINE gate == artifacts["ai_quality_gate.json"].verdict
           payload == artifacts["quality_policy.json"].verdict
<1>1. gate.status = "infrastructure_fail"
  <2>1. artifacts["ai_quality_gate.json"] = GateResult(gate_status)
    BY DEF IInv, ResultKept
  <2> QED BY <2>1 DEF GateResult, File
<1>2. /\ None \notin {"missing_required_report", "malformed_report",
                      "quality_gate_infrastructure_error"}
  BY AnswersAssumption
<1>3. ASSUME NEW failure, failure # None
      PROVE  StatusAgrees(InfrastructureReport(failure))
  BY <1>3 DEF StatusAgrees, InfrastructureReport
<1>4. CASE ReadFailure # None
  <2>1. CiReport = InfrastructureReport(ReadFailure)
    BY <1>4 DEF CiReport
  <2> QED BY <1>3, <1>4, <2>1
<1>5. CASE ReadFailure = None /\ ListedAbsent \cap RequiredReports # {}
  <2>1. CiReport = InfrastructureReport("missing_required_report")
    BY <1>5 DEF CiReport
  <2> QED BY <1>2, <1>3, <2>1
<1>6. CASE ReadFailure = None /\ ListedAbsent \cap RequiredReports = {}
  <2> DEFINE r == CiReport
  <2>1. /\ r.overall_status = WithStatistics(CiStatus(payload, gate), StatisticalSuite)
        /\ r.failure_type = "quality_gate_infrastructure_error"
    BY <1>1, <1>6 DEF CiReport
  <2>2. r.overall_status \in {"fail", "infrastructure_error"}
    BY <1>1, <2>1 DEF CiStatus, WithStatistics
  <2> HIDE DEF r
  <2>3. StatusAgrees(r)
    BY <1>2, <2>1, <2>2 DEF StatusAgrees
  <2> QED BY <2>3 DEF r
<1> QED BY <1>4, <1>5, <1>6

\* What a verdict rests on is there to be read.
LEMMA VerdictIsRead ==
  ASSUME IInv, Concluded, gate_status # "infrastructure_fail"
  PROVE  /\ Settled /\ ReadFailure = None /\ ListedAbsent \cap RequiredReports = {}
         /\ artifacts["ai_quality_gate.json"].verdict.status = gate_status
         /\ Decided(artifacts["quality_policy.json"].verdict, command_results[13])
         /\ StatisticalSuite = "fail" <=> command_results[12] = 1
<1>1. /\ Settled /\ artifacts["ai_quality_gate.json"] = GateResult(gate_status)
      /\ artifacts[Manifest].run = Run /\ artifacts[Manifest].verdict \cap RequiredReports = {}
      /\ Run >= 1
  BY DEF IInv, VerdictKept, ResultKept, ManifestKept, FreshKept, Concluded
<1>2. /\ artifacts["quality_policy.json"].nth = 2
      /\ Decided(artifacts["quality_policy.json"].verdict, command_results[13])
      /\ artifacts["statistical_baseline.json"].nth = 2
      /\ artifacts["statistical_baseline.json"].verdict = "fail" <=> command_results[12] = 1
      /\ artifacts["ci_environment.json"].run = Run
  BY <1>1 DEF Settled, PolicyKept, BaselineKept, EnvironmentKept
<1>3. /\ artifacts["ai_quality_gate.json"].run = Run
      /\ artifacts["ai_quality_gate.json"].verdict.status = gate_status
  BY <1>1 DEF GateResult, File
<1>4. ReadFailure = None
  <2> DEFINE needed == <<"quality_policy.json", "ai_quality_gate.json", Manifest, "ci_environment.json">>
             unread == {i \in 1..4 : artifacts[needed[i]] \in (IF i <= 2 THEN {NoFile, CutShort} ELSE {CutShort})}
  <2>1. /\ artifacts["quality_policy.json"] \notin {NoFile, CutShort}
        /\ artifacts["ai_quality_gate.json"] \notin {NoFile, CutShort}
        /\ artifacts[Manifest] # CutShort /\ artifacts["ci_environment.json"] # CutShort
    BY <1>1, <1>2, <1>3 DEF NoFile, CutShort
  <2>2. /\ needed[1] = "quality_policy.json" /\ needed[2] = "ai_quality_gate.json"
        /\ needed[3] = Manifest /\ needed[4] = "ci_environment.json"
    OBVIOUS
  <2>3. unread = {}
    <3> HIDE DEF needed
    <3> SUFFICES ASSUME NEW i \in unread PROVE FALSE
      OBVIOUS
    <3>1. i \in {1, 2, 3, 4}
      OBVIOUS
    <3> QED BY <3>1, <2>1, <2>2
  <2> QED BY <2>3 DEF ReadFailure
<1>5. ListedAbsent \cap RequiredReports = {}
  BY <1>1 DEF ListedAbsent
<1>6. StatisticalSuite = artifacts["statistical_baseline.json"].verdict
  BY <1>2 DEF StatisticalSuite, NoFile, CutShort
<1> QED BY <1>1, <1>2, <1>3, <1>4, <1>5, <1>6

LEMMA VerdictIsShown ==
  ASSUME IInv, Concluded, gate_status # "infrastructure_fail"
  PROVE  StatusAgrees(CiReport)
<1> DEFINE gate == artifacts["ai_quality_gate.json"].verdict
           payload == artifacts["quality_policy.json"].verdict
           r == CiReport
<1>1. /\ Settled /\ ReadFailure = None /\ ListedAbsent \cap RequiredReports = {}
      /\ gate.status = gate_status
      /\ Decided(payload, command_results[13])
      /\ StatisticalSuite = "fail" <=> command_results[12] = 1
  BY VerdictIsRead
<1>2. /\ Finished(12, command_results[12]) /\ Finished(13, command_results[13])
      /\ gate_status = "quality_fail" <=> command_results[12] = 1 \/ command_results[13] = 1
      /\ gate_status \in {"pass", "quality_fail"}
  BY <1>1 DEF Settled, IInv, VerdictKept
<1>3. /\ r.overall_status = WithStatistics(CiStatus(payload, gate), StatisticalSuite)
      /\ r.failure_type = None /\ r.suites = SuitesShown /\ r.critical = payload.critical
  <2>1. gate.status # "infrastructure_fail"
    BY <1>1
  <2> QED BY <1>1, <2>1 DEF CiReport
<1> HIDE DEF r, gate
<1>4. CASE gate_status = "pass"
  <2>1. /\ command_results[12] # 1 /\ command_results[13] = 0
    BY <1>2, <1>4 DEF Finished
  <2>2. /\ payload.overall_status \in {"pass", "warning"}
        /\ payload.violations = {} /\ payload.critical = {}
    BY <1>1, <2>1 DEF Decided
  <2>3. r.overall_status \in {"pass", "warning"}
    BY <1>1, <1>3, <1>4, <2>1, <2>2 DEF CiStatus, WithStatistics
  <2>4. \A p \in DOMAIN SuitesShown : SuitesShown[p] # "fail"
    <3>1. \A s : SuiteStatus(s) # "fail"
      BY <2>2 DEF SuiteStatus
    <3> QED BY <3>1 DEF SuitesShown
  <2>5. FailedSuites(r) = {}
    BY <1>3, <2>4 DEF FailedSuites
  <2> QED BY <1>3, <1>4, <2>2, <2>3, <2>5 DEF StatusAgrees, r
<1>5. CASE gate_status = "quality_fail"
  <2>1. r.overall_status \in {"fail"}
    <3>1. CASE command_results[12] = 1
      BY <3>1, <1>1, <1>3 DEF WithStatistics
    <3>2. CASE command_results[13] = 1
      <4>1. payload.overall_status = "fail"
        BY <3>2, <1>1 DEF Decided
      <4>2. CiStatus(payload, gate) = "fail"
        BY <4>1, <1>1, <1>5 DEF CiStatus
      <4> QED BY <4>2, <1>3 DEF WithStatistics
    <3> QED BY <3>1, <3>2, <1>2, <1>5
  <2> QED BY <1>3, <1>5, <2>1 DEF StatusAgrees, r
<1> QED BY <1>2, <1>4, <1>5

LEMMA ReportStep ==
  ASSUME IInv, BuildCiReport PROVE IInv'
<1> USE DEF IInv
<1> DEFINE file == File(1, CiReport)
<1>1. /\ phase = "ended" /\ Run' = Run /\ Run \in Nat /\ Run >= 1
      /\ artifacts' = [p \in DOMAIN artifacts |-> IF p \in Told THEN file ELSE artifacts[p]]
      /\ file.run = Run /\ file.nth = 1 /\ file.verdict = CiReport
      /\ UNCHANGED <<revision, upcoming, phase, current, written, doing, failed4,
                     command_results, gate_status, exit>>
  <2>1. revision \in Seq(Worlds) /\ revision # <<>>
    BY DEF BuildCiReport, TypeOK
  <2>2. Run \in Nat /\ Run >= 1
    BY <2>1 DEF Run
  <2> QED BY <2>2, Told3 DEF BuildCiReport, Run, File
<1>2. /\ DOMAIN artifacts' = DOMAIN artifacts /\ DOMAIN artifacts = Root
      /\ \A p \in Told : artifacts'[p] = file
      /\ \A p \in Root : p \notin Told => artifacts'[p] = artifacts[p]
  <2> HIDE DEF file
  <2> QED BY <1>1, Special DEF RootKept
<1> HIDE DEF file
<1>3. TypeOK' /\ RootKept' /\ FreshKept' /\ RunningKept'
  <2>1. (\A p \in DOMAIN artifacts : FileOK(artifacts[p]))'
    <3>1. \A p \in DOMAIN artifacts : FileOK(artifacts[p])
      BY DEF TypeOK
    <3>2. file.run \in 1..Run /\ file.nth \in 1..5
      BY <1>1
    <3> QED BY <1>1, <1>2, <3>1, <3>2
  <2>2. TypeOK'
    BY <1>1, <2>1 DEF TypeOK
  <2> QED BY <1>1, <1>2, <2>2 DEF RootKept, FreshKept, RunningKept
<1>4. Concluded' = Concluded
  BY <1>1 DEF Concluded
<1>5. VerdictKept'
  <2>1. Settled => Settled'
    BY <1>1, <1>2, SettledStays DEF Private
  <2> QED BY <1>1, <1>4, <2>1 DEF VerdictKept, Deciding
<1>6. ResultKept'
  <2>1. GateResult(gate_status)' = GateResult(gate_status)
    BY <1>1 DEF GateResult, File
  <2> QED BY <1>1, <1>2, <1>4, <2>1, Special DEF ResultKept, OwnReports
<1>7. ManifestKept'
  BY <1>1, <1>2, <1>4, Special DEF ManifestKept
<1>8. SummaryKept'
  <2>1. artifacts'["github_summary.md"] = artifacts["github_summary.md"]
    BY <1>2, Special DEF OwnReports
  <2>2. SummaryIsOwn => SummaryIsOwn'
    BY <1>1, <2>1 DEF SummaryIsOwn
  <2> QED BY <1>1, <1>4, <2>1, <2>2 DEF SummaryKept
<1>9. ReportKept'
  <2>1. Concluded => StatusAgrees(CiReport)
    BY FailureIsShown, VerdictIsShown
  <2>2. ASSUME Concluded PROVE ReportAgrees'
    <3>1. \A p \in ToSet(CiReports) : artifacts'[p].verdict = CiReport
      BY <1>1, <1>2, Told3
    <3>2. StatusAgrees(CiReport) => \A p \in ToSet(CiReports) : StatusAgrees(artifacts[p].verdict)'
      BY <1>1, <3>1 DEF StatusAgrees, FailedSuites
    <3> QED BY <2>1, <2>2, <3>2 DEF ReportAgrees
  <2> QED BY <1>1, <1>4, <2>2 DEF ReportKept
<1> QED BY <1>3, <1>5, <1>6, <1>7, <1>8, <1>9

LEMMA NextStep ==
  ASSUME IInv, [Next]_vars PROVE IInv'
<1>1. CASE GateSteps
  BY <1>1, EnvironmentStep, InputsStep, ProvisionalStep, SummaryStep, ManifestStep, ResultStep,
     TellStep DEF GateSteps
<1>2. CASE CommandSteps
  BY <1>2, EvaluateStep, WritesStep, ExitsStep DEF CommandSteps
<1>3. CASE UNCHANGED vars
  <2>1. /\ UNCHANGED <<artifacts, revision, upcoming, phase, current, written, doing, failed4,
                       command_results, gate_status, exit>>
        /\ Run' = Run
    BY <1>3 DEF vars, Run
  <2>2. TypeOK' /\ RootKept'
    BY <2>1 DEF IInv, TypeOK, RootKept
  <2>3. Concluded' = Concluded
    BY <2>1 DEF Concluded
  <2>4. GateResult(gate_status)' = GateResult(gate_status)
    BY <2>1 DEF GateResult, File
  <2>5. FreshKept' /\ ResultKept' /\ ManifestKept'
    BY <2>1, <2>3, <2>4 DEF IInv, FreshKept, EnvironmentKept, ResultKept, ManifestKept
  <2>6. SummaryKept' /\ ReportKept'
    BY <2>1, <2>3
       DEF IInv, SummaryKept, SummaryIsOwn, ReportKept, ReportAgrees, StatusAgrees, FailedSuites,
           Reported
  <2>7. VerdictKept'
    <3>1. Settled' <=> Settled
      BY <2>1 DEF Settled, EnvironmentKept, Kept, BaselineKept, PolicyKept
    <3> QED BY <2>1, <2>3, <3>1 DEF IInv, VerdictKept
  <2>8. RunningKept'
    <3>1. EarlierKept' <=> EarlierKept
      BY <2>1 DEF EarlierKept, EnvironmentKept, Kept, BaselineKept, World
    <3>2. DoingKept' <=> DoingKept
      BY <2>1 DEF DoingKept, File
    <3> QED BY <2>1, <3>1, <3>2 DEF IInv, RunningKept
  <2> QED BY <2>2, <2>5, <2>6, <2>7, <2>8 DEF IInv
<1> QED BY <1>1, <1>2, <1>3, StartStep, TimeOutStep, KillStep, ReportStep DEF Next

LEMMA Invariance == Spec => []IInv
  BY InitInv, NextStep, PTL DEF Spec

LEMMA EndIsTold ==
  ASSUME IInv PROVE FailureIsTold
<1> SUFFICES ASSUME Concluded
             PROVE  ResultIsKept /\ PassIsComplete /\ SummaryIsOwn /\ ReportAgrees
  BY DEF FailureIsTold
<1>1. ResultIsKept
  BY DEF IInv, ResultKept, VerdictKept, GateResult, File, ResultIsKept
<1>2. PassIsComplete
  <2> SUFFICES ASSUME gate_status = "pass", NEW p \in RequiredReports
               PROVE  artifacts[p].run = Run
    BY DEF PassIsComplete
  <2>1. Settled /\ artifacts["ai_quality_gate.json"].run = Run
    BY DEF IInv, VerdictKept, ResultKept, GateResult, File
  <2>2. artifacts["github_summary.md"].run = Run
    BY DEF IInv, SummaryKept
  <2>3. p \in OwnReports \/ \E k \in 1..13 : p \in Owned[k]
    BY ReportPlaces
  <2>4. CASE p \in OwnReports
    BY <2>1, <2>2, <2>4 DEF OwnReports, Settled, EnvironmentKept
  <2>5. CASE \E k \in 1..13 : p \in Owned[k]
    BY <2>1, <2>5 DEF Settled, Kept
  <2> QED BY <2>3, <2>4, <2>5
<1>3. SummaryIsOwn /\ ReportAgrees
  BY DEF IInv, SummaryKept, ReportKept
<1> QED BY <1>1, <1>2, <1>3

\* The gate's state keeps its types: a file is absent, cut short or of a run
\* that has been, and a command is the current one exactly while the commands
\* run (run_ai_quality_gate.py _run_commands, main).
THEOREM GateTypes == Spec => []TypeOK
<1>1. IInv => TypeOK
  BY DEF IInv
<1> QED BY <1>1, Invariance, PTL

\* How a gate ends says what it found, for every revision, every order of
\* revisions on one root and every point at which a command hangs or the gate
\* is killed: the exit code is 0 exactly when the result file says pass, a
\* pass rests on reports that are all this run's, no earlier verdict is shown
\* as this run's, and the pull request is told the same (run_ai_quality_gate.py
\* main, ci_reporting/aggregator.py build_ci_quality_report).
THEOREM EndsAreTold == Spec => []FailureIsTold
<1>1. IInv => FailureIsTold
  BY EndIsTold
<1> QED BY <1>1, Invariance, PTL

-----------------------------------------------------------------------------
(***************************************************************************)
(* The statistical answers.  A check that passes means what it is named    *)
(* for, and what ends a gate well leaves no check of the baseline failed.  *)
(***************************************************************************)
Passes(checks) ==
  \A code \in DOMAIN checks : code # "dependency" => checks[code].status # "fail"

LEMMA CheckPasses ==
  ASSUME NEW code, NEW passed, Check(code, passed, TRUE).status # "fail"
  PROVE  passed
  BY DEF Check

\* A check that is not about evidence applies to every answer, and there is one.
LEMMA AnalysisPasses ==
  ASSUME NEW case, NEW answer,
         \A code \in {"routing", "execution_status", "result_integrity"} :
           AnalysisChecks(case, answer)[code].status # "fail"
  PROVE  AnalysisHolds(case, answer)
<1> DEFINE codes == {"routing", "execution_status", "result_integrity"}
           verdicts == ResponseVerdicts(case, answer)
<1>1. codes \subseteq AnalysisCodes /\ codes \cap DOMAIN EvidenceField = {}
  BY DEF AnalysisCodes, EvidenceField
<1>2. answer # None
  <2>1. AnalysisChecks(case, None)["routing"] = Check("routing", FALSE, TRUE)
    BY <1>1 DEF AnalysisChecks
  <2> QED BY <2>1, CheckPasses
<1>3. \A code \in codes : verdicts[code]
  <2> SUFFICES ASSUME NEW code \in codes PROVE verdicts[code]
    OBVIOUS
  <2>1. AnalysisChecks(case, answer)[code] =
          Check(code, verdicts[code],
                ~(case.reference = None
                    /\ code \in (DOMAIN EvidenceField \ {"diagnostics_preserved"})))
    BY <1>1, <1>2 DEF AnalysisChecks
  <2>2. code \notin (DOMAIN EvidenceField \ {"diagnostics_preserved"})
    BY <1>1
  <2> HIDE DEF verdicts
  <2> QED BY <2>1, <2>2 DEF Check
<1>4. /\ verdicts["routing"] = (answer.method = case.method)
      /\ verdicts["execution_status"] = (answer.status = case.status)
      /\ verdicts["result_integrity"] = (answer.evidence = case.reference)
  BY <1>1 DEF ResponseVerdicts
<1> HIDE DEF verdicts
<1> QED BY <1>2, <1>3, <1>4 DEF AnalysisHolds

LEMMA UpdatedAt ==
  ASSUME NEW f, NEW g, NEW x
  PROVE  /\ x \in DOMAIN Updated(f, g) <=> x \in DOMAIN f \/ x \in DOMAIN g
         /\ x \in DOMAIN g => Updated(f, g)[x] = g[x]
         /\ x \in DOMAIN f /\ x \notin DOMAIN g => Updated(f, g)[x] = f[x]
  BY DEF Updated

\* What is added to the checks of an answer changes none of those that are
\* about the answer, and there are the ones about the run.
KeepsChecks(checks, merged, run, case) ==
  /\ \A code \in {"routing", "execution_status", "result_integrity"} :
       code \in DOMAIN checks /\ checks[code] = merged[code]
  /\ "state_preserved" \in DOMAIN checks
  /\ checks["state_preserved"]
       = Check("state_preserved", run.answer # None /\ run.state = run.answer, TRUE)
  /\ ForbiddenCalls(case) # {} =>
       /\ "downstream_gating" \in DOMAIN checks
       /\ checks["downstream_gating"]
            = Check("downstream_gating",
                    /\ merged["downstream_gating"].status # "fail"
                    /\ \A name \in ForbiddenCalls(case) : run.calls[name] = 0, TRUE)

LEMMA ChecksAreKept ==
  ASSUME NEW declared, NEW packages, NEW run, NEW case, NEW merged,
         {"routing", "execution_status", "result_integrity"} \subseteq DOMAIN merged
  PROVE  KeepsChecks(ChecksOf(declared, packages, run, case, merged), merged, run, case)
<1> DEFINE codes == {"routing", "execution_status", "result_integrity"}
           checks == ChecksOf(declared, packages, run, case, merged)
           forbidden == ForbiddenCalls(case)
           kept == Check("state_preserved", run.answer # None /\ run.state = run.answer, TRUE)
           gated == Check("downstream_gating",
                          /\ merged["downstream_gating"].status # "fail"
                          /\ \A name \in forbidden : run.calls[name] = 0, TRUE)
           gating == IF forbidden = {} THEN <<>> ELSE [code \in {"downstream_gating"} |->
                       Check(code, /\ merged[code].status # "fail"
                                   /\ \A name \in forbidden : run.calls[name] = 0, TRUE)]
<1>1. \E own, boundary :
        /\ checks = Updated(Updated(own, boundary), gating)
        /\ \/ own = merged
           \/ \E d : own = Updated(merged, [code \in {"dependency"} |-> d])
        /\ DOMAIN boundary = {"trace_linkage", "telemetry_privacy", "artifact_privacy",
                              "state_preserved", "api_contract"}
        /\ boundary["state_preserved"] = kept
  <2> DEFINE public == Public(run)
             dependency == ObservedDependency(declared, packages, public)
             boundary ==
               [trace_linkage |-> Check("trace_linkage",
                                        LinkageViolations(case, run.spans, run.roots) = {}, TRUE),
                telemetry_privacy |-> Check("telemetry_privacy",
                                            PrivacyViolations(run.leaves) = {}, TRUE),
                artifact_privacy |-> Check("artifact_privacy",
                                           PrivacyViolations(public.leaves) = {}, TRUE),
                state_preserved |-> Check("state_preserved",
                                         run.answer # None /\ run.state = run.answer, TRUE),
                api_contract |-> Check("api_contract", run.code = 200 /\ run.reasons = {}, TRUE)]
             own == IF dependency = "not_required" THEN merged
                    ELSE Updated(merged, [code \in {"dependency"} |-> DependencyCheck(dependency)])
  <2>1. checks = Updated(Updated(own, boundary), gating)
    BY Zenon DEF ChecksOf
  <2>2. own = merged \/ \E d : own = Updated(merged, [code \in {"dependency"} |-> d])
    BY Zenon
  <2>3. /\ DOMAIN boundary = {"trace_linkage", "telemetry_privacy", "artifact_privacy",
                              "state_preserved", "api_contract"}
        /\ boundary["state_preserved"] = kept
    OBVIOUS
  <2> HIDE DEF own, boundary, gating, checks, kept
  <2> QED BY <2>1, <2>2, <2>3
<1>2. PICK own, boundary :
        /\ checks = Updated(Updated(own, boundary), gating)
        /\ \/ own = merged
           \/ \E d : own = Updated(merged, [code \in {"dependency"} |-> d])
        /\ DOMAIN boundary = {"trace_linkage", "telemetry_privacy", "artifact_privacy",
                              "state_preserved", "api_contract"}
        /\ boundary["state_preserved"] = kept
  BY <1>1
<1>3. /\ DOMAIN gating \subseteq {"downstream_gating"}
      /\ forbidden # {} => "downstream_gating" \in DOMAIN gating
                           /\ gating["downstream_gating"] = gated
  <2>1. CASE forbidden = {}
    <3>1. gating = <<>>
      BY <2>1
    <3> HIDE DEF gating, gated
    <3> QED BY <2>1, <3>1
  <2>2. CASE forbidden # {}
    <3>1. gating = [code \in {"downstream_gating"} |->
                      Check(code, /\ merged[code].status # "fail"
                                  /\ \A name \in forbidden : run.calls[name] = 0, TRUE)]
      BY <2>2, Zenon
    <3> HIDE DEF gating, forbidden
    <3> QED BY <3>1
  <2> QED BY <2>1, <2>2
<1> HIDE DEF gating, kept, gated, checks
<1>4. \A code \in codes : code \in DOMAIN own /\ own[code] = merged[code]
  <2>1. CASE own = merged
    BY <2>1
  <2>2. CASE \E d : own = Updated(merged, [code \in {"dependency"} |-> d])
    <3>1. PICK d : own = Updated(merged, [code \in {"dependency"} |-> d])
      BY <2>2
    <3> DEFINE g == [code \in {"dependency"} |-> d]
    <3>2. DOMAIN g = {"dependency"} /\ own = Updated(merged, g)
      BY <3>1
    <3> HIDE DEF g
    <3> QED BY <3>2, UpdatedAt
  <2> QED BY <1>2, <2>1, <2>2
<1> DEFINE middle == Updated(own, boundary)
<1>5. /\ \A code \in codes : code \in DOMAIN middle /\ middle[code] = merged[code]
      /\ "state_preserved" \in DOMAIN middle /\ middle["state_preserved"] = kept
  BY <1>2, <1>4, UpdatedAt
<1>6. checks = Updated(middle, gating)
  BY <1>2
<1> HIDE DEF middle
<1>7. /\ \A code \in codes : code \in DOMAIN checks /\ checks[code] = merged[code]
      /\ "state_preserved" \in DOMAIN checks /\ checks["state_preserved"] = kept
  BY <1>3, <1>5, <1>6, UpdatedAt
<1>8. forbidden # {} => "downstream_gating" \in DOMAIN checks
                        /\ checks["downstream_gating"] = gated
  BY <1>3, <1>6, UpdatedAt
<1> QED BY <1>7, <1>8, Zenon DEF kept, gated, checks, KeepsChecks

LEMMA WorkflowCasePasses ==
  ASSUME NEW case, NEW packages, NEW runs,
         WorkflowCase(case, packages, runs) # None,
         Passes(WorkflowCase(case, packages, runs).checks)
  PROVE  WorkflowHolds(EffectiveCase(case, packages), runs[1])
<1> DEFINE run == runs[1]
           asked == EffectiveCase(case, packages)
           first == CaseResult(case, packages, run)
           again == CaseResult(case, packages, runs[2])
           result == Repeated(first, again)
           codes == {"routing", "execution_status", "result_integrity"}
           own == AnalysisChecks(asked, run.answer)
           more == EvidenceChecks(asked, Public(run).evidence)
           merged == MergeChecks(own, more)
           made == ChecksOf(case, packages, run, asked, merged)
<1>1. run # None /\ WorkflowCase(case, packages, runs) = result
  BY Zenon DEF WorkflowCase
<1>2. first.checks = made /\ "checks" \in DOMAIN first
  <2>1. CaseChecks(case, packages, run) = made
    BY Zenon DEF CaseChecks
  <2> HIDE DEF made
  <2> QED BY <2>1 DEF CaseResult
<1>3. \E d : result.checks = Updated(made, [code \in {"determinism"} |-> d])
  <2> DEFINE g == [code \in {"determinism"} |-> Check(code, SameOutcome(first, again), TRUE)]
             d == Check("determinism", SameOutcome(first, again), TRUE)
  <2>1. result = [first EXCEPT !.checks = Updated(@, g)]
    BY Zenon DEF Repeated
  <2>2. g = [code \in {"determinism"} |-> d]
    <3> DEFINE same == SameOutcome(first, again)
    <3> HIDE DEF same
    <3>1. [code \in {"determinism"} |-> Check(code, same, TRUE)]
            = [code \in {"determinism"} |-> Check("determinism", same, TRUE)]
      OBVIOUS
    <3> QED BY <3>1, Zenon DEF same
  <2> HIDE DEF g, d, result, first, made
  <2>3. result.checks = Updated(made, g)
    BY <1>2, <2>1
  <2> QED BY <2>2, <2>3
<1>4. PICK d : result.checks = Updated(made, [code \in {"determinism"} |-> d])
  BY <1>3
<1> DEFINE g == [code \in {"determinism"} |-> d]
<1>5. DOMAIN g = {"determinism"} /\ result.checks = Updated(made, g)
  BY <1>4
<1>6. /\ codes \subseteq DOMAIN merged
      /\ \A code \in codes : merged[code] = own[code]
  <2>1. codes \subseteq DOMAIN own
    BY DEF AnalysisChecks, AnalysisCodes
  <2>2. codes \cap DOMAIN more = {}
    BY DEF EvidenceChecks
  <2> HIDE DEF own, more
  <2> QED BY <2>1, <2>2 DEF MergeChecks
<1> DEFINE kept == Check("state_preserved", run.answer # None /\ run.state = run.answer, TRUE)
           calm == \A name \in ForbiddenCalls(asked) : run.calls[name] = 0
           gated == Check("downstream_gating", merged["downstream_gating"].status # "fail" /\ calm,
                          TRUE)
<1>7. /\ \A code \in codes : code \in DOMAIN made /\ made[code] = merged[code]
      /\ "state_preserved" \in DOMAIN made /\ made["state_preserved"] = kept
      /\ ForbiddenCalls(asked) # {} => "downstream_gating" \in DOMAIN made
                                       /\ made["downstream_gating"] = gated
  <2> HIDE DEF merged, asked
  <2>1. KeepsChecks(ChecksOf(case, packages, run, asked, merged), merged, run, asked)
    BY <1>6, ChecksAreKept
  <2> QED BY <2>1, Zenon DEF KeepsChecks
<1>8. \A code \in DOMAIN made :
            code \notin {"determinism", "dependency"} => made[code].status # "fail"
  <2> HIDE DEF made, g, result
  <2> SUFFICES ASSUME NEW code \in DOMAIN made, code \notin {"determinism", "dependency"}
               PROVE  made[code].status # "fail"
    OBVIOUS
  <2>1. code \in DOMAIN result.checks /\ result.checks[code] = made[code]
    BY <1>5, UpdatedAt
  <2>2. Passes(result.checks)
    BY <1>1
  <2> QED BY <2>1, <2>2 DEF Passes
<1> HIDE DEF result, made, merged, g
<1>9. AnalysisHolds(asked, run.answer)
  <2>1. \A code \in codes : own[code].status # "fail"
    BY <1>6, <1>7, <1>8
  <2> QED BY <2>1, AnalysisPasses
<1>10. run.state = run.answer
  <2>1. kept.status # "fail"
    BY <1>7, <1>8
  <2> QED BY <2>1, CheckPasses
<1>11. calm
  <2>1. CASE ForbiddenCalls(asked) = {}
    BY <2>1
  <2>2. CASE ForbiddenCalls(asked) # {}
    <3>1. gated.status # "fail"
      BY <1>7, <1>8, <2>2
    <3> HIDE DEF calm
    <3> QED BY <3>1, CheckPasses
  <2> QED BY <2>1, <2>2
<1> QED BY <1>1, <1>9, <1>10, <1>11 DEF WorkflowHolds

LEMMA EnforcedPasses ==
  ASSUME NEW result, NEW required, "checks" \in DOMAIN result,
         \A code \in DOMAIN Enforce(result, required).checks :
           Enforce(result, required).checks[code].status # "fail"
  PROVE  Passes(result.checks)
<1> DEFINE checks == result.checks
           failed == [checks["dependency"] EXCEPT !.status = "fail"]
           changed == [checks EXCEPT !["dependency"] = failed]
           enforced == Enforce(result, required)
<1>1. CASE enforced = result
  BY <1>1 DEF Passes
<1>2. CASE enforced = [result EXCEPT !.checks["dependency"].status = "fail"]
  <2>1. enforced = [result EXCEPT !.checks = changed]
    BY <1>2
  <2> HIDE DEF enforced, changed
  <2>2. enforced.checks = changed
    BY <2>1
  <2>3. \A code \in DOMAIN checks : code \in DOMAIN changed
                                    /\ (code # "dependency" => changed[code] = checks[code])
    BY DEF changed
  <2> QED BY <2>2, <2>3 DEF Passes, enforced
<1> QED BY <1>1, <1>2, Zenon DEF Enforce

\* A suite without errors in which no check failed answered every case rightly.
LEMMA SuitePasses ==
  ASSUME NEW suite, NEW required,
         WorkflowSuiteOf(suite, "complete", required).errors = {},
         WorkflowStatus(WorkflowSuiteOf(suite, "complete", required).results) # "fail"
  PROVE  \A c \in suite.cases :
           WorkflowHolds(EffectiveCase(c, suite.packages), suite.runs[c.id][1])
<1> DEFINE done == Executions(suite, "complete")
           old == CompatibilityCases(suite.old)
           results == {Enforce(e[2], required) : e \in {x \in done : x[2] # None}}
                        \cup (IF old = None THEN {} ELSE old)
           errors == {e[1] : e \in {x \in done : x[2] = None}}
                       \cup (IF old = None THEN {<<"compatibility", "all">>} ELSE {})
           whole == WorkflowSuiteOf(suite, "complete", required)
<1>1. errors = {} /\ WorkflowStatus(results) # "fail"
  <2>1. whole = Completed(done, old, required)
    BY Zenon DEF WorkflowSuiteOf
  <2> HIDE DEF done, old
  <2>2. Completed(done, old, required).results = results
        /\ Completed(done, old, required).errors = errors
    BY DEF Completed
  <2> QED BY <2>1, <2>2
<1>2. \A r \in results : \A code \in DOMAIN r.checks : r.checks[code].status # "fail"
  <2> DEFINE all == UNION {{r.checks[code].status : code \in DOMAIN r.checks} : r \in results}
  <2> HIDE DEF results
  <2>1. "fail" \notin all
    <3>1. WorkflowStatus(results) = Rollup(all)
      BY DEF WorkflowStatus
    <3> HIDE DEF all
    <3> QED BY <1>1, <3>1 DEF Rollup
  <2> QED BY <2>1
<1> SUFFICES ASSUME NEW c \in suite.cases
             PROVE  WorkflowHolds(EffectiveCase(c, suite.packages), suite.runs[c.id][1])
  OBVIOUS
<1> DEFINE runs == suite.runs[c.id]
           result == WorkflowCase(c, suite.packages, runs)
           name == <<"case", c.id>>
           e == <<name, result>>
<1>3. e \in done
  BY Zenon DEF Executions
<1>4. e[1] = name /\ e[2] = result
  OBVIOUS
<1> HIDE DEF done, e, result
<1>5. result # None
  <2> SUFFICES ASSUME result = None PROVE FALSE
    OBVIOUS
  <2>1. e[1] \in errors
    BY <1>3, <1>4
  <2> QED BY <1>1, <2>1
<1>6. Enforce(result, required) \in results
  BY <1>3, <1>4, <1>5
<1>7. "checks" \in DOMAIN result
  <2>1. \E a, b : result = Repeated(CaseResult(c, suite.packages, a), b)
    BY <1>5, Zenon DEF result, WorkflowCase
  <2>2. PICK a, b : result = Repeated(CaseResult(c, suite.packages, a), b)
    BY <2>1
  <2> DEFINE r == CaseResult(c, suite.packages, a)
  <2>3. "checks" \in DOMAIN r
    BY DEF CaseResult
  <2> HIDE DEF r
  <2>4. "checks" \in DOMAIN Repeated(r, b)
    BY <2>3 DEF Repeated
  <2> QED BY <2>2, <2>4 DEF r
<1> HIDE DEF results
<1>8. Passes(result.checks)
  BY <1>2, <1>6, <1>7, EnforcedPasses
<1> QED BY <1>5, <1>8, WorkflowCasePasses, Zenon DEF result

LEMMA ExpectedPasses ==
  ASSUME NEW outcome, NEW v, ExpectedValueCheck(outcome, v).status # "fail"
  PROVE  LET o == ValueAt(outcome, v.path)
         IN IF v.tolerance = None THEN o = v.value
            ELSE Finite(o) /\ o[2] - v.value[2] \in -v.tolerance..v.tolerance
<1> DEFINE o == ValueAt(outcome, v.path)
           near == (o[2] - v.value[2]) \in -v.tolerance..v.tolerance
           verdict ==
             IF o = None THEN <<"missing_field", FALSE>>
             ELSE IF v.tolerance = None THEN <<"exact", o = v.value>>
             ELSE IF o[1] = "text" THEN <<"numeric_type", FALSE>>
             ELSE IF o = NaN THEN <<"statistics.reference.nonfinite", FALSE>>
             ELSE <<"numeric_tolerance", near>>
           exact == Exact(v.path, "reference_accuracy", verdict[2])
<1>1. ExpectedValueCheck(outcome, v) = [exact EXCEPT !.rule = <<verdict[1]>>]
  BY Zenon DEF ExpectedValueCheck
<1>2. [exact EXCEPT !.rule = <<verdict[1]>>].status = exact.status
  <2> DEFINE rule == <<verdict[1]>>
  <2> HIDE DEF rule, verdict
  <2>1. "status" \in DOMAIN exact /\ "rule" # "status"
    BY DEF Exact, ExactAt, CheckAt
  <2> HIDE DEF exact
  <2>2. [exact EXCEPT !.rule = rule].status = exact.status
    BY <2>1
  <2> QED BY <2>2, Zenon DEF rule
<1>3. verdict[2]
  <2> HIDE DEF verdict
  <2>1. exact.status # "fail"
    BY <1>1, <1>2
  <2> QED BY <2>1 DEF Exact, ExactAt, CheckAt
<1>4. o # None
  <2>1. CASE o = None
    <3>1. verdict = <<"missing_field", FALSE>>
      BY <2>1, Zenon
    <3> HIDE DEF verdict
    <3> QED BY <1>3, <3>1
  <2> QED BY <2>1
<1>5. CASE v.tolerance = None
  <2>1. verdict = <<"exact", o = v.value>>
    BY <1>4, <1>5, Zenon
  <2> DEFINE same == o = v.value
  <2>2. verdict = <<"exact", same>>
    BY <2>1
  <2> HIDE DEF verdict, same
  <2>3. same
    BY <1>3, <2>2
  <2> QED BY <1>5, <2>3 DEF same
<1>6. CASE v.tolerance # None
  <2>1. CASE o[1] = "text"
    <3>1. verdict = <<"numeric_type", FALSE>>
      BY <1>4, <1>6, <2>1, Zenon
    <3> HIDE DEF verdict
    <3> QED BY <1>3, <3>1
  <2>2. CASE o[1] # "text" /\ o = NaN
    <3>1. verdict = <<"statistics.reference.nonfinite", FALSE>>
      BY <1>4, <1>6, <2>2, Zenon
    <3> HIDE DEF verdict
    <3> QED BY <1>3, <3>1
  <2>3. CASE o[1] # "text" /\ o # NaN
    <3>1. verdict = <<"numeric_tolerance", near>>
      BY <1>4, <1>6, <2>3, Zenon
    <3> HIDE DEF verdict, near
    <3>2. near
      BY <1>3, <3>1
    <3>3. Finite(o)
      BY <1>4, <2>3 DEF Finite
    <3> QED BY <1>6, <3>2, <3>3, Zenon DEF near
  <2> QED BY <2>1, <2>2, <2>3
<1> QED BY <1>5, <1>6

LEMMA ExactPasses ==
  ASSUME NEW dimension, NEW verdict, NEW name \in DOMAIN verdict,
         \A c \in ExactAll(dimension, verdict) : c.status # "fail"
  PROVE  verdict[name]
<1>1. Exact(name, dimension, verdict[name]) \in ExactAll(dimension, verdict)
  BY DEF ExactAll
<1>2. Exact(name, dimension, verdict[name]).status # "fail"
  BY <1>1
<1> QED BY <1>2 DEF Exact, ExactAt, CheckAt

LEMMA NativeCasePasses ==
  ASSUME NEW case, NEW executions, case.advanced = None,
         DOMAIN executions = 1..3, executions[1] # None,
         EvaluateNativeCase(case, executions).evaluation_status # "fail"
  PROVE  ReferenceHolds(case, executions)
<1> DEFINE first == executions[1]
           checks == NativeChecks(case, executions)
           verdict == [repeatability |-> executions[2] = first,
                       row_order_invariance |-> executions[3] = first]
<1>1. EvaluateNativeCase(case, executions).evaluation_status = CaseVerdict(case.category, checks)
  <2> DEFINE v == CaseVerdict(case.category, checks)
  <2> HIDE DEF checks
  <2>1. EvaluateNativeCase(case, executions).evaluation_status = v
    BY DEF EvaluateNativeCase, checks, v
  <2> QED BY <2>1
<1>2. \A c \in checks : c.status # "fail"
  <2> HIDE DEF checks
  <2> QED BY <1>1 DEF CaseVerdict
<1>3. /\ \A v \in case.expected : ExpectedValueCheck(first, v) \in checks
      /\ ExactAll("determinism", verdict) \subseteq checks
  BY Zenon DEF NativeChecks
<1>4. executions[2] = first /\ executions[3] = first
  <2> DEFINE second == executions[2] = first
             third == executions[3] = first
  <2>1. verdict = [repeatability |-> second, row_order_invariance |-> third]
    OBVIOUS
  <2> HIDE DEF second, third, verdict, checks
  <2>2. /\ "repeatability" \in DOMAIN verdict /\ verdict["repeatability"] = second
        /\ "row_order_invariance" \in DOMAIN verdict /\ verdict["row_order_invariance"] = third
    BY <2>1
  <2>3. \A c \in ExactAll("determinism", verdict) : c.status # "fail"
    BY <1>2, <1>3
  <2>4. verdict["repeatability"] /\ verdict["row_order_invariance"]
    BY <2>2, <2>3, ExactPasses
  <2> QED BY <2>2, <2>4 DEF second, third
<1> HIDE DEF checks
<1>5. \A v \in case.expected :
        LET o == ValueAt(first, v.path)
        IN IF v.tolerance = None THEN o = v.value
           ELSE Finite(o) /\ o[2] - v.value[2] \in -v.tolerance..v.tolerance
  BY <1>2, <1>3, ExpectedPasses, Zenon
<1>6. \A i \in DOMAIN executions : executions[i] # None
  BY <1>4
<1>7. \A i \in 2..3 : executions[i] = executions[1]
  BY <1>4
<1> QED BY <1>5, <1>6, <1>7, Zenon DEF ReferenceHolds

LEMMA AdvancedCasePasses ==
  ASSUME NEW case, NEW executions, NEW packages, NEW required, case.advanced # None,
         DOMAIN executions = 1..2,
         EvaluateAdvancedCase(case, executions, packages, required).evaluation_status # "fail"
  PROVE  ReferenceHolds(case, executions)
<1> DEFINE checks == AdvancedChecks(case, executions, packages, required)
           e == executions
           broken == {Exact("configuration", "provenance", case.seed_matters),
                      Exact("failure_normalization", "exception_normalization", FALSE)}
<1>1. EvaluateAdvancedCase(case, e, packages, required).evaluation_status
        = AdvancedVerdict(checks)
  <2> DEFINE v == AdvancedVerdict(checks)
  <2> HIDE DEF checks
  <2>1. EvaluateAdvancedCase(case, e, packages, required).evaluation_status = v
    BY DEF EvaluateAdvancedCase, checks, v
  <2> QED BY <2>1
<1>2. \A c \in checks : c.status # "fail"
  <2> HIDE DEF checks
  <2> QED BY <1>1 DEF AdvancedVerdict
<1>3. \A name, dimension : Exact(name, dimension, FALSE) \notin checks
  <2> HIDE DEF checks
  <2>1. \A name, dimension : Exact(name, dimension, FALSE).status = "fail"
    BY DEF Exact, ExactAt, CheckAt
  <2> QED BY <1>2, <2>1
<1>4. \A i \in 1..2 : e[i] # None
  <2> SUFFICES ASSUME \E i \in 1..2 : e[i] = None PROVE FALSE
    OBVIOUS
  <2>1. checks = {Exact("configuration", "provenance", case.seed_matters),
                  Exact("failure_normalization", "exception_normalization", FALSE)}
    BY Zenon DEF AdvancedChecks
  <2>2. Exact("failure_normalization", "exception_normalization", FALSE) \in checks
    BY <2>1, Zenon
  <2> QED BY <1>3, <2>2
<1>5. \A i \in 1..2 : e[i].result.boundary = {}
  <2> SUFFICES ASSUME \E i \in 1..2 : e[i].result.boundary # {} PROVE FALSE
    OBVIOUS
  <2>1. Exact("interface", "interface_leakage", FALSE) \in checks
    BY <1>4, Zenon DEF AdvancedChecks
  <2> QED BY <1>3, <2>1
<1>6. e[1].result = e[2].result
  <2> DEFINE same == e[1].result = e[2].result
             c == Exact("repeatability", "determinism", same)
  <2>1. c \in ExecutedChecks(case, e[1], e[2], packages, required)
    BY Zenon DEF ExecutedChecks
  <2>2. ExecutedChecks(case, e[1], e[2], packages, required) \subseteq checks
    <3> DEFINE more == ExecutedChecks(case, e[1], e[2], packages, required)
    <3>1. checks = ({Exact("configuration", "provenance", case.seed_matters),
                    Exact("failure_normalization", "exception_normalization", TRUE)}
                      \cup more)
      BY <1>4, <1>5, Zenon DEF AdvancedChecks
    <3> HIDE DEF checks, more
    <3>2. more \subseteq checks
      BY <3>1
    <3> QED BY <3>2, Zenon DEF more
  <2>3. c.status # "fail"
    BY <1>2, <2>1, <2>2
  <2> HIDE DEF same
  <2>4. same
    BY <2>3 DEF Exact, ExactAt, CheckAt
  <2> QED BY <2>4 DEF same
<1> HIDE DEF checks
<1> QED BY <1>4, <1>5, <1>6 DEF ReferenceHolds

\* A comparison is advice: it leaves a case that failed as it is.
LEMMA ComparisonIsAdvice ==
  ASSUME NEW case, NEW cases, NEW result, NEW results, NEW executions,
         result.evaluation_status = "fail"
  PROVE  AttachComparison(case, cases, result, results, executions).evaluation_status = "fail"
<1> DEFINE attached == AttachComparison(case, cases, result, results, executions)
<1>1. CASE attached = result
  BY <1>1
<1>2. CASE \E told :
             attached = [result EXCEPT !.checks = @ \cup told,
                           !.evaluation_status =
                              IF @ = "pass" /\ Comparison("advisory") \in told
                              THEN "advisory" ELSE @]
  <2>1. PICK told :
          attached = [result EXCEPT !.checks = @ \cup told,
                        !.evaluation_status =
                           IF @ = "pass" /\ Comparison("advisory") \in told
                           THEN "advisory" ELSE @]
    BY <1>2
  <2> HIDE DEF attached
  <2> DEFINE checked == [result EXCEPT !.checks = @ \cup told]
             final == IF checked.evaluation_status = "pass" /\ Comparison("advisory") \in told
                      THEN "advisory" ELSE checked.evaluation_status
  <2>2. DOMAIN checked = DOMAIN result /\ checked.evaluation_status = "fail"
    OBVIOUS
  <2>3. attached = [checked EXCEPT !.evaluation_status = final]
    BY <2>1
  <2> HIDE DEF checked
  <2>4. final = "fail"
    BY <2>2
  <2> HIDE DEF final
  <2> QED BY <2>2, <2>3, <2>4 DEF attached
<1> QED BY <1>1, <1>2, Zenon DEF AttachComparison

LEMMA NoneFails ==
  ASSUME NEW S, IsFiniteSet(S), ~(Tallied(S, "fail") > 0)
  PROVE  \A r \in S : r.evaluation_status # "fail"
<1> DEFINE T == {r \in S : r.evaluation_status = "fail"}
<1>1. IsFiniteSet(T)
  BY FS_Subset
<1>2. T = {}
  <2>1. Cardinality(T) \in Nat /\ ~(Cardinality(T) > 0)
    BY <1>1, FS_CardinalityType DEF Tallied
  <2>2. Cardinality(T) = 0
    BY <2>1
  <2> QED BY <1>1, <2>2, FS_EmptySet
<1> QED BY <1>2

LEMMA ImageIsFinite ==
  ASSUME NEW S, IsFiniteSet(S), NEW f, DOMAIN f = S
  PROVE  IsFiniteSet({f[x] : x \in S})
<1> DEFINE T == {f[x] : x \in S}
           g == [x \in S |-> f[x]]
<1>1. g \in Surjection(S, T)
  BY DEF Surjection
<1> QED BY <1>1, FS_Surjection

\* Reference cases of which none failed came out as the reference says.
LEMMA CasesPass ==
  ASSUME NEW b, BaselineOK(b), CaseResults(b) # None, ~(Tallied(CaseResults(b), "fail") > 0)
  PROVE  \A c \in b.cases : ReferenceHolds(c, b.executions[c.id])
<1> DEFINE cases == b.cases
           named(id) == CHOOSE c \in cases : c.id = id
           ids == {c.id : c \in cases}
           first == [id \in ids |->
                       IF named(id).advanced = None
                       THEN EvaluateNativeCase(named(id), b.executions[id])
                       ELSE EvaluateAdvancedCase(named(id), b.executions[id],
                                                 b.suite.packages, b.required)]
           f == [c \in cases |-> AttachComparison(c, cases, first[c.id], first, b.executions)]
           results == Attached(cases, first, b.executions)
<1>1. /\ ~\E c \in cases : c.advanced = None /\ b.executions[c.id] = None
      /\ CaseResults(b) = results
  BY Zenon DEF CaseResults
<1>2. /\ IsFiniteSet(cases)
      /\ \A c, d \in cases : c.id = d.id => c = d
      /\ \A c \in cases : c.advanced # None => DOMAIN b.executions[c.id] = 1..2
      /\ \A c \in cases : c.advanced = None =>
           \/ b.executions[c.id] = None
           \/ DOMAIN b.executions[c.id] = 1..3 /\ b.executions[c.id][1] # None
  BY DEF BaselineOK
<1> SUFFICES ASSUME NEW c \in cases PROVE ReferenceHolds(c, b.executions[c.id])
  OBVIOUS
<1>3. named(c.id) = c
  BY <1>2
<1>4. first[c.id] = IF c.advanced = None THEN EvaluateNativeCase(c, b.executions[c.id])
                    ELSE EvaluateAdvancedCase(c, b.executions[c.id], b.suite.packages, b.required)
  <2> HIDE DEF named
  <2> DEFINE made(id) == IF named(id).advanced = None
                         THEN EvaluateNativeCase(named(id), b.executions[id])
                         ELSE EvaluateAdvancedCase(named(id), b.executions[id],
                                                   b.suite.packages, b.required)
  <2>1. first = [id \in ids |-> made(id)] /\ c.id \in ids
    OBVIOUS
  <2> HIDE DEF made, first, ids
  <2>2. first[c.id] = made(c.id)
    BY <2>1
  <2> QED BY <1>3, <2>2, Zenon DEF made
<1> HIDE DEF first
<1>5. results = {f[d] : d \in cases} /\ DOMAIN f = cases
  BY DEF Attached
<1>6. f[c] = AttachComparison(c, cases, first[c.id], first, b.executions)
  OBVIOUS
<1> HIDE DEF f, results
<1>7. IsFiniteSet(results)
  BY <1>2, <1>5, ImageIsFinite
<1>8. f[c].evaluation_status # "fail"
  BY <1>1, <1>5, <1>7, NoneFails
<1>9. first[c.id].evaluation_status # "fail"
  BY <1>6, <1>8, ComparisonIsAdvice
<1>10. CASE c.advanced = None
  <2>1. DOMAIN b.executions[c.id] = 1..3 /\ b.executions[c.id][1] # None
    BY <1>1, <1>2, <1>10
  <2>2. EvaluateNativeCase(c, b.executions[c.id]).evaluation_status # "fail"
    BY <1>4, <1>9, <1>10
  <2> QED BY <1>10, <2>1, <2>2, NativeCasePasses
<1>11. CASE c.advanced # None
  <2>1. DOMAIN b.executions[c.id] = 1..2
    BY <1>2, <1>11
  <2>2. EvaluateAdvancedCase(c, b.executions[c.id], b.suite.packages, b.required).evaluation_status
          # "fail"
    BY <1>4, <1>9, <1>11
  <2> QED BY <1>11, <2>1, <2>2, AdvancedCasePasses
<1> QED BY <1>10, <1>11

\* The exit code 0 says that nothing raised, no check failed and no rule did.
LEMMA ConclusionPasses ==
  ASSUME NEW baseline, NEW results, NEW workflow, NEW scope, NEW verdict,
         Concluding(baseline, WithWorkflow(NativeReport(results), scope, workflow),
                    verdict).exit = 0
  PROVE  ~(Tallied(results, "fail") > 0) /\ WorkflowStatus(workflow) # "fail"
<1> DEFINE native == NativeReport(results)
           report == WithWorkflow(native, scope, workflow)
           status == BaselineStatus(report, verdict)
           final == [report EXCEPT !.overall_status = status]
           r == Concluding(baseline, report, verdict)
<1>1. /\ report.workflow_quality_status = WorkflowStatus(workflow)
      /\ report.overall_status = IF Tallied(results, "fail") > 0 THEN "fail" ELSE "pass"
      /\ "overall_status" \in DOMAIN report
  BY DEF WithWorkflow, NativeReport
<1> HIDE DEF report
<1>2. r.exit \in {0, 1} => r.exit = IF final.overall_status = "fail" THEN 1 ELSE 0
  <2>1. CASE \E before, stage, rep : r = Failing(baseline.outputs, before, stage, rep)
    BY <2>1 DEF Failing
  <2>2. CASE \E writes : r = [exit |-> IF final.overall_status = "fail" THEN 1 ELSE 0,
                              writes |-> writes]
    <3>1. PICK writes : r = [exit |-> IF final.overall_status = "fail" THEN 1 ELSE 0,
                             writes |-> writes]
      BY <2>2
    <3> HIDE DEF r, final
    <3> QED BY <3>1
  <2> QED BY <2>1, <2>2, Zenon DEF Concluding
<1>3. final.overall_status = status
  <2> HIDE DEF status
  <2> QED BY <1>1
<1>4. r.exit = 0
  BY DEF report
<1>5. status # "fail"
  <2> HIDE DEF r, final, status
  <2> QED BY <1>2, <1>3, <1>4
<1>6. report.overall_status # "fail" /\ report.workflow_quality_status # "fail"
  BY <1>5 DEF BaselineStatus
<1> QED BY <1>1, <1>6

LEMMA BaselinePasses ==
  ASSUME NEW w \in Worlds, BaselineResult(w).exit = 0
  PROVE  StatisticsHold(w)
<1> DEFINE given == Answers[w].baseline
           outputs == BaselineOutputs
           b == [given EXCEPT !.outputs = outputs, !.scope = "complete"]
           policy == Answers[w].policy
           results == CaseResults(b)
           suite == WorkflowSuiteOf(b.suite, b.scope, b.required)
           report == WithWorkflow(NativeReport(results), b.scope, suite.results)
<1>1. \A o, stage, before, rep : Failing(o, before, stage, rep).exit # 0
  BY DEF Failing
<1>2. BaselineOK(given)
  BY AnswersAssumption
<1>3. /\ b.scope = "complete" /\ b.cases = given.cases /\ b.executions = given.executions
      /\ b.suite = given.suite /\ b.required = given.required
      /\ {"outputs", "scope"} \subseteq DOMAIN b
  <2>1. {"outputs", "scope"} \subseteq DOMAIN given
    BY <1>2 DEF BaselineOK
  <2> HIDE DEF given, outputs
  <2> QED BY <2>1
<1>4. BaselineOK(b)
  <2> HIDE DEF b, given
  <2> QED BY <1>2, <1>3 DEF BaselineOK
<1>5. BaselineCommand(b, policy).exit = 0
  BY Zenon DEF BaselineResult
<1> HIDE DEF b, policy
<1>6. InScope(b) = b
  BY <1>3 DEF InScope
<1>7. Evaluating(b, policy).exit = 0
  BY <1>1, <1>5, <1>6, Zenon DEF BaselineCommand
<1>8. Assessing(b, policy, results, suite).exit = 0
  BY <1>7, Zenon DEF Evaluating
<1> HIDE DEF results, suite
<1>9. results # None /\ suite.errors = {} /\ Judging(b, policy, report).exit = 0
  BY <1>1, <1>8, Zenon DEF Assessing
<1>10. \E verdict : Concluding(b, report, verdict).exit = 0
  BY <1>9, Zenon DEF Judging
<1>11. ~(Tallied(results, "fail") > 0) /\ WorkflowStatus(suite.results) # "fail"
  BY <1>10, ConclusionPasses
<1>12. \A c \in given.cases : ReferenceHolds(c, given.executions[c.id])
  <2>1. \A c \in b.cases : ReferenceHolds(c, b.executions[c.id])
    BY <1>4, <1>9, <1>11, CasesPass DEF results
  <2> QED BY <1>3, <2>1
<1>13. \A c \in given.suite.cases :
         WorkflowHolds(EffectiveCase(c, given.suite.packages), given.suite.runs[c.id][1])
  <2>1. suite = WorkflowSuiteOf(given.suite, "complete", given.required)
    BY <1>3 DEF suite
  <2> HIDE DEF given
  <2> QED BY <1>9, <1>11, <2>1, SuitePasses
<1> QED BY <1>12, <1>13 DEF StatisticsHold

(***************************************************************************)
(* The results are of this revision: the running command comes to what the *)
(* revision makes of it, and the exit codes that are kept are those of the *)
(* commands of this run.                                                   *)
(***************************************************************************)
OwnExits(n) == \A k \in 1..n : command_results[k] = Outcome(World, Commands[k]).exit

OutcomesKept ==
  /\ phase = "running" =>
       /\ OwnExits(current - 1)
       /\ doing # None /\ current # 13 => doing = Ran(Outcome(World, Commands[current]))
  /\ (phase \in Deciding \/ Concluded) /\ gate_status # "infrastructure_fail" => OwnExits(12)

LEMMA EvaluateOwns ==
  ASSUME IInv, OutcomesKept, Evaluate PROVE OutcomesKept'
<1>1. /\ phase = "running" /\ World \in Worlds /\ World' = World /\ current \in 1..13
      /\ doing' = Result(Outcomes)
      /\ UNCHANGED <<phase, current, command_results, gate_status, exit>>
  BY Places DEF IInv, TypeOK, Run, FreshKept, Evaluate, World
<1>2. current # 13 => Result(Outcomes) = Ran(Outcome(World, Commands[current]))
  <2> SUFFICES ASSUME current # 13
               PROVE  Result(Outcomes) = Ran(Outcome(World, Commands[current]))
    OBVIOUS
  <2>1. Result(Outcomes) = Ran(OutcomeIn(Outcomes, World, Commands[current]))
    BY <1>1, Places DEF Result, Command
  <2>2. OutcomeIn(Outcomes, World, Commands[current]) = Outcome(World, Commands[current])
    BY <1>1, OutcomeIsOwn
  <2> QED BY <2>1, <2>2, Zenon
<1>3. OwnExits(current - 1)' <=> OwnExits(current - 1)
  BY <1>1 DEF OwnExits
<1> QED BY <1>1, <1>2, <1>3 DEF OutcomesKept, Deciding, Concluded

LEMMA WritesOwn ==
  ASSUME IInv, OutcomesKept, CommandWrites PROVE OutcomesKept'
<1>1. /\ phase = "running" /\ World' = World
      /\ UNCHANGED <<phase, current, doing, command_results, gate_status, exit>>
  BY DEF CommandWrites, World, Run
<1>2. OwnExits(current - 1)' <=> OwnExits(current - 1)
  BY <1>1 DEF OwnExits
<1> QED BY <1>1, <1>2 DEF OutcomesKept, Deciding, Concluded

LEMMA ExitsOwn ==
  ASSUME IInv, OutcomesKept, CommandExits PROVE OutcomesKept'
<1> DEFINE k == current
           code == doing.exit
           results == Append(command_results, code)
<1>1. /\ phase = "running" /\ World' = World /\ k \in 1..13 /\ doing # None
      /\ command_results' = results /\ doing' = None
  BY Places DEF CommandExits, IInv, TypeOK, World, Run
<1>2. /\ results \in Seq(0..2) /\ Len(results) = k /\ results[k] = code
      /\ \A j \in 1..k - 1 : results[j] = command_results[j]
  <2>1. command_results \in Seq(0..2) /\ Len(command_results) = k - 1 /\ code \in 0..2
    BY <1>1 DEF IInv, TypeOK, RunningKept, EarlierKept, DoingKept, Comes, Typed
  <2> HIDE DEF code, k
  <2> QED BY <2>1, <1>1
<1>3. k # 13 => code = Outcome(World, Commands[k]).exit
  BY <1>1 DEF OutcomesKept, Ran
<1>4. OwnExits(k - 1)
  BY <1>1 DEF OutcomesKept
<1> HIDE DEF k, code, results
<1>5. \A j \in 1..k : j # 13 => results[j] = Outcome(World, Commands[j]).exit
  <2> SUFFICES ASSUME NEW j \in 1..k, j # 13
               PROVE  results[j] = Outcome(World, Commands[j]).exit
    OBVIOUS
  <2>1. CASE j = k
    BY <2>1, <1>2, <1>3
  <2>2. CASE j # k
    <3>1. j \in 1..k - 1
      BY <2>2, <1>1
    <3> QED BY <3>1, <1>2, <1>4 DEF OwnExits
  <2> QED BY <2>1, <2>2
<1>6. CASE phase' = "running" /\ current' = k + 1 /\ k # 13
  <2>1. \A j \in 1..k : results[j] = Outcome(World, Commands[j]).exit
    BY <1>1, <1>5, <1>6
  <2>2. OwnExits(current - 1)'
    <3>1. current' - 1 = k
      BY <1>1, <1>6
    <3> QED BY <2>1, <3>1, <1>1 DEF OwnExits
  <2> QED BY <1>1, <1>6, <2>2 DEF OutcomesKept, Deciding, Concluded
<1>7. CASE phase' = "provisional" /\ k = 13
  <2>1. OwnExits(12)'
    BY <1>1, <1>5, <1>7 DEF OwnExits
  <2> QED BY <1>7, <2>1 DEF OutcomesKept
<1>8. CASE phase' = "provisional" /\ gate_status' = "infrastructure_fail"
  BY <1>8 DEF OutcomesKept
<1>9. CASE ~Continues(Command, doing.exit) /\ Decide(Command, doing.exit)
  <2>1. phase' = "provisional" /\ gate_status' = StatusOf(Command, code) /\ code # 0
    BY <1>9 DEF Decide, Continues, code
  <2>2. k # 13 => gate_status' = "infrastructure_fail"
    <3>1. k # 13 => Command # "quality_policy"
      BY <1>1, Places DEF Command, k
    <3>2. ~(Command = "phase4_statistical_baseline" /\ code = 1)
      BY <1>9 DEF Continues, code
    <3> QED BY <2>1, <3>1, <3>2 DEF StatusOf
  <2> QED BY <1>7, <1>8, <2>1, <2>2
<1>10. CASE current < Len(Commands) /\ current' = current + 1 /\
          UNCHANGED <<phase, gate_status, exit>>
  BY <1>1, <1>6, <1>10, Places DEF k
<1>11. CASE /\ Continues(Command, doing.exit) /\ ~(current < Len(Commands))
            /\ IF failed4 THEN Decide("phase4_statistical_baseline", 1) ELSE Decide(None, 0)
  <2>1. k = 13 /\ phase' = "provisional"
    BY <1>1, <1>11, Places DEF Decide, k
  <2> QED BY <1>7, <2>1
<1> QED BY <1>9, <1>10, <1>11, Zenon DEF CommandExits

\* What ends the commands early is a failure of the infrastructure or has no
\* status; what the gate does afterwards takes no result away.
LEMMA OthersOwn ==
  ASSUME IInv, OutcomesKept,
         \/ StartGate \/ GateSteps \/ TimeOut \/ Kill \/ BuildCiReport \/ UNCHANGED vars
  PROVE  OutcomesKept'
<1>1. CASE StartGate
  BY <1>1 DEF StartGate, OutcomesKept, Deciding, Concluded
<1>2. CASE CheckEnvironment
  <2>1. \/ phase' = "inputs"
        \/ phase' = "provisional" /\ gate_status' = "infrastructure_fail"
    BY <1>2 DEF CheckEnvironment, Infrastructure
  <2> QED BY <2>1 DEF OutcomesKept, Deciding, Concluded
<1>3. CASE CheckInputs
  <2>1. \/ phase' = "running" /\ current' = 1 /\ doing' = None
        \/ phase' = "provisional" /\ gate_status' = "infrastructure_fail"
    BY <1>3 DEF CheckInputs, Infrastructure, IInv, FreshKept
  <2>2. CASE phase' = "running" /\ current' = 1 /\ doing' = None
    <3>1. OwnExits(current - 1)'
      BY <2>2 DEF OwnExits
    <3> QED BY <2>2, <3>1 DEF OutcomesKept, Deciding, Concluded
  <2>3. CASE phase' = "provisional" /\ gate_status' = "infrastructure_fail"
    BY <2>3 DEF OutcomesKept
  <2> QED BY <2>1, <2>2, <2>3
<1>4. CASE TimeOut
  BY <1>4 DEF TimeOut, Infrastructure, OutcomesKept
<1>5. CASE Kill
  BY <1>5 DEF Kill, OutcomesKept, Deciding, Concluded
<1>6. CASE /\ UNCHANGED <<revision, command_results>>
           /\ phase \in Deciding \/ Concluded
           /\ gate_status' \in {gate_status, "infrastructure_fail"}
           /\ phase' # "running"
  <2>1. OwnExits(12)' <=> OwnExits(12)
    BY <1>6 DEF OwnExits, World, Run
  <2> QED BY <1>6, <2>1 DEF OutcomesKept
<1>7. CASE WriteProvisional \/ WriteSummary \/ WriteManifest \/ WriteResult \/ Tell
  BY <1>6, <1>7 DEF WriteProvisional, WriteSummary, WriteManifest, WriteResult, Tell, Deciding
<1>8. CASE BuildCiReport
  <2>1. CASE Concluded
    BY <1>6, <1>8, <2>1 DEF BuildCiReport
  <2>2. CASE ~Concluded
    BY <1>8, <2>2 DEF BuildCiReport, OutcomesKept, Deciding, Concluded
  <2> QED BY <2>1, <2>2
<1>9. CASE UNCHANGED vars
  <2>1. UNCHANGED <<revision, phase, current, doing, command_results, gate_status, exit>>
        /\ World' = World
    BY <1>9 DEF vars, World, Run
  <2>2. (OwnExits(12)' <=> OwnExits(12)) /\ (OwnExits(current - 1)' <=> OwnExits(current - 1))
    BY <2>1 DEF OwnExits
  <2> QED BY <2>1, <2>2 DEF OutcomesKept, Deciding, Concluded
<1> QED BY <1>1, <1>2, <1>3, <1>4, <1>5, <1>7, <1>8, <1>9 DEF GateSteps

LEMMA OutcomesInvariance == Spec => [](IInv /\ OutcomesKept)
<1>1. Init => OutcomesKept
  BY DEF Init, OutcomesKept, Deciding, Concluded
<1>2. ASSUME IInv, OutcomesKept, [Next]_vars PROVE OutcomesKept'
  BY <1>2, EvaluateOwns, WritesOwn, ExitsOwn, OthersOwn DEF Next, CommandSteps
<1> QED BY <1>1, <1>2, InitInv, NextStep, PTL DEF Spec

\* A gate that passes has a statistical baseline whose answers are right: every
\* workflow case was answered as the native analyzer answers it, with what the
\* workflow kept and without a call it forbids, and every reference case came
\* out as its reference says, repeatedly and in any order of its rows.  The
\* policy has no part in it: whatever its rules and thresholds, the baseline
\* exits with 0 only then, and a pass rests on that exit (run_ai_quality_gate.py
\* _run_commands, run_statistical_baseline.py, evaluator.py, workflow).
THEOREM StatisticsAreEarned ==
  Spec => [](Concluded /\ gate_status = "pass" => StatisticsHold(World))
<1>1. ASSUME IInv, OutcomesKept, Concluded, gate_status = "pass"
      PROVE  StatisticsHold(World)
  <2>1. /\ Settled /\ command_results[12] # 1
        /\ OwnExits(12)
    BY <1>1 DEF IInv, VerdictKept, OutcomesKept, Settled
  <2>2. command_results[12] = 0
    BY <2>1 DEF Settled, Finished
  <2>3. Outcome(World, Commands[12]) = BaselineResult(World)
    BY Places, SMT DEF Outcome
  <2>4. BaselineResult(World).exit = 0
    BY <2>1, <2>2, <2>3 DEF OwnExits
  <2>5. World \in Worlds
    <3>1. revision \in Seq(Worlds) /\ Run >= 1
      BY <1>1 DEF IInv, TypeOK, FreshKept, Concluded
    <3> QED BY <3>1 DEF World, Run
  <2> QED BY <2>4, <2>5, BaselinePasses
<1> QED BY <1>1, OutcomesInvariance, PTL

-----------------------------------------------------------------------------
(***************************************************************************)
(* What a pull request is told of a failure.                               *)
(***************************************************************************)
\* The report names a suite that failed, or what failed has no suite.
Named(report) ==
  \/ report.statistics = "fail"
  \/ FailedSuites(report) # {}
  \/ \E id \in artifacts["quality_policy.json"].verdict.violations : id[1] \notin DOMAIN SuiteNames

LEMMA SuiteFiles ==
  \A s \in DOMAIN SuiteNames :
    /\ SuiteNames[s] \in RequiredReports
    /\ \A t \in DOMAIN SuiteNames : SuiteNames[s] = SuiteNames[t] => s = t
<1>1. \A s, t \in DOMAIN SuiteNames : SuiteNames[s] = SuiteNames[t] => s = t
  BY DEF SuiteNames
<1>2. \A s \in DOMAIN SuiteNames : \E k \in 4..11 : k # 9 /\ SuiteNames[s] \in Owned[k]
  BY DEF SuiteNames, Owned
<1>3. OptionalReports = Owned[9]
  BY SuitePlaces DEF OptionalReports, ToSet, SuiteReports, Owned
<1>4. ASSUME NEW s \in DOMAIN SuiteNames PROVE SuiteNames[s] \in RequiredReports
  <2>1. PICK k \in 4..11 : k # 9 /\ SuiteNames[s] \in Owned[k]
    BY <1>2
  <2>2. SuiteNames[s] \notin Owned[9] /\ SuiteNames[s] \in Reports
    BY <2>1, Disjoint, ReportPlaces
  <2> QED BY <1>3, <2>2 DEF RequiredReports
<1> QED BY <1>1, <1>4

\* A rule that is violated fails its suite, for its report is there.
LEMMA SuiteFails ==
  ASSUME IInv, Concluded, gate_status = "quality_fail",
         NEW id \in artifacts["quality_policy.json"].verdict.violations,
         id[1] \in DOMAIN SuiteNames
  PROVE  SuitesShown[SuiteNames[id[1]]] = "fail" /\ SuiteNames[id[1]] \in DOMAIN SuitesShown
<1> DEFINE s == id[1]
           p == SuiteNames[s]
           named == {SuiteNames[t] : t \in DOMAIN SuiteNames}
<1>1. artifacts[Manifest] # NoFile /\ p \notin ListedAbsent
  <2>1. artifacts[Manifest].run = Run /\ Run >= 1
    BY DEF IInv, ManifestKept, FreshKept, Concluded
  <2>2. ListedAbsent \cap RequiredReports = {}
    BY VerdictIsRead
  <2> QED BY <2>1, <2>2, SuiteFiles DEF NoFile
<1>2. SuiteStatus(s) = "fail"
  BY <1>1 DEF SuiteStatus
<1>3. p \in named /\ (CHOOSE t \in DOMAIN SuiteNames : SuiteNames[t] = p) = s
  BY SuiteFiles
<1> DEFINE shown(q) == IF q \in named THEN SuiteStatus(CHOOSE t \in DOMAIN SuiteNames : SuiteNames[t] = q)
                       ELSE IF q \in ListedAbsent THEN "skipped" ELSE "pass"
           files == named \cup (IF artifacts[Manifest] = NoFile THEN {} ELSE OptionalReports)
<1>4. SuitesShown = [q \in files |-> shown(q)]
  BY Zenon DEF SuitesShown
<1>5. shown(p) = "fail"
  <2> HIDE DEF named, s, p
  <2> QED BY <1>2, <1>3, Zenon
<1>6. p \in files
  BY <1>3
<1> HIDE DEF shown, files, p
<1>7. SuitesShown[p] = "fail" /\ p \in DOMAIN SuitesShown
  BY <1>4, <1>5, <1>6
<1> QED BY <1>7, Zenon DEF p

LEMMA FailureHasName ==
  ASSUME IInv, Concluded, gate_status = "quality_fail"
  PROVE  Named(CiReport)
<1> DEFINE r == CiReport
           payload == artifacts["quality_policy.json"].verdict
<1>1. /\ Settled /\ ReadFailure = None /\ ListedAbsent \cap RequiredReports = {}
      /\ Decided(payload, command_results[13])
      /\ StatisticalSuite = "fail" <=> command_results[12] = 1
  BY VerdictIsRead
<1>2. r.statistics = StatisticalSuite /\ r.suites = SuitesShown
  BY <1>1 DEF CiReport
<1> HIDE DEF r
<1>3. CASE command_results[12] = 1
  BY <1>1, <1>2, <1>3 DEF Named, r
<1>4. CASE command_results[13] = 1
  <2>1. PICK id \in payload.violations : TRUE
    BY <1>1, <1>4 DEF Decided
  <2>2. CASE id[1] \in DOMAIN SuiteNames
    <3>1. SuiteNames[id[1]] \in FailedSuites(r)
      BY <1>2, <2>1, <2>2, SuiteFails DEF FailedSuites
    <3> QED BY <3>1 DEF Named, r
  <2> QED BY <2>1, <2>2 DEF Named
<1> QED BY <1>1, <1>3, <1>4 DEF Settled

NamesKept ==
  Concluded /\ gate_status = "quality_fail" /\ Reported =>
    \A p \in Told : Named(artifacts[p].verdict)

LEMMA NamesStep ==
  ASSUME IInv, NamesKept, [Next]_vars PROVE NamesKept'
<1>1. CASE BuildCiReport
  <2> DEFINE file == File(1, CiReport)
  <2>1. /\ phase' = phase /\ exit' = exit /\ gate_status' = gate_status
        /\ artifacts' = [p \in DOMAIN artifacts |-> IF p \in Told THEN file ELSE artifacts[p]]
        /\ file.verdict = CiReport /\ DOMAIN artifacts = Root
    BY <1>1, Told3 DEF BuildCiReport, File, IInv, RootKept
  <2> HIDE DEF file
  <2>2. /\ artifacts'["quality_policy.json"] = artifacts["quality_policy.json"]
        /\ \A p \in Told : artifacts'[p].verdict = CiReport
    BY <2>1, Special
  <2> SUFFICES ASSUME Concluded, gate_status = "quality_fail"
               PROVE  \A p \in Told : Named(artifacts[p].verdict)'
    BY <2>1 DEF NamesKept, Concluded
  <2>3. Named(CiReport)
    BY FailureHasName
  <2> DEFINE r == CiReport
  <2>4. \A p \in Told : artifacts'[p].verdict = r
    BY <2>2
  <2> HIDE DEF r
  <2>5. Named(r)
    BY <2>3 DEF r
  <2> QED BY <2>2, <2>4, <2>5 DEF Named, FailedSuites
<1>2. CASE Tell \/ WriteSummary
  <2>1. /\ phase # "ended" /\ Run' = Run
        /\ \A p \in Told : artifacts'[p] = artifacts[p]
    BY <1>2, Special DEF Tell, WriteSummary, Run, OwnReports, IInv, RootKept
  <2>2. ~Reported'
    BY <2>1, Told3 DEF Reported, IInv, ReportKept
  <2> QED BY <2>2 DEF NamesKept
<1>3. CASE UNCHANGED vars
  <2>1. /\ UNCHANGED <<artifacts, revision, phase, gate_status, exit>> /\ Run' = Run
    BY <1>3 DEF vars, Run
  <2>2. (\A p \in Told : Named(artifacts[p].verdict))'
      <=> \A p \in Told : Named(artifacts[p].verdict)
    BY <2>1 DEF Named, FailedSuites
  <2> QED BY <2>1, <2>2 DEF NamesKept, Concluded, Reported
<1>4. CASE StartGate \/ CheckEnvironment \/ CheckInputs \/ Evaluate \/ CommandWrites \/ TimeOut
           \/ Kill \/ WriteProvisional \/ WriteManifest \/ WriteResult
  <2>1. phase' # "ended" \/ exit' = None
    BY <1>4 DEF StartGate, CheckEnvironment, CheckInputs, Infrastructure, Evaluate, CommandWrites,
                TimeOut, Kill, WriteProvisional, WriteManifest, WriteResult
  <2> QED BY <2>1 DEF NamesKept, Concluded
<1>5. CASE CommandExits
  <2>1. phase' # "ended"
    BY <1>5 DEF CommandExits, Decide
  <2> QED BY <2>1 DEF NamesKept, Concluded
<1> QED BY <1>1, <1>2, <1>3, <1>4, <1>5 DEF Next, GateSteps, CommandSteps

\* A failure of the quality is told by name: whatever the policy, the report of
\* the pull request then shows a suite that failed or a failed statistical
\* baseline, unless a rule that is violated is named after no suite
\* (ci_reporting/aggregator.py _suites, _statistical_suite).
THEOREM FailuresAreNamed ==
  Spec => [](Concluded /\ gate_status = "quality_fail" /\ Reported =>
               \A p \in ToSet(CiReports) : Named(artifacts[p].verdict))
<1>1. Init => NamesKept
  BY DEF Init, NamesKept, Concluded
<1>2. NamesKept => (Concluded /\ gate_status = "quality_fail" /\ Reported =>
                      \A p \in ToSet(CiReports) : Named(artifacts[p].verdict))
  BY Told3 DEF NamesKept
<1> QED BY <1>1, <1>2, Invariance, NamesStep, PTL DEF Spec

-----------------------------------------------------------------------------
(***************************************************************************)
(* The least element of a set of numbers.                                  *)
(***************************************************************************)
Before == OpToRel(<, Nat)

LEMMA SmallerIsBefore == \A x, y \in Nat : x < y => <<x, y>> \in Before
  BY Zenon DEF OpToRel, Before

LEMMA BeforeIsWellFounded == IsWellFoundedOn(Before, Nat)
  BY NatLessThanWellFounded, Zenon DEF Before

LEMMA LeastElement ==
  ASSUME NEW T, T \subseteq Nat, T # {}
  PROVE  \E x \in T : \A y \in T : x <= y
<1>1. PICK x \in T : \A y \in T : ~(<<y, x>> \in Before)
  BY BeforeIsWellFounded, WFMin
<1>2. \A y \in T : ~(y < x)
  BY SmallerIsBefore, <1>1
<1> QED BY <1>2

(***************************************************************************)
(* Sums over a finite set.                                                 *)
(***************************************************************************)
\* One of a set, and a set of none.
SomeOf(s) == CHOOSE x \in s : TRUE

\* What is false of some part of a finite set is so of one that is empty, or
\* of one without whose chosen element it is not.
LEMMA SmallestPart ==
  ASSUME NEW S, IsFiniteSet(S), NEW Bad \in SUBSET (SUBSET S), Bad # {}
  PROVE  \E s \in Bad : s = {} \/ (SomeOf(s) \in s /\ s \ {SomeOf(s)} \notin Bad)
<1> DEFINE sizes == {Cardinality(s) : s \in Bad}
<1>1. \A s \in SUBSET S : IsFiniteSet(s) /\ Cardinality(s) \in Nat
  BY FS_Subset, FS_CardinalityType
<1>2. PICK k \in sizes : \A m \in sizes : k <= m
  <2>1. sizes \subseteq Nat /\ sizes # {}
    BY <1>1
  <2> HIDE DEF sizes
  <2> QED BY <2>1, LeastElement
<1>3. PICK s \in Bad : Cardinality(s) = k
  BY <1>2
<1>4. CASE s # {}
  <2>1. SomeOf(s) \in s
    BY <1>4 DEF SomeOf
  <2>2. Cardinality(s \ {SomeOf(s)}) = k - 1 /\ k \in Nat
    BY <1>1, <1>3, <2>1, FS_RemoveElement
  <2>3. s \ {SomeOf(s)} \notin Bad
    BY <1>2, <2>2
  <2> QED BY <1>3, <2>1, <2>3
<1> QED BY <1>3, <1>4

\* The sums over the parts of the domain of a function.
IsSums(g, f) ==
  g = [s \in SUBSET DOMAIN f |-> IF s = {} THEN 0 ELSE f[SomeOf(s)] + g[s \ {SomeOf(s)}]]
SumsOf(f) == CHOOSE g : IsSums(g, f)

LEMMA SumIsRecursive == ASSUME NEW f PROVE SumFunction(f) = SumsOf(f)[DOMAIN f]
  BY DEF SumFunction, SumFunctionOnSet, FoldFunctionOnSet, MapThenFoldSet, SumsOf, IsSums, SomeOf

\* They exist: each is a finite number of steps away from the empty one.
LEMMA SumsExist ==
  ASSUME NEW f, IsFiniteSet(DOMAIN f) PROVE \E g : IsSums(g, f)
<1> DEFINE S == DOMAIN f
           Part(g, n) == \A s \in SUBSET S : Cardinality(s) <= n =>
                           g[s] = IF s = {} THEN 0 ELSE f[SomeOf(s)] + g[s \ {SomeOf(s)}]
           Bad == {n \in Nat : ~ \E g : Part(g, n)}
<1>1. \A s \in SUBSET S : IsFiniteSet(s) /\ Cardinality(s) \in Nat
  BY FS_Subset, FS_CardinalityType
<1>2. 0 \notin Bad
  <2> DEFINE g == [s \in SUBSET S |-> 0]
  <2>1. \A s \in SUBSET S : Cardinality(s) <= 0 => s = {}
    BY <1>1, FS_EmptySet
  <2>2. Part(g, 0)
    BY <2>1
  <2> HIDE DEF Part
  <2> QED BY <2>2
<1>3. ASSUME NEW n \in Nat, n \notin Bad PROVE n + 1 \notin Bad
  <2>1. PICK g : Part(g, n)
    BY <1>3
  <2> DEFINE h == [s \in SUBSET S |-> IF s = {} THEN 0
                                      ELSE IF Cardinality(s) <= n THEN g[s]
                                      ELSE f[SomeOf(s)] + g[s \ {SomeOf(s)}]]
  <2>2. ASSUME NEW s \in SUBSET S, Cardinality(s) <= n PROVE h[s] = g[s]
    BY <2>1, <2>2
  <2>3. ASSUME NEW s \in SUBSET S, Cardinality(s) <= n + 1, s # {}
        PROVE  h[s] = f[SomeOf(s)] + h[s \ {SomeOf(s)}]
    <3>1. SomeOf(s) \in s
      BY <2>3 DEF SomeOf
    <3>2. s \ {SomeOf(s)} \in SUBSET S /\ Cardinality(s \ {SomeOf(s)}) <= n
      BY <1>1, <2>3, <3>1, FS_RemoveElement
    <3>3. h[s \ {SomeOf(s)}] = g[s \ {SomeOf(s)}]
      BY <2>2, <3>2
    <3>4. h[s] = f[SomeOf(s)] + g[s \ {SomeOf(s)}]
      BY <2>1, <2>3
    <3> QED BY <3>3, <3>4
  <2>4. h[{}] = 0
    OBVIOUS
  <2> HIDE DEF h
  <2>5. Part(h, n + 1)
    BY <2>3, <2>4
  <2> HIDE DEF Part
  <2> QED BY <2>5
<1>4. Cardinality(S) \in Nat /\ Cardinality(S) \notin Bad
  <2>1. Cardinality(S) \in Nat
    BY FS_CardinalityType
  <2>2. Bad = {}
    <3> SUFFICES ASSUME Bad # {} PROVE FALSE
      OBVIOUS
    <3>1. Bad \subseteq Nat
      OBVIOUS
    <3> HIDE DEF Bad
    <3>2. PICK n \in Bad : \A m \in Bad : n <= m
      BY <3>1, LeastElement
    <3>3. n # 0 /\ n \in Nat
      BY <1>2, <3>1, <3>2
    <3>4. n - 1 \in Nat /\ n - 1 \notin Bad
      BY <3>1, <3>2, <3>3
    <3>5. (n - 1) + 1 \notin Bad
      BY <1>3, <3>4
    <3> QED BY <3>2, <3>3, <3>5
  <2> QED BY <2>1, <2>2
<1>5. PICK g : Part(g, Cardinality(S))
  BY <1>4
<1>6. \A s \in SUBSET S : Cardinality(s) <= Cardinality(S)
  BY FS_Subset
<1> DEFINE h == [s \in SUBSET S |-> g[s]]
<1>7. ASSUME NEW s \in SUBSET S, s # {} PROVE SomeOf(s) \in s /\ s \ {SomeOf(s)} \in SUBSET S
  BY <1>7 DEF SomeOf
<1>8. h = [s \in SUBSET S |-> IF s = {} THEN 0 ELSE f[SomeOf(s)] + h[s \ {SomeOf(s)}]]
  <2> SUFFICES ASSUME NEW s \in SUBSET S
               PROVE  g[s] = IF s = {} THEN 0 ELSE f[SomeOf(s)] + h[s \ {SomeOf(s)}]
    OBVIOUS
  <2>1. g[s] = IF s = {} THEN 0 ELSE f[SomeOf(s)] + g[s \ {SomeOf(s)}]
    BY <1>5, <1>6
  <2> QED BY <1>7, <2>1
<1> HIDE DEF h
<1> QED BY <1>8 DEF IsSums

LEMMA SumsAreSums ==
  ASSUME NEW f, IsFiniteSet(DOMAIN f)
  PROVE  /\ IsSums(SumsOf(f), f) /\ SumsOf(f)[{}] = 0
         /\ \A s \in SUBSET DOMAIN f : s # {} =>
              SumsOf(f)[s] = f[SomeOf(s)] + SumsOf(f)[s \ {SomeOf(s)}]
<1>1. IsSums(SumsOf(f), f)
  BY SumsExist DEF SumsOf
<1> DEFINE g == SumsOf(f)
<1> HIDE DEF g
<1>2. IsSums(g, f)
  BY <1>1 DEF g
<1>3. g[{}] = 0 /\ \A s \in SUBSET DOMAIN f : s # {} => g[s] = f[SomeOf(s)] + g[s \ {SomeOf(s)}]
  BY <1>2 DEF IsSums
<1> QED BY <1>2, <1>3 DEF g

LEMMA SumsAreNumbers ==
  ASSUME NEW S, IsFiniteSet(S), NEW f \in [S -> Int]
  PROVE  \A s \in SUBSET S : SumsOf(f)[s] \in Int
<1> DEFINE g == SumsOf(f)
           Bad == {s \in SUBSET S : g[s] \notin Int}
<1> SUFFICES ASSUME Bad # {} PROVE FALSE
  OBVIOUS
<1>1. g[{}] = 0 /\ \A s \in SUBSET S : s # {} => g[s] = f[SomeOf(s)] + g[s \ {SomeOf(s)}]
  BY SumsAreSums
<1> HIDE DEF g
<1>2. PICK s \in Bad : s = {} \/ (SomeOf(s) \in s /\ s \ {SomeOf(s)} \notin Bad)
  <2>1. Bad \in SUBSET (SUBSET S)
    OBVIOUS
  <2> HIDE DEF Bad
  <2> QED BY <2>1, SmallestPart
<1>3. CASE s = {}
  BY <1>1, <1>2, <1>3
<1>4. CASE s # {}
  <2>1. f[SomeOf(s)] \in Int /\ g[s \ {SomeOf(s)}] \in Int
    BY <1>2, <1>4
  <2>2. g[s] = f[SomeOf(s)] + g[s \ {SomeOf(s)}] /\ g[s] \notin Int
    BY <1>1, <1>2, <1>4
  <2> QED BY <2>1, <2>2
<1> QED BY <1>3, <1>4

\* An average of values of which none is above 1000 is below 1000, or none
\* of them is.
Scores(S) == {f \in [S -> Int] : \A i \in S : f[i] <= 1000}
Fits(f, s) ==
  /\ SumsOf(f)[s] <= 1000 * Cardinality(s)
  /\ SumsOf(f)[s] >= 1000 * Cardinality(s) => \A i \in s : f[i] = 1000

LEMMA SumIsBounded ==
  ASSUME NEW S, IsFiniteSet(S), NEW f \in Scores(S) PROVE \A s \in SUBSET S : Fits(f, s)
<1> DEFINE g == SumsOf(f)
           Bad == {s \in SUBSET S : ~Fits(f, s)}
<1> f \in [S -> Int] /\ \A i \in S : f[i] <= 1000
  BY DEF Scores
<1>1. /\ g[{}] = 0 /\ \A s \in SUBSET S : g[s] \in Int
      /\ \A s \in SUBSET S : s # {} => g[s] = f[SomeOf(s)] + g[s \ {SomeOf(s)}]
  BY SumsAreSums, SumsAreNumbers
<1>2. \A s \in SUBSET S : IsFiniteSet(s) /\ Cardinality(s) \in Nat
  BY FS_Subset, FS_CardinalityType
<1>3. Fits(f, {})
  BY <1>1, FS_EmptySet DEF Fits
<1>4. ASSUME NEW s \in SUBSET S, SomeOf(s) \in s, Fits(f, s \ {SomeOf(s)}) PROVE Fits(f, s)
  <2> DEFINE x == SomeOf(s)
             t == s \ {x}
  <2>1. Cardinality(t) = Cardinality(s) - 1
    BY <1>2, <1>4, FS_RemoveElement
  <2>2. g[s] = f[x] + g[t] /\ f[x] \in Int /\ f[x] <= 1000 /\ t \in SUBSET S
    <3>1. x \in S /\ s # {} /\ t \in SUBSET S
      BY <1>4
    <3>2. g[s] = f[x] + g[t]
      BY <1>1, <3>1
    <3>3. f[x] \in Int /\ f[x] <= 1000
      BY <3>1
    <3> QED BY <3>1, <3>2, <3>3
  <2>3. g[t] \in Int /\ Cardinality(s) \in Nat
    BY <1>1, <1>2, <2>2
  <2>4. s = t \cup {x}
    BY <1>4
  <2>5. /\ g[t] <= 1000 * Cardinality(t)
        /\ g[t] >= 1000 * Cardinality(t) => \A i \in t : f[i] = 1000
    BY <1>4 DEF Fits
  <2> HIDE DEF x, t, g
  <2>6. g[s] <= 1000 * Cardinality(s)
    BY <2>1, <2>2, <2>3, <2>5
  <2>7. g[s] >= 1000 * Cardinality(s) => f[x] = 1000 /\ g[t] >= 1000 * Cardinality(t)
    BY <2>1, <2>2, <2>3, <2>5
  <2>8. g[s] >= 1000 * Cardinality(s) => \A i \in s : f[i] = 1000
    BY <2>4, <2>5, <2>7
  <2> QED BY <2>6, <2>8 DEF Fits, g
<1>5. Bad = {}
  <2> SUFFICES ASSUME Bad # {} PROVE FALSE
    OBVIOUS
  <2>1. Bad \in SUBSET (SUBSET S)
    OBVIOUS
  <2>2. PICK s \in Bad : s = {} \/ (SomeOf(s) \in s /\ s \ {SomeOf(s)} \notin Bad)
    <3> HIDE DEF Bad
    <3> QED BY <2>1, SmallestPart
  <2>3. s # {} /\ s \in SUBSET S
    BY <1>3, <2>2
  <2>4. Fits(f, s \ {SomeOf(s)})
    BY <2>2, <2>3
  <2>5. Fits(f, s)
    BY <1>4, <2>2, <2>3, <2>4
  <2> QED BY <2>2, <2>5
<1> QED BY <1>5

LEMMA FullAverage ==
  ASSUME NEW S, IsFiniteSet(S), NEW f \in Scores(S),
         S = {} \/ SumFunction(f) \div Cardinality(S) >= 1000
  PROVE  \A i \in S : f[i] = 1000
<1>1. CASE S = {}
  BY <1>1
<1>2. CASE S # {}
  <2>1. Cardinality(S) \in Nat /\ Cardinality(S) # 0
    BY <1>2, FS_CardinalityType, FS_EmptySet
  <2>2. SumFunction(f) = SumsOf(f)[S] /\ SumsOf(f)[S] \in Int
    BY SumIsRecursive, SumsAreNumbers DEF Scores
  <2> DEFINE n == Cardinality(S)
             sum == SumsOf(f)[S]
  <2>3. sum \div n >= 1000
    BY <1>2, <2>2
  <2> HIDE DEF n, sum
  <2>4. sum >= 1000 * n
    BY <2>1, <2>2, <2>3 DEF n, sum
  <2>5. SumsOf(f)[S] >= 1000 * Cardinality(S)
    BY <2>4 DEF n, sum
  <2>6. Fits(f, S)
    BY SumIsBounded
  <2> QED BY <2>5, <2>6 DEF Fits
<1> QED BY <1>1, <1>2

\* A share is full when the part is the whole, and only then.
LEMMA FullShare ==
  ASSUME NEW part, NEW whole, IsFiniteSet(whole), part \subseteq whole
  PROVE  /\ Share(Cardinality(part), Cardinality(whole)) \in Int
         /\ Share(Cardinality(part), Cardinality(whole)) <= 1000
         /\ Share(Cardinality(part), Cardinality(whole)) >= 1000 <=> whole # {} /\ part = whole
<1> DEFINE p == Cardinality(part)
           w == Cardinality(whole)
<1>1. p \in Nat /\ w \in Nat /\ p <= w /\ (p = w => part = whole) /\ (w = 0 <=> whole = {})
  BY FS_Subset, FS_CardinalityType, FS_EmptySet
<1>2. part = whole => p = w
  OBVIOUS
<1> HIDE DEF p, w
<1>3. /\ Share(p, w) \in Int /\ Share(p, w) <= 1000
      /\ Share(p, w) >= 1000 <=> w # 0 /\ p = w
  <2>1. CASE w = 0
    BY <2>1 DEF Share
  <2>2. CASE w # 0
    <3>1. Share(p, w) = (1000 * p) \div w
      BY <2>2 DEF Share
    <3>2. (1000 * p) \div w \in Int /\ (1000 * p) \div w <= 1000
      BY <1>1, <2>2
    <3>3. (1000 * p) \div w >= 1000 <=> p = w
      BY <1>1, <2>2
    <3> QED BY <2>2, <3>1, <3>2, <3>3
  <2> QED BY <2>1, <2>2
<1>4. Share(p, w) >= 1000 <=> whole # {} /\ part = whole
  BY <1>1, <1>2, <1>3
<1> QED BY <1>3, <1>4 DEF p, w

(***************************************************************************)
(* The rules.  What a rule demands of the metrics of its source.           *)
(***************************************************************************)
Meets(metrics, id, operator, value) ==
  /\ metrics # None /\ id \in DOMAIN metrics /\ metrics[id].status # "skipped"
  /\ Compare(metrics[id].value, [operator |-> operator, value |-> value, tolerance |-> 0])

RuleMet(policy, files, r) ==
  LET source == policy.sources[r.source]
      metrics == Adapted(source.format, files[source.path])
  IN /\ files[source.path] \notin {None, Broken}
     /\ metrics # None /\ r.id \in DOMAIN metrics /\ metrics[r.id].status # "skipped"
     /\ Compare(metrics[r.id].value, r)

\* A policy that is met meets each of its rules that is required and more than a
\* warning.
LEMMA RulesAreMet ==
  ASSUME NEW policy, NEW files, PolicyOK(policy),
         EvaluatePolicy(policy, files) # None,
         EvaluatePolicy(policy, files).overall_status # "fail",
         NEW r \in ToSet(policy.metrics), r.required, r.severity # "warning"
  PROVE  RuleMet(policy, files, r)
<1> DEFINE rules == policy.metrics
           sources == policy.sources
           loaded == {<<s, LoadSource(sources[s], files)>> : s \in DOMAIN sources}
           status(i) == RuleStatus(rules[i], (CHOOSE l \in loaded : l[1] = rules[i].source)[2])
           judged == RuleResults(rules, loaded)
           own(c) == {j[2] : j \in {k \in judged : rules[k[1]].category = c}}
           categories == [c \in {rules[i].category : i \in DOMAIN rules} |-> Rollup(own(c))]
           all == {categories[c] : c \in DOMAIN categories}
           given == {l[1] : l \in {k \in loaded : k[2] # None}}
           result == EvaluatePolicy(policy, files)
<1>1. PICK i \in DOMAIN rules : r = rules[i]
  BY DEF ToSet
<1>2. r.source \in DOMAIN sources
  BY <1>1 DEF PolicyOK
<1>3. result = Applied(rules, loaded)
  BY Zenon DEF EvaluatePolicy
<1>4. /\ \A l \in loaded : l[2] # Broken
      /\ result = PolicyResult(rules, judged, given)
  BY <1>3, Zenon DEF Applied
<1>5. result.overall_status = Rollup(all)
  <2>1. PolicyResult(rules, judged, given).overall_status = Rollup(all)
    <3> HIDE DEF judged, given
    <3> QED BY DEF PolicyResult
  <2> QED BY <1>4, <2>1, Zenon
<1>6. judged = {<<n, status(n)>> : n \in DOMAIN rules}
  BY DEF RuleResults
<1> HIDE DEF result, judged
<1>7. status(i) # "fail"
  <2> HIDE DEF status
  <2> SUFFICES ASSUME status(i) = "fail" PROVE FALSE
    OBVIOUS
  <2>1. <<i, "fail">> \in judged
    BY <1>6
  <2>2. "fail" \in own(rules[i].category)
    BY <2>1
  <2>3. rules[i].category \in DOMAIN categories
           /\ categories[rules[i].category] = Rollup(own(rules[i].category))
    OBVIOUS
  <2> HIDE DEF own, categories
  <2>4. "fail" \in all
    BY <2>2, <2>3 DEF Rollup
  <2> HIDE DEF all
  <2> QED BY <1>5, <2>4 DEF result, Rollup
<1> DEFINE l == CHOOSE l \in loaded : l[1] = r.source
           loads == LoadSource(sources[r.source], files)
<1>8. l = <<r.source, loads>>
  <2>1. <<r.source, loads>> \in loaded
    BY <1>2
  <2>2. \A m \in loaded : m[1] = r.source => m = <<r.source, loads>>
    OBVIOUS
  <2> HIDE DEF loaded, loads
  <2> QED BY <2>1, <2>2
<1>9. loads # Broken
  <2>1. <<r.source, loads>> \in loaded
    BY <1>2
  <2> HIDE DEF loads, loaded
  <2> QED BY <1>4, <2>1
<1>10. RuleStatus(r, loads) # "fail"
  <2>1. status(i) = RuleStatus(r, l[2])
    BY <1>1
  <2> HIDE DEF status, l, loads
  <2> QED BY <1>7, <1>8, <2>1
<1> HIDE DEF l, loads, loaded, status
<1>11. /\ loads # None /\ r.id \in DOMAIN loads /\ loads[r.id].status # "skipped"
       /\ Compare(loads[r.id].value, r)
  BY <1>10 DEF RuleStatus
<1> DEFINE path == sources[r.source].path
           metrics == Adapted(sources[r.source].format, files[path])
<1>12. files[path] \notin {None, Broken} /\ metrics # None /\ loads = metrics
  <2>1. loads = IF files[path] \in {None, Broken} THEN files[path]
                ELSE IF metrics = None THEN Broken ELSE metrics
    BY DEF loads, LoadSource, OrBroken
  <2> HIDE DEF path, metrics
  <2> QED BY <1>9, <1>11, <2>1
<1> QED BY <1>11, <1>12 DEF RuleMet

LEMMA PolicyMeets ==
  ASSUME NEW outcomes, PolicyOutcome(outcomes).exit = 0, InputsValid(World), KeepsRules(World)
  PROVE  LET policy == Answers[World].policy
         IN \E files :
           /\ files = [p \in {policy.sources[s].path : s \in DOMAIN policy.sources} |->
                         Content(p, outcomes)]
           /\ \A r \in ShippedRules : r.required /\ r.severity # "warning" =>
                RuleMet(policy, files, r)
<1> DEFINE policy == Answers[World].policy
           files == [p \in {policy.sources[s].path : s \in DOMAIN policy.sources} |->
                       Content(p, outcomes)]
           arguments == [warning_policy |-> "allow", warn_only |-> FALSE]
           report == EvaluatePolicy(policy, files)
           c == PolicyCommand(policy, files, arguments)
<1>1. PolicyOK(policy) /\ ShippedRules \subseteq ToSet(policy.metrics)
  BY DEF InputsValid, KeepsRules
<1>2. PolicyOutcome(outcomes) = Ruling(c, ToSet(policy.metrics))
  BY DEF PolicyOutcome
<1>3. c.exit = PolicyExit(report, arguments)
  BY <1>1 DEF PolicyCommand, PolicyOutcomeOf
<1> HIDE DEF c, report
<1>4. report # None /\ report.overall_status # "fail"
  <2>1. PolicyExit(report, arguments) = 0
    BY <1>2, <1>3 DEF Ruling
  <2> QED BY <2>1 DEF PolicyExit
<1> HIDE DEF files, policy
<1>5. \A r \in ShippedRules : r.required /\ r.severity # "warning" => RuleMet(policy, files, r)
  BY <1>1, <1>4, RulesAreMet DEF report
<1> QED BY <1>5 DEF files, policy

\* A rule the shipped policy has, that is required and more than a warning.
Shipped(source, id, operator, value) ==
  \E r \in ShippedRules :
    /\ r.source = source /\ r.id = id /\ r.operator = operator /\ r.value = value
    /\ r.required /\ r.severity # "warning" /\ r.tolerance = 0

LEMMA RuledHas ==
  ASSUME NEW source, NEW category, NEW names, NEW operator, NEW value, NEW severity,
         Ruled(source, category, names, operator, value, severity, TRUE) \subseteq ShippedRules,
         severity # "warning", NEW id \in names
  PROVE  Shipped(source, id, operator, value)
<1> DEFINE r == [id |-> id, source |-> source, category |-> category, operator |-> operator,
                 value |-> value, severity |-> severity, required |-> TRUE, tolerance |-> 0]
<1>1. r \in Ruled(source, category, names, operator, value, severity, TRUE)
  BY DEF Ruled
<1>2. /\ r.source = source /\ r.id = id /\ r.operator = operator /\ r.value = value
      /\ r.required /\ r.severity # "warning" /\ r.tolerance = 0
  OBVIOUS
<1> HIDE DEF r
<1> QED BY <1>1, <1>2 DEF Shipped

LEMMA FullHas ==
  ASSUME NEW source, NEW category, NEW names,
         Full(source, category, names) \subseteq ShippedRules, NEW id \in names
  PROVE  Shipped(source, id, "gte", Number(1000))
<1> DEFINE value == Number(1000)
           operator == "gte"
           severity == "fail"
<1>1. Ruled(source, category, names, operator, value, severity, TRUE) \subseteq ShippedRules
  BY DEF Full
<1>2. severity # "warning"
  OBVIOUS
<1> HIDE DEF value, operator, severity
<1>3. Shipped(source, id, operator, value)
  BY <1>1, <1>2, RuledHas
<1> QED BY <1>3 DEF value, operator

LEMMA ZeroHas ==
  ASSUME NEW source, NEW category, NEW names, NEW severity,
         Zero(source, category, names, severity) \subseteq ShippedRules,
         severity # "warning", NEW id \in names
  PROVE  Shipped(source, id, "lte", Count(0))
<1>1. Ruled(source, category, names, "lte", Count(0), severity, TRUE) \subseteq ShippedRules
  BY DEF Zero
<1> QED BY <1>1, RuledHas, Zenon

LEMMA ShippedHas ==
  /\ Shipped("deepeval", <<"deepeval", "citation_coverage", "average_score">>, "gte", Number(1000))
  /\ Shipped("ragas", <<"ragas", "id_based_context_recall">>, "gte", Number(1000))
  /\ Shipped("agent", <<"agent", "workflow_success_rate">>, "gte", Number(1000))
  /\ Shipped("agent", <<"agent", "fail_count">>, "lte", Count(0))
  /\ Shipped("agent_e2e", <<"agent_e2e", "routing_accuracy">>, "gte", Number(1000))
  /\ Shipped("agent_e2e", <<"agent_e2e", "fail_count">>, "lte", Count(0))
  /\ \A n \in {"regressions", "failures"} :
       Shipped("prompt_regression", <<"prompt_regression", "summary", n>>, "lte", Count(0))
  /\ \A c \in {"fabricated_revenue_or_roi", "fabricated_statistical_significance",
               "contradiction_with_structured_experiment_data"} :
       Shipped("factuality", <<"factuality", "findings", c>>, "lte", Count(0))
<1>1. /\ RetrievalRules \subseteq ShippedRules /\ WorkflowRules \subseteq ShippedRules
      /\ PromptRules \subseteq ShippedRules /\ FactualityRules \subseteq ShippedRules
      /\ ReliabilityRules \subseteq ShippedRules
  BY DEF ShippedRules
<1> "fail" # "warning" /\ "critical" # "warning"
  OBVIOUS
<1>2. Shipped("deepeval", <<"deepeval", "citation_coverage", "average_score">>, "gte", Number(1000))
  <2> DEFINE names == Scored({"citation_coverage"})
  <2>1. Full("deepeval", "Retrieval", names) \subseteq RetrievalRules
    BY Zenon DEF RetrievalRules
  <2>2. <<"deepeval", "citation_coverage", "average_score">> \in names
    BY DEF Scored
  <2> HIDE DEF names
  <2>3. Full("deepeval", "Retrieval", names) \subseteq ShippedRules
    BY <1>1, <2>1
  <2> QED BY <2>2, <2>3, FullHas
<1>3. Shipped("ragas", <<"ragas", "id_based_context_recall">>, "gte", Number(1000))
  <2> DEFINE names == Of("ragas", {"id_based_context_precision", "id_based_context_recall"})
  <2>1. Full("ragas", "Retrieval", names) \subseteq RetrievalRules
    BY Zenon DEF RetrievalRules
  <2>2. <<"ragas", "id_based_context_recall">> \in names
    BY DEF Of
  <2> HIDE DEF names
  <2>3. Full("ragas", "Retrieval", names) \subseteq ShippedRules
    BY <1>1, <2>1
  <2> QED BY <2>2, <2>3, FullHas
<1>4. Shipped("agent", <<"agent", "workflow_success_rate">>, "gte", Number(1000))
  <2> DEFINE names == Of("agent", {"workflow_success_rate", "routing_accuracy",
                                   "trace_completeness", "recommendation_coverage"})
  <2>1. Full("agent", "Workflow", names) \subseteq WorkflowRules
    BY ZenonT(90) DEF WorkflowRules
  <2>2. <<"agent", "workflow_success_rate">> \in names
    BY DEF Of
  <2> HIDE DEF names
  <2>3. Full("agent", "Workflow", names) \subseteq ShippedRules
    BY <1>1, <2>1
  <2> QED BY <2>2, <2>3, FullHas
<1>5. Shipped("agent", <<"agent", "fail_count">>, "lte", Count(0))
  <2> DEFINE names == Of("agent", {"fail_count", "total_tool_failures"})
  <2>1. Zero("agent", "Reliability", names, "fail") \subseteq ReliabilityRules
    BY Zenon DEF ReliabilityRules
  <2>2. <<"agent", "fail_count">> \in names
    BY DEF Of
  <2> HIDE DEF names
  <2>3. Zero("agent", "Reliability", names, "fail") \subseteq ShippedRules
    BY <1>1, <2>1
  <2> QED BY <2>2, <2>3, ZeroHas
<1>6. Shipped("agent_e2e", <<"agent_e2e", "routing_accuracy">>, "gte", Number(1000))
  <2> DEFINE names == Of("agent_e2e", {"legacy_fallback_coverage", "routing_accuracy",
                                       "decision_coverage", "executive_summary_coverage",
                                       "approval_status_coverage"})
  <2>1. Full("agent_e2e", "Workflow", names) \subseteq WorkflowRules
    BY ZenonT(90) DEF WorkflowRules
  <2>2. <<"agent_e2e", "routing_accuracy">> \in names
    BY DEF Of
  <2> HIDE DEF names
  <2>3. Full("agent_e2e", "Workflow", names) \subseteq ShippedRules
    BY <1>1, <2>1
  <2> QED BY <2>2, <2>3, FullHas
<1>7. Shipped("agent_e2e", <<"agent_e2e", "fail_count">>, "lte", Count(0))
  <2> DEFINE names == Of("agent_e2e", {"fail_count"})
  <2>1. Zero("agent_e2e", "Reliability", names, "fail") \subseteq ReliabilityRules
    BY Zenon DEF ReliabilityRules
  <2>2. <<"agent_e2e", "fail_count">> \in names
    BY DEF Of
  <2> HIDE DEF names
  <2>3. Zero("agent_e2e", "Reliability", names, "fail") \subseteq ShippedRules
    BY <1>1, <2>1
  <2> QED BY <2>2, <2>3, ZeroHas
<1>8. ASSUME NEW n \in {"regressions", "failures"}
      PROVE  Shipped("prompt_regression", <<"prompt_regression", "summary", n>>, "lte", Count(0))
  <2> DEFINE names == {<<"prompt_regression", "summary", m>> : m \in {"regressions", "failures"}}
  <2>1. Zero("prompt_regression", "Prompt", names, "fail") \subseteq PromptRules
    BY Zenon DEF PromptRules
  <2>2. <<"prompt_regression", "summary", n>> \in names
    OBVIOUS
  <2> HIDE DEF names
  <2>3. Zero("prompt_regression", "Prompt", names, "fail") \subseteq ShippedRules
    BY <1>1, <2>1
  <2> QED BY <2>2, <2>3, ZeroHas
<1>9. ASSUME NEW c \in {"fabricated_revenue_or_roi", "fabricated_statistical_significance",
                        "contradiction_with_structured_experiment_data"}
      PROVE  Shipped("factuality", <<"factuality", "findings", c>>, "lte", Count(0))
  <2> DEFINE names == Guarded \cup {<<"factuality", "findings", d>> :
                                      d \in {"citation_missing", "citation_does_not_support_claim"}}
  <2>1. Zero("factuality", "Factuality", names, "critical") \subseteq FactualityRules
    BY Zenon DEF FactualityRules
  <2>2. <<"factuality", "findings", c>> \in names
    BY DEF Guarded
  <2> HIDE DEF names
  <2>3. Zero("factuality", "Factuality", names, "critical") \subseteq ShippedRules
    BY <1>1, <2>1
  <2> QED BY <2>2, <2>3, ZeroHas
<1> QED BY <1>2, <1>3, <1>4, <1>5, <1>6, <1>7, <1>8, <1>9

\* When the policy is judged: the evaluations of this run have ended well, and
\* what lies below the root is theirs.
Ready ==
  /\ World \in Worlds /\ Run >= 1 /\ InputsValid(World)
  /\ \A k \in 4..11 :
       /\ Outcome(World, Commands[k]).exit = 0
       /\ \A p \in Owned[k] : artifacts[p].run = Run /\ artifacts[p].nth \in 1..2

LEMMA SuiteIsRead ==
  ASSUME Ready, NEW k \in 4..11, NEW p \in Owned[k], NEW report,
         Outcome(World, Commands[k]) = Reporting(Commands[k], report)
  PROVE  report # None /\ Content(p, Outcomes) = report
<1> DEFINE c == Commands[k]
           n == artifacts[p].nth
           producer == IF p \in ToSet(BaselineOutputs) THEN "phase4_statistical_baseline"
                       ELSE CHOOSE d \in DOMAIN SuiteReports : p \in ToSet(SuiteReports[d])
<1>1. report # None
  BY DEF Ready, Reporting, Exits
<1>2. Outcome(World, c).writes = [i \in 1..2 |-> <<SuiteReports[c][i], report>>]
  BY <1>1 DEF Reporting
<1>3. artifacts[p].run = Run /\ n \in 1..2
  BY DEF Ready
<1>4. artifacts[p] # NoFile /\ artifacts[p] # CutShort
  BY <1>3 DEF Ready, NoFile, CutShort
<1>5. producer = c
  <2>1. p \notin ToSet(BaselineOutputs)
    <3>1. ToSet(BaselineOutputs) = Owned[12]
      BY DEF ToSet, BaselineOutputs, Owned
    <3> QED BY <3>1, Disjoint
  <2>2. \A j \in 4..11 : ToSet(SuiteReports[Commands[j]]) = Owned[j]
    BY SuitePlaces DEF ToSet
  <2>3. \A j \in 4..11 : p \in ToSet(SuiteReports[Commands[j]]) <=> j = k
    BY <2>2, Disjoint
  <2>4. c \in DOMAIN SuiteReports /\ \A d \in DOMAIN SuiteReports : \E j \in 4..11 : d = Commands[j]
    BY SuiteDomain
  <2>5. \A d \in DOMAIN SuiteReports : p \in ToSet(SuiteReports[d]) <=> d = c
    BY <2>3, <2>4
  <2>6. (CHOOSE d \in DOMAIN SuiteReports : p \in ToSet(SuiteReports[d])) = c
    <3> HIDE DEF c
    <3> QED BY <2>4, <2>5
  <2> QED BY <2>1, <2>6
<1> HIDE DEF producer
<1>6. Content(p, Outcomes) = OutcomeIn(Outcomes, revision[artifacts[p].run], producer).writes[n][2]
  BY <1>4 DEF Content, producer
<1>7. revision[artifacts[p].run] = World
  BY <1>3 DEF World
<1>8. OutcomeIn(Outcomes, World, c) = Outcome(World, c)
  BY OutcomeIsOwn DEF Ready
<1>9. Content(p, Outcomes) = Outcome(World, c).writes[n][2]
  BY <1>5, <1>6, <1>7, <1>8, Zenon
<1> HIDE DEF c, n
<1> QED BY <1>1, <1>2, <1>3, <1>9

\* What ends the policy well meets the shipped rules of every suite.
LEMMA SuiteMeets ==
  ASSUME Ready, KeepsRules(World), PolicyOutcome(Outcomes).exit = 0,
         NEW k \in 4..11, NEW report, Outcome(World, Commands[k]) = Reporting(Commands[k], report),
         NEW source \in DOMAIN ShippedSources, ShippedSources[source].path \in Owned[k],
         NEW id, NEW operator, NEW value, Shipped(source, id, operator, value)
  PROVE  report # None /\ Meets(Adapted(ShippedSources[source].format, report), id, operator, value)
<1> DEFINE policy == Answers[World].policy
           paths == {policy.sources[s].path : s \in DOMAIN policy.sources}
           path == ShippedSources[source].path
           format == ShippedSources[source].format
<1>1. PICK files : /\ files = [p \in paths |-> Content(p, Outcomes)]
                   /\ \A r \in ShippedRules : r.required /\ r.severity # "warning" =>
                        RuleMet(policy, files, r)
  BY PolicyMeets DEF Ready
<1>2. policy.sources = ShippedSources
  BY DEF KeepsRules
<1>3. PICK r \in ShippedRules :
        /\ r.source = source /\ r.id = id /\ r.operator = operator /\ r.value = value
        /\ r.required /\ r.severity # "warning" /\ r.tolerance = 0
  BY DEF Shipped
<1>4. report # None /\ Content(path, Outcomes) = report
  BY SuiteIsRead
<1>5. path \in paths
  BY <1>2
<1> HIDE DEF policy, paths
<1>6. files[path] = report
  BY <1>1, <1>4, <1>5
<1>7. RuleMet(policy, files, r)
  BY <1>1, <1>3
<1> DEFINE metrics == Adapted(format, report)
<1>8. /\ metrics # None /\ id \in DOMAIN metrics /\ metrics[id].status # "skipped"
      /\ Compare(metrics[id].value, r)
  BY <1>2, <1>3, <1>6, <1>7 DEF RuleMet
<1> HIDE DEF metrics
<1>9. Compare(metrics[id].value, [operator |-> operator, value |-> value, tolerance |-> 0])
  BY <1>3, <1>8 DEF Compare
<1>10. Meets(metrics, id, operator, value)
  BY <1>8, <1>9 DEF Meets
<1> QED BY <1>4, <1>10 DEF metrics

\* What a rule says of a number.
LEMMA AtLeast ==
  ASSUME NEW metrics, NEW id, NEW x, Meets(metrics, id, "gte", Number(1000)),
         metrics[id].value = Number(x), x \in Int
  PROVE  x >= 1000
  BY DEF Meets, Compare, Number

LEMMA NoneCounted ==
  ASSUME NEW metrics, NEW id, NEW n, Meets(metrics, id, "lte", Count(0)),
         metrics[id].value = Count(n), n \in Int
  PROVE  n <= 0
  BY DEF Meets, Compare, Count, Number

(***************************************************************************)
(* Names of metrics.                                                       *)
(***************************************************************************)
LEMMA Same ==
  ASSUME NEW X, NEW s \in Seq(X), NEW t \in Seq(X), Len(s) = Len(t),
         \A i \in 1..Len(s) : s[i] = t[i]
  PROVE  s = t
  OBVIOUS

\* A name that is put together.
LEMMA Joined ==
  ASSUME NEW a, NEW b, NEW k
  PROVE  <<a>> \o <<k>> = <<a, k>> /\ <<a, b>> \o <<k>> = <<a, b, k>>
<1> DEFINE X == {a, b, k}
<1>1. <<a>> \o <<k>> = <<a, k>>
  <2> DEFINE s == <<a>> \o <<k>>
             t == <<a, k>>
  <2>1. s \in Seq(X) /\ Len(s) = 2 /\ s[1] = a /\ s[2] = k
    OBVIOUS
  <2>2. t \in Seq(X) /\ Len(t) = 2 /\ t[1] = a /\ t[2] = k
    OBVIOUS
  <2> HIDE DEF s, t, X
  <2>3. \A i \in 1..2 : s[i] = t[i]
    BY <2>1, <2>2
  <2>4. s = t
    BY <2>1, <2>2, <2>3, Same
  <2> QED BY <2>4 DEF s, t
<1>2. <<a, b>> \o <<k>> = <<a, b, k>>
  <2> DEFINE s == <<a, b>> \o <<k>>
             t == <<a, b, k>>
  <2>1. s \in Seq(X) /\ Len(s) = 3 /\ s[1] = a /\ s[2] = b /\ s[3] = k
    OBVIOUS
  <2>2. t \in Seq(X) /\ Len(t) = 3 /\ t[1] = a /\ t[2] = b /\ t[3] = k
    OBVIOUS
  <2> HIDE DEF s, t, X
  <2>3. \A i \in 1..3 : s[i] = t[i]
    BY <2>1, <2>2
  <2>4. s = t
    BY <2>1, <2>2, <2>3, Same
  <2> QED BY <2>4 DEF s, t
<1> QED BY <1>1, <1>2

LEMMA PrefixedAt ==
  ASSUME NEW a, NEW b, NEW values, NEW k \in DOMAIN values
  PROVE  /\ <<a, b, k>> \in DOMAIN Prefixed(<<a, b>>, values)
         /\ Prefixed(<<a, b>>, values)[<<a, b, k>>] = Read(values[k])
<1> DEFINE prefix == <<a, b>>
           names == {prefix \o <<j>> : j \in DOMAIN values}
           name == <<a, b, k>>
           value(x) == Read(values[Last(x)])
<1>1. Prefixed(prefix, values) = [x \in names |-> value(x)]
  BY DEF Prefixed
<1>2. prefix \o <<k>> = name /\ Last(name) = k
  <2>1. prefix \o <<k>> = name
    BY Joined
  <2>2. Last(name) = k
    BY DEF Last
  <2> QED BY <2>1, <2>2
<1>3. name \in names
  <2> HIDE DEF name, prefix
  <2> QED BY <1>2
<1>4. value(name) = Read(values[k])
  <2> HIDE DEF name
  <2> QED BY <1>2
<1> HIDE DEF value, names, name, prefix
<1>5. name \in DOMAIN Prefixed(prefix, values) /\ Prefixed(prefix, values)[name] = Read(values[k])
  BY <1>1, <1>3, <1>4
<1> QED BY <1>5 DEF name, prefix

LEMMA PrefixedBy ==
  ASSUME NEW a, NEW b, NEW values, NEW name \in DOMAIN Prefixed(<<a, b>>, values)
  PROVE  \E k : name = <<a, b, k>>
<1> DEFINE prefix == <<a, b>>
           names == {prefix \o <<k>> : k \in DOMAIN values}
<1>1. DOMAIN Prefixed(prefix, values) = names
  <2> HIDE DEF prefix
  <2> QED BY DEF Prefixed
<1>0. PICK k : name = prefix \o <<k>>
  <2>1. name \in names
    BY <1>1
  <2> QED BY <2>1
<1>2. name = <<a, b, k>>
  BY <1>0, Joined
<1> QED BY <1>2

\* The summary of an agent evaluation is read under its own names.
LEMMA SummaryIsRead ==
  ASSUME NEW report, NEW prefix, AgentMetrics(report, prefix) # None,
         NEW key \in DOMAIN report.summary,
         \A k \in DOMAIN report.summary : Alias(prefix, k) = key <=> k = key
  PROVE  AgentMetrics(report, prefix)[<<prefix, key>>] = Read(report.summary[key])
<1> DEFINE named(k) == Alias(prefix, k)
           names == {<<prefix, named(k)>> : k \in DOMAIN report.summary}
           of(name) == CHOOSE k \in DOMAIN report.summary : named(k) = name[2]
           summary == [name \in names |-> Read(report.summary[of(name)])]
           id == <<prefix, key>>
<1>1. \E f : AgentMetrics(report, prefix) = Updated(f, summary)
  <2> HIDE DEF id
  <2> QED BY Zenon DEF AgentMetrics
<1>2. id \in names
  BY DEF names
<1>3. of(id) = key
  <2>1. id[2] = key
    OBVIOUS
  <2> HIDE DEF id, named
  <2>2. \A k \in DOMAIN report.summary : named(k) = key <=> k = key
    BY DEF named
  <2> QED BY <2>1, <2>2
<1> HIDE DEF id, of, names
<1>4. id \in DOMAIN summary /\ summary[id] = Read(report.summary[key])
  BY <1>2, <1>3
<1> HIDE DEF summary
<1>5. AgentMetrics(report, prefix)[id] = Read(report.summary[key])
  BY <1>1, <1>4, UpdatedAt
<1> QED BY <1>5 DEF id

(***************************************************************************)
(* Cases of the workflow.                                                  *)
(***************************************************************************)
LEMMA RoutingIsRight ==
  ASSUME NEW expected, NEW actual, IsFiniteSet(expected), IsFiniteSet(actual),
         ~(RoutingAccuracy(expected, actual) < 1000)
  PROVE  expected = actual
<1>1. CASE expected \cup actual = {}
  BY <1>1
<1>2. CASE expected \cup actual # {}
  <2> DEFINE both == expected \cap actual
             all == expected \cup actual
             share == Share(Cardinality(both), Cardinality(all))
  <2>1. RoutingAccuracy(expected, actual) = share
    BY <1>2 DEF RoutingAccuracy
  <2>2. IsFiniteSet(all) /\ both \subseteq all
    BY FS_Union
  <2>3. share \in Int /\ (share >= 1000 <=> all # {} /\ both = all)
    <3> HIDE DEF both, all
    <3> QED BY <2>2, FullShare
  <2> HIDE DEF share, both, all
  <2>4. both = all
    BY <2>1, <2>3
  <2> QED BY <2>4 DEF both, all
<1> QED BY <1>1, <1>2

\* When none has failed, all have passed.
LEMMA AllPassed ==
  ASSUME NEW n \in Nat, NEW S, S \subseteq 1..n, n - Cardinality(S) <= 0
  PROVE  S = 1..n
<1>1. IsFiniteSet(1..n) /\ Cardinality(1..n) = n
  BY FS_Interval
<1>2. Cardinality(S) \in Nat /\ Cardinality(S) <= n /\ (Cardinality(S) = n => S = 1..n)
  BY <1>1, FS_Subset, FS_CardinalityType
<1> QED BY <1>2

LEMMA CheckIsPassed ==
  ASSUME NEW case, NEW answer, ChecksFailed(AnalysisChecks(case, answer)) = {}
  PROVE  AnalysisHolds(case, answer)
<1> DEFINE checks == AnalysisChecks(case, answer)
<1>1. DOMAIN checks = AnalysisCodes
  BY DEF AnalysisChecks
<1>2. {"routing", "execution_status", "result_integrity"} \subseteq AnalysisCodes
  BY DEF AnalysisCodes
<1>3. \A code \in DOMAIN checks : checks[code].status # "fail"
  BY DEF ChecksFailed
<1>4. \A code \in {"routing", "execution_status", "result_integrity"} :
        checks[code].status # "fail"
  <2> HIDE DEF checks
  <2> QED BY <1>1, <1>2, <1>3
<1> QED BY <1>4, AnalysisPasses

CaseOK(s) ==
  /\ IsFiniteSet(s.case.agents) /\ s.case.citations \in Nat \cup {None}
  /\ s.observation # None =>
       IsFiniteSet(s.observation.agents) /\ s.observation.citations \in Nat

LEMMA CasePasses ==
  ASSUME NEW s, CaseOK(s), s.observation # None, SampleMetrics(s).passed
  PROVE  CaseHolds(s)
<1> DEFINE reasons == FailureReasons(s.case, s.observation)
           failed == ChecksFailed(SampleChecks(s))
           seen == s.observation
           case == s.case
<1>1. reasons = {} /\ failed = {}
  BY DEF SampleMetrics
<1>2. /\ seen.intent = case.intent /\ seen.success
      /\ ~(RoutingAccuracy(case.agents, seen.agents) < 1000)
  <2> DEFINE of ==
        [intent |-> seen.intent # case.intent,
         routing |-> RoutingAccuracy(case.agents, seen.agents) < 1000,
         citations |-> EnoughCitations(case.citations, seen.citations) < 1000,
         decision |-> Differs(case.decision, seen.decision),
         recommendation |-> Differs(case.recommendation, seen.recommendation),
         approval |-> Differs(case.approval, seen.approval),
         summary |-> Differs(case.summary, seen.summary),
         workflow |-> ~seen.success]
  <2>1. reasons = {r \in DOMAIN of : of[r]}
    BY Zenon DEF FailureReasons
  <2>2. /\ "intent" \in DOMAIN of /\ "routing" \in DOMAIN of /\ "workflow" \in DOMAIN of
        /\ of["intent"] = (seen.intent # case.intent)
        /\ of["routing"] = (RoutingAccuracy(case.agents, seen.agents) < 1000)
        /\ of["workflow"] = (~seen.success)
    OBVIOUS
  <2> HIDE DEF of, reasons
  <2>3. ~of["intent"] /\ ~of["routing"] /\ ~of["workflow"]
    BY <1>1, <2>1, <2>2
  <2> QED BY <2>2, <2>3, Zenon
<1>3. case.agents = seen.agents
  BY <1>2, RoutingIsRight DEF CaseOK
<1>4. AnalysisHolds(case.analysis, s.answer)
  <2>1. CASE case.analysis = None
    BY <2>1 DEF AnalysisHolds
  <2>2. CASE case.analysis # None
    <3>1. SampleChecks(s) = AnalysisChecks(case.analysis, s.answer)
      BY <2>2 DEF SampleChecks
    <3>2. ChecksFailed(AnalysisChecks(case.analysis, s.answer)) = {}
      BY <1>1, <3>1, Zenon
    <3> QED BY <3>2, CheckIsPassed
  <2> QED BY <2>1, <2>2
<1> QED BY <1>2, <1>3, <1>4 DEF CaseHolds

LEMMA SummaryOfCases ==
  ASSUME NEW samples
  PROVE  LET run == {i \in DOMAIN samples : samples[i].observation # None}
             passed == {i \in run : SampleMetrics(samples[i]).passed}
             count == IF run = {} THEN 0 ELSE Len(samples)
         IN /\ AgentSummary(samples).fail_count = Count(count - Cardinality(passed))
            /\ run = {} => AgentSummary(samples).workflow_success_rate = Number(0)
<1> DEFINE run == {i \in DOMAIN samples : samples[i].observation # None}
           metrics == [i \in run |-> SampleMetrics(samples[i])]
           counted == {i \in run : metrics[i].passed}
           passed == {i \in run : SampleMetrics(samples[i]).passed}
           count == IF run = {} THEN 0 ELSE Len(samples)
           rates == [i \in run |-> Truth(metrics[i].success)]
<1>1. counted = passed
  OBVIOUS
<1>2. /\ AgentSummary(samples).fail_count = Count(count - Cardinality(counted))
      /\ AgentSummary(samples).workflow_success_rate = Number(Average(rates))
  BY DEF AgentSummary
<1>3. run = {} => Average(rates) = 0
  <2>1. DOMAIN rates = run
    OBVIOUS
  <2> HIDE DEF rates
  <2> QED BY <2>1 DEF Average
<1> QED BY <1>1, <1>2, <1>3, Zenon

LEMMA CasesHold ==
  ASSUME NEW samples, samples \in Seq(ToSet(samples)), \A s \in ToSet(samples) : CaseOK(s),
         Meets(AgentMetrics(AgentReport(samples), "agent"), <<"agent", "workflow_success_rate">>,
               "gte", Number(1000)),
         Meets(AgentMetrics(AgentReport(samples), "agent"), <<"agent", "fail_count">>, "lte",
               Count(0))
  PROVE  \A s \in ToSet(samples) : CaseHolds(s)
<1> DEFINE report == AgentReport(samples)
           metrics == AgentMetrics(report, "agent")
           summary == AgentSummary(samples)
           run == {i \in DOMAIN samples : samples[i].observation # None}
           passed == {i \in run : SampleMetrics(samples[i]).passed}
           count == IF run = {} THEN 0 ELSE Len(samples)
           n == Len(samples)
           keys == {"sample_count", "pass_count", "fail_count", "workflow_success_rate",
                    "average_workflow_latency_ms", "average_trace_completeness",
                    "planner_intent_accuracy", "routing_accuracy", "citation_coverage",
                    "recommendation_coverage", "total_tool_failures"}
<1>1. report.summary = summary /\ DOMAIN summary = keys
  BY DEF AgentReport, AgentSummary
<1>2. \A k \in keys : /\ Alias("agent", k) = "fail_count" <=> k = "fail_count"
                      /\ Alias("agent", k) = "workflow_success_rate" <=> k = "workflow_success_rate"
  BY DEF Alias
<1>3. n \in Nat /\ DOMAIN samples = 1..n
  OBVIOUS
<1>4. /\ summary.fail_count = Count(count - Cardinality(passed))
      /\ run = {} => summary.workflow_success_rate = Number(0)
  BY SummaryOfCases
<1>5. metrics # None
  BY DEF Meets
<1> HIDE DEF report, metrics, summary
<1>6. /\ metrics[<<"agent", "fail_count">>] = Read(summary.fail_count)
      /\ metrics[<<"agent", "workflow_success_rate">>] = Read(summary.workflow_success_rate)
  <2>1. ASSUME NEW key \in {"fail_count", "workflow_success_rate"}
        PROVE  metrics[<<"agent", key>>] = Read(summary[key])
    <3>1. key \in DOMAIN report.summary /\ AgentMetrics(report, "agent") # None
      BY <1>1, <1>5 DEF metrics
    <3>2. \A k \in DOMAIN report.summary : Alias("agent", k) = key <=> k = key
      BY <1>1, <1>2
    <3> QED BY <1>1, <3>1, <3>2, SummaryIsRead DEF metrics
  <2> QED BY <2>1
<1>7. run # {}
  <2> SUFFICES ASSUME run = {} PROVE FALSE
    OBVIOUS
  <2>1. metrics[<<"agent", "workflow_success_rate">>].value = Number(0)
    BY <1>4, <1>6 DEF Read
  <2>2. Meets(metrics, <<"agent", "workflow_success_rate">>, "gte", Number(1000))
    BY DEF metrics, report
  <2> QED BY <2>1, <2>2, AtLeast
<1>8. passed = 1..n
  <2>1. passed \subseteq 1..n /\ count = n
    BY <1>3, <1>7
  <2>2. metrics[<<"agent", "fail_count">>].value = Count(n - Cardinality(passed))
    BY <1>4, <1>6, <2>1 DEF Read
  <2>3. Meets(metrics, <<"agent", "fail_count">>, "lte", Count(0))
    BY DEF metrics, report
  <2> HIDE DEF passed, n, count
  <2>4. IsFiniteSet(1..n)
    BY <1>3, FS_Interval
  <2>5. Cardinality(passed) \in Nat
    BY <2>1, <2>4, FS_Subset, FS_CardinalityType
  <2> DEFINE d == n - Cardinality(passed)
  <2>6. d \in Int /\ metrics[<<"agent", "fail_count">>].value = Count(d)
    BY <1>3, <2>2, <2>5
  <2> HIDE DEF d
  <2>7. d <= 0
    BY <2>3, <2>6, NoneCounted
  <2> QED BY <1>3, <2>1, <2>7, AllPassed DEF d
<1> SUFFICES ASSUME NEW s \in ToSet(samples) PROVE CaseHolds(s)
  OBVIOUS
<1>9. PICK i \in DOMAIN samples : s = samples[i]
  BY DEF ToSet
<1>10. s.observation # None /\ SampleMetrics(s).passed
  BY <1>3, <1>8, <1>9
<1> QED BY <1>10, CasePasses

(***************************************************************************)
(* Requests to the endpoint.                                               *)
(***************************************************************************)
LEMMA RequestPasses ==
  ASSUME NEW s, s.response # None,
         ValidateSample(s.case, s.response) = {}, ChecksFailed(EndpointChecks(s)) = {},
         s.response.code = 200 => s.case.agents \in {<<>>, s.response.agents}
  PROVE  RequestHolds(s)
<1>1. s.response.code = s.case.code
  <2>1. (IF s.response.code = s.case.code THEN {} ELSE {"code"}) \subseteq
          ValidateSample(s.case, s.response)
    BY DEF ValidateSample
  <2> QED BY <2>1
<1>2. ASSUME s.response.code = 200 PROVE AnalysisHolds(s.case.analysis, s.response.answer)
  <2>1. CASE s.case.analysis = None
    BY <2>1 DEF AnalysisHolds
  <2>2. CASE s.case.analysis # None
    <3>1. EndpointChecks(s) = AnalysisChecks(s.case.analysis, s.response.answer)
      BY <1>2, <2>2 DEF EndpointChecks
    <3>2. ChecksFailed(AnalysisChecks(s.case.analysis, s.response.answer)) = {}
      BY <3>1, Zenon
    <3> QED BY <3>2, CheckIsPassed
  <2> QED BY <2>1, <2>2
<1> QED BY <1>1, <1>2 DEF RequestHolds

LEMMA SummaryOfRequests ==
  ASSUME NEW samples
  PROVE  LET of == DOMAIN samples
             passed == {i \in of : /\ ValidateSample(samples[i].case, samples[i].response) = {}
                                   /\ ChecksFailed(EndpointChecks(samples[i])) = {}}
             succeeded == {i \in of : samples[i].response.code = 200}
             routed == {i \in of : samples[i].case.agents \in {<<>>, samples[i].response.agents}}
         IN /\ EndpointSummary(samples).fail_count = Count(Len(samples) - Cardinality(passed))
            /\ EndpointSummary(samples).routing_accuracy
                 = Number(Share(Cardinality(routed \cap succeeded), Cardinality(succeeded)))
  BY DEF EndpointSummary

LEMMA RequestsHold ==
  ASSUME NEW samples, samples \in Seq(ToSet(samples)), EndpointReport(samples) # None,
         Meets(AgentMetrics(EndpointReport(samples), "agent_e2e"),
               <<"agent_e2e", "routing_accuracy">>, "gte", Number(1000)),
         Meets(AgentMetrics(EndpointReport(samples), "agent_e2e"), <<"agent_e2e", "fail_count">>,
               "lte", Count(0))
  PROVE  \A s \in ToSet(samples) : RequestHolds(s)
<1> DEFINE report == EndpointReport(samples)
           metrics == AgentMetrics(report, "agent_e2e")
           summary == EndpointSummary(samples)
           of == DOMAIN samples
           passed == {i \in of : /\ ValidateSample(samples[i].case, samples[i].response) = {}
                                 /\ ChecksFailed(EndpointChecks(samples[i])) = {}}
           succeeded == {i \in of : samples[i].response.code = 200}
           routed == {i \in of : samples[i].case.agents \in {<<>>, samples[i].response.agents}}
           n == Len(samples)
           keys == {"sample_count", "pass_count", "fail_count", "default_agent_workflow_coverage",
                    "legacy_fallback_coverage", "intent_accuracy", "citation_coverage",
                    "routing_accuracy", "decision_coverage", "executive_summary_coverage",
                    "approval_status_coverage", "average_latency_ms"}
<1>1. report.summary = summary /\ \A i \in of : samples[i].response # None
  BY DEF EndpointReport
<1>2. DOMAIN summary = keys
  BY DEF EndpointSummary
<1>3. \A k \in keys : /\ Alias("agent_e2e", k) = "fail_count" <=> k = "fail_count"
                      /\ Alias("agent_e2e", k) = "routing_accuracy" <=> k = "routing_accuracy"
  BY DEF Alias
<1>4. n \in Nat /\ of = 1..n /\ IsFiniteSet(1..n)
  BY FS_Interval
<1>5. /\ summary.fail_count = Count(n - Cardinality(passed))
      /\ summary.routing_accuracy
           = Number(Share(Cardinality(routed \cap succeeded), Cardinality(succeeded)))
  BY SummaryOfRequests
<1>6. metrics # None
  BY DEF Meets
<1> HIDE DEF report, metrics, summary
<1>7. /\ metrics[<<"agent_e2e", "fail_count">>] = Read(summary.fail_count)
      /\ metrics[<<"agent_e2e", "routing_accuracy">>] = Read(summary.routing_accuracy)
  <2>1. ASSUME NEW key \in {"fail_count", "routing_accuracy"}
        PROVE  metrics[<<"agent_e2e", key>>] = Read(summary[key])
    <3>1. key \in DOMAIN report.summary /\ AgentMetrics(report, "agent_e2e") # None
      BY <1>1, <1>2, <1>6 DEF metrics
    <3>2. \A k \in DOMAIN report.summary : Alias("agent_e2e", k) = key <=> k = key
      BY <1>1, <1>2, <1>3
    <3> QED BY <1>1, <3>1, <3>2, SummaryIsRead DEF metrics
  <2> QED BY <2>1
<1>8. passed = 1..n
  <2>1. passed \subseteq 1..n
    BY <1>4
  <2>2. metrics[<<"agent_e2e", "fail_count">>].value = Count(n - Cardinality(passed))
    BY <1>5, <1>7 DEF Read
  <2>3. Meets(metrics, <<"agent_e2e", "fail_count">>, "lte", Count(0))
    BY DEF metrics, report
  <2> HIDE DEF passed, n
  <2>4. Cardinality(passed) \in Nat
    BY <1>4, <2>1, FS_Subset, FS_CardinalityType
  <2> DEFINE d == n - Cardinality(passed)
  <2>5. d \in Int /\ metrics[<<"agent_e2e", "fail_count">>].value = Count(d)
    BY <1>4, <2>2, <2>4
  <2> HIDE DEF d
  <2>6. d <= 0
    BY <2>3, <2>5, NoneCounted
  <2> QED BY <1>4, <2>1, <2>6, AllPassed DEF d
<1>9. routed \cap succeeded = succeeded
  <2>1. IsFiniteSet(succeeded)
    BY <1>4, FS_Subset
  <2> DEFINE part == routed \cap succeeded
             share == Share(Cardinality(part), Cardinality(succeeded))
  <2>2. part \subseteq succeeded
    OBVIOUS
  <2>3. metrics[<<"agent_e2e", "routing_accuracy">>].value = Number(share)
    BY <1>5, <1>7 DEF Read
  <2>4. Meets(metrics, <<"agent_e2e", "routing_accuracy">>, "gte", Number(1000))
    BY DEF metrics, report
  <2> HIDE DEF part, succeeded
  <2>5. share \in Int /\ (share >= 1000 <=> succeeded # {} /\ part = succeeded)
    BY <2>1, <2>2, FullShare
  <2> HIDE DEF share
  <2>6. share \in Int
    BY <2>5
  <2>7. share >= 1000
    BY <2>3, <2>4, <2>6 DEF Meets, Compare, Number
  <2> QED BY <2>5, <2>7 DEF part
<1> SUFFICES ASSUME NEW s \in ToSet(samples) PROVE RequestHolds(s)
  OBVIOUS
<1>10. PICK i \in DOMAIN samples : s = samples[i]
  BY DEF ToSet
<1>11. /\ s.response # None /\ ValidateSample(s.case, s.response) = {}
       /\ ChecksFailed(EndpointChecks(s)) = {}
  BY <1>1, <1>4, <1>8, <1>10
<1>12. s.response.code = 200 => s.case.agents \in {<<>>, s.response.agents}
  <2> SUFFICES ASSUME s.response.code = 200 PROVE s.case.agents \in {<<>>, s.response.agents}
    OBVIOUS
  <2>1. i \in succeeded
    BY <1>10
  <2>2. i \in routed
    BY <1>9, <2>1
  <2> QED BY <1>10, <2>2
<1> QED BY <1>11, <1>12, RequestPasses

(***************************************************************************)
(* Two versions of a prompt.                                               *)
(***************************************************************************)
LEMMA FoundIsFull ==
  ASSUME NEW expected, NEW words, IsFiniteSet(expected)
  PROVE  /\ Found(expected, words) \in Int
         /\ Found(expected, words) >= 1000 <=> expected \subseteq words
<1>1. CASE expected = {}
  BY <1>1 DEF Found
<1>2. CASE expected # {}
  <2> DEFINE part == expected \cap words
             share == Share(Cardinality(part), Cardinality(expected))
  <2>1. Found(expected, words) = share
    BY <1>2 DEF Found
  <2>2. part \subseteq expected /\ (part = expected <=> expected \subseteq words)
    OBVIOUS
  <2> HIDE DEF part
  <2>3. share \in Int /\ (share >= 1000 <=> expected # {} /\ part = expected)
    BY <2>2, FullShare
  <2> QED BY <1>2, <2>1, <2>2, <2>3
<1> QED BY <1>1, <1>2

LEMMA CoverageIsFull ==
  ASSUME NEW question, NEW response, IsFiniteSet(question.documents)
  PROVE  /\ CitationCoverage(question, response) \in Int
         /\ CitationCoverage(question, response) <= 1000
         /\ CitationCoverage(question, response) >= 1000 <=>
              question.documents # {} /\ question.documents \subseteq response.citations
<1> DEFINE whole == question.documents
           part == question.documents \cap response.citations
           share == Share(Cardinality(part), Cardinality(whole))
<1>1. CitationCoverage(question, response) = share
  BY DEF CitationCoverage
<1>2. part \subseteq whole /\ (part = whole <=> whole \subseteq response.citations)
  OBVIOUS
<1> HIDE DEF part
<1>3. share \in Int /\ share <= 1000 /\ (share >= 1000 <=> whole # {} /\ part = whole)
  BY <1>2, FullShare
<1> QED BY <1>1, <1>2, <1>3

PromptOK(s) == IsFiniteSet(s.question.documents) /\ IsFiniteSet(s.question.keywords)

LEMMA PromptPasses ==
  ASSUME NEW s, PromptOK(s), ~CaseFails(s), ~Regressed(CaseScores(s))
  PROVE  PromptHolds(s)
<1> DEFINE q == s.question
<1>1. \A version \in Versions : s.retrieved /\ Output(s, version) = s[version] /\ s[version] # None
  BY DEF CaseFails, Output
<1>2. s.retrieved /\ s.baseline # None /\ s.candidate # None
  BY <1>1 DEF Versions
<1>3. ASSUME ~s.ask
      PROVE  /\ q.keywords \subseteq s.baseline.words => q.keywords \subseteq s.candidate.words
             /\ q.documents \subseteq s.baseline.citations
                  => q.documents \subseteq s.candidate.citations
  <2> DEFINE old == Output(s, "baseline")
             new == Output(s, "candidate")
             same == (old = None) = (new = None)
             scores == CaseScores(s)
             before == scores["baseline"]
             after == scores["candidate"]
  <2>1. /\ before = [AnswerScores(q, old) EXCEPT !.retrieval_consistency = Truth(same)]
        /\ after = [AnswerScores(q, new) EXCEPT !.retrieval_consistency = Truth(same)]
    BY <1>3 DEF CaseScores, Versions
  <2>2. old = s.baseline /\ new = s.candidate /\ old # None /\ new # None
    BY <1>1 DEF Versions
  <2>3. \A m \in DOMAIN before : ~(after[m] < before[m])
    BY DEF Regressed
  <2> HIDE DEF same, scores, old, new, before, after
  <2>4. /\ {"keyword_coverage", "citation_coverage"} \subseteq DOMAIN before
        /\ before["keyword_coverage"] = Found(q.keywords, old.words)
        /\ after["keyword_coverage"] = Found(q.keywords, new.words)
        /\ before["citation_coverage"] = CitationCoverage(q, old)
        /\ after["citation_coverage"] = CitationCoverage(q, new)
    BY <2>1, <2>2 DEF AnswerScores
  <2>5. /\ ~(Found(q.keywords, new.words) < Found(q.keywords, old.words))
        /\ ~(CitationCoverage(q, new) < CitationCoverage(q, old))
    BY <2>3, <2>4
  <2>6. q.keywords \subseteq old.words => q.keywords \subseteq new.words
    <3>1. IsFiniteSet(q.keywords)
      BY DEF PromptOK
    <3>2. /\ Found(q.keywords, old.words) \in Int /\ Found(q.keywords, new.words) \in Int
          /\ Found(q.keywords, old.words) >= 1000 <=> q.keywords \subseteq old.words
          /\ Found(q.keywords, new.words) >= 1000 <=> q.keywords \subseteq new.words
      BY <3>1, FoundIsFull
    <3> QED BY <2>5, <3>2
  <2>7. q.documents \subseteq old.citations => q.documents \subseteq new.citations
    <3>1. IsFiniteSet(q.documents)
      BY DEF PromptOK
    <3>2. ASSUME NEW r \in {old, new}
          PROVE  /\ CitationCoverage(q, r) \in Int
                 /\ CitationCoverage(q, r) >= 1000 <=>
                      q.documents # {} /\ q.documents \subseteq r.citations
      BY <3>1, CoverageIsFull
    <3> QED BY <2>5, <3>2
  <2> QED BY <2>2, <2>6, <2>7
<1> QED BY <1>2, <1>3 DEF PromptHolds

LEMMA PromptSummaryIsRead ==
  ASSUME NEW report
  PROVE  \A n \in {"regressions", "failures"} :
           PromptRegressionMetrics(report)[<<"prompt_regression", "summary", n>>]
             = Read(Count(report.summary[n]))
<1> DEFINE s == report.summary
           values == [pass_rate |-> Rate(s.cases_run - s.regressions - s.failures, s.cases_run),
                      regressions |-> Count(s.regressions), failures |-> Count(s.failures),
                      passed |-> Count(IF s.passed THEN 1 ELSE 0)]
           summary == Prefixed(<<"prompt_regression", "summary">>, values)
<1>1. PICK compared : /\ PromptRegressionMetrics(report) = Updated(summary, compared)
                      /\ \A x \in DOMAIN compared : x[2] = "metric"
  <2> DEFINE sides == {"baseline", "candidate", "delta"}
             names == {<<"prompt_regression", "metric", m.name, side>> :
                         m \in report.metrics, side \in sides}
             compared == [name \in names |->
                            LET m == CHOOSE x \in report.metrics : x.name = name[3]
                            IN IF m[name[4]] = None THEN Unread ELSE Read(m[name[4]])]
  <2>1. PromptRegressionMetrics(report) = Updated(summary, compared)
    BY DEF PromptRegressionMetrics
  <2>2. \A x \in names : x[2] = "metric"
    OBVIOUS
  <2>3. DOMAIN compared = names
    OBVIOUS
  <2> HIDE DEF summary, compared, names
  <2> QED BY <2>1, <2>2, <2>3
<1>2. \A n \in {"regressions", "failures"} : n \in DOMAIN values /\ values[n] = Count(s[n])
  OBVIOUS
<1> HIDE DEF values, s
<1>3. ASSUME NEW n \in {"regressions", "failures"}
      PROVE  PromptRegressionMetrics(report)[<<"prompt_regression", "summary", n>>]
               = Read(Count(s[n]))
  <2> DEFINE id == <<"prompt_regression", "summary", n>>
  <2>1. id \in DOMAIN summary /\ summary[id] = Read(values[n])
    BY <1>2, PrefixedAt
  <2>2. id \notin DOMAIN compared
    BY <1>1
  <2> HIDE DEF id, summary
  <2>3. PromptRegressionMetrics(report)[id] = Read(values[n])
    BY <1>1, <2>1, <2>2, UpdatedAt
  <2> QED BY <1>2, <2>3 DEF id
<1> QED BY <1>3 DEF s

LEMMA PromptsHold ==
  ASSUME NEW samples, samples \in Seq(ToSet(samples)), \A s \in ToSet(samples) : PromptOK(s),
         \A n \in {"regressions", "failures"} :
           Meets(PromptRegressionMetrics(PromptRegressionReport(samples)),
                 <<"prompt_regression", "summary", n>>, "lte", Count(0))
  PROVE  \A s \in ToSet(samples) : PromptHolds(s)
<1> DEFINE report == PromptRegressionReport(samples)
           metrics == PromptRegressionMetrics(report)
           cases == [i \in DOMAIN samples |-> CaseScores(samples[i])]
           regressed == {i \in DOMAIN samples : Regressed(cases[i])}
           failed == {i \in DOMAIN samples : CaseFails(samples[i])}
<1>1. /\ report.summary.regressions = Cardinality(regressed)
      /\ report.summary.failures = Cardinality(failed)
  BY DEF PromptRegressionReport
<1>2. IsFiniteSet(regressed) /\ IsFiniteSet(failed)
  <2>1. Len(samples) \in Nat /\ DOMAIN samples = 1..Len(samples)
    OBVIOUS
  <2>2. IsFiniteSet(DOMAIN samples)
    BY <2>1, FS_Interval
  <2> QED BY <2>2, FS_Subset
<1> HIDE DEF report, regressed, failed
<1>3. ASSUME NEW n \in {"regressions", "failures"}, NEW S, IsFiniteSet(S),
             report.summary[n] = Cardinality(S)
      PROVE  S = {}
  <2> DEFINE id == <<"prompt_regression", "summary", n>>
  <2>1. metrics[id] = Read(Count(report.summary[n]))
    BY PromptSummaryIsRead
  <2>2. Meets(metrics, id, "lte", Count(0))
    BY DEF report
  <2> HIDE DEF id, metrics
  <2> DEFINE d == Cardinality(S)
  <2>3. d \in Nat /\ metrics[id].value = Count(d)
    BY <1>3, <2>1, FS_CardinalityType DEF Read
  <2>4. d = 0 => S = {}
    BY <1>3, FS_EmptySet
  <2> HIDE DEF d
  <2>5. d <= 0
    BY <2>2, <2>3, NoneCounted
  <2> QED BY <2>3, <2>4, <2>5
<1>4. regressed = {} /\ failed = {}
  BY <1>1, <1>2, <1>3
<1> SUFFICES ASSUME NEW t \in ToSet(samples) PROVE PromptHolds(t)
  OBVIOUS
<1>5. PICK i \in DOMAIN samples : t = samples[i]
  BY DEF ToSet
<1>6. ~CaseFails(t) /\ ~Regressed(CaseScores(t))
  BY <1>4, <1>5 DEF regressed, failed
<1> QED BY <1>6, PromptPasses

(***************************************************************************)
(* Texts.  What a case is found wrong in is finite, and what is counted of *)
(* a category is none when there is no finding of it.                      *)
(***************************************************************************)
TextOK(case) ==
  /\ IsFiniteSet(case.claims) /\ case.citations \in Seq(ToSet(case.citations))
  /\ case.canonical \in {None, TRUE, FALSE}

LEMMA OneAtMost ==
  ASSUME NEW x, NEW S, S \subseteq {x}
  PROVE  IsFiniteSet(S)
  BY FS_Singleton, FS_Subset

\* The findings of one kind about some claims.
About(category, severity, detector, X) ==
  {Finding(category, severity, <<"claim", c.id>>, detector) : c \in X}

LEMMA ClaimFindings ==
  ASSUME NEW category, NEW severity, NEW detector, NEW S, IsFiniteSet(S), NEW X, X \subseteq S
  PROVE  IsFiniteSet(About(category, severity, detector, X))
<1> DEFINE f == [c \in X |-> Finding(category, severity, <<"claim", c.id>>, detector)]
<1>1. IsFiniteSet(X)
  BY FS_Subset
<1>2. DOMAIN f = X /\ {f[c] : c \in X}
                        = {Finding(category, severity, <<"claim", c.id>>, detector) : c \in X}
  OBVIOUS
<1> HIDE DEF f
<1>3. IsFiniteSet({f[c] : c \in X})
  BY <1>1, <1>2, ImageIsFinite
<1> QED BY <1>2, <1>3 DEF About

LEMMA CitationFindings ==
  ASSUME NEW case, TextOK(case)
  PROVE  IsFiniteSet(CitationPresence(case)) /\ IsFiniteSet(CitationSupport(case))
<1>1. IsFiniteSet(CitationPresence(case))
  <2> DEFINE one == Finding("citation_missing", "high", <<"required">>, "citation_presence")
  <2>1. CitationPresence(case) \subseteq {one}
    BY DEF CitationPresence
  <2> HIDE DEF one
  <2> QED BY <2>1, OneAtMost
<1>2. IsFiniteSet(CitationSupport(case))
  <2> DEFINE X == Unsupporting(case)
             told(i) == Finding("citation_does_not_support_claim", "high",
                          <<"citation", IF case.canonical = None THEN case.citations[i] ELSE i>>,
                          "citation_support")
             f == [i \in X |-> told(i)]
             n == Len(case.citations)
  <2>1. n \in Nat /\ DOMAIN case.citations = 1..n
    BY DEF TextOK
  <2>2. X \subseteq 1..n
    BY <2>1 DEF Unsupporting
  <2> HIDE DEF n, X
  <2>6. IsFiniteSet(1..n)
    BY <2>1, FS_Interval
  <2>3. IsFiniteSet(X)
    BY <2>2, <2>6, FS_Subset
  <2>4. CitationSupport(case) = {told(i) : i \in X}
    BY DEF CitationSupport, X
  <2> HIDE DEF told
  <2>5. CitationSupport(case) = {f[i] : i \in X} /\ DOMAIN f = X
    BY <2>4
  <2> HIDE DEF f
  <2> QED BY <2>3, <2>5, ImageIsFinite
<1> QED BY <1>1, <1>2

LEMMA ClaimChecksFindings ==
  ASSUME NEW case, TextOK(case)
  PROVE  /\ IsFiniteSet(NumericalGrounding(case)) /\ IsFiniteSet(FinancialClaims(case))
         /\ IsFiniteSet(StatisticalClaims(case)) /\ IsFiniteSet(EvidenceCoverage(case))
<1>0. IsFiniteSet(case.claims)
  BY DEF TextOK
<1>1. IsFiniteSet(NumericalGrounding(case))
  <2> DEFINE X == {c \in case.claims :
                     /\ case.numbers # {}
                     /\ c.says \cap ({"financial", "finance_word"} \cup Statistical) = {}
                     /\ \E n \in c.numbers : ~Grounded(n, case.numbers)}
             Y == {c \in X : "result" \in c.says}
             A == About("unsupported_numerical_claim", "high", "numerical_grounding", X)
             B == About("fabricated_experiment_result", "high", "numerical_grounding", Y)
  <2>1. X \subseteq case.claims /\ Y \subseteq case.claims
    OBVIOUS
  <2>2. NumericalGrounding(case) = A \cup B
    BY DEF NumericalGrounding, About
  <2> HIDE DEF X, Y
  <2>3. IsFiniteSet(A) /\ IsFiniteSet(B)
    BY <1>0, <2>1, ClaimFindings
  <2> HIDE DEF A, B
  <2> QED BY <2>2, <2>3, FS_Union
<1>2. IsFiniteSet(FinancialClaims(case))
  <2> DEFINE X == {x \in case.claims :
                     /\ "financial" \in x.says /\ ~Abstaining(x)
                     /\ \/ case.amounts = {}
                        \/ \E a \in x.amounts : ~Grounded(a, case.amounts)}
  <2>1. X \subseteq case.claims
    OBVIOUS
  <2>2. FinancialClaims(case) =
         About("fabricated_revenue_or_roi", "critical", "financial_guardrails", X)
    BY DEF FinancialClaims, About
  <2> HIDE DEF X
  <2> QED BY <1>0, <2>1, <2>2, ClaimFindings
<1>3. IsFiniteSet(StatisticalClaims(case))
  <2> DEFINE X == {x \in case.claims : ~Abstaining(x) /\ UngroundedStatistics(case, x)}
  <2>1. X \subseteq case.claims
    OBVIOUS
  <2>2. StatisticalClaims(case) =
         About("fabricated_statistical_significance", "critical", "statistical_validation", X)
    BY DEF StatisticalClaims, About
  <2> HIDE DEF X
  <2> QED BY <1>0, <2>1, <2>2, ClaimFindings
<1>4. IsFiniteSet(EvidenceCoverage(case))
  <2> DEFINE X == {x \in case.claims :
                     /\ x.numbers = {} /\ x.says \cap {"financial", "finance_word"} = {}
                     /\ Cardinality(x.words) >= 2 /\ x.words \cap case.support = {}
                     /\ x.says \cap {"rollout", "approved"} # {}}
  <2>1. X \subseteq case.claims
    OBVIOUS
  <2>2. EvidenceCoverage(case) =
         About("unsupported_factual_claim", "medium", "evidence_coverage", X)
    BY DEF EvidenceCoverage, About
  <2> HIDE DEF X
  <2> QED BY <1>0, <2>1, <2>2, ClaimFindings
<1> QED BY <1>1, <1>2, <1>3, <1>4

LEMMA TextFindings ==
  ASSUME NEW case, TextOK(case)
  PROVE  IsFiniteSet(EvaluateFactuality(case).findings)
<1>1. CASE case.canonical # None
  <2> DEFINE one == Finding("contradiction_with_structured_experiment_data", "critical",
                            <<"presentation">>, "structured_analysis_canonical")
  <2>1. Presentation(case) \subseteq {one}
    BY DEF Presentation
  <2> HIDE DEF one
  <2>2. IsFiniteSet(Presentation(case))
    BY <2>1, OneAtMost
  <2>3. IsFiniteSet(CitationPresence(case) \cup CitationSupport(case))
    BY CitationFindings, FS_Union
  <2>4. IsFiniteSet((CitationPresence(case) \cup CitationSupport(case)) \cup Presentation(case))
    BY <2>2, <2>3, FS_Union
  <2> QED BY <1>1, <2>4 DEF EvaluateFactuality
<1>2. CASE case.canonical = None
  <2> DEFINE abstained == Finding("answer_generated_when_abstention_was_expected", "high",
                                  <<"answer">>, "abstention")
             confident == Finding("overconfident_answer_with_insufficient_evidence", "high",
                                  <<"answer">>, "abstention")
             contradicted == Finding("contradiction_with_structured_experiment_data", "critical",
                                     <<"answer">>, "structured_consistency")
             all == <<CitationPresence(case), CitationSupport(case), NumericalGrounding(case),
                      FinancialClaims(case), StatisticalClaims(case), Abstention(case),
                      StructuredConsistency(case), EvidenceCoverage(case)>>
  <2>1. /\ Abstention(case) \subseteq {abstained} \cup {confident}
        /\ StructuredConsistency(case) \subseteq {contradicted}
    BY DEF Abstention, StructuredConsistency
  <2> HIDE DEF abstained, confident, contradicted
  <2>2. IsFiniteSet(Abstention(case)) /\ IsFiniteSet(StructuredConsistency(case))
    BY <2>1, FS_Singleton, FS_Union, FS_Subset
  <2> DEFINE A == CitationPresence(case) \cup CitationSupport(case)
             B == NumericalGrounding(case) \cup FinancialClaims(case)
             C == StatisticalClaims(case) \cup Abstention(case)
             D == StructuredConsistency(case) \cup EvidenceCoverage(case)
  <2>3. EvaluateFactuality(case).findings = (A \cup B) \cup (C \cup D)
    BY <1>2 DEF EvaluateFactuality
  <2>4. IsFiniteSet(A)
    BY CitationFindings, FS_Union
  <2>5. IsFiniteSet(B)
    BY ClaimChecksFindings, FS_Union
  <2>6. IsFiniteSet(C)
    BY <2>2, ClaimChecksFindings, FS_Union
  <2>7. IsFiniteSet(D)
    BY <2>2, ClaimChecksFindings, FS_Union
  <2> HIDE DEF A, B, C, D
  <2> QED BY <2>3, <2>4, <2>5, <2>6, <2>7, FS_Union
<1> QED BY <1>1, <1>2

\* What a count says that may lack a key.
NumberOf(counts, key) == IF key \in DOMAIN counts THEN counts[key] ELSE 0

LEMMA TallyCounts ==
  ASSUME NEW results, IsFiniteSet(DOMAIN results),
         \A i \in DOMAIN results : IsFiniteSet(results[i].findings), NEW c
  PROVE  /\ NumberOf(Tally(results, "category"), c) \in Nat
         /\ NumberOf(Tally(results, "category"), c) <= 0 =>
              \A i \in DOMAIN results : \A f \in results[i].findings : f.category # c
<1> DEFINE pairs(i) == {<<i, f>> : f \in results[i].findings}
           sets == [i \in DOMAIN results |-> pairs(i)]
           own == UNION {pairs(i) : i \in DOMAIN results}
           part == {p \in own : p[2].category = c}
           keys == {p[2].category : p \in own}
<1>1. Tally(results, "category")
        = [k \in keys |-> Cardinality({p \in own : p[2].category = k})]
  BY DEF Tally
<1>2. ASSUME NEW i \in DOMAIN results PROVE IsFiniteSet(pairs(i))
  <2> DEFINE g == [f \in results[i].findings |-> <<i, f>>]
  <2>1. DOMAIN g = results[i].findings /\ pairs(i) = {g[f] : f \in results[i].findings}
    OBVIOUS
  <2> HIDE DEF g, pairs
  <2> QED BY <2>1, ImageIsFinite
<1>3. \A i \in DOMAIN results : \A f \in results[i].findings : <<i, f>> \in own
  OBVIOUS
<1>4. IsFiniteSet(own)
  <2> HIDE DEF pairs
  <2>1. DOMAIN sets = DOMAIN results /\ {sets[i] : i \in DOMAIN results}
                                          = {pairs(i) : i \in DOMAIN results}
    OBVIOUS
  <2> HIDE DEF sets
  <2>2. IsFiniteSet({pairs(i) : i \in DOMAIN results})
    BY <2>1, ImageIsFinite
  <2> QED BY <1>2, <2>2, FS_UNION
<1> HIDE DEF own, pairs, sets
<1> DEFINE d == Cardinality(part)
<1>5. d \in Nat /\ (d = 0 => part = {})
  <2>1. IsFiniteSet(part)
    BY <1>4, FS_Subset
  <2> HIDE DEF part
  <2> QED BY <2>1, FS_CardinalityType, FS_EmptySet
<1>6. NumberOf(Tally(results, "category"), c) = IF c \in keys THEN d ELSE 0
  BY <1>1 DEF NumberOf
<1>7. c \notin keys => part = {}
  OBVIOUS
<1>8. \A i \in DOMAIN results : \A f \in results[i].findings :
        f.category = c => <<i, f>> \in part
  BY <1>3
<1>9. \/ c \in keys /\ NumberOf(Tally(results, "category"), c) = d
      \/ part = {} /\ NumberOf(Tally(results, "category"), c) = 0
  BY <1>6, <1>7
<1> HIDE DEF d, part, keys
<1> DEFINE told == NumberOf(Tally(results, "category"), c)
<1>10. told \in Nat /\ (told <= 0 => part = {})
  <2> HIDE DEF told
  <2>1. (c \in keys /\ told = d) \/ (part = {} /\ told = 0)
    BY <1>9 DEF told
  <2> QED BY <1>5, <2>1
<1> HIDE DEF told
<1>11. told <= 0 => \A i \in DOMAIN results : \A f \in results[i].findings : f.category # c
  BY <1>8, <1>10
<1> QED BY <1>10, <1>11 DEF told

LEMMA FindingsAreRead ==
  ASSUME NEW report, NEW c \in FactualityCategories
  PROVE  FactualityMetrics(report)[<<"factuality", "findings", c>>]
           = Read(Count(NumberOf(report.categories, c)))
<1> DEFINE status == Prefixed(<<"factuality">>, [policy_status |-> Text(report.policy_status)])
           findings == [k \in FactualityCategories |-> Count(NumberOf(report.categories, k))]
           severities == [k \in {"low", "medium", "high", "critical"} |->
                            Count(NumberOf(report.severities, k))]
           cases == [k \in {"pass", "warning", "fail", "skipped"} |->
                       Count(NumberOf(report.statuses, k))]
           first == Prefixed(<<"factuality", "findings">>, findings)
           second == Prefixed(<<"factuality", "severity">>, severities)
           third == Prefixed(<<"factuality", "case_status">>, cases)
           id == <<"factuality", "findings", c>>
<1>1. FactualityMetrics(report) = Updated(Updated(status, first), Updated(second, third))
  <2>1. \A prefix, keys, counts :
          Counted(prefix, keys, counts)
            = Prefixed(prefix, [k \in keys |-> Count(NumberOf(counts, k))])
    BY DEF Counted, NumberOf
  <2>2. /\ Counted(<<"factuality", "findings">>, FactualityCategories, report.categories) = first
        /\ Counted(<<"factuality", "severity">>, {"low", "medium", "high", "critical"},
                   report.severities) = second
        /\ Counted(<<"factuality", "case_status">>, {"pass", "warning", "fail", "skipped"},
                   report.statuses) = third
    BY <2>1
  <2> HIDE DEF status, first, second, third
  <2> QED BY <2>2 DEF FactualityMetrics, status
<1>2. c \in DOMAIN findings /\ findings[c] = Count(NumberOf(report.categories, c))
  OBVIOUS
<1> HIDE DEF status, findings, severities, cases
<1>3. id \in DOMAIN first /\ first[id] = Read(Count(NumberOf(report.categories, c)))
  BY <1>2, PrefixedAt
<1>4. id \notin DOMAIN second
  <2>1. \A x \in DOMAIN second : x[2] = "severity"
    BY PrefixedBy
  <2> HIDE DEF second
  <2> QED BY <2>1
<1>5. id \notin DOMAIN third
  <2>1. \A x \in DOMAIN third : x[2] = "case_status"
    BY PrefixedBy
  <2> HIDE DEF third
  <2> QED BY <2>1
<1> HIDE DEF first, second, third, id
<1>6. id \notin DOMAIN Updated(second, third)
  BY <1>4, <1>5, UpdatedAt
<1>7. id \in DOMAIN Updated(status, first)
        /\ Updated(status, first)[id] = Read(Count(NumberOf(report.categories, c)))
  BY <1>3, UpdatedAt
<1>8. FactualityMetrics(report)[id] = Read(Count(NumberOf(report.categories, c)))
  BY <1>1, <1>6, <1>7, UpdatedAt
<1> QED BY <1>8 DEF id

Fabrications == {"fabricated_revenue_or_roi", "fabricated_statistical_significance",
                 "contradiction_with_structured_experiment_data"}

LEMMA TextPasses ==
  ASSUME NEW s, s.answer # None, TextOK(s.answer),
         \A f \in EvaluateFactuality(s.answer).findings : f.category \notin Fabrications
  PROVE  TextHolds(s)
<1> DEFINE case == s.answer
           findings == EvaluateFactuality(case).findings
<1>1. CASE case.canonical # None
  <2> DEFINE one == Finding("contradiction_with_structured_experiment_data", "critical",
                            <<"presentation">>, "structured_analysis_canonical")
  <2>1. one.category \in Fabrications
    BY DEF Finding, Fabrications
  <2>2. case.canonical = FALSE => one \in findings
    <3>1. Presentation(case) \subseteq findings
      BY <1>1 DEF EvaluateFactuality
    <3>2. case.canonical = FALSE => one \in Presentation(case)
      BY DEF Presentation
    <3> QED BY <3>1, <3>2
  <2> HIDE DEF one
  <2>3. case.canonical = TRUE
    BY <1>1, <2>1, <2>2 DEF TextOK
  <2> QED BY <1>1, <2>3 DEF TextHolds
<1>2. CASE case.canonical = None
  <2>1. FinancialClaims(case) \subseteq findings /\ StatisticalClaims(case) \subseteq findings
    BY <1>2 DEF EvaluateFactuality
  <2> HIDE DEF findings
  <2> SUFFICES ASSUME NEW c \in case.claims, "abstains" \notin c.says
               PROVE  /\ "financial" \in c.says =>
                           case.amounts # {} /\ \A a \in c.amounts : Grounded(a, case.amounts)
                      /\ "significant" \in c.says => case.significant
    BY <1>2 DEF TextHolds
  <2>2. ~Abstaining(c)
    BY DEF Abstaining
  <2>3. ASSUME "financial" \in c.says
        PROVE  case.amounts # {} /\ \A a \in c.amounts : Grounded(a, case.amounts)
    <3> DEFINE one == Finding("fabricated_revenue_or_roi", "critical", <<"claim", c.id>>,
                              "financial_guardrails")
    <3>1. one.category \in Fabrications
      BY DEF Finding, Fabrications
    <3>2. ASSUME case.amounts = {} \/ \E a \in c.amounts : ~Grounded(a, case.amounts)
          PROVE  one \in FinancialClaims(case)
      BY <2>2, <2>3, <3>2 DEF FinancialClaims
    <3> HIDE DEF one
    <3>3. one \notin findings
      BY <3>1 DEF findings
    <3> QED BY <2>1, <3>2, <3>3
  <2>4. ASSUME "significant" \in c.says PROVE case.significant
    <3> DEFINE one == Finding("fabricated_statistical_significance", "critical",
                              <<"claim", c.id>>, "statistical_validation")
    <3>1. one.category \in Fabrications
      BY DEF Finding, Fabrications
    <3>2. ASSUME ~case.significant PROVE one \in StatisticalClaims(case)
      <4>1. UngroundedStatistics(case, c)
        BY <2>4, <3>2 DEF UngroundedStatistics
      <4> QED BY <2>2, <4>1 DEF StatisticalClaims
    <3> HIDE DEF one
    <3>3. one \notin findings
      BY <3>1 DEF findings
    <3> QED BY <2>1, <3>2, <3>3
  <2> QED BY <2>3, <2>4
<1> QED BY <1>1, <1>2

LEMMA TextsHold ==
  ASSUME NEW samples, NEW policy, NEW judged, samples \in Seq(ToSet(samples)),
         \A s \in ToSet(samples) : s.answer # None => TextOK(s.answer),
         \A c \in Fabrications :
           Meets(FactualityMetrics(FactualityReport(samples, policy, judged)),
                 <<"factuality", "findings", c>>, "lte", Count(0))
  PROVE  \A s \in ToSet(samples) : TextHolds(s)
<1> DEFINE cases == FactualityCases(samples)
           results == [i \in DOMAIN cases |-> EvaluateFactuality(cases[i])]
           report == FactualityReport(samples, policy, judged)
           metrics == FactualityMetrics(report)
           of == {j \in DOMAIN samples : samples[j].answer # None}
<1>1. report.categories = Tally(results, "category")
  BY DEF FactualityReport
<1>2. DOMAIN cases = of /\ \A i \in of : cases[i] = samples[i].answer
  BY DEF FactualityCases
<1>3. IsFiniteSet(of)
  <2> DEFINE n == Len(samples)
  <2>1. n \in Nat /\ DOMAIN samples = 1..n
    OBVIOUS
  <2>2. of \subseteq 1..n
    BY <2>1
  <2> HIDE DEF n, of
  <2>3. IsFiniteSet(1..n)
    BY <2>1, FS_Interval
  <2> QED BY <2>2, <2>3, FS_Subset
<1> HIDE DEF report, cases
<1>4. DOMAIN results = of /\ \A i \in of : results[i] = EvaluateFactuality(samples[i].answer)
  BY <1>2
<1> HIDE DEF results
<1>5. \A i \in of : TextOK(samples[i].answer)
  BY DEF ToSet
<1>6. \A i \in DOMAIN results : IsFiniteSet(results[i].findings)
  BY <1>4, <1>5, TextFindings
<1>7. ASSUME NEW c \in Fabrications
      PROVE  \A i \in DOMAIN results : \A f \in results[i].findings : f.category # c
  <2> DEFINE id == <<"factuality", "findings", c>>
             told == NumberOf(Tally(results, "category"), c)
  <2>1. c \in FactualityCategories
    BY DEF Fabrications, FactualityCategories
  <2>2. metrics[id] = Read(Count(told))
    BY <1>1, <2>1, FindingsAreRead
  <2>3. Meets(metrics, id, "lte", Count(0))
    BY DEF report
  <2>4. told \in Nat /\ (told <= 0 =>
          \A i \in DOMAIN results : \A f \in results[i].findings : f.category # c)
    BY <1>3, <1>4, <1>6, TallyCounts
  <2> HIDE DEF metrics, id, told
  <2>5. metrics[id].value = Count(told)
    BY <2>2 DEF Read
  <2>6. told <= 0
    BY <2>3, <2>4, <2>5, NoneCounted
  <2> QED BY <2>4, <2>6
<1> SUFFICES ASSUME NEW s \in ToSet(samples) PROVE TextHolds(s)
  OBVIOUS
<1>8. PICK i \in DOMAIN samples : s = samples[i]
  BY DEF ToSet
<1>9. CASE s.answer = None
  BY <1>9 DEF TextHolds
<1>10. CASE s.answer # None
  <2>1. i \in of /\ TextOK(s.answer) /\ results[i] = EvaluateFactuality(s.answer)
    BY <1>4, <1>8, <1>10
  <2>2. \A f \in EvaluateFactuality(s.answer).findings : f.category \notin Fabrications
    BY <1>4, <1>7, <2>1
  <2> QED BY <1>10, <2>1, <2>2, TextPasses
<1> QED BY <1>9, <1>10

(***************************************************************************)
(* Questions.                                                              *)
(***************************************************************************)
LEMMA AverageIsNumber ==
  ASSUME NEW S, IsFiniteSet(S), S # {}, NEW f \in Scores(S)
  PROVE  SumFunction(f) \div Cardinality(S) \in Int
<1> DEFINE n == Cardinality(S)
           sum == SumsOf(f)[S]
<1>1. n \in Nat /\ n # 0
  BY FS_CardinalityType, FS_EmptySet
<1>2. SumFunction(f) = sum /\ sum \in Int
  BY SumIsRecursive, SumsAreNumbers DEF Scores
<1> HIDE DEF n, sum
<1>3. sum \div n \in Int
  BY <1>1, <1>2
<1> QED BY <1>2, <1>3 DEF n

LEMMA ShareIsBounded ==
  ASSUME NEW p \in Nat, NEW w \in Nat
  PROVE  Share(p, w) \in Int /\ (p <= w => Share(p, w) <= 1000)
<1>1. CASE w = 0
  BY <1>1 DEF Share
<1>2. CASE w # 0
  <2>1. Share(p, w) = (1000 * p) \div w
    BY <1>2 DEF Share
  <2>2. (1000 * p) \div w \in Int
    BY <1>2
  <2>3. p <= w => (1000 * p) \div w <= 1000
    BY <1>2
  <2> QED BY <2>1, <2>2, <2>3
<1> QED BY <1>1, <1>2

\* What the overlap of identifiers comes to: every document that was expected
\* was retrieved, for each question that was answered.
LEMMA RecallIsFull ==
  ASSUME NEW samples, samples \in Seq(ToSet(samples)),
         \A s \in ToSet(samples) : IsFiniteSet(s.question.documents),
         Meets(RagasMetrics(RagasReport(samples, None)),
               <<"ragas", "id_based_context_recall">>, "gte", Number(1000))
  PROVE  \A s \in ToSet(samples) :
           s.response # None => s.question.documents # {} /\ s.response.retrieved # {}
<1> DEFINE report == RagasReport(samples, None)
           metrics == RagasMetrics(report)
           results == report.metric_results
           of == Answered(samples)
           recall == "id_based_context_recall"
           id == <<"ragas", recall>>
           score == [i \in of |-> IdRecall(samples[i])]
           result == OfflineRagas(recall, of, score)
           total == Average(score)
<1>1. IsFiniteSet(of) /\ of = {i \in DOMAIN samples : samples[i].response # None}
  <2> DEFINE n == Len(samples)
  <2>1. of = {i \in DOMAIN samples : samples[i].response # None}
    BY DEF Answered
  <2>2. n \in Nat /\ DOMAIN samples = 1..n
    OBVIOUS
  <2>3. of \subseteq 1..n
    BY <2>1, <2>2
  <2> HIDE DEF n, of
  <2>4. IsFiniteSet(1..n)
    BY <2>2, FS_Interval
  <2> QED BY <2>1, <2>3, <2>4, FS_Subset
<1>2. result \in results /\ \A r \in results : r.name = recall <=> r = result
  <2>1. \A name, e, s : OfflineRagas(name, e, s).name = name
    BY DEF OfflineRagas, RagasResult
  <2>2. \A name, e : JudgedRagas(name, e, None).name = name
    BY DEF JudgedRagas, RagasResult
  <2> DEFINE other == OfflineRagas("id_based_context_precision", of,
                                   [i \in of |-> IdPrecision(samples[i])])
  <2>3. results = {other, result} \cup {JudgedRagas(name, of, None) : name \in RagasJudgeMetrics}
    BY DEF RagasReport
  <2>4. recall \notin RagasJudgeMetrics
    BY DEF RagasJudgeMetrics
  <2>5. other.name # recall /\ result.name = recall
    BY <2>1
  <2> HIDE DEF other, result, results, of, recall
  <2> QED BY <2>2, <2>3, <2>4, <2>5
<1>3. metrics # None /\ id \in DOMAIN metrics /\ metrics[id].status # "skipped"
  BY DEF Meets
<1>4. metrics[id] = IF result.status = "skipped" THEN Unread ELSE Read(result.average)
  <2> DEFINE chosen(name) == CHOOSE x \in results : x.name = name[2]
             names == {<<"ragas", m.name>> : m \in results}
  <2>1. metrics = [name \in names |->
                     IF chosen(name).status = "skipped" THEN Unread
                     ELSE Read(chosen(name).average)]
    <3> HIDE DEF report, id
    <3> QED BY <1>3 DEF RagasMetrics
  <2>2. chosen(id) = result
    <3>1. id[2] = recall
      OBVIOUS
    <3> HIDE DEF id, result, results, recall
    <3> QED BY <1>2, <3>1
  <2>3. id \in names
    <3>1. result.name = recall
      BY <1>2
    <3> HIDE DEF result, results, recall
    <3> QED BY <1>2, <3>1
  <2> HIDE DEF chosen, names, metrics, id, result
  <2> QED BY <2>1, <2>2, <2>3
<1>5. of # {} /\ result.status = "computed" /\ result.average = Number(total)
  <2>1. of = {} => result.status = "skipped"
    BY DEF OfflineRagas, RagasResult
  <2>2. of # {} => result.status = "computed" /\ result.average = Number(total)
    BY DEF OfflineRagas, RagasResult
  <2> HIDE DEF result, of, metrics, total
  <2> QED BY <1>3, <1>4, <2>1, <2>2 DEF Unread
<1>6. metrics[id].value = Number(total)
  <2> HIDE DEF metrics, id, result, total
  <2> QED BY <1>4, <1>5 DEF Read
<1>7. \A i \in of : /\ IsFiniteSet(samples[i].question.documents)
                    /\ score[i] = IdRecall(samples[i])
  BY <1>1 DEF ToSet
<1>8. ASSUME NEW i \in of
      PROVE  /\ score[i] \in Int /\ score[i] <= 1000
             /\ score[i] >= 1000 => /\ samples[i].question.documents # {}
                                    /\ samples[i].response.retrieved # {}
  <2> DEFINE whole == samples[i].question.documents
             part == samples[i].response.retrieved \cap whole
             share == Share(Cardinality(part), Cardinality(whole))
  <2>1. score[i] = share
    BY <1>7 DEF IdRecall
  <2>2. part \subseteq whole /\ IsFiniteSet(whole)
    BY <1>7
  <2>3. whole # {} /\ part = whole => samples[i].response.retrieved # {}
    OBVIOUS
  <2> HIDE DEF part, score
  <2>4. share \in Int /\ share <= 1000 /\ (share >= 1000 <=> whole # {} /\ part = whole)
    BY <2>2, FullShare
  <2> HIDE DEF share
  <2> QED BY <2>1, <2>3, <2>4
<1> DEFINE mean == SumFunction(score) \div Cardinality(of)
<1>9. DOMAIN score = of /\ score \in Scores(of)
  <2>1. score = [i \in of |-> score[i]]
    OBVIOUS
  <2> HIDE DEF score
  <2> QED BY <1>8, <2>1 DEF Scores
<1>10. total = mean
  <2> HIDE DEF score
  <2> QED BY <1>5, <1>9 DEF Average
<1> HIDE DEF score, total, of
<1>11. mean \in Int
  BY <1>1, <1>5, <1>9, AverageIsNumber
<1>12. Meets(metrics, id, "gte", Number(1000))
  OBVIOUS
<1> HIDE DEF mean, metrics, id
<1>13. mean >= 1000
  <2>1. metrics[id].value = Number(mean)
    BY <1>6, <1>10
  <2> QED BY <2>1, <1>11, <1>12 DEF Meets, Compare, Number
<1>14. \A i \in of : score[i] = 1000
  BY <1>1, <1>9, <1>13, FullAverage DEF mean
<1> SUFFICES ASSUME NEW s \in ToSet(samples), s.response # None
             PROVE  s.question.documents # {} /\ s.response.retrieved # {}
  OBVIOUS
<1>15. PICK i \in DOMAIN samples : s = samples[i]
  BY DEF ToSet
<1>16. i \in of
  BY <1>1, <1>15
<1>17. score[i] = 1000
  BY <1>14, <1>16
<1> QED BY <1>8, <1>15, <1>16, <1>17

\* A score, as a number of thousandths.
Bounded(x) == x \in Int /\ x <= 1000

LEMMA QuestionScore ==
  ASSUME NEW s, IsFiniteSet(s.question.documents)
  PROVE  LET x == ResponseScores(PreparedQuestion(s))["citation_coverage"]
         IN /\ "citation_coverage" \in DOMAIN ResponseScores(PreparedQuestion(s))
            /\ Bounded(x)
            /\ x = 1000 => /\ s.response # None
                           /\ s.question.documents \subseteq s.response.citations
<1> DEFINE case == PreparedQuestion(s)
           x == ResponseScores(case)["citation_coverage"]
<1>1. "citation_coverage" \in DOMAIN ResponseScores(case) /\ x = case.coverage
  <2> HIDE DEF case
  <2> QED BY DEF ResponseScores
<1>2. case.coverage = IF s.response # None THEN CitationCoverage(s.question, s.response) ELSE 0
  BY DEF PreparedQuestion
<1> HIDE DEF x, case
<1>3. CASE s.response = None
  BY <1>1, <1>2, <1>3 DEF Bounded, x, case
<1>4. CASE s.response # None
  <2> DEFINE c == CitationCoverage(s.question, s.response)
  <2>1. x = c
    BY <1>1, <1>2, <1>4
  <2>2. /\ c \in Int /\ c <= 1000
        /\ c >= 1000 <=>
             s.question.documents # {} /\ s.question.documents \subseteq s.response.citations
    BY CoverageIsFull
  <2> HIDE DEF c
  <2>3. Bounded(x)
    BY <2>1, <2>2 DEF Bounded
  <2>4. x = 1000 => s.question.documents \subseteq s.response.citations
    BY <2>1, <2>2
  <2> QED BY <1>1, <1>4, <2>3, <2>4 DEF x, case
<1> QED BY <1>3, <1>4

LEMMA RequestScore ==
  ASSUME NEW s, s.case.citations \in Nat, s.response.citations \in Nat
  PROVE  /\ "citation_coverage" \in DOMAIN ResponseScores(PreparedRequest(s))
         /\ Bounded(ResponseScores(PreparedRequest(s))["citation_coverage"])
<1> DEFINE case == PreparedRequest(s)
           enough == EnoughCited(s.case, s.response)
<1>1. /\ "citation_coverage" \in DOMAIN ResponseScores(case)
      /\ ResponseScores(case)["citation_coverage"] = case.coverage
  <2> HIDE DEF case
  <2> QED BY DEF ResponseScores
<1>2. case.coverage = enough
  BY DEF PreparedRequest
<1>3. Bounded(enough)
  <2> DEFINE share == Share(s.response.citations, s.case.citations)
  <2>1. share \in Int
    BY ShareIsBounded
  <2>2. enough = 1000 \/ enough = Least(share, 1000)
    BY DEF EnoughCited
  <2> HIDE DEF share, enough
  <2> QED BY <2>1, <2>2 DEF Bounded, Least
<1> QED BY <1>1, <1>2, <1>3

LEMMA WorkflowScore ==
  ASSUME NEW s, CaseOK(s)
  PROVE  /\ "citation_coverage" \in DOMAIN WorkflowScores(s)
         /\ Bounded(WorkflowScores(s)["citation_coverage"])
<1> DEFINE x == WorkflowScores(s)["citation_coverage"]
           enough == EnoughCitations(s.case.citations, s.observation.citations)
<1>1. /\ "citation_coverage" \in DOMAIN WorkflowScores(s)
      /\ s.observation = None => x = 0
      /\ s.observation # None => x = enough
  BY DEF WorkflowScores
<1> HIDE DEF x
<1>2. CASE s.observation = None
  BY <1>1, <1>2 DEF Bounded, x
<1>3. CASE s.observation # None
  <2> DEFINE given == s.observation.citations
             asked == s.case.citations
  <2>1. given \in Nat /\ asked \in Nat \cup {None}
    BY <1>3 DEF CaseOK
  <2>2. CASE asked \in {None, 0} \/ given >= asked
    <3>1. enough = 1000
      BY <2>2 DEF EnoughCitations
    <3> QED BY <1>1, <1>3, <3>1 DEF Bounded, x
  <2>3. CASE ~(asked \in {None, 0} \/ given >= asked)
    <3>1. enough = Share(given, asked)
      BY <2>3 DEF EnoughCitations
    <3>2. asked \in Nat /\ given <= asked
      BY <2>1, <2>3
    <3> HIDE DEF given, asked
    <3>3. Bounded(Share(given, asked))
      BY <2>1, <3>2, ShareIsBounded DEF Bounded
    <3> QED BY <1>1, <1>3, <3>1, <3>3 DEF x
  <2> QED BY <2>2, <2>3
<1> QED BY <1>2, <1>3

\* What was scored by a metric, and the score of each sample.
ScoredBy(results, metric) ==
  {r \in results : ~r.skipped /\ r.score # None /\ r.metric = metric}
ScoreOfEach(ids, scores, metric) ==
  {DeepevalScore(id, metric, FALSE, scores[id][metric]) : id \in ids}

\* The average of a metric that every sample has.
LEMMA ScoresAreFull ==
  ASSUME NEW ids, IsFiniteSet(ids), NEW scores, NEW results, NEW metric,
         \A id \in ids : metric \in DOMAIN scores[id] /\ Bounded(scores[id][metric]),
         ScoredBy(results, metric) = ScoreOfEach(ids, scores, metric),
         Meets(DeepevalMetrics([metric_results |-> results]),
               <<"deepeval", metric, "average_score">>, "gte", Number(1000))
  PROVE  \A id \in ids : scores[id][metric] = 1000
<1> DEFINE report == [metric_results |-> results]
           metrics == DeepevalMetrics(report)
           name == <<"deepeval", metric, "average_score">>
           scored == {r \in results : ~r.skipped /\ r.score # None}
           own == {r \in scored : r.metric = metric}
           told(id) == DeepevalScore(id, metric, FALSE, scores[id][metric])
           score == [r \in own |-> r.score]
           mean == SumFunction(score) \div Cardinality(own)
<1>1. own = {told(id) : id \in ids}
  <2>1. own = ScoredBy(results, metric)
    BY DEF ScoredBy
  <2>2. ScoreOfEach(ids, scores, metric) = {told(id) : id \in ids}
    BY DEF ScoreOfEach
  <2> HIDE DEF own, told
  <2> QED BY <2>1, <2>2
<1>2. \A id \in ids : told(id).score = scores[id][metric]
  BY DEF DeepevalScore
<1>3. IsFiniteSet(own)
  <2> DEFINE f == [id \in ids |-> told(id)]
  <2> HIDE DEF told, own
  <2>1. DOMAIN f = ids /\ own = {f[id] : id \in ids}
    BY <1>1
  <2> HIDE DEF f
  <2> QED BY <2>1, ImageIsFinite
<1>4. metrics # None /\ name \in DOMAIN metrics /\ metrics[name].status # "skipped"
  BY DEF Meets
<1>5. (\E r \in scored : r.metric = metric) /\ metrics[name] = Read(Number(mean))
  <2> DEFINE average(m) == Number(SumFunction([r \in {x \in scored : x.metric = m} |-> r.score])
                                    \div Cardinality({x \in scored : x.metric = m}))
             names == {<<"deepeval", r.metric, "average_score">> :
                         r \in {x \in results : x.skipped \/ x.score # None}}
  <2>1. metrics = [n \in names |-> IF \E r \in scored : r.metric = n[2]
                                   THEN Read(average(n[2])) ELSE Unread]
    BY DEF DeepevalMetrics
  <2>2. name[2] = metric /\ average(metric) = Number(mean)
    OBVIOUS
  <2> HIDE DEF metrics, names, name, scored, average, mean
  <2>3. metrics[name] = IF \E r \in scored : r.metric = metric THEN Read(Number(mean)) ELSE Unread
    BY <1>4, <2>1, <2>2
  <2> QED BY <1>4, <2>3 DEF Unread
<1>6. own # {} /\ metrics[name].value = Number(mean)
  <2>1. own # {}
    BY <1>5
  <2> HIDE DEF metrics, name, mean, own
  <2> QED BY <1>5, <2>1 DEF Read
<1>7. score \in Scores(own)
  <2> HIDE DEF told, own
  <2>1. \A r \in own : r.score \in Int /\ r.score <= 1000
    BY <1>1, <1>2 DEF Bounded
  <2> QED BY <2>1 DEF Scores
<1>8. Meets(metrics, name, "gte", Number(1000))
  OBVIOUS
<1> HIDE DEF own, score, told, metrics, name
<1>9. mean \in Int
  BY <1>3, <1>6, <1>7, AverageIsNumber
<1> HIDE DEF mean
<1>10. mean >= 1000
  BY <1>6, <1>8, <1>9, AtLeast
<1>11. \A r \in own : score[r] = 1000
  BY <1>3, <1>7, <1>10, FullAverage DEF mean
<1> SUFFICES ASSUME NEW id \in ids PROVE scores[id][metric] = 1000
  OBVIOUS
<1>12. told(id) \in own
  BY <1>1
<1>13. score[told(id)] = told(id).score
  BY <1>12 DEF score
<1> QED BY <1>2, <1>11, <1>12, <1>13

LEMMA NumberedIsFinite ==
  ASSUME NEW samples, samples \in Seq(ToSet(samples)), NEW kind
  PROVE  IsFiniteSet({<<kind, i>> : i \in DOMAIN samples})
<1> DEFINE n == Len(samples)
           f == [i \in 1..n |-> <<kind, i>>]
<1>1. n \in Nat /\ DOMAIN samples = 1..n
  OBVIOUS
<1>2. {<<kind, i>> : i \in DOMAIN samples} = {f[i] : i \in 1..n} /\ DOMAIN f = 1..n
  BY <1>1
<1> HIDE DEF n, f
<1>3. IsFiniteSet(1..n)
  BY <1>1, FS_Interval
<1> QED BY <1>2, <1>3, ImageIsFinite

LEMMA QuestionsAreCited ==
  ASSUME NEW w, SamplesOK(w),
         DeepevalReport(w.questions, w.direct, w.cases, None) # None,
         Meets(DeepevalMetrics(DeepevalReport(w.questions, w.direct, w.cases, None)),
               <<"deepeval", "citation_coverage", "average_score">>, "gte", Number(1000))
  PROVE  \A s \in ToSet(w.questions) :
           s.response # None /\ s.question.documents \subseteq s.response.citations
<1> DEFINE questions == w.questions
           requests == w.direct
           workflows == w.cases
           report == DeepevalReport(questions, requests, workflows, None)
           metric == "citation_coverage"
           Q == {<<"question", i>> : i \in DOMAIN questions}
           R == {<<"request", i>> : i \in DOMAIN requests}
           W == {<<"workflow", i>> : i \in DOMAIN workflows}
           asked == Q \cup R
           ids == asked \cup W
           responses == [id \in asked |-> IF id[1] = "question" THEN PreparedQuestion(questions[id[2]])
                                          ELSE PreparedRequest(requests[id[2]])]
           scores == [id \in ids |-> IF id[1] = "workflow" THEN WorkflowScores(workflows[id[2]])
                                     ELSE ResponseScores(responses[id])]
           made == UNION {{DeepevalScore(id, m, FALSE, scores[id][m]) : m \in DOMAIN scores[id]} :
                            id \in DOMAIN scores}
           judged == UNION {{JudgedDeepeval(id, responses[id], m, None) :
                              m \in DeepevalJudgeMetrics} : id \in asked}
           results == made \cup judged
<1>1. (\A i \in DOMAIN requests : requests[i].response # None)
        /\ report = [metric_results |-> results]
  <2> DEFINE raised == \E i \in DOMAIN requests : requests[i].response = None
  <2>1. report = IF raised THEN None ELSE [metric_results |-> results]
    BY Zenon DEF DeepevalReport
  <2>2. report # None
    OBVIOUS
  <2>3. ~raised
    <3> HIDE DEF report, results, raised
    <3> QED BY <2>1, <2>2
  <2>4. \A i \in DOMAIN requests : requests[i].response # None
    BY <2>3
  <2> HIDE DEF report, results, raised
  <2>5. report = [metric_results |-> results]
    BY <2>1, <2>3
  <2> QED BY <2>4, <2>5
<1> HIDE DEF report
<1>2. /\ questions \in Seq(ToSet(questions)) /\ requests \in Seq(ToSet(requests))
      /\ workflows \in Seq(ToSet(workflows))
  BY DEF SamplesOK
<1>3. IsFiniteSet(ids)
  <2>1. IsFiniteSet(Q) /\ IsFiniteSet(R) /\ IsFiniteSet(W)
    BY <1>2, NumberedIsFinite
  <2> HIDE DEF Q, R, W
  <2>2. IsFiniteSet(asked)
    BY <2>1, FS_Union
  <2> HIDE DEF asked
  <2> QED BY <2>1, <2>2, FS_Union
<1>4. /\ \A i \in DOMAIN questions : IsFiniteSet(questions[i].question.documents)
      /\ \A i \in DOMAIN requests : /\ requests[i].case.citations \in Nat
                                    /\ requests[i].response.citations \in Nat
      /\ \A i \in DOMAIN workflows : CaseOK(workflows[i])
  <2>1. \A i \in DOMAIN questions : questions[i] \in ToSet(questions)
    BY DEF ToSet
  <2>2. \A i \in DOMAIN requests : requests[i] \in ToSet(requests)
    BY DEF ToSet
  <2>3. \A i \in DOMAIN workflows : workflows[i] \in ToSet(workflows)
    BY DEF ToSet
  <2>4. \A i \in DOMAIN questions : IsFiniteSet(questions[i].question.documents)
    BY <2>1 DEF SamplesOK
  <2>5. ASSUME NEW i \in DOMAIN requests
        PROVE  requests[i].case.citations \in Nat /\ requests[i].response.citations \in Nat
    BY <1>1, <2>2 DEF SamplesOK
  <2>6. \A i \in DOMAIN workflows : CaseOK(workflows[i])
    BY <2>3 DEF SamplesOK, CaseOK
  <2> QED BY <2>4, <2>5, <2>6
<1>5. /\ \A i \in DOMAIN questions :
           scores[<<"question", i>>] = ResponseScores(PreparedQuestion(questions[i]))
      /\ \A i \in DOMAIN requests :
           scores[<<"request", i>>] = ResponseScores(PreparedRequest(requests[i]))
      /\ \A i \in DOMAIN workflows : scores[<<"workflow", i>>] = WorkflowScores(workflows[i])
      /\ DOMAIN scores = ids
  OBVIOUS
<1> HIDE DEF scores, responses
<1>6. \A id \in ids : metric \in DOMAIN scores[id] /\ Bounded(scores[id][metric])
  <2>1. ASSUME NEW i \in DOMAIN questions, NEW id, id = <<"question", i>>
        PROVE  metric \in DOMAIN scores[id] /\ Bounded(scores[id][metric])
    <3> DEFINE own == ResponseScores(PreparedQuestion(questions[i]))
    <3>1. metric \in DOMAIN own /\ Bounded(own[metric])
      BY <1>4, QuestionScore
    <3> HIDE DEF own, metric
    <3> QED BY <1>5, <2>1, <3>1 DEF own
  <2>2. ASSUME NEW i \in DOMAIN requests, NEW id, id = <<"request", i>>
        PROVE  metric \in DOMAIN scores[id] /\ Bounded(scores[id][metric])
    <3> DEFINE own == ResponseScores(PreparedRequest(requests[i]))
    <3>1. metric \in DOMAIN own /\ Bounded(own[metric])
      BY <1>4, RequestScore
    <3> HIDE DEF own, metric
    <3> QED BY <1>5, <2>2, <3>1 DEF own
  <2>3. ASSUME NEW i \in DOMAIN workflows, NEW id, id = <<"workflow", i>>
        PROVE  metric \in DOMAIN scores[id] /\ Bounded(scores[id][metric])
    <3> DEFINE own == WorkflowScores(workflows[i])
    <3>1. metric \in DOMAIN own /\ Bounded(own[metric])
      BY <1>4, WorkflowScore
    <3> HIDE DEF own, metric
    <3> QED BY <1>5, <2>3, <3>1 DEF own
  <2>4. \A id \in ids : \/ \E i \in DOMAIN questions : id = <<"question", i>>
                        \/ \E i \in DOMAIN requests : id = <<"request", i>>
                        \/ \E i \in DOMAIN workflows : id = <<"workflow", i>>
    OBVIOUS
  <2> HIDE DEF metric
  <2> QED BY <2>1, <2>2, <2>3, <2>4
<1>7. ScoredBy(results, metric) = ScoreOfEach(ids, scores, metric)
  <2> DEFINE given(id) == {DeepevalScore(id, m, FALSE, scores[id][m]) : m \in DOMAIN scores[id]}
             own(id) == DeepevalScore(id, metric, FALSE, scores[id][metric])
  <2>2. \A r \in judged : r.skipped
    BY DEF JudgedDeepeval, DeepevalScore
  <2>3. \A id \in ids : scores[id][metric] # None
    BY <1>6, AnswersAssumption DEF Bounded
  <2>4. made = UNION {given(id) : id \in ids}
    BY <1>5
  <2> HIDE DEF judged, made, ids
  <2>5. ASSUME NEW id \in ids PROVE own(id) \in ScoredBy(results, metric)
    <3> HIDE DEF metric
    <3>1. own(id) \in given(id)
      BY <1>6
    <3> HIDE DEF given
    <3>2. own(id) \in made
      BY <2>4, <3>1
    <3>3. own(id).metric = metric /\ ~own(id).skipped /\ own(id).score # None
      BY <2>3 DEF DeepevalScore
    <3> HIDE DEF own
    <3> QED BY <3>2, <3>3 DEF ScoredBy
  <2>6. ASSUME NEW r \in ScoredBy(results, metric) PROVE \E id \in ids : r = own(id)
    <3>1. r \in results /\ ~r.skipped /\ r.metric = metric
      BY DEF ScoredBy
    <3>2. r \in made
      BY <2>2, <3>1
    <3>3. PICK id \in ids : r \in given(id)
      <4> HIDE DEF given
      <4> QED BY <2>4, <3>2
    <3>4. PICK m \in DOMAIN scores[id] : r = DeepevalScore(id, m, FALSE, scores[id][m])
      BY <3>3
    <3>5. m = metric
      <4>1. r.metric = m
        BY <3>4 DEF DeepevalScore
      <4> HIDE DEF metric
      <4> QED BY <3>1, <4>1
    <3> QED BY <3>4, <3>5
  <2>7. ScoreOfEach(ids, scores, metric) = {own(id) : id \in ids}
    BY DEF ScoreOfEach
  <2> HIDE DEF own, results
  <2> QED BY <2>5, <2>6, <2>7
<1>8. Meets(DeepevalMetrics([metric_results |-> results]),
            <<"deepeval", metric, "average_score">>, "gte", Number(1000))
  <2> HIDE DEF results
  <2> QED BY <1>1 DEF report
<1>9. \A id \in ids : scores[id][metric] = 1000
  <2> HIDE DEF results, ids, metric
  <2> QED BY <1>3, <1>6, <1>7, <1>8, ScoresAreFull
<1> SUFFICES ASSUME NEW s \in ToSet(questions)
             PROVE  s.response # None /\ s.question.documents \subseteq s.response.citations
  OBVIOUS
<1>10. PICK i \in DOMAIN questions : s = questions[i]
  BY DEF ToSet
<1>11. ResponseScores(PreparedQuestion(s))[metric] = 1000
  <2> DEFINE id == <<"question", i>>
  <2>1. id \in ids
    OBVIOUS
  <2>2. scores[id] = ResponseScores(PreparedQuestion(s))
    BY <1>5, <1>10
  <2> HIDE DEF id, ids
  <2> QED BY <1>9, <2>1, <2>2
<1>12. IsFiniteSet(s.question.documents)
  BY <1>4, <1>10
<1> QED BY <1>11, <1>12, QuestionScore

LEMMA QuestionsHold ==
  ASSUME NEW w, SamplesOK(w),
         DeepevalReport(w.questions, w.direct, w.cases, None) # None,
         Meets(DeepevalMetrics(DeepevalReport(w.questions, w.direct, w.cases, None)),
               <<"deepeval", "citation_coverage", "average_score">>, "gte", Number(1000)),
         Meets(RagasMetrics(RagasReport(w.questions, None)),
               <<"ragas", "id_based_context_recall">>, "gte", Number(1000))
  PROVE  \A s \in ToSet(w.questions) : QuestionHolds(s)
<1>1. \A s \in ToSet(w.questions) :
        s.response # None /\ s.question.documents \subseteq s.response.citations
  BY QuestionsAreCited
<1>2. w.questions \in Seq(ToSet(w.questions))
        /\ \A s \in ToSet(w.questions) :
             /\ IsFiniteSet(s.question.documents)
             /\ s.response # None /\ s.response.chunks = {} => s.response.retrieved = {}
  BY DEF SamplesOK
<1>3. \A s \in ToSet(w.questions) : s.response # None => s.response.retrieved # {}
  BY <1>2, RecallIsFull
<1> QED BY <1>1, <1>2, <1>3 DEF QuestionHolds

\* The reports of the evaluations the rules are about.
LEMMA SuiteOutcomes ==
  LET w == Answers[World]
  IN /\ Outcome(World, Commands[5]) = Reporting(Commands[5], AgentReport(w.cases))
     /\ Outcome(World, Commands[6]) = Reporting(Commands[6], EndpointReport(w.requests))
     /\ Outcome(World, Commands[7]) = Reporting(Commands[7], PromptRegressionReport(w.prompts))
     /\ Outcome(World, Commands[8])
          = Reporting(Commands[8], FactualityReport(w.texts, w.factuality, {}))
     /\ Outcome(World, Commands[10]) = Reporting(Commands[10], RagasReport(w.questions, None))
     /\ Outcome(World, Commands[11])
          = Reporting(Commands[11], DeepevalReport(w.questions, w.direct, w.cases, None))
<1>1. /\ Commands[5] = "custom_agent_evaluation" /\ Commands[6] = "end_to_end_evaluation"
      /\ Commands[7] = "prompt_regression" /\ Commands[8] = "factuality"
      /\ Commands[10] = "ragas_offline" /\ Commands[11] = "deepeval_offline"
  BY DEF Commands
<1> QED BY <1>1 DEF Outcome

LEMMA PolicyEarns ==
  ASSUME Ready, KeepsRules(World), PolicyOutcome(Outcomes).exit = 0
  PROVE  SamplesHold(World)
<1> DEFINE w == Answers[World]
<1>1. SamplesOK(w)
  BY AnswersAssumption DEF Ready
<1>2. \A q \in ToSet(w.questions) : QuestionHolds(q)
  <2> DEFINE deepeval == DeepevalReport(w.questions, w.direct, w.cases, None)
             ragas == RagasReport(w.questions, None)
  <2>1. deepeval # None
        /\ Meets(DeepevalMetrics(deepeval), <<"deepeval", "citation_coverage", "average_score">>,
                 "gte", Number(1000))
    <3> DEFINE source == "deepeval"
               id == <<"deepeval", "citation_coverage", "average_score">>
               value == Number(1000)
    <3>1. /\ source \in DOMAIN ShippedSources /\ ShippedSources[source].path \in Owned[11]
          /\ ShippedSources[source].format = "deepeval_json"
      BY DEF ShippedSources, Owned
    <3>2. Shipped(source, id, "gte", value)
      BY ShippedHas
    <3>3. Outcome(World, Commands[11]) = Reporting(Commands[11], deepeval)
      BY SuiteOutcomes
    <3> HIDE DEF source, id, value, deepeval
    <3>4. deepeval # None
          /\ Meets(Adapted(ShippedSources[source].format, deepeval), id, "gte", value)
      BY <3>1, <3>2, <3>3, SuiteMeets
    <3>5. Adapted(ShippedSources[source].format, deepeval) = DeepevalMetrics(deepeval)
      BY <3>1 DEF Adapted
    <3> QED BY <3>4, <3>5 DEF id, value
  <2>2. Meets(RagasMetrics(ragas), <<"ragas", "id_based_context_recall">>, "gte", Number(1000))
    <3> DEFINE source == "ragas"
               id == <<"ragas", "id_based_context_recall">>
               value == Number(1000)
    <3>1. /\ source \in DOMAIN ShippedSources /\ ShippedSources[source].path \in Owned[10]
          /\ ShippedSources[source].format = "ragas_json"
      BY DEF ShippedSources, Owned
    <3>2. Shipped(source, id, "gte", value)
      BY ShippedHas
    <3>3. Outcome(World, Commands[10]) = Reporting(Commands[10], ragas)
      BY SuiteOutcomes
    <3> HIDE DEF source, id, value, ragas
    <3>4. Meets(Adapted(ShippedSources[source].format, ragas), id, "gte", value)
      BY <3>1, <3>2, <3>3, SuiteMeets
    <3>5. Adapted(ShippedSources[source].format, ragas) = RagasMetrics(ragas)
      BY <3>1 DEF Adapted
    <3> QED BY <3>4, <3>5 DEF id, value
  <2> HIDE DEF w
  <2> QED BY <1>1, <2>1, <2>2, QuestionsHold
<1>3. \A s \in ToSet(w.cases) : CaseHolds(s)
  <2> DEFINE report == AgentReport(w.cases)
  <2>1. ASSUME NEW id, NEW operator, NEW value, Shipped("agent", id, operator, value)
        PROVE  Meets(AgentMetrics(report, "agent"), id, operator, value)
    <3> DEFINE source == "agent"
    <3>1. /\ source \in DOMAIN ShippedSources /\ ShippedSources[source].path \in Owned[5]
          /\ ShippedSources[source].format = "agent_json"
      BY DEF ShippedSources, Owned
    <3>2. Outcome(World, Commands[5]) = Reporting(Commands[5], report)
      BY SuiteOutcomes
    <3>3. Shipped(source, id, operator, value)
      BY <2>1
    <3> HIDE DEF source, report
    <3>4. Meets(Adapted(ShippedSources[source].format, report), id, operator, value)
      BY <3>1, <3>2, <3>3, SuiteMeets
    <3>5. Adapted(ShippedSources[source].format, report) = AgentMetrics(report, "agent")
      BY <3>1 DEF Adapted
    <3> QED BY <3>4, <3>5
  <2>2. /\ Meets(AgentMetrics(report, "agent"), <<"agent", "workflow_success_rate">>, "gte",
                 Number(1000))
        /\ Meets(AgentMetrics(report, "agent"), <<"agent", "fail_count">>, "lte", Count(0))
    <3> HIDE DEF report
    <3> QED BY <2>1, ShippedHas
  <2>3. w.cases \in Seq(ToSet(w.cases)) /\ \A s \in ToSet(w.cases) : CaseOK(s)
    BY <1>1 DEF SamplesOK, CaseOK
  <2> HIDE DEF w
  <2> QED BY <2>2, <2>3, CasesHold
<1>4. \A s \in ToSet(w.requests) : RequestHolds(s)
  <2> DEFINE report == EndpointReport(w.requests)
  <2>1. ASSUME NEW id, NEW operator, NEW value, Shipped("agent_e2e", id, operator, value)
        PROVE  report # None /\ Meets(AgentMetrics(report, "agent_e2e"), id, operator, value)
    <3> DEFINE source == "agent_e2e"
    <3>1. /\ source \in DOMAIN ShippedSources /\ ShippedSources[source].path \in Owned[6]
          /\ ShippedSources[source].format = "agent_e2e_json"
      BY DEF ShippedSources, Owned
    <3>2. Outcome(World, Commands[6]) = Reporting(Commands[6], report)
      BY SuiteOutcomes
    <3>3. Shipped(source, id, operator, value)
      BY <2>1
    <3> HIDE DEF source, report
    <3>4. report # None /\
          Meets(Adapted(ShippedSources[source].format, report), id, operator, value)
      BY <3>1, <3>2, <3>3, SuiteMeets
    <3>5. Adapted(ShippedSources[source].format, report) = AgentMetrics(report, "agent_e2e")
      BY <3>1 DEF Adapted
    <3> QED BY <3>4, <3>5
  <2>2. /\ report # None
        /\ Meets(AgentMetrics(report, "agent_e2e"), <<"agent_e2e", "routing_accuracy">>, "gte",
                 Number(1000))
        /\ Meets(AgentMetrics(report, "agent_e2e"), <<"agent_e2e", "fail_count">>, "lte", Count(0))
    <3> HIDE DEF report
    <3> QED BY <2>1, ShippedHas
  <2>3. w.requests \in Seq(ToSet(w.requests))
    BY <1>1 DEF SamplesOK
  <2> HIDE DEF w
  <2> QED BY <2>2, <2>3, RequestsHold
<1>5. \A s \in ToSet(w.prompts) : PromptHolds(s)
  <2> DEFINE report == PromptRegressionReport(w.prompts)
  <2>1. ASSUME NEW n \in {"regressions", "failures"}
        PROVE  Meets(PromptRegressionMetrics(report), <<"prompt_regression", "summary", n>>, "lte",
                     Count(0))
    <3> DEFINE source == "prompt_regression"
               id == <<"prompt_regression", "summary", n>>
               value == Count(0)
    <3>1. /\ source \in DOMAIN ShippedSources /\ ShippedSources[source].path \in Owned[7]
          /\ ShippedSources[source].format = "prompt_regression_json"
      BY DEF ShippedSources, Owned
    <3>2. Outcome(World, Commands[7]) = Reporting(Commands[7], report)
      BY SuiteOutcomes
    <3>3. Shipped(source, id, "lte", value)
      BY ShippedHas
    <3> HIDE DEF source, id, value, report
    <3>4. Meets(Adapted(ShippedSources[source].format, report), id, "lte", value)
      BY <3>1, <3>2, <3>3, SuiteMeets
    <3>5. Adapted(ShippedSources[source].format, report) = PromptRegressionMetrics(report)
      BY <3>1 DEF Adapted
    <3> QED BY <3>4, <3>5 DEF id, value
  <2>2. w.prompts \in Seq(ToSet(w.prompts)) /\ \A s \in ToSet(w.prompts) : PromptOK(s)
    BY <1>1 DEF SamplesOK, PromptOK
  <2> HIDE DEF w
  <2> QED BY <2>1, <2>2, PromptsHold
<1>6. \A s \in ToSet(w.texts) : TextHolds(s)
  <2> DEFINE report == FactualityReport(w.texts, w.factuality, {})
  <2>1. ASSUME NEW c \in Fabrications
        PROVE  Meets(FactualityMetrics(report), <<"factuality", "findings", c>>, "lte", Count(0))
    <3> DEFINE source == "factuality"
               id == <<"factuality", "findings", c>>
               value == Count(0)
    <3>1. /\ source \in DOMAIN ShippedSources /\ ShippedSources[source].path \in Owned[8]
          /\ ShippedSources[source].format = "factuality_json"
      BY DEF ShippedSources, Owned
    <3>2. Outcome(World, Commands[8]) = Reporting(Commands[8], report)
      BY SuiteOutcomes
    <3>3. Shipped(source, id, "lte", value)
      BY ShippedHas DEF Fabrications
    <3> HIDE DEF source, id, value, report
    <3>4. Meets(Adapted(ShippedSources[source].format, report), id, "lte", value)
      BY <3>1, <3>2, <3>3, SuiteMeets
    <3>5. Adapted(ShippedSources[source].format, report) = FactualityMetrics(report)
      BY <3>1 DEF Adapted
    <3> QED BY <3>4, <3>5 DEF id, value
  <2>2. w.texts \in Seq(ToSet(w.texts))
        /\ \A s \in ToSet(w.texts) : s.answer # None => TextOK(s.answer)
    BY <1>1 DEF SamplesOK, TextOK
  <2> HIDE DEF w
  <2> QED BY <2>1, <2>2, TextsHold
<1> QED BY <1>2, <1>3, <1>4, <1>5, <1>6 DEF SamplesHold

(***************************************************************************)
(* The reports below the root: each evaluation writes two, and a policy    *)
(* that ends well has been met by those of this revision.                  *)
(***************************************************************************)
Earned(w) == KeepsRules(w) => SamplesHold(w)

NumbersKept ==
  \A k \in 4..11 : \A p \in Owned[k] : artifacts[p].run >= 1 => artifacts[p].nth \in 1..2

AnswersKept ==
  /\ NumbersKept
  /\ phase = "running" /\ current = 13 /\ doing # None /\ doing.exit = 0 => Earned(World)
  /\ (phase \in Deciding \/ Concluded) /\ gate_status # "infrastructure_fail"
       /\ command_results[13] = 0 => Earned(World)

LEMMA TwoReports ==
  ASSUME NEW k \in 4..11
  PROVE  Len(Ran(Outcome(World, Commands[k])).paths) \in 0..2
<1>1. \E report : Outcome(World, Commands[k]) = Reporting(Commands[k], report)
  <2>1. /\ Commands[4] = "custom_rag_evaluation" /\ Commands[5] = "custom_agent_evaluation"
        /\ Commands[6] = "end_to_end_evaluation" /\ Commands[7] = "prompt_regression"
        /\ Commands[8] = "factuality" /\ Commands[9] = "prompt_experiment_sample"
        /\ Commands[10] = "ragas_offline" /\ Commands[11] = "deepeval_offline"
    BY DEF Commands
  <2>2. CASE k \in {4, 5, 6, 7}
    BY <2>1, <2>2 DEF Outcome
  <2>3. CASE k \in {8, 9, 10, 11}
    BY <2>1, <2>3 DEF Outcome
  <2> QED BY <2>2, <2>3
<1>2. PICK report : Outcome(World, Commands[k]) = Reporting(Commands[k], report)
  BY <1>1
<1> DEFINE r == Reporting(Commands[k], report)
<1>3. r.writes = <<>> \/ r.writes = [i \in 1..2 |-> <<SuiteReports[Commands[k]][i], report>>]
  BY DEF Reporting, Exits
<1> HIDE DEF r
<1>4. Len(Ran(r).paths) \in 0..2
  <2>1. CASE r.writes = <<>>
    <3>1. Ran(r).paths = <<>>
      BY <2>1 DEF Ran
    <3> QED BY <3>1
  <2>2. CASE r.writes = [i \in 1..2 |-> <<SuiteReports[Commands[k]][i], report>>]
    <3>1. Ran(r).paths = [i \in 1..2 |-> SuiteReports[Commands[k]][i]]
      BY <2>2 DEF Ran
    <3> QED BY <3>1
  <2> QED BY <1>3, <2>1, <2>2
<1> QED BY <1>2, <1>4 DEF r

\* What keeps the reports keeps their numbers.
LEMMA NumbersStay ==
  ASSUME RootKept, NumbersKept,
         \A p \in DOMAIN artifacts :
           p \notin OwnReports \cup Told \cup {Manifest} =>
             artifacts'[p] \in {artifacts[p], CutShort}
  PROVE  NumbersKept'
<1>1. ASSUME NEW k \in 4..11, NEW p \in Owned[k]
      PROVE  p \in DOMAIN artifacts /\ p \notin OwnReports \cup Told \cup {Manifest}
  BY Special DEF RootKept
<1> QED BY <1>1 DEF NumbersKept, CutShort

LEMMA NothingMoves ==
  ASSUME AnswersKept, NumbersKept', revision' = revision,
         phase' = "running" => UNCHANGED <<phase, current, doing>>,
         (phase' \in Deciding \/ Concluded') /\ gate_status' # "infrastructure_fail" =>
           /\ phase \in Deciding \/ Concluded
           /\ UNCHANGED <<gate_status, command_results>>
  PROVE  AnswersKept'
<1>1. World' = World
  BY DEF World, Run
<1>2. Earned(World)' <=> Earned(World)
  BY <1>1 DEF Earned, KeepsRules, SamplesHold
<1> QED BY <1>1, <1>2 DEF AnswersKept

LEMMA EvaluateAnswers ==
  ASSUME IInv, OutcomesKept, AnswersKept, Evaluate PROVE AnswersKept'
<1>1. /\ phase = "running" /\ World \in Worlds /\ World' = World /\ current \in 1..13
      /\ doing' = Result(Outcomes) /\ Run >= 1
      /\ UNCHANGED <<artifacts, phase, current, command_results, gate_status, exit>>
  BY Places DEF IInv, TypeOK, Run, FreshKept, Evaluate, World
<1>2. NumbersKept'
  BY <1>1 DEF AnswersKept, NumbersKept
<1>3. ASSUME current = 13, PolicyOutcome(Outcomes).exit = 0 PROVE Earned(World)
  <2>1. EarlierKept /\ OwnExits(12)
    BY <1>1, <1>3 DEF IInv, RunningKept, OutcomesKept
  <2>2. InputsValid(World)
    BY <2>1 DEF EarlierKept
  <2>3. ASSUME NEW k \in 4..11
        PROVE  /\ Outcome(World, Commands[k]).exit = 0
               /\ \A p \in Owned[k] : artifacts[p].run = Run /\ artifacts[p].nth \in 1..2
    <3>1. Finished(k, command_results[k]) /\ Kept(k)
      BY <1>3, <2>1 DEF EarlierKept
    <3>2. Outcome(World, Commands[k]).exit = 0
      BY <2>1, <3>1 DEF OwnExits, Finished
    <3>3. \A p \in Owned[k] : artifacts[p].run = Run /\ artifacts[p].nth \in 1..2
      BY <1>1, <3>1 DEF Kept, AnswersKept, NumbersKept
    <3> QED BY <3>2, <3>3
  <2>4. Ready
    BY <1>1, <2>2, <2>3 DEF Ready
  <2> QED BY <1>3, <2>4, PolicyEarns DEF Earned
<1>4. current = 13 => Result(Outcomes) = PolicyOutcome(Outcomes)
  BY Places DEF Result, Command
<1>5. Earned(World)' <=> Earned(World)
  BY <1>1 DEF Earned, KeepsRules, SamplesHold
<1> QED BY <1>1, <1>2, <1>3, <1>4, <1>5 DEF AnswersKept, Deciding, Concluded

LEMMA WritesAnswers ==
  ASSUME IInv, OutcomesKept, AnswersKept, CommandWrites PROVE AnswersKept'
<1> DEFINE k == current
           w == written + 1
           d == doing.paths[w]
<1>1. /\ phase = "running" /\ k \in 1..13 /\ doing # None /\ written \in Nat
      /\ UNCHANGED <<revision, phase, current, doing, command_results, gate_status, exit>>
  BY Places DEF IInv, TypeOK, CommandWrites
<1>2. Comes(k, doing)
  BY <1>1 DEF IInv, RunningKept, DoingKept
<1>3. d \in Owned[k] /\ w \in 1..Len(doing.paths) /\ Len(doing.paths) \in Nat
  <2>1. doing.paths \in Seq(Owned[k])
    BY <1>2 DEF Comes, Typed
  <2>2. written < Len(doing.paths)
    BY DEF CommandWrites
  <2> QED BY <1>1, <2>1, <2>2
<1>4. k \in 4..11 => w \in 1..2
  <2> SUFFICES ASSUME k \in 4..11 PROVE w \in 1..2
    OBVIOUS
  <2>1. doing = Ran(Outcome(World, Commands[k]))
    BY <1>1 DEF OutcomesKept
  <2>2. Len(doing.paths) \in 0..2
    BY <2>1, TwoReports
  <2> DEFINE n == Len(doing.paths)
  <2>3. n \in 0..2 /\ w \in 1..n
    BY <1>3, <2>2
  <2> HIDE DEF n, w
  <2> QED BY <2>3
<1>5. artifacts' = [artifacts EXCEPT ![d] = File(w, doing.told[w])]
  BY DEF CommandWrites, Destination
<1> HIDE DEF d, w, k
<1>6. NumbersKept'
  <2> SUFFICES ASSUME NEW j \in 4..11, NEW p \in Owned[j], artifacts'[p].run >= 1
               PROVE  artifacts'[p].nth \in 1..2
    BY DEF NumbersKept
  <2>1. p \in DOMAIN artifacts
    BY Special DEF IInv, RootKept
  <2>2. CASE p = d
    <3>1. j = k
      <4>1. k \in 1..13 /\ j \in 1..13
        BY <1>1 DEF k
      <4>2. p \in Owned[j] /\ p \in Owned[k]
        BY <1>3, <2>2
      <4> QED BY Zenon, <4>1, <4>2, Disjoint
    <3>2. artifacts'[p].nth = w
      BY <1>5, <2>1, <2>2 DEF File
    <3> QED BY <1>4, <3>1, <3>2
  <2>3. CASE p # d
    BY <1>5, <2>1, <2>3 DEF AnswersKept, NumbersKept
  <2> QED BY <2>2, <2>3
<1> QED BY <1>1, <1>6, NothingMoves DEF Deciding, Concluded

LEMMA ExitsAnswers ==
  ASSUME IInv, OutcomesKept, AnswersKept, CommandExits PROVE AnswersKept'
<1> DEFINE k == current
           code == doing.exit
           results == Append(command_results, code)
<1>1. /\ phase = "running" /\ World' = World /\ k \in 1..13 /\ doing # None
      /\ command_results' = results /\ doing' = None /\ artifacts' = artifacts
  BY Places DEF CommandExits, IInv, TypeOK, World, Run
<1>2. results[k] = code
  <2>1. command_results \in Seq(0..2) /\ Len(command_results) = k - 1 /\ code \in 0..2
    BY <1>1 DEF IInv, TypeOK, RunningKept, EarlierKept, DoingKept, Comes, Typed
  <2> HIDE DEF code, k
  <2> QED BY <2>1, <1>1
<1>3. NumbersKept'
  BY <1>1 DEF AnswersKept, NumbersKept
<1>4. Earned(World)' <=> Earned(World)
  BY <1>1 DEF Earned, KeepsRules, SamplesHold
<1>5. k = 13 /\ code = 0 => Earned(World)
  BY <1>1 DEF AnswersKept
<1> HIDE DEF k, code, results
<1>6. CASE phase' = "running"
  BY <1>1, <1>3, <1>6 DEF AnswersKept, Deciding, Concluded
<1>7. CASE phase' = "provisional" /\ k = 13
  BY <1>1, <1>2, <1>3, <1>4, <1>5, <1>7 DEF AnswersKept
<1>8. CASE phase' = "provisional" /\ gate_status' = "infrastructure_fail"
  BY <1>3, <1>8 DEF AnswersKept
<1>9. CASE ~Continues(Command, doing.exit) /\ Decide(Command, doing.exit)
  <2>1. phase' = "provisional" /\ gate_status' = StatusOf(Command, code) /\ code # 0
    BY <1>9 DEF Decide, Continues, code
  <2>2. k # 13 => gate_status' = "infrastructure_fail"
    <3>1. k # 13 => Command # "quality_policy"
      BY <1>1, Places DEF Command, k
    <3>2. ~(Command = "phase4_statistical_baseline" /\ code = 1)
      BY <1>9 DEF Continues, code
    <3> QED BY <2>1, <3>1, <3>2 DEF StatusOf
  <2> QED BY <1>7, <1>8, <2>1, <2>2
<1>10. CASE current < Len(Commands) /\ current' = current + 1 /\
          UNCHANGED <<phase, gate_status, exit>>
  BY <1>1, <1>6, <1>10
<1>11. CASE /\ Continues(Command, doing.exit) /\ ~(current < Len(Commands))
            /\ IF failed4 THEN Decide("phase4_statistical_baseline", 1) ELSE Decide(None, 0)
  <2>1. k = 13 /\ phase' = "provisional"
    BY <1>1, <1>11, Places DEF Decide, k
  <2> QED BY <1>7, <2>1
<1> QED BY <1>9, <1>10, <1>11, Zenon DEF CommandExits

LEMMA OthersAnswers ==
  ASSUME IInv, AnswersKept,
         \/ StartGate \/ GateSteps \/ TimeOut \/ Kill \/ BuildCiReport \/ UNCHANGED vars
  PROVE  AnswersKept'
<1> RootKept /\ NumbersKept
  BY DEF IInv, AnswersKept
<1>1. CASE StartGate
  <2>1. artifacts' = artifacts /\ phase' = "environment"
    BY <1>1 DEF StartGate
  <2>2. NumbersKept'
    BY <2>1, NumbersStay
  <2> QED BY <2>1, <2>2 DEF AnswersKept, Deciding, Concluded
<1>2. CASE CheckEnvironment
  <2>1. \/ phase' = "inputs"
        \/ phase' = "provisional" /\ gate_status' = "infrastructure_fail"
    BY <1>2 DEF CheckEnvironment, Infrastructure
  <2>2. \A p \in DOMAIN artifacts : p \notin OwnReports => artifacts'[p] = artifacts[p]
    BY <1>2 DEF CheckEnvironment, OwnReports
  <2>3. NumbersKept'
    BY <2>2, NumbersStay
  <2> QED BY <2>1, <2>3 DEF AnswersKept, Deciding, Concluded
<1>3. CASE CheckInputs
  <2>1. \/ phase' = "running" /\ current' = 1 /\ doing' = None
        \/ phase' = "provisional" /\ gate_status' = "infrastructure_fail"
    BY <1>3 DEF CheckInputs, Infrastructure, IInv, FreshKept
  <2>2. artifacts' = artifacts
    BY <1>3 DEF CheckInputs
  <2>3. NumbersKept'
    BY <2>2, NumbersStay
  <2> QED BY <2>1, <2>3 DEF AnswersKept, Deciding, Concluded
<1>4. CASE TimeOut
  <2>1. phase' = "provisional" /\ gate_status' = "infrastructure_fail"
    BY <1>4 DEF TimeOut, Infrastructure
  <2>2. NumbersKept'
    BY <1>4, CutKeeps, NumbersStay DEF TimeOut
  <2> QED BY <2>1, <2>2 DEF AnswersKept
<1>5. CASE Kill
  <2>1. phase' = "ended" /\ exit' = None
    BY <1>5 DEF Kill
  <2>2. NumbersKept'
    BY <1>5, CutKeeps, NumbersStay DEF Kill
  <2> QED BY <2>1, <2>2 DEF AnswersKept, Deciding, Concluded
<1>6. CASE WriteProvisional \/ WriteSummary \/ WriteManifest \/ WriteResult \/ Tell
  <2>1. /\ phase \in Deciding /\ phase' # "running"
        /\ UNCHANGED <<revision, command_results>>
        /\ gate_status' # "infrastructure_fail" => gate_status' = gate_status
    BY <1>6 DEF WriteProvisional, WriteSummary, WriteManifest, WriteResult, Tell, Deciding
  <2>2. \A p \in DOMAIN artifacts :
          p \notin OwnReports \cup {Manifest} => artifacts'[p] = artifacts[p]
    BY <1>6 DEF WriteProvisional, WriteSummary, WriteManifest, WriteResult, Tell, OwnReports
  <2>3. NumbersKept'
    BY <2>2, NumbersStay
  <2> QED BY <2>1, <2>3, NothingMoves
<1>7. CASE BuildCiReport
  <2>1. /\ UNCHANGED <<revision, phase, exit, gate_status, command_results>> /\ phase = "ended"
        /\ \A p \in DOMAIN artifacts : p \notin Told => artifacts'[p] = artifacts[p]
    BY <1>7, Told3 DEF BuildCiReport
  <2>2. NumbersKept'
    BY <2>1, NumbersStay
  <2> QED BY <2>1, <2>2, NothingMoves DEF Concluded, Deciding
<1>8. CASE UNCHANGED vars
  <2>1. UNCHANGED <<artifacts, revision, phase, current, doing, command_results, gate_status, exit>>
    BY <1>8 DEF vars
  <2>2. NumbersKept'
    BY <2>1, NumbersStay
  <2> QED BY <2>1, <2>2, NothingMoves DEF Concluded
<1> QED BY <1>1, <1>2, <1>3, <1>4, <1>5, <1>6, <1>7, <1>8 DEF GateSteps

LEMMA AnswersInvariance == Spec => [](IInv /\ OutcomesKept /\ AnswersKept)
<1>1. Init => AnswersKept
  <2> SUFFICES ASSUME Init PROVE AnswersKept
    OBVIOUS
  <2>1. IInv
    BY InitInv
  <2>2. \A p \in DOMAIN artifacts : artifacts[p].run = 0
    BY DEF Init, NoFile
  <2>3. NumbersKept
    BY <2>1, <2>2, Special DEF NumbersKept, IInv, RootKept
  <2> QED BY <2>3 DEF Init, AnswersKept, Deciding, Concluded
<1>2. ASSUME IInv, OutcomesKept, AnswersKept, [Next]_vars PROVE AnswersKept'
  BY <1>2, EvaluateAnswers, WritesAnswers, ExitsAnswers, OthersAnswers DEF Next, CommandSteps
<1> QED BY <1>1, <1>2, OutcomesInvariance, PTL DEF Spec

\* A gate that applies the shipped rules, and maybe more, and says pass has
\* been given a revision whose answers are right, whatever earlier runs left
\* below the root: each question was answered with every document it asks for,
\* each workflow case and each request as the case says, each prompt kept what
\* the accepted version says, no text claims an amount or a significance that
\* the results do not have, and the statistics are the references'.  What is
\* said of a gate that blames the quality is not part of it
\* (run_ai_quality_gate.py _run_commands, the evaluations, policy/adapters.py,
\* policy/evaluator.py, quality_policy.yaml).
THEOREM PassIsEarned == Spec => [](gate_status # "quality_fail" => VerdictIsEarned)
<1>1. ASSUME IInv, AnswersKept, Concluded, gate_status = "pass", KeepsRules(World)
      PROVE  SamplesHold(World)
  <2>1. Settled /\ command_results[13] # 1
    BY <1>1 DEF IInv, VerdictKept, Settled
  <2>2. command_results[13] = 0
    BY <2>1 DEF Settled, Finished
  <2> QED BY <1>1, <2>2 DEF AnswersKept, Earned
<1>2. ASSUME IInv, AnswersKept, Concluded /\ gate_status = "pass" => StatisticsHold(World),
             gate_status # "quality_fail"
      PROVE  VerdictIsEarned
  BY <1>1, <1>2 DEF VerdictIsEarned, AnswersHold
<1> QED BY <1>2, AnswersInvariance, StatisticsAreEarned, PTL
==============================================================================
