--------------------------- MODULE FactualityChecks ---------------------------
(***************************************************************************)
(* The factuality evaluation (packages/evals/factuality): deterministic    *)
(* checks of what an answer claims against the evidence it was given and   *)
(* the structured results it reports, and the policy over their findings.  *)
(*                                                                         *)
(* Claims are the sentences of the answer, the rationale and the summary;  *)
(* a claim is [id, says, numbers, amounts, words]: says holds the phrases  *)
(* the checks look for, numbers every number in it, amounts those next to  *)
(* a currency, in thousandths.  A case also has the phrases of its public  *)
(* text, which is the answer with the executive summary.                   *)
(***************************************************************************)
EXTENDS JudgedEvaluations

Distance(a, b) == IF a < b THEN b - a ELSE a - b
Magnitude(a) == Distance(a, 0)

\* Two percent off, or one is the percentage of the other.
NumbersMatch(left, right) ==
  \/ left = right
  \/ right # 0 /\ 1000 * Distance(left, right) <= 20 * Magnitude(right)
  \/ Magnitude(left) > 1000 /\ Magnitude(right) < 1000 /\ Distance(left, 100 * right) <= 2000
  \/ Magnitude(right) > 1000 /\ Magnitude(left) < 1000 /\ Distance(100 * left, right) <= 2000
  \/ Distance(left, right) <= 20

Grounded(value, values) == \E v \in values : NumbersMatch(value, v)

Finding(category, severity, claim, detector) ==
  [category |-> category, severity |-> severity, claim |-> claim, detector |-> detector]

(***************************************************************************)
(* Citations.                                                              *)
(***************************************************************************)
CitationPresence(case) ==
  IF Len(case.citations) >= case.expected_citations THEN {}
  ELSE {Finding("citation_missing", "high", <<"required">>, "citation_presence")}

Unsupporting(case) == {i \in DOMAIN case.citations : case.citations[i] \notin case.evidence}

\* The same citation twice is one finding, save in an analysis.
CitationSupport(case) ==
  {Finding("citation_does_not_support_claim", "high",
           <<"citation", IF case.canonical = None THEN case.citations[i] ELSE i>>,
           "citation_support") : i \in Unsupporting(case)}

(***************************************************************************)
(* Claims.                                                                 *)
(***************************************************************************)
Statistical == {"significant", "p_value", "interval", "sample_size"}

\* Without any structured number there is nothing to compare with, and no finding.
NumericalGrounding(case) ==
  LET ungrounded ==
        {c \in case.claims :
           /\ case.numbers # {}
           /\ c.says \cap ({"financial", "finance_word"} \cup Statistical) = {}
           /\ \E n \in c.numbers : ~Grounded(n, case.numbers)}
  IN {Finding("unsupported_numerical_claim", "high", <<"claim", c.id>>, "numerical_grounding") :
        c \in ungrounded}
       \cup {Finding("fabricated_experiment_result", "high", <<"claim", c.id>>,
                     "numerical_grounding") : c \in {x \in ungrounded : "result" \in x.says}}

Abstaining(claim) == "abstains" \in claim.says

FinancialClaims(case) ==
  {Finding("fabricated_revenue_or_roi", "critical", <<"claim", c.id>>, "financial_guardrails") :
     c \in {x \in case.claims :
              /\ "financial" \in x.says /\ ~Abstaining(x)
              /\ \/ case.amounts = {}
                 \/ \E a \in x.amounts : ~Grounded(a, case.amounts)}}

\* No interval or sample size is grounded: the structured results have none.
UngroundedStatistics(case, claim) ==
  IF "significant" \in claim.says /\ ~case.significant THEN TRUE
  ELSE \/ /\ "p_value" \in claim.says
          /\ \/ case.p_value = None \/ claim.numbers = {}
             \/ \E n \in claim.numbers : ~NumbersMatch(n, case.p_value)
       \/ claim.says \cap {"interval", "sample_size"} # {}

StatisticalClaims(case) ==
  {Finding("fabricated_statistical_significance", "critical", <<"claim", c.id>>,
           "statistical_validation") :
     c \in {x \in case.claims : ~Abstaining(x) /\ UngroundedStatistics(case, x)}}

(***************************************************************************)
(* The public text as a whole.                                             *)
(***************************************************************************)
NeedsAbstention(case) ==
  \/ case.failure_mode
  \/ {case.expected_decision, case.decision} \cap {"needs_more_data", "insufficient_data"} # {}
  \/ case.expected_recommendation = "needs_more_data"
  \/ case.impact = "insufficient_data"

Endorses(text) ==
  /\ text \cap {"do_not_roll_out", "needs_more_data", "not_approved"} = {}
  /\ text \cap {"rollout", "approved"} # {}

Approves(text) ==
  /\ text \cap {"not_approved", "awaiting_approval", "revision_requested"} = {}
  /\ "approved" \in text

Abstention(case) ==
  IF ~NeedsAbstention(case) \/ "abstains" \in case.text THEN {}
  ELSE {Finding("answer_generated_when_abstention_was_expected", "high", <<"answer">>,
                "abstention")}
         \cup IF Endorses(case.text) \/ "confident" \in case.text
              THEN {Finding("overconfident_answer_with_insufficient_evidence", "high",
                            <<"answer">>, "abstention")}
              ELSE {}

StructuredConsistency(case) ==
  IF \/ case.recommendation = "do_not_rollout" /\ Endorses(case.text)
     \/ case.approval = "rejected" /\ (Approves(case.text) \/ Endorses(case.text))
  THEN {Finding("contradiction_with_structured_experiment_data", "critical", <<"answer">>,
                "structured_consistency")}
  ELSE {}

EvidenceCoverage(case) ==
  {Finding("unsupported_factual_claim", "medium", <<"claim", c.id>>, "evidence_coverage") :
     c \in {x \in case.claims :
              /\ x.numbers = {} /\ x.says \cap {"financial", "finance_word"} = {}
              /\ Cardinality(x.words) >= 2 /\ x.words \cap case.support = {}
              /\ x.says \cap {"rollout", "approved"} # {}}}

\* Claims too vague to be checked leave the case unparsed, a warning at most.
Specific(case, claim) ==
  \/ claim.numbers # {}
  \/ claim.says \cap ({"refuses", "metric", "financial", "finance_word", "rollout", "approved"}
                        \cup Statistical) # {}
  \/ Cardinality(claim.words) >= 2 /\ Cardinality(claim.words \cap case.support) >= 2

Unparsed(case) == case.text # {"blank"} /\ \A c \in case.claims : ~Specific(case, c)

(***************************************************************************)
(* A case: an answer that presents a stored analysis must be its rendering *)
(* to the letter, and is not read for claims.                              *)
(***************************************************************************)
Presentation(case) ==
  IF case.canonical THEN {}
  ELSE {Finding("contradiction_with_structured_experiment_data", "critical",
                <<"presentation">>, "structured_analysis_canonical")}

EvaluateFactuality(case) ==
  IF case.canonical # None
  THEN [findings |-> CitationPresence(case) \cup CitationSupport(case) \cup Presentation(case),
        coverage |-> Truth(case.citations # <<>>), unparsed |-> FALSE]
  ELSE [findings |->
          UNION {CitationPresence(case), CitationSupport(case), NumericalGrounding(case),
                 FinancialClaims(case), StatisticalClaims(case), Abstention(case),
                 StructuredConsistency(case), EvidenceCoverage(case)},
        coverage |-> IF case.expected_citations = 0 THEN 1000
                     ELSE Least(Share(Len(case.citations), case.expected_citations), 1000),
        unparsed |-> Unparsed(case)]

FactualityStatus(result) ==
  IF \E f \in result.findings : f.severity \in {"high", "critical"} THEN "fail"
  ELSE IF result.findings # {} \/ result.unparsed THEN "warning" ELSE "pass"

(***************************************************************************)
(* The cases of a run.  A question or a workflow case that raised has no   *)
(* answer to check and is left out; for an analysis the evidence is its    *)
(* artifacts.                                                              *)
(***************************************************************************)
FactualityCases(samples) ==
  [i \in {j \in DOMAIN samples : samples[j].answer # None} |-> samples[i].answer]

Exceeds(counts, key, allowed) == key \in DOMAIN counts /\ counts[key] > allowed

\* How many findings have each value of a field.
Tally(results, field) ==
  LET own == UNION {{<<i, f>> : f \in results[i].findings} : i \in DOMAIN results}
  IN [k \in {p[2][field] : p \in own} |-> Cardinality({p \in own : p[2][field] = k})]

\* judged holds the metric and score of what a judge scored; offline it is empty.
PolicyBreached(policy, results, categories, severities, judged) ==
  \/ Exceeds(severities, "critical", policy.critical)
  \/ Exceeds(categories, "unsupported_numerical_claim", policy.numerical)
  \/ Exceeds(categories, "fabricated_revenue_or_roi", policy.financial)
  \/ Exceeds(categories, "fabricated_statistical_significance", policy.statistical)
  \/ \E i \in DOMAIN results : results[i].coverage < policy.coverage
  \/ Exceeds(severities, "medium", policy.medium)
  \/ \E j \in judged : /\ j.metric \in DOMAIN policy.thresholds
                       /\ j.score # None /\ j.score < policy.thresholds[j.metric]

FactualityPolicyStatus(policy, results, categories, severities, judged) ==
  IF DOMAIN results = {} THEN "skipped"
  ELSE IF PolicyBreached(policy, results, categories, severities, judged) THEN "fail"
  ELSE IF \E i \in DOMAIN results : results[i].unparsed THEN "warning" ELSE "pass"

FactualityReport(samples, policy, judged) ==
  LET cases == FactualityCases(samples)
      results == [i \in DOMAIN cases |-> EvaluateFactuality(cases[i])]
      categories == Tally(results, "category")
      severities == Tally(results, "severity")
      statuses == {FactualityStatus(results[i]) : i \in DOMAIN results}
  IN [policy_status |->
        FactualityPolicyStatus(policy, results, categories, severities, judged),
      categories |-> categories, severities |-> severities,
      statuses |-> [s \in statuses |->
                      Cardinality({i \in DOMAIN results : FactualityStatus(results[i]) = s})]]
=============================================================================
