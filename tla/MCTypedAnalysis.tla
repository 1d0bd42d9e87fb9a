--------------------------- MODULE MCTypedAnalysis ---------------------------
(***************************************************************************)
(* Every consumer replaced, as in the analysis of the workflow alone: the  *)
(* built-in agent's answer is among the proposals of an injected one.      *)
(*                                                                         *)
(* Experiments of eight rows that each service accepts, and what is a      *)
(* change of the table and a change of the request away from one of them.  *)
(* Panels, weighted and cross-fitted tables that each causal estimator     *)
(* accepts, and what is a change of the table, or of the declarations,     *)
(* or, where the results are few, of both, away from one of them, with a   *)
(* library behind the estimator or without.  And of each a scenario, and   *)
(* what is a change of its declarations away from it.                      *)
(***************************************************************************)
EXTENDS TypedAnalysis

MCInjected == Consumers
MCExamined == {[refused |-> "no", business |-> "given", intent |-> "decision_support",
                input |-> "absent"]}

MCPolicy == [minimumTotal |-> 4, weakTotal |-> 7, minimumPerArm |-> 2, weakPerArm |-> 3,
             minimumPerSegmentArm |-> 2, minimumClusters |-> 3, weakClusters |-> 4]

Period(s, e) == [start |-> s, end |-> e]

Covariate ==
  [metric |-> "spend", type |-> "continuous", timing |-> "pre_treatment",
   role |-> "cuped", relationship |-> "none_known", period |-> Period(0, 4)]
History == [metric |-> "visits", type |-> "count", period |-> Period(0, 4)]

Request ==
  [design |-> "randomized", method |-> "fixed_horizon_ab",
   estimand |-> "average_treatment_effect", conditioning |-> None, outcome |-> "continuous",
   segment |-> None, population |-> None, unit |-> "user", assignmentUnit |-> "user",
   clustering |-> None, treatmentShare |-> 50, pre |-> None, post |-> Period(5, 9),
   covariates |-> <<>>, preMetrics |-> <<>>, uncertainty |-> "confidence",
   alternative |-> "two_sided", likelihood |-> "normal"]

Binding ==
  [arm |-> "arm", unit |-> "unit", assigned |-> "unit", cluster |-> None, time |-> None,
   treated |-> None,
   outcome |-> [columns |-> <<"outcome">>, lower |-> None, upper |-> None,
                allowNegative |-> FALSE],
   covariates |-> <<>>, preMetrics |-> <<>>]

Row(i) ==
  [arm |-> IF i % 2 = 0 THEN "treatment" ELSE "control",
   outcome |-> IF i \in {1, 2, 5, 6} THEN 1 ELSE 0, denominator |-> 1,
   unit |-> i, assigned |-> i, cluster |-> i \div 2, time |-> 6, treated |-> 5,
   covariate |-> i % 3, history |-> 1, region |-> "eu", segment |-> i % 4]

Header == <<"arm", "outcome", "denominator", "unit", "assigned", "cluster", "time",
            "treated", "covariate", "history", "region", "segment">>

Case(q, b) ==
  [req |-> q, bind |-> b, floats |-> FALSE,
   columns |-> Header, rows |-> [i \in 1..8 |-> Row(i)]]

Adjusting == [Binding EXCEPT !.covariates = <<[metric |-> "spend", column |-> "covariate"]>>]
Fixed == Case(Request, Binding)
Proportions == Case([Request EXCEPT !.outcome = "binary"], Binding)
Adjusted == Case([Request EXCEPT !.method = "cuped", !.covariates = <<Covariate>>], Adjusting)
Posterior(outcome, likelihood) ==
  Case([Request EXCEPT !.method = "bayesian_ab", !.outcome = outcome,
                       !.uncertainty = "credible", !.likelihood = likelihood], Binding)
Averages == Posterior("continuous", "normal")
Rates == Posterior("binary", "bernoulli")
Bases == {Fixed, Proportions, Adjusted, Averages, Rates}

\* Changes of a table: a cell, a column of cells, the columns, the rows.
Cells ==
  [arm |-> {None, "other", "control"}, outcome |-> {None, Text, Infinite, -1, 2},
   unit |-> {None, 3}, time |-> {None, Text, 2}, covariate |-> {None, Text, Infinite},
   segment |-> {None}, region |-> {"us"}]
CellEdits(c) ==
  UNION {{[c EXCEPT !.rows[i][column] = cell] : i \in {1, 2}, cell \in Cells[column]} :
           column \in DOMAIN Cells}
All(c, column, cell) == [c EXCEPT !.rows = [i \in DOMAIN @ |-> [@[i] EXCEPT ![column] = cell]]]
ColumnEdits(c) ==
  {All(c, "outcome", 0), All(c, "covariate", 1), All(c, "time", 2), All(c, "cluster", 1)}
RowEdits(c) ==
  {[c EXCEPT !.rows = SubSeq(@, 1, n)] : n \in {0, 2, 4, 5}}
  \cup {[c EXCEPT !.rows = SelectSeq(@, LAMBDA r : r.unit \notin units)] :
           units \in {{2, 4}, {2, 4, 6}, {1, 3, 5, 7}}}
TableEdits(c) ==
  {c, [c EXCEPT !.floats = TRUE], [c EXCEPT !.columns = <<"arm">> \o @],
   [c EXCEPT !.columns = SelectSeq(@, LAMBDA column : column # "covariate")]}
  \cup CellEdits(c) \cup ColumnEdits(c) \cup RowEdits(c)

\* Changes of a request and its binding, of those the models let through.
Segment(n) == [attribute |-> "segment", op |-> "at_least", value |-> n]
Fields ==
  [estimand |-> {"difference_in_means", "difference_in_proportions"},
   outcome |-> {"binary", "ratio"}, segment |-> {Segment(1), Segment(9)},
   population |-> {"eu"}, clustering |-> {"user", "shop"}, assignmentUnit |-> {"shop"},
   treatmentShare |-> {70, 90}, preMetrics |-> {<<History>>},
   uncertainty |-> {"credible"}, alternative |-> {"greater"}]
FieldEdits(c) ==
  UNION {{[c EXCEPT !.req[field] = value] : value \in Fields[field]} : field \in DOMAIN Fields}
CovariateEdits(c) ==
  IF c.req.covariates = <<>> THEN {[c EXCEPT !.req.covariates = <<Covariate>>]}
  ELSE {[c EXCEPT !.req.covariates[1].timing = "post_treatment"],
        [c EXCEPT !.req.covariates[1].timing = "time_varying"],
        [c EXCEPT !.req.covariates[1].relationship = "proxy"],
        [c EXCEPT !.req.covariates[1].role = "precision"],
        [c EXCEPT !.req.covariates[1].period.end = 7],
        [c EXCEPT !.req.covariates[1].period.end = 7, !.req.covariates[1].timing = "at_treatment"],
        [c EXCEPT !.req.covariates = @ \o [@ EXCEPT ![1].metric = "age"]],
        [c EXCEPT !.bind.covariates = <<>>],
        [c EXCEPT !.bind.covariates[1].column = "history"]}
BindingEdits(c) ==
  {[c EXCEPT !.bind.time = "time"], [c EXCEPT !.bind.assigned = None],
   [c EXCEPT !.bind.assigned = "cluster"], [c EXCEPT !.bind.cluster = "cluster"],
   [c EXCEPT !.bind.cluster = "cluster", !.req.clustering = "shop", !.req.assignmentUnit = "shop",
             !.bind.assigned = "cluster", !.bind.time = "time"],
   [c EXCEPT !.bind.outcome.columns = <<"outcome", "denominator">>],
   [c EXCEPT !.bind.outcome.allowNegative = TRUE],
   [c EXCEPT !.req.preMetrics = <<History>>,
             !.bind.preMetrics = <<[metric |-> "visits", columns |-> <<"history">>,
                                    lower |-> None, upper |-> None, allowNegative |-> FALSE]>>]}
RequestEdits(c) ==
  {d \in {c} \cup FieldEdits(c) \cup CovariateEdits(c) \cup BindingEdits(c) :
     RequestOK(d.req) /\ BindingOK(d.bind)}

Variants(c) == UNION {RequestEdits(d) : d \in TableEdits(c)}
RandomizedCases ==
  Variants(Fixed) \cup Variants(Proportions) \cup Variants(Adjusted) \cup Variants(Averages)
  \cup Variants(Rates)

MCDidPolicy == [minimum |-> 4, minimumPerGroup |-> 2, few |-> 5]
MCScoreValues == {0, 30, 60, 100}

Span(s, e) == [start |-> s, end |-> e]
DeclaredDesign(id, role, timing) ==
  [id |-> id, roles |-> <<role>>, timing |-> timing, period |-> None, start |-> None]

Estimand(kind, scale) ==
  [kind |-> kind, scale |-> scale, treatment |-> "offer", outcome |-> "sales",
   population |-> "customers", modifiers |-> <<>>]

\* Everything is declared: an effect of "offer" on "sales", adjusted for "age".
Declaration(design, kind, covariates) ==
  [design |-> design, treatedGroup |-> "treated", comparisonGroup |-> "control",
   adoption |-> "stable", estimand |-> Estimand(kind, "mean_difference"),
   treatment |-> "offer", outcome |-> [id |-> "sales", type |-> "continuous"],
   population |-> "customers", units |-> "customer", time |-> None, start |-> 5,
   pre |-> Span(0, 5), post |-> Span(5, 9),
   variables |-> <<DeclaredDesign("offer", "treatment", "at_treatment"),
                   DeclaredDesign("sales", "outcome", "post_treatment"),
                   DeclaredDesign("age", "adjustment", "pre_treatment"),
                   DeclaredDesign("visits", "unknown", "post_treatment")>>,
   covariates |-> covariates,
   adjustment |-> [variables |-> covariates, estimand |-> kind],
   modifiers |-> <<>>, graph |-> None,
   assumptions |-> [i \in 1..9 |->
     [code |-> <<"consistency", "interference_limitation", "exchangeability", "positivity",
                 "temporal_ordering", "stable_treatment_definition", "stable_unit_population",
                 "parallel_trends", "no_anticipation">>[i],
      status |-> "asserted", required |-> TRUE]]]

(***************************************************************************)
(* Panels of four customers.                                               *)
(***************************************************************************)
PanelRow(unit, time) ==
  [unit |-> unit, time |-> time, group |-> IF unit <= 2 THEN "treated" ELSE "control",
   exposure |-> IF unit <= 2 /\ time >= 5 THEN 1 ELSE 0,
   start |-> IF unit <= 2 THEN 5 ELSE None, outcome |-> unit]
PanelOver(times, extra) ==
  [req |-> [method |-> "did"], extra |-> extra,
   ident |-> [Declaration("difference_in_differences", "did_att", <<>>)
                EXCEPT !.pre = Span(3, 5)],
   columns |-> <<"unit", "time", "group", "exposure", "start", "outcome">>,
   rows |-> [i \in 1..(4 * Len(times)) |-> PanelRow(((i - 1) % 4) + 1, times[((i - 1) \div 4) + 1])]]
Panel == PanelOver(<<3, 6>>, <<>>)
LongPanel == PanelOver(<<0, 2, 3, 6>>, <<Span(0, 1), Span(1, 3)>>)

(***************************************************************************)
(* Eight customers, half of them with the offer.                           *)
(***************************************************************************)
Customer(i) ==
  [unit |-> i, exposure |-> i % 2, outcome |-> i % 3, age |-> i % 3, visits |-> i % 2]
TableFor(method, design, kind) ==
  [req |-> [method |-> method], ident |-> Declaration(design, kind, <<"age">>),
   columns |-> <<"unit", "exposure", "outcome", "age", "visits">>,
   rows |-> [i \in 1..8 |-> Customer(i)]]

Bound == <<[id |-> "age", column |-> "age", kind |-> "numeric"]>>
WeightingFor(method, kind, trimming) ==
  TableFor(method, "propensity_weighting", kind)
  @@ [weight |-> [covariates |-> Bound, outcome |-> "outcome", trimming |-> trimming]]
Weightings ==
  {WeightingFor("propensity_diagnostics", "ate", None),
   WeightingFor("ipw_ate", "ate", [lower |-> 40, upper |-> 99]),
   WeightingFor("ipw_att", "att", [lower |-> 0, upper |-> 40])}

Split ==
  [folds |-> 2, minimumTraining |-> 4, minimumScoring |-> 2, score |-> "partialling_out_dml",
   treatment |-> "offer", outcome |-> "sales", covariates |-> <<[id |-> "age", column |-> "age"]>>,
   rank |-> [u \in 1..8 |-> <<3, 8, 1, 6, 7, 2, 5, 4>>[u]]]
CrossFit == TableFor("dml", "double_machine_learning", "ate") @@ [split |-> Split]

\* Ten customers in two tiers, four of them in the first.
Tiers ==
  [method |-> "partialling_out_dml_subgroup_interactions", modifier |-> "tier",
   column |-> "tier", bound |-> [id |-> "tier", column |-> "tier"], timing |-> "pre_treatment",
   derivation |-> "direct_measurement", confirmatory |-> TRUE, kind |-> "categorical",
   subgroups |-> <<[id |-> "low", value |-> 0], [id |-> "high", value |-> 1]>>,
   minimum |-> [retained |-> 4, treated |-> 2, control |-> 2]]
Bins == <<[id |-> "low", lower |-> None, upper |-> 1], [id |-> "high", lower |-> 1, upper |-> None]>>
MoreBins ==
  <<[id |-> "low", lower |-> None, upper |-> 1], [id |-> "high", lower |-> 1, upper |-> 2],
    [id |-> "top", lower |-> 2, upper |-> None]>>
Conditioned(q) ==
  [q EXCEPT !.estimand.modifiers = <<"tier">>, !.modifiers = <<"tier">>,
            !.variables = @ \o <<DeclaredDesign("tier", "effect_modifier", "pre_treatment")>>]
ByTier ==
  [req |-> [method |-> "hte"],
   ident |-> Conditioned(Declaration("heterogeneous_effects", "cate", <<"age">>)),
   columns |-> <<"unit", "exposure", "outcome", "age", "visits", "tier">>,
   rows |-> [i \in 1..10 |-> Customer(i) @@ [tier |-> IF i <= 4 THEN 0 ELSE 1]],
   split |-> [Split EXCEPT !.rank = [u \in 1..10 |-> <<3, 8, 1, 6, 7, 2, 5, 4, 10, 9>>[u]]],
   effect |-> Tiers]

(***************************************************************************)
(* The same with a library; and columns named as their variables are.      *)
(***************************************************************************)
Library == [adapter |-> [inference |-> "statsmodels_hc1", constant |-> TRUE]]
LinearCrossFit == [CrossFit EXCEPT !.req.method = "econml_dml"] @@ Library
RobustByTier ==
  [ByTier EXCEPT !.req.method = "econml_hte",
     !.effect = [version |-> "hte-dr-v1"]
                @@ [@ EXCEPT !.method = "doubly_robust_subgroup_effects", !.kind = "binary"]]
  @@ Library

Node(id) == [id |-> id, variable |-> id, observed |-> TRUE]
Graph(edges) ==
  [dag |-> TRUE, nodes |-> <<Node("offer"), Node("sales"), Node("age"), Node("visits")>>,
   edges |-> <<<<"offer", "sales">>>> \o edges]
Confounded(edges) ==
  [Declaration("generic_observational", "ate", <<"age">>) EXCEPT !.graph = Graph(edges)]
Drawn ==
  [req |-> [method |-> "dowhy"], ident |-> Confounded(<<<<"age", "offer">>, <<"age", "sales">>>>),
   columns |-> <<"offer", "sales", "age", "visits">>,
   rows |-> [i \in 1..6 |-> [offer |-> i % 2, sales |-> i % 3, age |-> i % 3, visits |-> i % 2]],
   dowhy |-> [treatment |-> "offer", outcome |-> "sales",
              covariates |-> <<[id |-> "age", column |-> "age"]>>,
              given |-> TRUE, estimates |-> TRUE, refutes |-> TRUE]]

(***************************************************************************)
(* Changes of a table.                                                     *)
(***************************************************************************)
PanelCells ==
  [time |-> {None, Text, 1, 99}, unit |-> {None, Text, 4}, group |-> {None, "control"},
   exposure |-> {None, 0, 1}, start |-> {None, 5, 6}, outcome |-> {None, Text, Infinite}]
CustomerCells ==
  [unit |-> {None, Infinite, 3}, exposure |-> {None, 2, 0}, outcome |-> {None, Text, Infinite, 5},
   age |-> {None, Text, Infinite}]
TierCells == CustomerCells @@ [tier |-> {None, Text, Infinite, 0, 1, 2}]
EditedCells(c, cells, rows) ==
  UNION {{[c EXCEPT !.rows[i][column] = cell] : i \in rows, cell \in cells[column]} :
           column \in DOMAIN cells}
Without(c, units) ==
  [c EXCEPT !.rows = SelectSeq(@, LAMBDA r : r.unit \notin units)]
Tables(c, cells, rows, groups) ==
  {c, [c EXCEPT !.columns = SelectSeq(@, LAMBDA column : column # "outcome")],
   [c EXCEPT !.rows = Tail(@)], [c EXCEPT !.rows = @ \o <<@[1]>>], [c EXCEPT !.rows = <<>>]}
  \cup EditedCells(c, cells, rows) \cup {Without(c, units) : units \in groups}

(***************************************************************************)
(* Changes of the declarations.                                            *)
(***************************************************************************)
Graphs ==
  {Graph(<<<<"age", "offer">>>>), Graph(<<<<"offer", "visits">>, <<"visits", "age">>>>),
   Graph(<<<<"sales", "offer">>>>),
   [Graph(<<<<"age", "offer">>>>) EXCEPT !.nodes[3].observed = FALSE],
   [Graph(<<>>) EXCEPT !.nodes = SubSeq(@, 1, 2)]}
DeclarationFields ==
  [estimand |-> {None, Estimand("ate", "mean_difference"), Estimand("att", "mean_difference"),
                 Estimand("did_att", "risk_difference")},
   treatment |-> {None}, units |-> {None}, start |-> {None, 2, 8}, pre |-> {None, Span(6, 8)},
   post |-> {None}, outcome |-> {None, [id |-> "sales", type |-> "binary"]},
   adoption |-> {None}, treatedGroup |-> {None},
   design |-> {"custom", "generic_observational", "heterogeneous_effects"},
   adjustment |-> {None, [variables |-> <<>>, estimand |-> "ate"],
                   [variables |-> <<"age", "visits">>, estimand |-> "ate"]},
   modifiers |-> {<<"visits">>}, covariates |-> {<<"age", "age">>}, graph |-> Graphs,
   population |-> {"shops"}, time |-> {"visits"}]
VariableEdits(q) ==
  {[q EXCEPT !.variables[3].timing = t] : t \in {"unknown", "time_invariant", "post_treatment"}}
  \cup {[q EXCEPT !.variables[3].roles = <<"adjustment", "effect_modifier">>],
        [q EXCEPT !.variables[3].roles = <<"identifier">>],
        [q EXCEPT !.variables[3].period = Span(2, 6), !.variables[3].start = 5],
        [q EXCEPT !.variables = @ \o <<@[3]>>]}
AssumptionEdits(q) ==
  {[q EXCEPT !.assumptions = Tail(@)], [q EXCEPT !.assumptions[1].required = FALSE]}
  \cup {[q EXCEPT !.assumptions[i].status = s] : i \in {1, 8}, s \in {"violated", "unverified"}}
Declarations(q) ==
  {q} \cup VariableEdits(q) \cup AssumptionEdits(q)
  \cup UNION {{[q EXCEPT ![field] = value] : value \in DeclarationFields[field]} :
                field \in DOMAIN DeclarationFields}

\* Two at a time: what one declaration hides of another.
Hidden(q) ==
  UNION {VariableEdits(r) : r \in {[q EXCEPT !.units = None], [q EXCEPT !.start = None],
                                   [q EXCEPT !.treatment = None]}}

Redeclared(tables, declarations) ==
  {[c EXCEPT !.ident = q] : c \in tables, q \in declarations}

SplitEdits(c) ==
  {[c EXCEPT !.split.folds = n] : n \in {3, 5}}
  \cup {[c EXCEPT !.split.minimumScoring = 5], [c EXCEPT !.split.minimumTraining = 7],
        [c EXCEPT !.split.score = "interactive"], [c EXCEPT !.split.treatment = "visits"],
        [c EXCEPT !.split.outcome = "visits"],
        [c EXCEPT !.split.covariates[1].id = "visits"],
        [c EXCEPT !.split.rank = Reverse(@)]}
WeightEdits(c) ==
  {[c EXCEPT !.weight.outcome = "age"], [c EXCEPT !.weight.trimming = None],
   [c EXCEPT !.weight.trimming = [lower |-> 0, upper |-> 60]],
   [c EXCEPT !.weight.covariates[1].kind = "categorical"],
   [c EXCEPT !.weight.covariates[1].id = "visits"],
   [c EXCEPT !.ident.outcome.type = "binary", !.ident.estimand.scale = "risk_difference",
             !.weight.outcome = "visits"]}

EffectFields ==
  [method |-> {"causal_forest"}, modifier |-> {"age"}, column |-> {"visits"},
   timing |-> {"post_treatment", "unknown"}, derivation |-> {"outcome_derived", "data_mined"},
   confirmatory |-> {FALSE}]
EffectEdits(c) ==
  UNION {{[c EXCEPT !.effect[field] = value] : value \in EffectFields[field]} :
           field \in DOMAIN EffectFields}
  \cup {[c EXCEPT !.ident.variables[5].timing = "unknown"],
        [c EXCEPT !.ident.variables[5].roles = <<"unknown">>],
        [c EXCEPT !.effect.minimum.retained = 5], [c EXCEPT !.effect.minimum.retained = 7],
        [c EXCEPT !.effect.minimum.treated = 3, !.effect.minimum.retained = 5]}
Binnings(c) ==
  {c} \cup {[c EXCEPT !.effect.kind = "binned", !.effect.subgroups = bins] :
               bins \in {Bins, MoreBins}}

PanelCases ==
  Redeclared(Tables(Panel, PanelCells, {1, 3, 5, 7}, {{1}, {3}, {1, 2}, {3, 4}}),
             Declarations(Panel.ident) \cup Hidden(Panel.ident))
  \cup Tables(LongPanel, PanelCells, {1, 3, 5}, {{1}})
WeightingCases ==
  UNION {Tables(c, CustomerCells, {1, 2}, {{2, 4, 6, 8}, {1, 3, 5}, {2, 8}, {1, 2, 7, 8}})
         \cup Redeclared({c}, Declarations(c.ident)) \cup WeightEdits(c) : c \in Weightings}
CrossFitTables ==
  Tables(CrossFit, CustomerCells, {1, 2}, {{2, 4, 6, 8}, {1, 3, 5}, {2, 8}})
CrossFitCases ==
  Redeclared(CrossFitTables, Declarations(CrossFit.ident))
  \cup UNION {SplitEdits(d) : d \in CrossFitTables}

SubgroupCases ==
  UNION {Binnings(d) \cup EffectEdits(d) \cup SplitEdits(d) :
           d \in Tables(ByTier, TierCells, {1, 2, 5}, {{2, 4}, {1, 2}, {2, 4, 6, 8, 10}, {1, 2, 3, 4}})}
  \cup Redeclared({ByTier}, Declarations(ByTier.ident))

AdapterEdits(c) ==
  {[c EXCEPT !.adapter.inference = "bootstrap"], [c EXCEPT !.adapter.constant = FALSE]}
LibraryCases ==
  UNION {SplitEdits(d) \cup AdapterEdits(d) :
           d \in Tables(LinearCrossFit, CustomerCells, {1}, {{2, 4, 6, 8}, {1, 3, 5}, {2, 8}})}
  \cup Redeclared({LinearCrossFit}, Declarations(LinearCrossFit.ident))
  \cup UNION {EffectEdits(d) \cup Binnings(d) \cup AdapterEdits(d)
              \cup {[d EXCEPT !.effect.version = "hte-dml-v1"],
                    [d EXCEPT !.effect.kind = "categorical"]} :
                d \in Tables(RobustByTier, TierCells, {1, 5},
                            {{2, 4}, {1, 2}, {2, 4, 6, 8, 10}, {1, 2, 3, 4}})}
  \cup SplitEdits(RobustByTier)

\* Where the library would read something else than what is looked at.
BoundEdits(c) ==
  {c, [c EXCEPT !.dowhy.given = FALSE], [c EXCEPT !.dowhy.estimates = FALSE],
   [c EXCEPT !.dowhy.refutes = FALSE], [c EXCEPT !.dowhy.treatment = "visits"],
   [c EXCEPT !.dowhy.outcome = "visits"], [c EXCEPT !.dowhy.covariates = <<>>],
   [c EXCEPT !.dowhy.covariates[1].column = "visits"]}
DrawnCells ==
  [offer |-> {None, 2, 1}, sales |-> {None, Text, Infinite}, age |-> {None, Text, Infinite}]
DrawnTables(c) ==
  {c, [c EXCEPT !.rows = <<>>], [c EXCEPT !.rows = SelectSeq(@, LAMBDA r : r.offer = 1)]}
  \cup {[c EXCEPT !.columns = SelectSeq(@, LAMBDA column : column # lost)] :
           lost \in {"offer", "sales", "age"}}
  \cup EditedCells(c, DrawnCells, {1, 2})
DrawnGraphs ==
  {Confounded(<<<<"age", "offer">>, <<"visits", "offer">>, <<"visits", "sales">>>>),
   Confounded(<<<<"offer", "visits">>, <<"visits", "sales">>>>),
   Confounded(<<<<"sales", "age">>>>), Confounded(<<<<"age", "visits">>, <<"visits", "offer">>>>),
   [Confounded(<<<<"age", "offer">>>>) EXCEPT !.graph.nodes[4].observed = FALSE]}
Undeclared(q) == {q, [q EXCEPT !.adjustment = None], [q EXCEPT !.adjustment.variables = <<>>]}
DrawnCases ==
  UNION {BoundEdits(c) : c \in Redeclared(DrawnTables(Drawn), Undeclared(Drawn.ident))}
  \cup Redeclared({Drawn}, UNION {Undeclared(q) : q \in DrawnGraphs})
  \cup Redeclared({Drawn}, Declarations(Drawn.ident) \cup
          {[Drawn.ident EXCEPT !.estimand.scale = "risk_difference"],
           [Drawn.ident EXCEPT !.estimand.kind = "att", !.adjustment.estimand = "att"]})

MCCausalCases ==
  {c \in PanelCases \cup WeightingCases \cup CrossFitCases \cup SubgroupCases
          \cup LibraryCases \cup DrawnCases : CausalOK(c)}

(***************************************************************************)
(* Scenarios of a month, or of a quarter, of four-day months.              *)
(***************************************************************************)
Between(l, u, m) == [lower |-> l, upper |-> u, central |-> m]
Sure(x) == Between(x, x, x)
Months(n) == [count |-> n, unit |-> "months"]
Quarter == [count |-> 1, unit |-> "quarters"]
Days(n) == [count |-> n, unit |-> "days"]
Orders == CountUnit
Share100 == [dimension |-> "proportion", scale |-> 2, currency |-> None]
Dollars(scale) == [dimension |-> "currency", scale |-> scale, currency |-> "USD"]

Cost(id, basis, value) ==
  [id |-> id, basis |-> basis, value |-> value, currency |-> "USD", horizon |-> Months(1),
   entity |-> IF basis = "per_exposure" THEN "users" ELSE None,
   metric |-> None, unit |-> None, event |-> None, evidence |-> "measured"]
PerOrder(value) ==
  [Cost("returns", "per_incremental_outcome", value)
     EXCEPT !.metric = "orders", !.unit = Orders, !.event = "orders"]

\* The net worth of a month of orders, with a cost of every kind.
NetOfOrders ==
  [output |-> "net", group |-> None,
   population |-> [value |-> Between(2, 3, 2), entity |-> "users", definition |-> "everyone",
                   target |-> "full", perPeriod |-> FALSE, basis |-> Months(1),
                   exposure |-> "eligible", group |-> None, rule |-> None,
                   evidence |-> "measured"],
   exposure |-> [value |-> Sure(1), meaning |-> "rollout", horizon |-> Months(1),
                 evidence |-> "measured"],
   horizon |-> [period |-> Period(5, 9), basis |-> Months(1), evidence |-> "measured"],
   binding |-> [analysisUnit |-> "user", entity |-> "users", metric |-> "orders",
                unit |-> Orders, event |-> "orders", observed |-> None,
                evidence |-> "measured"],
   baseline |-> None, exposureConversion |-> None,
   conversion |-> [value |-> Sure(3), currency |-> "USD", metric |-> "orders",
                   unit |-> Orders, event |-> "orders", orientation |-> "added",
                   horizon |-> Months(1), evidence |-> "measured"],
   costs |-> [items |-> <<Cost("setup", "implementation", Sure(3)),
                          Cost("support", "recurring", Sure(2)),
                          Cost("ads", "per_exposure", Sure(1)),
                          PerOrder(Sure(1))>>,
              evidence |-> "measured"],
   persistence |-> None, repetition |-> None]

Worth(c, metric, low, point, high, q) ==
  c @@ [impact |-> [metric |-> metric,
                    estimate |-> [lower |-> low, point |-> point, upper |-> high], q |-> q]]
OrdersMetric == [id |-> "orders", unit |-> Orders]

\* The same with nothing certain.
Uncertain(q) ==
  [q EXCEPT !.exposure.value = Between(1, 2, 1), !.conversion.value = Between(2, 3, 3),
            !.costs.items[3].value = Between(0, 1, 1), !.costs.items[4].value = Between(1, 2, 2)]

\* The same request of another population.
For(definition, target, unit, group) ==
  [NetOfOrders EXCEPT !.population.definition = definition, !.population.target = target,
                   !.population.group = group, !.population.rule = group, !.group = group,
                   !.binding.analysisUnit = unit]
Customers(target) == For("customers", target, "customer", None)
Scenarioed(c) ==
  IF c.req.method \in SubgroupMethods
  THEN Worth(c, OrdersMetric, -1, 1, 2, For("customers", "conditioned", "customer", "high"))
  ELSE IF c.req.method \in CausalMethods
  THEN Worth(c, OrdersMetric, -1, 1, 2, Customers(TargetOf[c.ident.estimand.kind]))
  ELSE IF c.req.outcome = "binary"
  THEN Worth(c, [id |-> "orders", unit |-> Share100], 0, 1, 1,
             [NetOfOrders EXCEPT !.binding.unit = Share100])
  ELSE Worth(c, OrdersMetric, -1, 1, 2, NetOfOrders)

Sourced == {Scenarioed(c) : c \in Bases \cup {Panel, CrossFit, ByTier}}

\* A quarter, of which one month was observed.
Quarterly(q) ==
  [q EXCEPT !.horizon.period = Period(5, 17), !.horizon.basis = Quarter,
            !.exposure.horizon = Quarter, !.conversion.horizon = Quarter,
            !.costs.items = [i \in DOMAIN @ |-> [@[i] EXCEPT !.horizon =
                               IF q.costs.items[i].basis = "recurring" THEN @ ELSE Quarter]],
            !.population.perPeriod = TRUE,
            !.persistence = [period |-> Period(5, 17), evidence |-> "assumed"],
            !.repetition = [source |-> Months(1), target |-> Quarter, repetitions |-> 3,
                            evidence |-> "assumed"]]
QuarterEdits(q) ==
  {q, [q EXCEPT !.persistence = None], [q EXCEPT !.persistence.period.end = 9],
   [q EXCEPT !.persistence.period.start = 9], [q EXCEPT !.repetition = None],
   [q EXCEPT !.repetition.repetitions = 2], [q EXCEPT !.repetition.target = Months(3)],
   [q EXCEPT !.repetition.source = Quarter], [q EXCEPT !.population.perPeriod = FALSE],
   [q EXCEPT !.population.basis = Quarter], [q EXCEPT !.population.basis = Months(2)],
   [q EXCEPT !.population.basis = Quarter, !.repetition = None],
   [q EXCEPT !.population.basis = Days(4), !.repetition.source = Days(4)],
   [q EXCEPT !.costs.items[2].horizon = Months(2)],
   [q EXCEPT !.costs.items[2].horizon = [count |-> 1, unit |-> "years"]],
   [q EXCEPT !.costs.items[2].horizon = Days(4)]}

Converted ==
  [value |-> Between(1, 2, None), from |-> "sessions", to |-> "users", horizon |-> Months(1),
   evidence |-> "measured"]
PopulationEdits(q) ==
  {[q EXCEPT !.population.definition = "others"], [q EXCEPT !.population.target = "treated"],
   [q EXCEPT !.group = "low", !.population.group = "low", !.population.rule = "low"],
   [q EXCEPT !.group = "none", !.population.group = "none", !.population.rule = "none"],
   [q EXCEPT !.group = None, !.population.group = None, !.population.rule = None],
   [q EXCEPT !.population.rule = IF @ = None THEN None ELSE "other"],
   [q EXCEPT !.population.entity = "sessions"],
   [q EXCEPT !.population.entity = "sessions", !.exposureConversion = Converted],
   [q EXCEPT !.population.entity = "orders", !.exposureConversion = Converted],
   [q EXCEPT !.exposureConversion = Converted], [q EXCEPT !.population.value.central = None],
   [q EXCEPT !.population.exposure = "already_exposed"],
   [q EXCEPT !.population.exposure = "already_exposed", !.exposure.meaning = "already_exposed"],
   [q EXCEPT !.population.exposure = "already_exposed", !.exposure.meaning = "already_exposed",
             !.exposure.value = Sure(One)],
   [q EXCEPT !.exposure.meaning = "already_exposed"], [q EXCEPT !.exposure.value = Sure(0)],
   [q EXCEPT !.exposure.horizon = Quarter],
   [q EXCEPT !.population.basis = Days(4)],
   [q EXCEPT !.repetition = [source |-> Months(1), target |-> Months(1), repetitions |-> 1,
                             evidence |-> "measured"]]}
EffectDeclarations(q) ==
  {[q EXCEPT !.binding.analysisUnit = "shop"], [q EXCEPT !.binding.metric = "visits"],
   [q EXCEPT !.binding.event = None], [q EXCEPT !.binding.event = "conversions"],
   [q EXCEPT !.binding.unit = Dollars(1)], [q EXCEPT !.binding.entity = "sessions"],
   [q EXCEPT !.binding.observed = Period(5, 9)], [q EXCEPT !.binding.observed = Period(4, 9)],
   [q EXCEPT !.horizon.period = Period(6, 10)],
   [q EXCEPT !.horizon.period = Period(6, 10),
             !.persistence = [period |-> Period(6, 10), evidence |-> "assumed"]],
   [q EXCEPT !.baseline = [value |-> Sure(1), horizon |-> Months(1), evidence |-> "measured"]]}
MoneyEdits(q) ==
  {[q EXCEPT !.output = "gross"], [q EXCEPT !.output = "outcome"],
   [q EXCEPT !.conversion = None], [q EXCEPT !.costs = None],
   [q EXCEPT !.output = "outcome", !.conversion = None],
   [q EXCEPT !.output = "outcome", !.conversion = None, !.costs = None],
   [q EXCEPT !.conversion.orientation = "avoided"], [q EXCEPT !.conversion.unit = Share100],
   [q EXCEPT !.conversion.currency = "EUR"], [q EXCEPT !.conversion.horizon = Quarter],
   [q EXCEPT !.conversion.evidence = "assumed"], [q EXCEPT !.conversion.value = Between(2, 3, None)],
   [q EXCEPT !.costs.items = <<>>], [q EXCEPT !.costs.items[1].currency = "EUR"],
   [q EXCEPT !.costs.items[1].horizon = Quarter], [q EXCEPT !.costs.items[2].horizon = Quarter],
   [q EXCEPT !.costs.items[3].entity = "sessions"], [q EXCEPT !.costs.items[4].event = None],
   [q EXCEPT !.costs.items[4].unit = Dollars(1)], [q EXCEPT !.costs.items = SubSeq(@, 1, 3)],
   [q EXCEPT !.costs.items[4].value = Between(3, 4, None)]}
ScenarioEdits(q) ==
  {q} \cup PopulationEdits(q) \cup EffectDeclarations(q) \cup MoneyEdits(q) \cup QuarterEdits(Quarterly(q))

\* Money is not worth money, and a metric has the scale of its type.
Income(scale) ==
  [NetOfOrders EXCEPT !.binding.metric = "income", !.binding.unit = Dollars(scale),
                   !.binding.event = None, !.conversion = None,
                   !.costs.items = SubSeq(@, 1, 3)]
IncomeOf(scale, q) == Worth(Fixed, [id |-> "income", unit |-> Dollars(scale)], 0, 1, 1, q)
IncomeCases ==
  {IncomeOf(scale, Income(scale)) : scale \in {1, 3}}
  \cup {IncomeOf(1, [Income(1) EXCEPT !.binding.event = "orders"]),
        IncomeOf(1, [Income(1) EXCEPT
          !.conversion = [NetOfOrders.conversion EXCEPT !.metric = "income", !.unit = Dollars(1),
                                                     !.event = None]])}
\* A share that is told per unit is in the unit it is told in.
Proportion == Worth(Fixed, [id |-> "income", unit |-> Share100], 0, 1, 1,
                    [Income(1) EXCEPT !.binding.unit = Share100, !.output = "outcome", !.costs = None])

\* What the estimator has made of it: nothing, a posterior of nothing, another
\* estimand; what it was told of the time; scores.
Dated(q, observed, evidence) ==
  [q EXCEPT !.binding.observed = observed, !.binding.evidence = evidence]
Retimed == {[Panel EXCEPT !.ident = q] : q \in VariableEdits(Panel.ident)}
SourceCases ==
  {[c EXCEPT !.impact.estimate.lower = 2, !.impact.estimate.point = 1] : c \in Sourced}
  \cup {All(c, "outcome", 0) : c \in {d \in Sourced : ~Observational(d)}}
  \cup {Scenarioed(c) : c \in Retimed \cup Weightings}
  \cup {Scenarioed(d) : d \in {[c EXCEPT !.req.estimand = "intention_to_treat"] : c \in {Fixed}}}
  \cup {[c EXCEPT !.ident.post = None, !.impact.q = Dated(@, period, evidence)] :
           c \in {Scenarioed(CrossFit)}, period \in {None, Period(5, 9), Period(1, 5)},
           evidence \in {"measured", "assumed"}}
  \cup {Scenarioed(c) : c \in {LinearCrossFit, RobustByTier, Drawn}}
  \cup {Scenarioed([c EXCEPT !.rows = Tail(@)]) : c \in Bases}
  \cup {Scenarioed(Without(ByTier, {1, 2})),
        Scenarioed(WeightingFor("ipw_ate", "ate", None)),
        Scenarioed([CrossFit EXCEPT !.ident.estimand.scale = "log_odds_ratio"])}
ImpactCases ==
  {Proportion} \cup IncomeCases \cup SourceCases \cup {[Scenarioed(Fixed) EXCEPT !.impact.q = Uncertain(@)]}
  \cup UNION {{[c EXCEPT !.impact.q = q] : q \in ScenarioEdits(c.impact.q)} : c \in Sourced}

MCCases ==
  MCCausalCases \cup RandomizedCases
  \cup {c \in ImpactCases :
          /\ ScenarioOK(c.impact.q)
          /\ IF Observational(c) THEN CausalOK(c) ELSE RequestOK(c.req) /\ BindingOK(c.bind)}
=============================================================================
