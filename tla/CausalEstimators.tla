--------------------------- MODULE CausalEstimators ---------------------------
(***************************************************************************)
(* The estimators of an effect that was not randomized, as the workflow    *)
(* dispatches to them (orchestration/dispatch_causal.py and                *)
(* dispatch_optional.py), and what an estimate of theirs takes for granted *)
(* about the rows it rests on, said without the rules that are there to    *)
(* ensure it.                                                              *)
(***************************************************************************)
EXTENDS DifferenceInDifferences, PropensityWeighting, CrossFitting

(***************************************************************************)
(* DoWhyAdapter (causal/dowhy): an optional library is asked for a         *)
(* back-door set of the declared graph and, where that is wanted, for an   *)
(* estimate of a table and for refutations of the estimate.  The rows are  *)
(* looked at through a binding, of a column each to the treatment, the     *)
(* outcome and some covariates.  What the library answers is open.         *)
(***************************************************************************)
\* Observed variables that the treatment does not bring about.
BackdoorSets(q) ==
  SUBSET ({n.variable : n \in {m \in SetOf(q.graph.nodes) : m.observed}}
          \ ({q.treatment, q.outcome.id} \cup Affected(q.graph, q.treatment)))

DowhyRefusal(q) ==
  IF q.graph = None THEN Refused("abstained", "INVALID_GRAPH")
  ELSE IF q.estimand.kind # "ate" \/ q.estimand.scale # "mean_difference"
  THEN Refused("abstained", "UNSUPPORTED_ESTIMAND") ELSE NotRefused

MeasuredColumns(c) == {c.dowhy.outcome} \cup {b.column : b \in SetOf(c.dowhy.covariates)}

DowhyOK(c) ==
  /\ IdentificationOK(c.ident) /\ {c.dowhy.given, c.dowhy.estimates} \subseteq BOOLEAN
  /\ \A i \in DOMAIN c.rows, column \in MeasuredColumns(c) : Numeric(c.rows[i][column])

\* What is not a number raises or is refused, whichever row comes first.
TableFailures(c) ==
  IF \/ ~c.dowhy.given
     \/ ~({c.dowhy.treatment} \cup MeasuredColumns(c) \subseteq SetOf(c.columns))
  THEN {"INVALID_DATA"}
  ELSE IF {c.rows[i][c.dowhy.treatment] : i \in DOMAIN c.rows} # Exposures THEN {"INVALID_DATA"}
  ELSE If(\E i \in DOMAIN c.rows, column \in MeasuredColumns(c) :
            c.rows[i][column] \in {None, Text, Infinite},
          {"INVALID_DATA", "ESTIMATION_FAILURE"})

LibraryFailures(c) ==
  {"ESTIMATION_FAILURE", "MALFORMED_DOWHY_RESULT", "NONFINITE_ESTIMATE"}
  \cup If(c.dowhy.refutes, {"REFUTER_FAILURE"})

UnderGraph(rows, estimates, adjusted) ==
  [status |-> "completed", reason |-> NoReason, rows |-> rows, estimates |-> estimates,
   conclusion |-> None, adjusted |-> adjusted]

DowhyEstimated(c, adjusted) ==
  IF TableFailures(c) # {} THEN {Refused("abstained", reason) : reason \in TableFailures(c)}
  ELSE {Refused("abstained", reason) : reason \in LibraryFailures(c)}
       \cup {UnderGraph(DOMAIN c.rows, {"backdoor", "effect"}, adjusted)}

\* A set that was declared is the one the graph must give.
DowhyAdjusted(c, declared, adjusted) ==
  IF declared \notin {{}, adjusted} THEN {Refused("invalid", "INVALID_GRAPH")}
  ELSE IF c.dowhy.estimates THEN DowhyEstimated(c, adjusted)
  ELSE {UnderGraph({}, {"backdoor"}, adjusted)}

DowhyAsked(c, declared) ==
  {Refused("error", reason) :
     reason \in {"MODEL_CONSTRUCTION_FAILURE", "IDENTIFICATION_FAILURE",
                 "MALFORMED_DOWHY_RESULT"}}
  \cup {Refused("abstained", "IDENTIFICATION_UNAVAILABLE")}
  \cup UNION {DowhyAdjusted(c, declared, adjusted) : adjusted \in BackdoorSets(c.ident)}

DowhyResults(c, identified) ==
  IF DowhyRefusal(c.ident) # NotRefused THEN {DowhyRefusal(c.ident)}
  ELSE NoBackend
       \cup DowhyAsked(c, IF identified.adjusts THEN SetOf(c.ident.adjustment.variables) ELSE {})

(***************************************************************************)
(* All of them.                                                            *)
(***************************************************************************)
CrossFitMethods == {"dml", "econml_dml"}
SubgroupMethods == {"hte", "econml_hte"}
CausalMethods == {"did", "dowhy"} \cup CrossFitMethods \cup SubgroupMethods \cup WeightingMethods

CausalOK(c) ==
  /\ IsList(c.rows)
  /\ c.req.method = "did" => DidOK(c)
  /\ c.req.method \in CrossFitMethods => CrossFittingOK(c)
  /\ c.req.method \in SubgroupMethods => HeterogeneityOK(c)
  /\ c.req.method \in WeightingMethods => WeightingOK(c)
  /\ c.req.method = "dowhy" => DowhyOK(c)

\* Difference in differences identifies on its own; for the others what is not
\* identified is the answer.
CausalOf(c, identified) ==
  IF c.req.method = "did" THEN DidResults(c, identified)
  ELSE IF identified.status # "identified"
  THEN {Refused(identified.status, "identification.not_identified")}
  ELSE IF c.req.method \in CrossFitMethods THEN DmlResults(c, identified)
  ELSE IF c.req.method \in SubgroupMethods THEN HteResults(c, identified)
  ELSE IF c.req.method = "dowhy" THEN DowhyResults(c, identified)
  ELSE WeightingResults(c, identified)

CausalResults(c) == CausalOf(c, Identification(c.ident))

-----------------------------------------------------------------------------
\* One row of each unit, exposed or not, in both arms.
BothArms(c, rows) ==
  /\ \A i \in rows : c.rows[i].exposure \in Exposures /\ c.rows[i].unit \in Int
  /\ \A i, j \in rows : c.rows[i].unit = c.rows[j].unit => i = j
  /\ \A exposure \in Exposures : ArmOf(c, rows, exposure) # {}

\* What is adjusted for was there before the treatment, in a graph too: it has
\* no part in a set that holds all that the treatment brings about.
AdjustedForBefore(q, ids) ==
  /\ ids = SetOf(q.adjustment.variables)
  /\ \A v \in SetOf(q.variables) :
       v.id \in ids => /\ v.timing \notin {"post_treatment", "unknown"}
                       /\ SetOf(v.roles) \subseteq {"adjustment", "effect_modifier"}
  /\ q.graph # None =>
       \E brought \in SUBSET NodeIds(q.graph) :
         /\ \A n \in SetOf(q.graph.nodes) : n.id \in brought => n.variable \notin ids
         /\ \A e \in SetOf(q.graph.edges) :
              e[1] \in brought \cup {NodeOf(q.graph, q.treatment).id} => e[2] \in brought

\* The service takes a variable's own reversed timing for that of the periods,
\* and goes on with what was not identified.
TimingHides(c) == \E v \in SetOf(c.ident.variables) : Contradicted(v)

\* Every unit was seen before and after, nobody was exposed before the declared
\* start, the treated were after it and the others never; nothing is left out.
PanelIsSound(c, n) ==
  LET q == c.ident
      Seen(unit, p) == {i \in n.rows : c.rows[i].unit = unit /\ Within(c.rows[i].time, p)}
  IN  /\ \A unit \in UnitsIn(c, n.rows) :
           Cardinality(Seen(unit, q.pre)) = 1 /\ Cardinality(Seen(unit, q.post)) = 1
      /\ \A i \in n.rows : c.rows[i].outcome \in Int
      /\ ~TimingHides(c) => \A i \in n.rows :
           /\ c.rows[i].exposure
                = IF c.rows[i].group = "treated" /\ Within(c.rows[i].time, q.post) THEN 1 ELSE 0
           /\ c.rows[i].start = IF c.rows[i].group = "treated" THEN q.start ELSE None
      /\ \A group \in Groups :
           Cardinality({c.rows[i].unit : i \in {j \in n.rows : c.rows[j].group = group}})
             >= DidPolicy.minimumPerGroup
      /\ \A i \in DOMAIN c.rows \ n.rows : InExtra(c, i)

\* The units compared overlap in their scores, whatever trimming has left of
\* them; only a missing covariate and trimming leave a unit out.
WeightsAreSound(c, n) ==
  /\ BothArms(c, n.rows)
  /\ AdjustedForBefore(c.ident, {b.id : b \in SetOf(c.weight.covariates)})
  /\ SupportWidth(c, n.scores) > SevereWidth
  /\ \A i \in n.rows : \A b \in SetOf(c.weight.covariates) :
       c.rows[i][b.column] \notin {None, Infinite} /\ (b.kind = "numeric" => c.rows[i][b.column] # Text)
  /\ "effect" \in n.estimates =>
       \A i \in n.rows :
         /\ c.rows[i][c.weight.outcome] \in Int
         /\ c.weight.trimming # None =>
              c.weight.trimming.lower <= n.scores[i] /\ n.scores[i] <= c.weight.trimming.upper
  /\ \A i \in DOMAIN c.rows \ n.rows :
       MissingCovariate(c, i) \/ ("effect" \in n.estimates /\ c.weight.trimming # None)

FoldsAreSound(c, n) ==
  /\ BothArms(c, n.rows)
  /\ AdjustedForBefore(c.ident, {b.id : b \in SetOf(c.split.covariates)})
  /\ \A i \in n.rows : \A column \in DmlColumns(c) : c.rows[i][column] \in Int
  /\ \A i \in DOMAIN c.rows \ n.rows : \E column \in DmlColumns(c) : c.rows[i][column] = None

\* Every subgroup with an estimate is one of the declared, of a modifier that
\* was there before the treatment; it has its own rows, all of them, and enough
\* of either arm.  Subgroups are compared when there are two, and only a result
\* for all of them is complete.
SubgroupsAreSound(c, n) ==
  LET groups == n.estimates \ {"heterogeneity"}
      modifier == Variable(c.ident, c.effect.modifier)
      Of(g) == {i \in n.rows : WithinGroup(c, g, ModifierOf(c, i))}
  IN  /\ BothArms(c, n.rows)
      /\ AdjustedForBefore(c.ident, {b.id : b \in SetOf(c.split.covariates)})
      /\ modifier.timing = "pre_treatment" /\ c.ident.modifiers = <<modifier.id>>
      /\ \A i \in n.rows : \A column \in HteColumns(c) : c.rows[i][column] \notin {None, Infinite}
      /\ \A i \in n.rows : Cardinality({g \in SetOf(c.effect.subgroups) : i \in Of(g)}) = 1
      /\ \A g \in SetOf(c.effect.subgroups) :
           IF g.id \notin groups THEN Of(g) = {}
           ELSE /\ Cardinality(Of(g)) >= c.effect.minimum.retained
                /\ Cardinality(ArmOf(c, Of(g), 1)) >= c.effect.minimum.treated
                /\ Cardinality(ArmOf(c, Of(g), 0)) >= c.effect.minimum.control
                /\ \A i \in DOMAIN c.rows \ Of(g) :
                     ModifierOf(c, i) # None /\ WithinGroup(c, g, ModifierOf(c, i)) =>
                       \E column \in DmlColumns(c) : c.rows[i][column] = None
      /\ "heterogeneity" \in n.estimates <=> Cardinality(groups) >= 2
      /\ n.status = "completed" <=> groups = GroupIds(c)

\* Nothing that the treatment brings about is adjusted for, declared or not.
\* If the rows are looked at where the library reads them, at the columns named
\* as the variables are and at all it adjusts for, an estimate is one of both
\* arms and of numbers.
DowhyIsSound(c, n) ==
  LET q == c.ident
      b == c.dowhy
      declared == IF q.adjustment = None THEN {} ELSE SetOf(q.adjustment.variables)
      followed == /\ b.treatment = q.treatment /\ b.outcome = q.outcome.id
                  /\ SetOf(b.covariates) = {[id |-> id, column |-> id] : id \in n.adjusted}
  IN  /\ n.adjusted \cap ({q.treatment, q.outcome.id} \cup Affected(q.graph, q.treatment)) = {}
      /\ declared # {} => n.adjusted = declared /\ AdjustedForBefore(q, n.adjusted)
      /\ "effect" \in n.estimates <=> b.estimates
      /\ "effect" \in n.estimates /\ followed =>
           /\ n.rows = DOMAIN c.rows
           /\ {c.rows[i][q.treatment] : i \in n.rows} = Exposures
           /\ \A i \in n.rows, id \in {q.outcome.id} \cup n.adjusted : c.rows[i][id] \in Int

Earned(c, n) ==
  /\ c.req.method = "did" => PanelIsSound(c, n)
  /\ c.req.method \in CrossFitMethods => FoldsAreSound(c, n)
  /\ c.req.method \in SubgroupMethods => SubgroupsAreSound(c, n)
  /\ c.req.method = "dowhy" => DowhyIsSound(c, n)
  /\ c.req.method \in WeightingMethods => WeightsAreSound(c, n)

\* No row is predicted by a model that has seen it, and a model that predicts
\* has seen both arms.
PredictedByOthers(c, n) ==
  \A i \in n.rows :
    /\ i \notin n.trained[i]
    /\ \A exposure \in Exposures : ArmOf(c, n.trained[i], exposure) # {}

\* The table from the last row to the first, and what becomes of a result.
Reversal(c) == [c EXCEPT !.rows = Reverse(@)]
Mirrored(c, rows) == {Len(c.rows) + 1 - i : i \in rows}
MirroredTraining(c, n) ==
  [i \in Mirrored(c, n.rows) |-> Mirrored(c, n.trained[Len(c.rows) + 1 - i])]
=============================================================================
