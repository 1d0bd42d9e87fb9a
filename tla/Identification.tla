---------------------------- MODULE Identification ----------------------------
(***************************************************************************)
(* CausalIdentificationService (packages/experiments/analysis/causal):     *)
(* whether an observational request declares all that an estimate of a     *)
(* causal effect rests on.  Nothing is fitted and no table is read.        *)
(*                                                                         *)
(* A diagnostic is a code, a category and the variable it is about.        *)
(***************************************************************************)
EXTENDS AnalysisTable

Designs == {"generic_observational", "difference_in_differences", "propensity_weighting",
            "double_machine_learning", "heterogeneous_effects", "custom"}
TargetOf == [ate |-> "full", att |-> "treated", did_att |-> "treated", cate |-> "conditioned"]
Scales == {"mean_difference", "risk_difference", "risk_ratio", "log_odds_ratio"}
Roles == {"treatment", "outcome", "adjustment", "effect_modifier", "identifier", "time",
          "clustering", "segmentation", "post_treatment", "unknown"}
Measurements == {"pre_treatment", "at_treatment", "post_treatment", "time_invariant", "unknown"}
AssumptionStatuses == {"asserted", "supported_by_diagnostics", "violated", "unverified",
                       "not_applicable"}
CommonAssumptions ==
  {"consistency", "interference_limitation", "exchangeability", "positivity",
   "temporal_ordering", "stable_treatment_definition", "stable_unit_population"}
DidAssumptions == {"parallel_trends", "no_anticipation"}

\* What the models let through; the sequences are in their canonical order.
\* Groups and units are there or None, a contrast is the variable it is on.
EstimandOK(e) ==
  /\ e.kind \in DOMAIN TargetOf /\ e.scale \in Scales
  /\ (e.kind = "cate") <=> (e.modifiers # <<>>)
  /\ ~Duplicated(e.modifiers)
VariableOK(v) ==
  /\ IsList(v.roles) /\ v.roles # <<>> /\ SetOf(v.roles) \subseteq Roles
  /\ v.timing \in Measurements
  /\ v.period # None => IsPeriod(v.period)
  /\ v.start \in Nat \cup {None}
IdentificationOK(q) ==
  /\ IsList(q.variables) /\ IsList(q.assumptions)
  /\ q.design \in Designs
  /\ q.estimand # None => EstimandOK(q.estimand)
  /\ \A p \in {q.pre, q.post} : p # None => IsPeriod(p)
  /\ q.start \in Nat \cup {None}
  /\ \A v \in SetOf(q.variables) : VariableOK(v)
  /\ q.adjustment # None => q.adjustment.estimand \in DOMAIN TargetOf
  /\ \A a \in SetOf(q.assumptions) :
       /\ a.code \in CommonAssumptions \cup DidAssumptions
       /\ a.status \in AssumptionStatuses
       /\ a.required \in BOOLEAN /\ (a.status = "not_applicable" => ~a.required)
  /\ q.graph # None =>
       /\ q.graph.dag \in BOOLEAN /\ IsList(q.graph.nodes) /\ IsList(q.graph.edges)
       /\ \A n \in SetOf(q.graph.nodes) : n.observed \in BOOLEAN
       /\ \A e \in SetOf(q.graph.edges) : DOMAIN e = {1, 2}

About(ids, code, category) ==
  {[code |-> code, category |-> category, about |-> id] : id \in ids}
When(condition, code, category) ==
  IF condition THEN About({None}, code, category) ELSE {}

Repeats(seq) == {seq[i] : i \in {j \in DOMAIN seq : \E k \in DOMAIN seq \ {j} : seq[k] = seq[j]}}

\* The dictionaries of the service keep the last of several with one key.
Ids(q) == {v.id : v \in SetOf(q.variables)}
Variable(q, id) == q.variables[Max({i \in DOMAIN q.variables : q.variables[i].id = id})]
HasRole(q, id, role) == id \in Ids(q) /\ role \in SetOf(Variable(q, id).roles)

(***************************************************************************)
(* Declarations and variables.                                             *)
(***************************************************************************)
DeclarationDiagnostics(q) ==
  When(q.estimand = None, "identification.missing_estimand", "estimand")
  \cup When(q.treatment = None, "identification.missing_treatment", "request")
  \cup When(q.outcome = None, "identification.missing_outcome", "request")
  \cup When(q.units = None, "identification.missing_unit_semantics", "request")
  \cup When(q.adjustment = None /\ q.graph = None,
            "identification.missing_adjustment_information", "evidence")
  \cup When(/\ q.estimand # None
            /\ \/ q.treatment # None /\ q.estimand.treatment # q.treatment
               \/ q.outcome # None /\ q.estimand.outcome # q.outcome.id
               \/ q.estimand.population # q.population,
            "estimand.request_mismatch", "estimand")

\* _validate_timing
Contradicted(v) ==
  /\ v.period # None /\ v.start # None
  /\ \/ v.timing = "pre_treatment" /\ v.period.end > v.start
     \/ v.timing = "post_treatment" /\ v.period.start < v.start
     \/ v.timing = "at_treatment" /\ v.start \notin v.period.start .. v.period.end

\* An adjustment variable may modify the effect; nothing else has two roles.
Contradictory(v) ==
  \/ Duplicated(v.roles)
  \/ Len(v.roles) > 1 /\ SetOf(v.roles) # {"adjustment", "effect_modifier"}

\* The variables the request refers to, with the role each must have.
References(q) ==
  (IF q.treatment = None THEN {} ELSE {<<q.treatment, "treatment">>})
  \cup (IF q.outcome = None THEN {} ELSE {<<q.outcome.id, "outcome">>})
  \cup (IF q.time = None THEN {} ELSE {<<q.time, "time">>})

VariableDiagnostics(q) ==
  About(Repeats([i \in DOMAIN q.variables |-> q.variables[i].id]),
        "variable.duplicate", "variable")
  \cup About({v.id : v \in {w \in SetOf(q.variables) : Contradictory(w)}}
             \cup {r[1] : r \in {p \in References(q) : ~HasRole(q, p[1], p[2])}},
             "variable.contradictory_role", "variable")
  \cup About({v.id : v \in {w \in SetOf(q.variables) : Contradicted(w)}},
             "time.reversed", "timing")
  \cup About(Repeats(q.covariates), "variable.duplicate_covariate", "variable")
  \cup About(SetOf(q.covariates) \ Ids(q), "adjustment.missing_variable", "variable")
  \cup When(q.treatment # None /\ q.outcome # None /\ q.treatment = q.outcome.id,
            "variable.contradictory_role", "variable")

\* The first thing that is wrong with a variable that is adjusted for.
AdjustmentCode(v) ==
  LET roles == SetOf(v.roles)
  IN  IF "treatment" \in roles THEN "adjustment.treatment_leakage"
      ELSE IF "outcome" \in roles THEN "adjustment.outcome_leakage"
      ELSE IF "identifier" \in roles THEN "adjustment.identifier_misuse"
      ELSE IF "post_treatment" \in roles THEN "adjustment.post_treatment"
      ELSE IF "adjustment" \notin roles THEN "adjustment.invalid_role"
      ELSE IF v.timing = "post_treatment" THEN "adjustment.post_treatment"
      ELSE IF v.timing = "unknown" THEN "adjustment.unknown_timing" ELSE NoReason

AdjustmentDiagnostics(q) ==
  IF q.adjustment = None THEN {}
  ELSE LET adjusted == SetOf(q.adjustment.variables)
       IN  About(Repeats(q.adjustment.variables), "adjustment.duplicate_variable", "adjustment")
           \cup About(adjusted \ Ids(q), "adjustment.missing_variable", "adjustment")
           \cup (UNION {About({id}, AdjustmentCode(Variable(q, id)), "adjustment") :
                          id \in {a \in adjusted \cap Ids(q) :
                                    AdjustmentCode(Variable(q, a)) # NoReason}})
           \cup When(q.estimand # None /\ q.adjustment.estimand # q.estimand.kind,
                     "adjustment.malformed", "adjustment")

ModifierDiagnostics(q) ==
  LET modifiers == SetOf(q.modifiers)
      known == {id \in modifiers : HasRole(q, id, "effect_modifier")}
      Timed(timing) == {id \in known : Variable(q, id).timing = timing}
  IN  About(Repeats(q.modifiers), "effect_modifier.duplicate", "variable")
      \cup About(modifiers \ known, "effect_modifier.missing_variable", "variable")
      \cup About(Timed("post_treatment"), "effect_modifier.post_treatment", "timing")
      \cup About(Timed("unknown"), "effect_modifier.unknown_timing", "timing")
      \cup When(q.estimand # None /\ q.modifiers # q.estimand.modifiers,
                "estimand.design_mismatch", "estimand")

(***************************************************************************)
(* The graph.  Nodes stand for variables, edges lead from cause to effect. *)
(***************************************************************************)
NodeIds(g) == {n.id : n \in SetOf(g.nodes)}

\* _descendants: edges are followed from nodes that exist.
Descendants(g, start) ==
  LET Effects(from) == {e[2] : e \in {d \in SetOf(g.edges) : d[1] \in from \cap NodeIds(g)}}
      reached[n \in 0..Len(g.edges)] ==
        IF n = 0 THEN Effects({start}) ELSE reached[n - 1] \cup Effects(reached[n - 1])
  IN  reached[Len(g.edges)]

Cyclic(g) == \E id \in NodeIds(g) : id \in Descendants(g, id)

\* The nodes of a variable, of which the service sees the last one.
NodesOf(g, variable) == {n \in SetOf(g.nodes) : n.variable = variable}
NodeOf(g, variable) ==
  g.nodes[Max({i \in DOMAIN g.nodes : g.nodes[i].variable = variable})]
EndpointDiagnostics(g, variable, code) ==
  IF NodesOf(g, variable) = {} THEN About({None}, code, "graph")
  ELSE About(IF NodeOf(g, variable).observed THEN {} ELSE {variable},
             "graph.unobserved_endpoint", "graph")

\* The variables of the nodes behind the treatment's; of several nodes with one
\* id the last.
Affected(g, treatment) ==
  {g.nodes[Max({i \in DOMAIN g.nodes : g.nodes[i].id = id})].variable :
     id \in Descendants(g, NodeOf(g, treatment).id) \cap NodeIds(g)}

GraphDiagnostics(q) ==
  LET g == q.graph
      adjusted == IF q.adjustment = None THEN {} ELSE SetOf(q.adjustment.variables)
  IN  IF g = None THEN {}
      ELSE When(~g.dag, "graph.not_dag", "graph")
           \cup When(Duplicated([i \in DOMAIN g.nodes |-> g.nodes[i].id]),
                     "graph.duplicate_node", "graph")
           \cup When(\E n \in SetOf(g.nodes) : n.variable \notin Ids(q),
                     "graph.unknown_variable", "graph")
           \cup When(\E e \in SetOf(g.edges) : e[1] = e[2], "graph.self_loop", "graph")
           \cup When(\E e \in SetOf(g.edges) : ~(SetOf(e) \subseteq NodeIds(g)),
                     "graph.unknown_node", "graph")
           \cup When(Duplicated(g.edges), "graph.duplicate_edge", "graph")
           \cup When(g.dag /\ Cyclic(g), "graph.cycle", "graph")
           \cup (IF q.treatment = None THEN {}
                 ELSE EndpointDiagnostics(g, q.treatment, "graph.missing_treatment"))
           \cup (IF q.outcome = None THEN {}
                 ELSE EndpointDiagnostics(g, q.outcome.id, "graph.missing_outcome"))
           \cup About({id \in adjusted : NodesOf(g, id) = {}},
                      "graph.adjustment_inconsistency", "graph")
           \cup (IF q.treatment = None \/ NodesOf(g, q.treatment) = {} THEN {}
                 ELSE About(adjusted \cap Affected(g, q.treatment),
                            "graph.adjustment_descendant_of_treatment", "graph"))

(***************************************************************************)
(* Design and assumptions.                                                 *)
(***************************************************************************)
DesignDiagnostics(q) ==
  LET kind == IF q.estimand = None THEN None ELSE q.estimand.kind
      did == q.design = "difference_in_differences"
  IN  IF q.design = "custom" THEN About({None}, "design.unsupported", "design")
      ELSE When(\/ did /\ kind \notin {None, "did_att"}
                \/ ~did /\ kind = "did_att"
                \/ q.design = "heterogeneous_effects" /\ kind \notin {None, "cate"},
                "estimand.design_mismatch", "estimand")
           \cup When(did /\ q.pre = None, "did.missing_pre_period", "timing")
           \cup When(did /\ q.post = None, "did.missing_post_period", "timing")
           \cup When(did /\ q.start = None, "time.missing_treatment_start", "timing")
           \cup When(did /\ None \in {q.treatedGroup, q.comparisonGroup},
                     "did.missing_group", "design")
           \cup When(did /\ q.adoption = None, "did.missing_stable_adoption", "design")
           \cup When(did /\ None \notin {q.pre, q.post} /\ q.pre.end > q.post.start,
                     "time.reversed", "timing")

AssumptionDiagnostics(q) ==
  LET required == CommonAssumptions
                  \cup (IF q.design = "difference_in_differences" THEN DidAssumptions ELSE {})
      declared == {a.code : a \in SetOf(q.assumptions)}
      Latest(code) == Max({i \in DOMAIN q.assumptions : q.assumptions[i].code = code})
      With(statuses) ==
        {code \in required \cap declared : q.assumptions[Latest(code)].status \in statuses}
  IN  When(Duplicated([i \in DOMAIN q.assumptions |-> q.assumptions[i].code]),
           "assumption.contradictory", "assumption")
      \cup When(~(required \subseteq declared), "assumption.missing_required", "assumption")
      \cup When(With({"violated"}) # {}, "assumption.violated", "assumption")
      \cup When(With({"unverified", "not_applicable"}) # {},
                "assumption.unverified", "assumption")

IdentificationDiagnostics(q) ==
  DeclarationDiagnostics(q) \cup VariableDiagnostics(q) \cup AdjustmentDiagnostics(q)
  \cup ModifierDiagnostics(q) \cup GraphDiagnostics(q) \cup DesignDiagnostics(q)
  \cup AssumptionDiagnostics(q)

(***************************************************************************)
(* What they add up to.                                                    *)
(***************************************************************************)
InsufficientCodes ==
  {"identification.missing_estimand", "identification.missing_treatment",
   "identification.missing_outcome", "identification.missing_unit_semantics",
   "identification.missing_adjustment_information", "assumption.missing_required"}

StatusOfCodes(codes) ==
  IF codes \ (InsufficientCodes \cup {"design.unsupported", "assumption.unverified"}) # {}
  THEN "invalid"
  ELSE IF "design.unsupported" \in codes THEN "unsupported"
  ELSE IF codes \cap InsufficientCodes # {} THEN "insufficient_evidence"
  ELSE IF "assumption.unverified" \in codes THEN "partially_identified" ELSE "identified"

\* _validated_adjustment_set: what is said of no variable counts against it.
AdjustmentValid(q, diagnostics) ==
  \A d \in diagnostics :
    d.category \in {"adjustment", "timing"} =>
      d.about # None /\ d.about \notin SetOf(q.adjustment.variables)

Identified(q, diagnostics) ==
  LET codes == {d.code : d \in diagnostics}
  IN  [status |-> StatusOfCodes(codes), codes |-> codes,
       adjusts |-> q.adjustment # None /\ AdjustmentValid(q, diagnostics)]

Identification(q) == Identified(q, IdentificationDiagnostics(q))

(***************************************************************************)
(* What an estimator that asks for the identification returns, if it does  *)
(* not raise.                                                              *)
(***************************************************************************)
Refused(status, reason) ==
  [status |-> status, reason |-> reason, rows |-> {}, estimates |-> {}, conclusion |-> None]
Raised == Refused("raised", NoReason)
NotRefused == Refused("none", NoReason)

Exposures == {0, 1}
ArmOf(c, rows, exposure) == {i \in rows : c.rows[i].exposure = exposure}
=============================================================================
