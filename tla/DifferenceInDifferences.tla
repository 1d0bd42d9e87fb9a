------------------------ MODULE DifferenceInDifferences ------------------------
(***************************************************************************)
(* DifferenceInDifferencesService (causal/did): the identification of the  *)
(* request, the panel of units with one row before and one after the       *)
(* treatment, its adoption, the number of clusters, and the evidence on    *)
(* trends before the treatment, which decides nothing.                     *)
(*                                                                         *)
(* A row has a unit, a time, a group, an exposure, the start of its        *)
(* treatment and an outcome.  The contrast is between exposures 1 and 0.   *)
(***************************************************************************)
EXTENDS Identification

CONSTANT DidPolicy   \* the cluster thresholds of DifferenceInDifferencesConfig

\* validate_cluster_policy
ASSUME DidPolicyAssumption ==
  /\ DidPolicy \in [{"minimum", "minimumPerGroup", "few"} -> Nat]
  /\ DidPolicy.minimumPerGroup >= 2
  /\ DidPolicy.minimum >= 2 * DidPolicy.minimumPerGroup
  /\ DidPolicy.few > DidPolicy.minimum

DidColumns == {"unit", "time", "group", "exposure", "start", "outcome"}

\* validate_extra_pre_periods
DidOK(c) ==
  /\ IdentificationOK(c.ident)
  /\ \A i \in DOMAIN c.rows : Numeric(c.rows[i].outcome)
  /\ \A i \in DOMAIN c.extra :
       /\ IsPeriod(c.extra[i])
       /\ i + 1 \in DOMAIN c.extra => c.extra[i].end <= c.extra[i + 1].start
       /\ c.ident.pre # None => c.extra[i].end <= c.ident.pre.start

\* Codes in the order of the alphabet: the first of a result's is its reason.
DidCodes ==
  <<"did.anticipatory_exposure", "did.composition_change", "did.control_adoption",
    "did.duplicate_unit_period", "did.few_clusters", "did.group_switching",
    "did.identification_insufficient_evidence", "did.identification_invalid",
    "did.identification_partially_identified", "did.identification_unsupported",
    "did.incompatible_estimand", "did.incomplete_unit_coverage", "did.inference_unavailable",
    "did.insufficient_clusters", "did.insufficient_group_clusters", "did.invalid_time_value",
    "did.invalid_treatment_value", "did.invalid_unit", "did.missing_column",
    "did.missing_control_group", "did.missing_outcome", "did.missing_treated_group",
    "did.nonfinite_outcome", "did.reversed_timing", "did.staggered_adoption",
    "did.treatment_reversal", "did.treatment_too_early", "did.treatment_too_late",
    "did.unknown_group", "did.unsupported_metric", "did.unsupported_period">>
DidReason(codes) == DidCodes[Min({i \in DOMAIN DidCodes : DidCodes[i] \in codes})]

DidRefused(status, codes) == Refused(status, DidReason(codes))

If(condition, codes) == IF condition THEN codes ELSE {}

(***************************************************************************)
(* Declarations.                                                           *)
(***************************************************************************)
DidDeclared(q) ==
  If(\/ q.estimand = None
     \/ q.estimand.kind # "did_att" \/ q.estimand.scale # "mean_difference",
     {"did.incompatible_estimand"})
  \cup If(q.outcome = None \/ q.outcome.type # "continuous", {"did.unsupported_metric"})
  \cup If(None \notin {q.pre, q.post} /\ q.pre.end > q.post.start, {"did.reversed_timing"})
  \cup If(None \notin {q.pre, q.start} /\ q.start < q.pre.end, {"did.treatment_too_early"})
  \cup If(None \notin {q.post, q.start} /\ q.start > q.post.start, {"did.treatment_too_late"})

IdentificationCode ==
  [invalid |-> "did.identification_invalid", unsupported |-> "did.identification_unsupported",
   insufficient_evidence |-> "did.identification_insufficient_evidence",
   partially_identified |-> "did.identification_partially_identified"]

\* _identification_diagnostics: reversed timing is taken to have been told as
\* the reversal of the periods.
DidIdentification(identified) ==
  If(identified.status # "identified" /\ "time.reversed" \notin identified.codes,
     {IdentificationCode[identified.status]})

\* _blocking_declaration_disposition, valid when nothing blocks.
DeclaredDisposition(codes) ==
  IF codes \cap {"did.reversed_timing", "did.treatment_too_early", "did.treatment_too_late"} # {}
  THEN "invalid"
  ELSE IF codes \cap {"did.identification_partially_identified",
                      "did.identification_insufficient_evidence"} # {} THEN "abstained"
  ELSE IF "did.identification_unsupported" \in codes THEN "unsupported"
  ELSE IF codes \cap {"did.identification_invalid", "did.incompatible_estimand"} # {}
  THEN "invalid"
  ELSE IF "did.unsupported_metric" \in codes THEN "unsupported" ELSE "valid"

(***************************************************************************)
(* Rows and panel.                                                         *)
(***************************************************************************)
Within(cell, p) == cell \in Int /\ p # None /\ p.start <= cell /\ cell < p.end

Windowed(q) == None \notin {q.pre, q.post}
IsPre(c, i) == Within(c.rows[i].time, c.ident.pre)
IsPost(c, i) == Within(c.rows[i].time, c.ident.post)
InExtra(c, i) == \E k \in DOMAIN c.extra : Within(c.rows[i].time, c.extra[k])
IsUnit(cell) == cell \notin {None, Text}

\* _canonical_rows: rows without a time, a period or a unit are left out, and told.
Canonical(c) ==
  {i \in DOMAIN c.rows : Windowed(c.ident) /\ (IsPre(c, i) \/ IsPost(c, i))
                         /\ IsUnit(c.rows[i].unit)}
Earlier(c) ==
  {i \in DOMAIN c.rows : /\ Windowed(c.ident) /\ InExtra(c, i)
                         /\ ~IsPre(c, i) /\ ~IsPost(c, i) /\ IsUnit(c.rows[i].unit)}
RowCodes(c) ==
  LET timed == {i \in DOMAIN c.rows : c.rows[i].time \in Int}
      placed == {i \in timed : IsPre(c, i) \/ IsPost(c, i) \/ InExtra(c, i)}
  IN  If(Windowed(c.ident) /\ timed # DOMAIN c.rows, {"did.invalid_time_value"})
      \cup If(Windowed(c.ident) /\ placed # timed, {"did.unsupported_period"})
      \cup If(Windowed(c.ident) /\ \E i \in placed : ~IsUnit(c.rows[i].unit), {"did.invalid_unit"})

Groups == {"treated", "control"}
GroupOf(row) == IF row.group \in Groups THEN row.group ELSE None
UnitsIn(c, rows) == {c.rows[i].unit : i \in rows}
OfUnit(c, rows, unit) == {i \in rows : c.rows[i].unit = unit}
Memberships(c, rows, unit) == {GroupOf(c.rows[i]) : i \in OfUnit(c, rows, unit)}
UnitsOf(c, rows, group) ==
  {unit \in UnitsIn(c, rows) : Memberships(c, rows, unit) = {group}}

PanelCodes(c, rows) ==
  LET units == UnitsIn(c, rows)
      Pre(unit) == {i \in OfUnit(c, rows, unit) : ~IsPost(c, i)}
      Post(unit) == {i \in OfUnit(c, rows, unit) : IsPost(c, i)}
  IN  If(\E unit \in units : None \in Memberships(c, rows, unit), {"did.unknown_group"})
      \cup If(\E unit \in units : Groups \subseteq Memberships(c, rows, unit),
              {"did.group_switching"})
      \cup If(UnitsOf(c, rows, "treated") = {}, {"did.missing_treated_group"})
      \cup If(UnitsOf(c, rows, "control") = {}, {"did.missing_control_group"})
      \cup If(\E unit \in units : Cardinality(Pre(unit)) > 1 \/ Cardinality(Post(unit)) > 1,
              {"did.duplicate_unit_period"})
      \cup If(\E unit \in units : {} \in {Pre(unit), Post(unit)},
              {"did.composition_change", "did.incomplete_unit_coverage"})
      \cup If(\E i \in rows : c.rows[i].outcome = None, {"did.missing_outcome"})
      \cup If(\E i \in rows : c.rows[i].outcome \in {Text, Infinite}, {"did.nonfinite_outcome"})

Unexposed(row) == row.exposure # 1 /\ row.start = None

\* _adoption_diagnostics: units of one group, by what they declare of it.
AdoptionCodes(c, rows) ==
  LET Of(group) == {i \in rows : c.rows[i].unit \in UnitsOf(c, rows, group)}
  IN  If(\E i \in Of("treated") : c.rows[i].start # c.ident.start, {"did.staggered_adoption"})
      \cup If(\E i \in Of("treated") : ~IsPost(c, i) /\ c.rows[i].exposure = 1,
              {"did.anticipatory_exposure"})
      \cup If(\E i \in Of("treated") : IsPost(c, i) /\ c.rows[i].exposure # 1,
              {"did.treatment_reversal"})
      \cup If(\E i \in Of("control") : ~Unexposed(c.rows[i]), {"did.control_adoption"})
      \cup If(\E i \in Of("treated") \cup Of("control") : c.rows[i].exposure \notin Exposures,
              {"did.invalid_treatment_value"})

\* _diagnostic_window_design_diagnostics: rows of the additional periods.
EarlierCodes(c, rows, earlier) ==
  LET Known(group) == {i \in earlier : c.rows[i].group = group}
      units == UnitsIn(c, rows)
  IN  If(\E i \in earlier : GroupOf(c.rows[i]) = None, {"did.unknown_group"})
      \cup If(\E i \in Known("treated") \cup Known("control") :
                /\ c.rows[i].unit \in units
                /\ c.rows[i].group \notin Memberships(c, rows, c.rows[i].unit),
              {"did.group_switching"})
      \cup (IF c.ident.treatment = None THEN {}
            ELSE If(\E i \in Known("treated") : c.rows[i].exposure = 1,
                    {"did.anticipatory_exposure"})
                 \cup If(c.ident.start # None
                         /\ \E i \in Known("treated") : c.rows[i].start # c.ident.start,
                         {"did.staggered_adoption"})
                 \cup If(\E i \in Known("control") : ~Unexposed(c.rows[i]),
                         {"did.control_adoption"})
                 \cup If(\E i \in Known("treated") \cup Known("control") :
                           c.rows[i].exposure \notin Exposures,
                         {"did.invalid_treatment_value"}))

PanelUnavailable ==
  {"did.missing_treated_group", "did.missing_control_group", "did.composition_change",
   "did.incomplete_unit_coverage", "did.missing_outcome"}

\* _derive_disposition
PanelDisposition(codes) ==
  IF codes \cap PanelUnavailable # {} THEN "abstained"
  ELSE IF codes \cap {"did.unsupported_metric", "did.unsupported_period"} # {} THEN "unsupported"
  ELSE IF codes # {} THEN "invalid" ELSE "valid"

(***************************************************************************)
(* Estimation.  Each unit of a valid panel is a cluster.                   *)
(***************************************************************************)
ClusterPolicyCodes(total, smallest) ==
  If(total < DidPolicy.minimum, {"did.insufficient_clusters"})
  \cup If(smallest < DidPolicy.minimumPerGroup, {"did.insufficient_group_clusters"})
  \cup If(total >= DidPolicy.minimum /\ total < DidPolicy.few, {"did.few_clusters"})

ClusterCodesOf(c, rows) ==
  ClusterPolicyCodes(Cardinality(UnitsIn(c, rows)),
                     Min({Cardinality(UnitsOf(c, rows, group)) : group \in Groups}))

\* evaluate_pretrend: every unit once in each of three periods or more.  Not
\* every unit of an additional period is one of the panel.
TrendShown(c, rows, earlier) ==
  LET ExtraOf(i) == Min({k \in DOMAIN c.extra : Within(c.rows[i].time, c.extra[k])})
  IN  /\ Len(c.extra) >= 2
      /\ UnitsIn(c, earlier) \subseteq UnitsIn(c, rows)
      /\ \A unit \in UnitsIn(c, rows), k \in DOMAIN c.extra :
           Cardinality({i \in OfUnit(c, earlier, unit) : ExtraOf(i) = k}) = 1
      /\ \A i \in earlier : c.rows[i].outcome \in Int

\* The numerics may fail on finite numbers, or overflow and raise; a result
\* without the treatment or the units it is about is none.
DidEstimated(c, rows, codes) ==
  IF codes \cap {"did.insufficient_clusters", "did.insufficient_group_clusters"} # {}
  THEN {DidRefused("abstained", codes)}
  ELSE IF c.ident.units = None THEN {Raised}
  ELSE {Raised, DidRefused("abstained", codes \cup {"did.inference_unavailable"})}
       \cup (IF c.ident.treatment = None THEN {}
             ELSE {[status |-> "completed", reason |-> NoReason, rows |-> rows,
                    estimates |-> estimates, conclusion |-> None] :
                     estimates \in {{"att"}}
                       \cup (IF TrendShown(c, rows, Earlier(c)) THEN {{"att", "trend"}}
                             ELSE {})})

DidPanel(c, rows, declared) ==
  LET codes == declared \cup RowCodes(c) \cup PanelCodes(c, rows)
               \cup (IF None \in {c.ident.treatment, c.ident.start} THEN {}
                     ELSE AdoptionCodes(c, rows))
               \cup EarlierCodes(c, rows, Earlier(c))
  IN  IF PanelDisposition(codes) # "valid" THEN {DidRefused(PanelDisposition(codes), codes)}
      ELSE DidEstimated(c, rows, ClusterCodesOf(c, rows))

DidDeclaredResults(c, declared) ==
  IF DeclaredDisposition(declared) # "valid"
  THEN {DidRefused(DeclaredDisposition(declared), declared)}
  ELSE IF ~(DidColumns \subseteq SetOf(c.columns)) THEN {DidRefused("invalid", {"did.missing_column"})}
  ELSE DidPanel(c, Canonical(c), declared)

DidResults(c, identified) ==
  DidDeclaredResults(c, DidDeclared(c.ident) \cup DidIdentification(identified))
=============================================================================
