------------------------ MODULE SequentialMonitoring ------------------------
(***************************************************************************)
(* The sequential analysis of a pre-registered plan                        *)
(* (packages/experiments/analysis/randomized/sequential): the caller hands *)
(* in its looks in some order, each with the cumulative table it is based  *)
(* on; each is checked against the plan and against the look before it,    *)
(* evaluated, and kept; the first that deviates voids the history.  The    *)
(* state after every look is what the service returns for the looks up to  *)
(* there, so a run is also a caller who asks again after every look.       *)
(*                                                                         *)
(* Alpha is counted in integer units, p-values and scores are abstracted   *)
(* to whether the score reaches the boundary of its look.                  *)
(***************************************************************************)
EXTENDS Integers, Sequences, FiniteSets

CONSTANTS
  NumLooks,    \* the planned looks
  TotalAlpha,  \* the error budget of the experiment
  Shape,       \* O'Brien-Fleming-shaped cumulative spending, before clamping
  Units,       \* identifiers of observation units
  Values,      \* outcome values
  Bindings,    \* physical role bindings a caller can supply
  MaxTime,     \* bound on the clock of registrations and executions
  NoTime,      \* a timestamp that was not supplied
  Naive,       \* a timestamp without a timezone
  NoCounts     \* a plan without cumulative sample counts

ASSUME LooksAssumption == NumLooks \in Nat \ {0}
ASSUME AlphaAssumption == TotalAlpha \in Nat \ {0}
ASSUME ShapeAssumption ==
  /\ Shape \in [1..NumLooks -> Nat]
  /\ \A i, j \in 1..NumLooks : i <= j => Shape[i] <= Shape[j]
ASSUME UnitsAssumption == IsFiniteSet(Units)
ASSUME TimeAssumption == MaxTime \in Nat /\ NoTime \notin Nat /\ Naive \notin Nat

Times == 0..MaxTime
Arms == {"treatment", "control"}

(***************************************************************************)
(* A table: the arm and the outcome of each unit with a row in one of the  *)
(* two arms (the last row wins), and the arm of a row that repeats a unit, *)
(* if there is one.                                                        *)
(***************************************************************************)
Snapshots == UNION {[S -> Arms \X Values] : S \in SUBSET Units}
Tables == {t \in [units : Snapshots, repeated : Arms \cup {"none"}] :
             DOMAIN t.units = {} => t.repeated = "none"}

Rows(t, arm) ==
  Cardinality({u \in DOMAIN t.units : t.units[u][1] = arm})
    + (IF t.repeated = arm THEN 1 ELSE 0)

\* What a caller declares about a look: its index, whether the information
\* time is the planned one, equal within the tolerance or another, whether
\* the plan fingerprint and the analysis request are the registered ones.
Executions ==
  [look : 0..(NumLooks + 1), information : {"planned", "near", "other"},
   registered : BOOLEAN, time : Times \cup {NoTime, Naive}, binding : Bindings]

\* Planned cumulative sample counts grow from look to look.
CountPlans ==
  {c \in [1..NumLooks -> [Arms -> 1..Cardinality(Units)]] :
     \A i \in 1..(NumLooks - 1) :
       /\ \A arm \in Arms : c[i][arm] <= c[i + 1][arm]
       /\ c[i] # c[i + 1]}

Plans == [tampered : BOOLEAN, registeredAt : Times \cup {NoTime},
          counts : CountPlans \cup {NoCounts}]

VARIABLES
  plan,      \* the registered plan
  looks,     \* the retained look results
  status,    \* the stopping status of the history so far
  deviated,  \* a deviation from the plan was recorded
  result     \* "open", then "history" or "raised"

vars == <<plan, looks, status, deviated, result>>

-----------------------------------------------------------------------------
\* The boundary schedule: the last look gets what is left of the budget.
CumulativeUnclamped(i) == Shape[i]  \* a mutant: the raw spending
Cumulative(i) == IF i = NumLooks \/ Shape[i] > TotalAlpha THEN TotalAlpha ELSE Shape[i]
Spent(i) == IF i = 0 THEN 0 ELSE Cumulative(i)
Nominal(i) == IF Cumulative(i) > Spent(i - 1) THEN Cumulative(i) - Spent(i - 1) ELSE 0

Latest == looks[Len(looks)]

OutOfTurnIfUnplanned(e) == e.look \notin 1..NumLooks  \* a mutant: any order
OutOfTurn(e) == e.look # Len(looks) + 1 \/ e.look > NumLooks

\* Chronology against the registration and against the look before, for the
\* timestamps that were supplied.
Untimely(e) ==
  \/ e.time = Naive
  \/ /\ e.time \in Times /\ plan.registeredAt \in Times
     /\ e.time < plan.registeredAt
  \/ /\ e.time \in Times /\ looks # <<>>
     /\ Latest.time \in Times /\ e.time < Latest.time

Rebound(e) == looks # <<>> /\ e.binding # Latest.binding

\* A mutant: looks go on after efficacy.
UndeclaredAfterEfficacy(e) ==
  OutOfTurn(e) \/ e.information = "other" \/ Untimely(e) \/ Rebound(e) \/ ~e.registered

\* _validate_declared_look: what the caller declares breaks the plan.
Undeclared(e) ==
  \/ OutOfTurn(e)
  \/ status = "efficacy"
  \/ e.information = "other"
  \/ Untimely(e)
  \/ Rebound(e)
  \/ ~e.registered

OffPlan(i, t) ==
  plan.counts # NoCounts /\ \E arm \in Arms : Rows(t, arm) # plan.counts[i][arm]

\* The units of a table and what was seen of them are all in a later one.
Grows(t, later) ==
  /\ DOMAIN t.units \subseteq DOMAIN later.units
  /\ \A u \in DOMAIN t.units : later.units[u] = t.units[u]

\* A mutant: only the counts are compared.
InconsistentCounts(t) ==
  looks # <<>> /\ \E arm \in Arms : Rows(t, arm) < Rows(Latest.table, arm)

\* _validate_cumulative_history: against the look before.
Inconsistent(t) ==
  looks # <<>> /\ \/ \E arm \in Arms : Rows(t, arm) < Rows(Latest.table, arm)
                  \/ ~Grows(Latest.table, t)

\* The randomized analysis of a table abstains without both arms and on a
\* repeated unit, and may abstain for reasons of its own.
Evidence(t) ==
  IF t.repeated # "none" \/ \E arm \in Arms : Rows(t, arm) = 0
  THEN {"abstain"} ELSE {"abstain", "below", "reaches"}

CrossesUnpaid(i, score) == score = "reaches"  \* a mutant: no budget needed
Crosses(i, score) == score = "reaches" /\ Nominal(i) > 0

\* A mutant: a refused look invalidates instead of abstaining.
LookStatusOfRefusal(i, score) ==
  IF score = "abstain" THEN "invalid"
  ELSE IF Crosses(i, score) THEN "efficacy" ELSE "continue"

LookStatus(i, score) ==
  IF score = "abstain" THEN "abstain"
  ELSE IF Crosses(i, score) THEN "efficacy" ELSE "continue"
-----------------------------------------------------------------------------
Init ==
  /\ plan \in Plans
  /\ looks = <<>>
  /\ status = "continue"
  /\ deviated = FALSE
  /\ result = "open"

Open == result = "open" /\ ~deviated

Deviate ==
  /\ deviated' = TRUE
  /\ status' = "invalid"
  /\ UNCHANGED <<plan, looks, result>>

\* The plan no longer hashes to its fingerprint: no look is evaluated.
RefusePlan == Open /\ plan.tampered /\ Deviate

\* A look whose declaration breaks the plan ends the loop ...
RefuseLook ==
  /\ Open /\ ~plan.tampered
  /\ ~\A e \in Executions : ~Undeclared(e)
  /\ Deviate

\* ... and so does one whose table lacks a declared column ...
RefuseTable ==
  /\ Open /\ ~plan.tampered
  /\ ~\A e \in Executions : Undeclared(e)
  /\ Deviate

\* ... or whose rows are not those of the plan or of the looks before.
RefuseRows ==
  /\ Open /\ ~plan.tampered
  /\ ~\A e \in Executions : Undeclared(e)
  /\ ~\A t \in Tables : ~OffPlan(Len(looks) + 1, t) /\ ~Inconsistent(t)
  /\ Deviate

Evaluate(e, t, score) ==
  /\ Open /\ ~plan.tampered
  /\ ~Undeclared(e) /\ ~OffPlan(e.look, t) /\ ~Inconsistent(t)
  /\ looks' = Append(looks,
       [look |-> e.look, exact |-> e.information = "planned", time |-> e.time,
        binding |-> e.binding, table |-> t,
        crossed |-> Crosses(e.look, score), status |-> LookStatus(e.look, score)])
  /\ status' = LookStatus(e.look, score)
  /\ UNCHANGED <<plan, deviated, result>>

\* Some look that follows the plan and the looks before it is evaluated.
Look ==
  /\ Open
  /\ \E e \in {d \in Executions : ~Undeclared(d)} :
       \E t \in {s \in Tables : ~OffPlan(e.look, s) /\ ~Inconsistent(s)} :
         \E score \in Evidence(t) : Evaluate(e, t, score)

\* What the history contract demands of the retained looks and the status.
Contract ==
  /\ \A i, j \in DOMAIN looks : i < j => looks[i].look < looks[j].look
  /\ plan.tampered => looks = <<>>
  /\ \A i \in DOMAIN looks : looks[i].look <= NumLooks /\ looks[i].exact
  /\ deviated <=> status = "invalid"
  /\ ~deviated => status = IF looks = <<>> THEN "continue" ELSE Latest.status

\* The looks are exhausted or one deviated; building the history validates it.
Return ==
  /\ result = "open"
  /\ deviated \/ ~plan.tampered
  /\ result' = IF Contract THEN "history" ELSE "raised"
  /\ UNCHANGED <<plan, looks, status, deviated>>

Ended == result # "open" /\ UNCHANGED vars

Next ==
  \/ RefusePlan \/ RefuseLook \/ RefuseTable \/ RefuseRows
  \/ Look \/ Return \/ Ended

Spec == Init /\ [][Next]_vars
-----------------------------------------------------------------------------
Statuses == {"continue", "efficacy", "abstain", "invalid"}

LookResults ==
  [look : 1..NumLooks, exact : BOOLEAN, time : Times \cup {NoTime},
   binding : Bindings, table : Tables, crossed : BOOLEAN,
   status : Statuses \ {"invalid"}]

\* Type invariant: retained looks carry a table, a binding and a status that
\* is never "invalid", and no timestamp without a timezone.
TypeOK ==
  /\ plan \in Plans
  /\ looks \in Seq(LookResults)
  /\ status \in Statuses
  /\ deviated \in BOOLEAN
  /\ result \in {"open", "history", "raised"}

\* The looks of one history are snapshots of one growing experiment: between
\* any two of them, not only neighbours, no unit is lost, no assignment or
\* outcome is rewritten, no arm shrinks and the roles stay bound as they were.
CumulativeEvidence ==
  \A i, j \in DOMAIN looks : i < j =>
    /\ Grows(looks[i].table, looks[j].table)
    /\ looks[i].binding = looks[j].binding
    /\ \A arm \in Arms : Rows(looks[i].table, arm) <= Rows(looks[j].table, arm)

\* An efficacy status is the crossing of the latest look, which had budget
\* and both arms to cross with; no look before it crossed, and the plan was
\* followed throughout.
EfficacyIsEarned ==
  status = "efficacy" =>
    /\ ~plan.tampered /\ ~deviated /\ looks # <<>>
    /\ \A i \in DOMAIN looks : looks[i].crossed <=> i = Len(looks)
    /\ Nominal(Len(looks)) > 0
    /\ Latest.table.repeated = "none"
    /\ \A arm \in Arms : Rows(Latest.table, arm) > 0

\* Results once reported are not revised by later looks: the retained looks
\* only grow, after efficacy only a deviation can follow, and an invalid
\* history stays invalid.
HistoryIsFinal ==
  [][/\ \A i \in DOMAIN looks : i \in DOMAIN looks' /\ looks'[i] = looks[i]
     /\ status = "efficacy" =>
          status' \in {"efficacy", "invalid"} /\ looks' = looks
     /\ status = "invalid" => status' = "invalid" /\ looks' = looks]_vars

\* Whatever the caller supplies, the only history the contract turns down is
\* one with an information time that is off its plan by less than the tolerance.
OnlyRoundingRaises ==
  result = "raised" => \E i \in DOMAIN looks : ~looks[i].exact

\* The looks as payments out of one budget.
Budget == INSTANCE AlphaSpending WITH
  spent   <- Spent(Len(looks)),
  verdict <- CASE status = "invalid" -> "void"
               [] status = "efficacy" -> "rejected"
               [] OTHER -> "open"

\* Monitoring implements alpha spending: whatever is looked at, abstained
\* looks included, the budget is never exceeded, a look without budget never
\* rejects and a rejection ends the spending.
ImplementsAlphaSpending == Budget!Spec

\* sequential_testing.md on every valid later look: "execution times, when
\* supplied, remain chronological".
TimesChronological ==
  \A i, j \in DOMAIN looks :
    i < j /\ looks[i].time \in Times /\ looks[j].time \in Times =>
      looks[i].time <= looks[j].time
=============================================================================
