--------------------- MODULE SequentialMonitoringProofs ---------------------
(***************************************************************************)
(* Proofs about sequential monitoring, for every number of looks, every    *)
(* non-decreasing spending shape, every budget and every finite set of     *)
(* units.                                                                  *)
(***************************************************************************)
EXTENDS SequentialMonitoring, FiniteSetTheorems, TLAPS

(* The boundary schedule. *)

\* The spending never exceeds the budget and never falls.
LEMMA CumulativeBounds ==
  /\ \A i \in 1..NumLooks : Cumulative(i) \in 0..TotalAlpha
  /\ \A i, j \in 1..NumLooks : i <= j => Cumulative(i) <= Cumulative(j)
  BY LooksAssumption, AlphaAssumption, ShapeAssumption DEF Cumulative

LEMMA SpentBounds ==
  /\ \A i \in 0..NumLooks : Spent(i) \in 0..TotalAlpha
  /\ \A i \in 1..NumLooks : Spent(i - 1) <= Spent(i)
<1>1. \A i \in 0..NumLooks : Spent(i) \in 0..TotalAlpha
  BY CumulativeBounds, LooksAssumption, AlphaAssumption DEF Spent
<1>2. ASSUME NEW i \in 1..NumLooks PROVE Spent(i - 1) <= Spent(i)
  <2>1. CASE i = 1
    BY <2>1, <1>1, LooksAssumption, AlphaAssumption, CumulativeBounds DEF Spent
  <2>2. CASE i # 1
    <3>1. i - 1 \in 1..NumLooks /\ i - 1 <= i /\ i # 0 /\ i - 1 # 0
      BY <2>2, LooksAssumption
    <3>2. Cumulative(i - 1) <= Cumulative(i)
      BY <3>1, CumulativeBounds
    <3> QED BY <3>1, <3>2 DEF Spent
  <2> QED BY <2>1, <2>2
<1> QED BY <1>1, <1>2

\* A look has budget exactly when the spending rises at it.
LEMMA NominalIsRise ==
  \A i \in 1..NumLooks : Nominal(i) > 0 <=> Spent(i) > Spent(i - 1)
<1> SUFFICES ASSUME NEW i \in 1..NumLooks
             PROVE  Nominal(i) > 0 <=> Spent(i) > Spent(i - 1)
  OBVIOUS
<1>1. Cumulative(i) \in Nat /\ Spent(i - 1) \in Nat /\ Spent(i) = Cumulative(i)
  <2>1. i - 1 \in 0..NumLooks /\ i # 0
    BY LooksAssumption
  <2> QED BY <2>1, CumulativeBounds, SpentBounds, AlphaAssumption DEF Spent
<1> QED BY <1>1 DEF Nominal

-----------------------------------------------------------------------------
(* Tables. *)

LEMMA RowsType ==
  ASSUME NEW t \in Tables, NEW arm \in Arms
  PROVE  Rows(t, arm) \in Nat
<1>1. t.units \in Snapshots
  BY DEF Tables
<1>2. DOMAIN t.units \in SUBSET Units
  BY <1>1 DEF Snapshots
<1>3. IsFiniteSet(DOMAIN t.units)
  BY <1>2, UnitsAssumption, FS_Subset
<1>4. {u \in DOMAIN t.units : t.units[u][1] = arm} \in SUBSET DOMAIN t.units
  OBVIOUS
<1>5. IsFiniteSet({u \in DOMAIN t.units : t.units[u][1] = arm})
  BY <1>3, <1>4, FS_Subset
<1>6. Cardinality({u \in DOMAIN t.units : t.units[u][1] = arm}) \in Nat
  BY <1>5, FS_CardinalityType
<1> QED BY <1>6 DEF Rows

LEMMA GrowsTransitive ==
  ASSUME NEW r, NEW s, NEW t, Grows(r, s), Grows(s, t)
  PROVE  Grows(r, t)
  BY DEF Grows

-----------------------------------------------------------------------------
(* The inductive invariant.  The service compares a look with the one      *)
(* before it only; that any two looks agree needs the position of every    *)
(* look, and that only the last can have crossed needs the status of each. *)

InTurn ==
  /\ Len(looks) <= NumLooks
  /\ \A i \in DOMAIN looks : looks[i].look = i

StatusTold ==
  /\ plan.tampered => looks = <<>>
  /\ deviated <=> status = "invalid"
  /\ ~deviated => status = IF looks = <<>> THEN "continue" ELSE Latest.status

CrossedLast ==
  \A i \in DOMAIN looks :
    /\ looks[i].crossed <=> looks[i].status = "efficacy"
    /\ looks[i].crossed =>
         /\ i = Len(looks) /\ Nominal(i) > 0
         /\ looks[i].table.repeated = "none"
         /\ \A arm \in Arms : Rows(looks[i].table, arm) > 0

IInv == TypeOK /\ InTurn /\ StatusTold /\ CrossedLast /\ CumulativeEvidence /\ OnlyRoundingRaises

-----------------------------------------------------------------------------
(* One look. *)

\* A look that may be evaluated is the next one of the plan.
LEMMA NextLook ==
  ASSUME IInv, NEW e \in Executions, ~Undeclared(e)
  PROVE  /\ e.look = Len(looks) + 1 /\ e.look \in 1..NumLooks
         /\ e.time \in Times \cup {NoTime}
         /\ status # "efficacy"
         /\ looks # <<>> => e.binding = Latest.binding
<1>1. Len(looks) \in Nat /\ e.look \in Nat
  BY LooksAssumption DEF IInv, TypeOK, Executions
<1> QED BY <1>1, LooksAssumption DEF Undeclared, OutOfTurn, Untimely, Rebound, Executions

Retained(e, t, score) ==
  [look |-> e.look, exact |-> e.information = "planned", time |-> e.time,
   binding |-> e.binding, table |-> t,
   crossed |-> Crosses(e.look, score), status |-> LookStatus(e.look, score)]

LEMMA RetainedType ==
  ASSUME IInv, NEW e \in Executions, NEW t \in Tables, NEW score, ~Undeclared(e)
  PROVE  Retained(e, t, score) \in LookResults
<1>1. e.look \in 1..NumLooks /\ e.time \in Times \cup {NoTime} /\ e.binding \in Bindings
  BY NextLook DEF Executions
<1>2. LookStatus(e.look, score) \in Statuses \ {"invalid"}
  BY DEF LookStatus, Statuses
<1>3. (e.information = "planned") \in BOOLEAN /\ Crosses(e.look, score) \in BOOLEAN
  BY Zenon DEF Crosses
<1> HIDE DEF LookStatus, Crosses
<1> QED BY <1>1, <1>2, <1>3 DEF Retained, LookResults

\* What evaluating a look does to the retained looks.
LEMMA Extended ==
  ASSUME IInv, NEW e \in Executions, NEW t \in Tables, NEW score,
         Evaluate(e, t, score)
  PROVE  LET n == Len(looks) IN
         /\ n \in Nat /\ n + 1 = e.look /\ n + 1 <= NumLooks
         /\ looks' \in Seq(LookResults) /\ looks' # <<>>
         /\ Len(looks') = n + 1 /\ DOMAIN looks = 1..n /\ DOMAIN looks' = 1..(n + 1)
         /\ \A i \in 1..n : looks'[i] = looks[i]
         /\ looks'[n + 1] = Retained(e, t, score)
         /\ Latest' = Retained(e, t, score)
<1>1. ~Undeclared(e) /\ looks' = Append(looks, Retained(e, t, score))
  BY DEF Evaluate, Retained
<1>2. e.look = Len(looks) + 1 /\ e.look \in 1..NumLooks
  BY <1>1, NextLook
<1>3. Retained(e, t, score) \in LookResults
  BY <1>1, RetainedType
<1>4. looks \in Seq(LookResults)
  BY DEF IInv, TypeOK
<1> HIDE DEF Retained
<1> QED BY <1>1, <1>2, <1>3, <1>4, LooksAssumption DEF Latest

LEMMA EvaluateCumulative ==
  ASSUME IInv, NEW e \in Executions, NEW t \in Tables, NEW score,
         Evaluate(e, t, score)
  PROVE  CumulativeEvidence'
<1> DEFINE n == Len(looks)
<1>1. /\ n \in Nat /\ DOMAIN looks = 1..n /\ DOMAIN looks' = 1..(n + 1)
      /\ \A i \in 1..n : looks'[i] = looks[i]
      /\ looks'[n + 1] = Retained(e, t, score)
  BY Extended
<1>2. /\ looks'[n + 1].table = t /\ looks'[n + 1].binding = e.binding
  BY <1>1 DEF Retained
<1>3. \A i \in 1..n : looks[i].table \in Tables
  <2>1. looks \in Seq(LookResults)
    BY DEF IInv, TypeOK
  <2>2. \A i \in 1..n : looks[i] \in LookResults
    BY <2>1, <1>1
  <2> QED BY <2>2 DEF LookResults
<1>4. ASSUME n # 0
      PROVE  /\ Grows(looks[n].table, t) /\ looks[n].binding = e.binding
             /\ \A arm \in Arms : ~(Rows(t, arm) < Rows(looks[n].table, arm))
  <2>1. looks # <<>> /\ Latest = looks[n]
    BY <1>4, <1>1 DEF Latest
  <2>2. ~Inconsistent(t) /\ ~Undeclared(e)
    BY DEF Evaluate
  <2> QED BY <2>1, <2>2, NextLook DEF Inconsistent
<1>5. ASSUME NEW i \in 1..n
      PROVE  /\ Grows(looks[i].table, t) /\ looks[i].binding = e.binding
             /\ \A arm \in Arms : Rows(looks[i].table, arm) <= Rows(t, arm)
  <2>1. n # 0 /\ n \in 1..n
    BY <1>1
  <2>2. \A arm \in Arms : /\ Rows(looks[i].table, arm) \in Nat
                          /\ Rows(looks[n].table, arm) \in Nat
                          /\ Rows(t, arm) \in Nat
    BY <1>3, <2>1, RowsType
  <2>3. CASE i = n
    BY <2>1, <2>2, <2>3, <1>4
  <2>4. CASE i < n
    <3>1. /\ Grows(looks[i].table, looks[n].table)
          /\ looks[i].binding = looks[n].binding
          /\ \A arm \in Arms : Rows(looks[i].table, arm) <= Rows(looks[n].table, arm)
      BY <2>1, <2>4, <1>1 DEF IInv, CumulativeEvidence
    <3>2. Grows(looks[i].table, t)
      BY <3>1, <2>1, <1>4, GrowsTransitive
    <3> QED BY <3>1, <3>2, <2>1, <2>2, <1>4
  <2>5. i = n \/ i < n
    BY <1>1
  <2> QED BY <2>3, <2>4, <2>5, Zenon
<1>6. ASSUME NEW i \in 1..(n + 1), NEW j \in 1..(n + 1), i < j
      PROVE  /\ Grows(looks'[i].table, looks'[j].table)
             /\ looks'[i].binding = looks'[j].binding
             /\ \A arm \in Arms : Rows(looks'[i].table, arm) <= Rows(looks'[j].table, arm)
  <2>1. i \in 1..n /\ looks'[i] = looks[i]
    BY <1>6, <1>1
  <2>2. CASE j = n + 1
    BY <2>1, <2>2, <1>2, <1>5
  <2>3. CASE j # n + 1
    <3>1. j \in 1..n /\ looks'[j] = looks[j]
      BY <2>3, <1>1
    <3> QED BY <2>1, <3>1, <1>1, <1>6 DEF IInv, CumulativeEvidence
  <2> QED BY <2>2, <2>3
<1> HIDE DEF n
<1> QED BY <1>1, <1>6 DEF CumulativeEvidence, Grows, Rows

LEMMA EvaluateStatus ==
  ASSUME IInv, NEW e \in Executions, NEW t \in Tables, NEW score \in Evidence(t),
         Evaluate(e, t, score)
  PROVE  InTurn' /\ StatusTold' /\ CrossedLast'
<1> DEFINE n == Len(looks)
<1>1. /\ n \in Nat /\ n + 1 = e.look /\ n + 1 <= NumLooks
      /\ DOMAIN looks = 1..n /\ DOMAIN looks' = 1..(n + 1)
      /\ Len(looks') = n + 1 /\ looks' # <<>>
      /\ \A i \in 1..n : looks'[i] = looks[i]
      /\ looks'[n + 1] = Retained(e, t, score)
      /\ Latest' = Retained(e, t, score)
  BY Extended
<1>2. /\ ~deviated /\ ~plan.tampered /\ status # "efficacy"
      /\ plan' = plan /\ deviated' = deviated
      /\ status' = LookStatus(e.look, score)
  BY NextLook DEF Evaluate, Open
<1>3. InTurn'
  BY <1>1 DEF IInv, InTurn, Retained
<1>4. StatusTold'
  <2>1. status' # "invalid"
    BY <1>2 DEF LookStatus
  <2>2. Latest'.status = status'
    BY <1>1, <1>2 DEF Retained
  <2> QED BY <1>1, <1>2, <2>1, <2>2 DEF StatusTold
<1>5. \A i \in 1..n : ~looks[i].crossed
  <2>1. ASSUME NEW i \in 1..n, looks[i].crossed PROVE FALSE
    <3>1. i = n /\ looks[i].status = "efficacy" /\ looks # <<>>
      BY <2>1, <1>1 DEF IInv, CrossedLast
    <3>2. status = "efficacy"
      BY <3>1, <1>2 DEF IInv, StatusTold, Latest
    <3> QED BY <3>2, <1>2
  <2> QED BY <2>1
<1>6. /\ looks'[n + 1].crossed <=> Crosses(e.look, score)
      /\ looks'[n + 1].status = LookStatus(e.look, score)
      /\ looks'[n + 1].table = t
  <2>1. Retained(e, t, score).crossed = Crosses(e.look, score)
    BY Zenon DEF Retained
  <2>2. /\ Retained(e, t, score).status = LookStatus(e.look, score)
        /\ Retained(e, t, score).table = t
    BY DEF Retained
  <2>3. looks'[n + 1] = Retained(e, t, score)
    BY <1>1
  <2> QED BY <2>1, <2>2, <2>3, Zenon
<1>7. LookStatus(e.look, score) = "efficacy" <=> Crosses(e.look, score)
  BY DEF LookStatus, Crosses
<1>8. Crosses(e.look, score) =>
        /\ Nominal(n + 1) > 0 /\ t.repeated = "none"
        /\ \A arm \in Arms : Rows(t, arm) > 0
  <2>1. \A arm \in Arms : Rows(t, arm) \in Nat
    BY RowsType
  <2>2. score = "reaches" => t.repeated = "none" /\ \A arm \in Arms : Rows(t, arm) # 0
    BY DEF Evidence
  <2> QED BY <2>1, <2>2, <1>1 DEF Crosses
<1>9. CrossedLast'
  <2> SUFFICES ASSUME NEW i \in 1..(n + 1)
               PROVE  /\ looks'[i].crossed <=> looks'[i].status = "efficacy"
                      /\ looks'[i].crossed =>
                           /\ i = n + 1 /\ Nominal(i) > 0
                           /\ looks'[i].table.repeated = "none"
                           /\ \A arm \in Arms : Rows(looks'[i].table, arm) > 0
    BY <1>1 DEF CrossedLast, Nominal, Rows
  <2>1. CASE i = n + 1
    BY <2>1, <1>6, <1>7, <1>8
  <2>2. CASE i # n + 1
    <3>1. i \in 1..n
      BY <2>2, <1>1
    <3>2. looks'[i] = looks[i]
      BY <3>1, <1>1
    <3>3. looks[i].crossed <=> looks[i].status = "efficacy"
      BY <3>1, <1>1 DEF IInv, CrossedLast
    <3> QED BY <3>1, <3>2, <3>3, <1>5
  <2> QED BY <2>1, <2>2
<1> QED BY <1>3, <1>4, <1>9

-----------------------------------------------------------------------------
(* Induction. *)

LEMMA InitIInv == Init => IInv
<1> SUFFICES ASSUME Init PROVE IInv
  OBVIOUS
<1>1. looks = <<>> /\ Len(looks) = 0 /\ DOMAIN looks = {}
  BY DEF Init
<1>2. looks \in Seq(LookResults)
  BY DEF Init
<1>3. TypeOK /\ StatusTold /\ OnlyRoundingRaises
  BY <1>2 DEF Init, TypeOK, StatusTold, OnlyRoundingRaises, Statuses
<1>4. InTurn /\ CrossedLast /\ CumulativeEvidence
  BY <1>1, LooksAssumption DEF InTurn, CrossedLast, CumulativeEvidence
<1> QED BY <1>3, <1>4 DEF IInv

\* A deviation changes neither the plan nor the looks.
LEMMA DeviateStep ==
  ASSUME IInv, Deviate
  PROVE  IInv'
<1>1. looks' = looks /\ plan' = plan /\ result' = result /\ deviated' = TRUE /\ status' = "invalid"
  BY DEF Deviate
<1>2. TypeOK'
  BY <1>1 DEF IInv, TypeOK, Statuses
<1>3. InTurn' /\ StatusTold' /\ CumulativeEvidence' /\ OnlyRoundingRaises'
  BY <1>1 DEF IInv, InTurn, StatusTold, CumulativeEvidence, OnlyRoundingRaises, Grows, Rows
<1>4. CrossedLast'
  BY <1>1 DEF IInv, CrossedLast, Nominal, Rows
<1> QED BY <1>2, <1>3, <1>4 DEF IInv

\* Within the invariant the contract can only fail on a rounded time.
LEMMA ReturnStep ==
  ASSUME IInv, Return
  PROVE  IInv'
<1>1. /\ looks' = looks /\ plan' = plan /\ deviated' = deviated /\ status' = status
      /\ result' = IF Contract THEN "history" ELSE "raised"
  BY DEF Return
<1>2. Contract \/ \E i \in DOMAIN looks : ~looks[i].exact
  <2>1. DOMAIN looks = 1..Len(looks) /\ Len(looks) \in Nat
    BY DEF IInv, TypeOK
  <2>2. \A i, j \in DOMAIN looks : i < j => looks[i].look < looks[j].look
    BY DEF IInv, InTurn
  <2>3. \A i \in DOMAIN looks : looks[i].look <= NumLooks
    BY <2>1, LooksAssumption DEF IInv, InTurn
  <2> QED BY <2>2, <2>3 DEF Contract, IInv, StatusTold
<1>3. TypeOK' /\ OnlyRoundingRaises'
  BY <1>1, <1>2 DEF IInv, TypeOK, OnlyRoundingRaises
<1>4. InTurn' /\ StatusTold'
  <2>1. InTurn'
    BY <1>1 DEF IInv, InTurn
  <2>2. StatusTold'
    BY <1>1 DEF IInv, StatusTold, Latest
  <2> QED BY <2>1, <2>2
<1>5. CumulativeEvidence'
  BY <1>1 DEF IInv, CumulativeEvidence, Grows, Rows
<1>6. CrossedLast'
  BY <1>1 DEF IInv, CrossedLast, Nominal, Rows, Latest
<1> QED BY <1>3, <1>4, <1>5, <1>6 DEF IInv

LEMMA EvaluateStep ==
  ASSUME IInv, NEW e \in Executions, NEW t \in Tables, NEW score \in Evidence(t),
         Evaluate(e, t, score)
  PROVE  IInv'
<1>1. TypeOK'
  <2>1. looks' \in Seq(LookResults)
    BY Extended
  <2>2. status' \in Statuses
    BY DEF Evaluate, LookStatus, Statuses
  <2> QED BY <2>1, <2>2 DEF Evaluate, IInv, TypeOK
<1>2. OnlyRoundingRaises'
  BY DEF Evaluate, Open, OnlyRoundingRaises
<1> QED BY <1>1, <1>2, EvaluateCumulative, EvaluateStatus DEF IInv

\* A step of Look evaluates one execution on one table.
LEMMA EvaluatePick ==
  ASSUME Look
  PROVE  \E e \in Executions, t \in Tables : \E score \in Evidence(t) : Evaluate(e, t, score)
  BY DEF Look

LEMMA Step == IInv /\ [Next]_vars => IInv'
<1> SUFFICES ASSUME IInv, [Next]_vars PROVE IInv'
  OBVIOUS
<1>1. CASE RefusePlan \/ RefuseLook \/ RefuseTable \/ RefuseRows
  BY <1>1, DeviateStep DEF RefusePlan, RefuseLook, RefuseTable, RefuseRows
<1>2. CASE Look
  <2>1. PICK e \in Executions, t \in Tables :
               \E score \in Evidence(t) : Evaluate(e, t, score)
    BY <1>2, EvaluatePick
  <2> QED BY <2>1, EvaluateStep
<1>3. CASE Return
  BY <1>3, ReturnStep
<1>4. CASE UNCHANGED vars
  <2>1. /\ looks' = looks /\ plan' = plan /\ deviated' = deviated
        /\ status' = status /\ result' = result
    BY <1>4 DEF vars
  <2> QED BY <2>1 DEF IInv, TypeOK, InTurn, StatusTold, CumulativeEvidence, CrossedLast,
                      OnlyRoundingRaises, Grows, Rows, Nominal, Latest
<1> QED BY <1>1, <1>2, <1>3, <1>4 DEF Next, Ended

\* The invariant holds in every reachable state.
THEOREM Invariance == Spec => []IInv
  BY InitIInv, Step, PTL DEF Spec

\* Retained looks and the status keep their types: sequential/service.py never
\* keeps a look outside the plan or a timestamp without a timezone.
THEOREM TypeCorrectness == Spec => []TypeOK
<1>1. IInv => TypeOK
  BY DEF IInv
<1> QED BY <1>1, Invariance, PTL

\* Comparing each look with the one before makes all looks of a history
\* snapshots of one growing experiment (_validate_cumulative_history).
THEOREM CumulativeTheorem == Spec => []CumulativeEvidence
<1>1. IInv => CumulativeEvidence
  BY DEF IInv
<1> QED BY <1>1, Invariance, PTL

\* An efficacy status is earned by the latest look alone, with budget, both
\* arms and an intact plan (SequentialAnalysisService._analyze).
THEOREM EfficacyTheorem == Spec => []EfficacyIsEarned
<1>1. IInv => EfficacyIsEarned
  <2> SUFFICES ASSUME IInv, status = "efficacy" PROVE EfficacyIsEarned
    BY DEF EfficacyIsEarned
  <2>1. ~deviated /\ looks # <<>> /\ ~plan.tampered /\ Latest.status = "efficacy"
    BY DEF IInv, StatusTold
  <2>2. Len(looks) \in DOMAIN looks
    BY <2>1 DEF IInv, TypeOK
  <2>3. looks[Len(looks)].crossed
    BY <2>1, <2>2 DEF IInv, CrossedLast, Latest
  <2> QED BY <2>1, <2>2, <2>3 DEF EfficacyIsEarned, IInv, CrossedLast, Latest
<1> QED BY <1>1, Invariance, PTL

\* Only a look whose information time is off by less than the tolerance makes
\* the history contract (models.py validate_history) raise.
THEOREM RoundingTheorem == Spec => []OnlyRoundingRaises
<1>1. IInv => OnlyRoundingRaises
  BY DEF IInv
<1> QED BY <1>1, Invariance, PTL

-----------------------------------------------------------------------------
(* What a step may never do, and the refinement. *)

Kept ==
  /\ \A i \in DOMAIN looks : i \in DOMAIN looks' /\ looks'[i] = looks[i]
  /\ status = "efficacy" => status' \in {"efficacy", "invalid"} /\ looks' = looks
  /\ status = "invalid" => status' = "invalid" /\ looks' = looks

LEMMA KeptStep == IInv /\ [Next]_vars => [Kept]_vars
<1> SUFFICES ASSUME IInv, Next PROVE Kept
  OBVIOUS
<1>1. CASE RefusePlan \/ RefuseLook \/ RefuseTable \/ RefuseRows
  BY <1>1 DEF RefusePlan, RefuseLook, RefuseTable, RefuseRows, Deviate, Kept
<1>2. CASE Look
  <2>1. PICK e \in Executions, t \in Tables : \E score \in Evidence(t) : Evaluate(e, t, score)
    BY <1>2, EvaluatePick
  <2>2. PICK score \in Evidence(t) : Evaluate(e, t, score)
    BY <2>1
  <2>3. status # "efficacy" /\ status # "invalid"
    BY <2>2, NextLook DEF Evaluate, Open, IInv, StatusTold
  <2>4. \A i \in DOMAIN looks : i \in DOMAIN looks' /\ looks'[i] = looks[i]
    BY <2>2, Extended
  <2> QED BY <2>3, <2>4 DEF Kept
<1>3. CASE Return \/ Ended
  BY <1>3 DEF Return, Ended, vars, Kept
<1> QED BY <1>1, <1>2, <1>3 DEF Next

\* Later looks never revise what an earlier look reported: retained looks are
\* immutable, after efficacy only a deviation follows, invalid is final.
THEOREM FinalTheorem == Spec => HistoryIsFinal
  BY Invariance, KeptStep, PTL DEF Spec, HistoryIsFinal, Kept

LEMMA BudgetInit == Init => Budget!Init
  BY DEF Init, Budget!Init, Spent

LEMMA PayStep ==
  ASSUME IInv, NEW e \in Executions, NEW t \in Tables, NEW score \in Evidence(t),
         Evaluate(e, t, score)
  PROVE  Budget!Pay
<1> DEFINE n == Len(looks)
           price == Spent(n + 1) - Spent(n)
<1>1. n \in Nat /\ n + 1 = e.look /\ n + 1 <= NumLooks /\ Len(looks') = n + 1
  BY Extended
<1>2. n \in 0..NumLooks /\ n + 1 \in 1..NumLooks /\ n + 1 \in 0..NumLooks /\ (n + 1) - 1 = n
  BY <1>1, LooksAssumption
<1>3. /\ Spent(n) \in 0..TotalAlpha /\ Spent(n + 1) \in 0..TotalAlpha
      /\ Spent(n) <= Spent(n + 1)
      /\ Nominal(n + 1) > 0 <=> Spent(n + 1) > Spent(n)
  BY <1>2, SpentBounds, NominalIsRise
<1>4. price \in 0..(TotalAlpha - Spent(n)) /\ Spent(n + 1) = Spent(n) + price
      /\ (price > 0 <=> Spent(n + 1) > Spent(n))
  BY <1>3, AlphaAssumption
<1>5. status # "efficacy" /\ status # "invalid" /\ status' = LookStatus(e.look, score)
  BY NextLook DEF Evaluate, Open, IInv, StatusTold
<1>6. /\ status' # "invalid"
      /\ status' = "efficacy" => Nominal(n + 1) > 0
  BY <1>1, <1>5 DEF LookStatus, Crosses
<1>7. Spent(Len(looks))' = Spent(n + 1)
  BY <1>1 DEF Spent, Cumulative
<1> HIDE DEF n, price
<1>8. status' = "efficacy" => price > 0
  BY <1>3, <1>4, <1>6
<1> QED BY <1>4, <1>5, <1>6, <1>7, <1>8 DEF Budget!Pay, n

LEMMA BudgetStep == IInv /\ [Next]_vars => [Budget!Next]_(Budget!alphaVars)
<1> SUFFICES ASSUME IInv, [Next]_vars PROVE [Budget!Next]_(Budget!alphaVars)
  OBVIOUS
<1>1. CASE RefusePlan \/ RefuseLook \/ RefuseTable \/ RefuseRows
  <2>1. looks' = looks /\ status' = "invalid"
    BY <1>1 DEF RefusePlan, RefuseLook, RefuseTable, RefuseRows, Deviate
  <2>2. Spent(Len(looks))' = Spent(Len(looks))
    BY <2>1 DEF Spent, Cumulative
  <2>3. Budget!Void
    BY <2>1, <2>2 DEF Budget!Void
  <2> QED BY <2>3 DEF Budget!Next
<1>2. CASE Look
  <2>1. PICK e \in Executions, t \in Tables :
               \E score \in Evidence(t) : Evaluate(e, t, score)
    BY <1>2, EvaluatePick
  <2>2. Budget!Pay
    BY <2>1, PayStep
  <2> QED BY <2>2 DEF Budget!Next
<1>3. CASE Return \/ UNCHANGED vars
  <2>1. looks' = looks /\ status' = status
    BY <1>3 DEF Return, vars
  <2>2. Spent(Len(looks))' = Spent(Len(looks))
    BY <2>1 DEF Spent, Cumulative
  <2> QED BY <2>1, <2>2 DEF Budget!alphaVars
<1> QED BY <1>1, <1>2, <1>3 DEF Next, Ended

\* The looks of a registered plan are payments out of its alpha, never more
\* than the total, whatever their order, their evidence and their deviations.
THEOREM Refinement == Spec => ImplementsAlphaSpending
  BY Invariance, BudgetInit, BudgetStep, PTL DEF Spec, ImplementsAlphaSpending, Budget!Spec
=============================================================================
