-------------------------- MODULE EligibilityProofs --------------------------
(***************************************************************************)
(* What the eligibility of a request says of every table, and what the     *)
(* services that ask for it may rest on it.  A rule is a list of codes;    *)
(* the lemmas of the first parts are about such lists: how they are put    *)
(* together, what is told in them and what is not.                         *)
(***************************************************************************)
EXTENDS RandomizedEstimators, FiniteSetTheorems, TLAPS

(***************************************************************************)
(* The least element of a set of numbers.                                  *)
(***************************************************************************)
Before == OpToRel(<, Nat)

LEMMA SmallerIsBefore == \A x, y \in Nat : x < y => <<x, y>> \in Before
  BY Zenon DEF OpToRel, Before

LEMMA BeforeIsWellFounded == IsWellFoundedOn(Before, Nat)
  BY NatLessThanWellFounded, Zenon DEF Before

LEMMA LeastElement ==
  ASSUME NEW T, T \subseteq Nat, T # {}
  PROVE  \E x \in T : \A y \in T : x <= y
<1>1. PICK x \in T : \A y \in T : ~(<<y, x>> \in Before)
  BY BeforeIsWellFounded, WFMin
<1>2. \A y \in T : ~(y < x)
  BY SmallerIsBefore, <1>1
<1> QED BY <1>2

LEMMA MinIsLeast ==
  ASSUME NEW T, T \subseteq Nat, T # {}
  PROVE  Min(T) \in T /\ \A y \in T : Min(T) <= y
  BY LeastElement DEF Min

(***************************************************************************)
(* Lists of codes.                                                         *)
(***************************************************************************)
LEMMA Single == \A x : IsList(<<x>>) /\ SetOf(<<x>>) = {x}
  BY DEF IsList, SetOf

LEMMA Nothing == IsList(<<>>) /\ SetOf(<<>>) = {}
  BY DEF IsList, SetOf

LEMMA Join ==
  ASSUME NEW s, NEW t, IsList(s), IsList(t)
  PROVE  IsList(s \o t) /\ SetOf(s \o t) = SetOf(s) \cup SetOf(t)
<1> DEFINE S == SetOf(s) \cup SetOf(t)
<1>1. s \in Seq(S) /\ t \in Seq(S)
  BY DEF IsList
<1>2. s \o t \in Seq(S) /\ Len(s \o t) = Len(s) + Len(t)
  BY <1>1
<1>3. \A i \in 1..Len(s) : (s \o t)[i] = s[i]
  BY <1>1
<1>4. \A i \in 1..Len(t) : (s \o t)[Len(s) + i] = t[i]
  BY <1>1
<1>5. SetOf(s \o t) = S
  <2>1. DOMAIN (s \o t) = 1..(Len(s) + Len(t)) /\ DOMAIN s = 1..Len(s) /\ DOMAIN t = 1..Len(t)
    BY <1>1, <1>2
  <2>2. Len(s) \in Nat /\ Len(t) \in Nat
    BY <1>1
  <2>3. SetOf(s \o t) \subseteq S
    BY <1>2, <2>1, <2>2 DEF SetOf
  <2>4. SetOf(s) \subseteq SetOf(s \o t)
    BY <1>3, <2>1, <2>2 DEF SetOf
  <2>5. SetOf(t) \subseteq SetOf(s \o t)
    <3>1. \A i \in DOMAIN t : Len(s) + i \in DOMAIN (s \o t)
      BY <2>1, <2>2
    <3>2. \A i \in DOMAIN t : (s \o t)[Len(s) + i] = t[i]
      BY <1>4, <2>1
    <3> QED BY <3>1, <3>2 DEF SetOf
  <2> QED BY <2>3, <2>4, <2>5
<1> QED BY <1>2, <1>5 DEF IsList

LEMMA JoinThree ==
  ASSUME NEW s1, NEW s2, NEW s3, IsList(s1), IsList(s2), IsList(s3)
  PROVE  /\ IsList(s1 \o s2 \o s3)
         /\ SetOf(s1 \o s2 \o s3) = UNION {SetOf(s1), SetOf(s2), SetOf(s3)}
<1> DEFINE first == s1 \o s2
<1>1. IsList(first) /\ SetOf(first) = SetOf(s1) \cup SetOf(s2)
  BY Join
<1> HIDE DEF first
<1>2. IsList(first \o s3) /\ SetOf(first \o s3) = SetOf(first) \cup SetOf(s3)
  BY <1>1, Join
<1> QED BY <1>1, <1>2 DEF first

LEMMA JoinFour ==
  ASSUME NEW s1, NEW s2, NEW s3, NEW s4, IsList(s1), IsList(s2), IsList(s3), IsList(s4)
  PROVE  /\ IsList(s1 \o s2 \o s3 \o s4)
         /\ SetOf(s1 \o s2 \o s3 \o s4) = UNION {SetOf(s1), SetOf(s2), SetOf(s3), SetOf(s4)}
<1> DEFINE first == s1 \o s2 \o s3
<1>1. IsList(first) /\ SetOf(first) = UNION {SetOf(s1), SetOf(s2), SetOf(s3)}
  BY JoinThree
<1> HIDE DEF first
<1>2. IsList(first \o s4) /\ SetOf(first \o s4) = SetOf(first) \cup SetOf(s4)
  BY <1>1, Join
<1> QED BY <1>1, <1>2 DEF first

LEMMA JoinSix ==
  ASSUME NEW s1, NEW s2, NEW s3, NEW s4, NEW s5, NEW s6,
         IsList(s1), IsList(s2), IsList(s3), IsList(s4), IsList(s5), IsList(s6)
  PROVE  /\ IsList(s1 \o s2 \o s3 \o s4 \o s5 \o s6)
         /\ SetOf(s1 \o s2 \o s3 \o s4 \o s5 \o s6)
              = UNION {SetOf(s1), SetOf(s2), SetOf(s3), SetOf(s4), SetOf(s5), SetOf(s6)}
<1> DEFINE first == s1 \o s2 \o s3 \o s4
<1>1. IsList(first) /\ SetOf(first) = UNION {SetOf(s1), SetOf(s2), SetOf(s3), SetOf(s4)}
  BY JoinFour
<1> HIDE DEF first
<1>2. /\ IsList(first \o s5 \o s6)
      /\ SetOf(first \o s5 \o s6) = UNION {SetOf(first), SetOf(s5), SetOf(s6)}
  BY <1>1, JoinThree
<1> QED BY <1>1, <1>2 DEF first

LEMMA JoinEight ==
  ASSUME NEW s1, NEW s2, NEW s3, NEW s4, NEW s5, NEW s6, NEW s7, NEW s8,
         IsList(s1), IsList(s2), IsList(s3), IsList(s4),
         IsList(s5), IsList(s6), IsList(s7), IsList(s8)
  PROVE  /\ IsList(s1 \o s2 \o s3 \o s4 \o s5 \o s6 \o s7 \o s8)
         /\ SetOf(s1 \o s2 \o s3 \o s4 \o s5 \o s6 \o s7 \o s8)
              = UNION {SetOf(s1), SetOf(s2), SetOf(s3), SetOf(s4),
                       SetOf(s5), SetOf(s6), SetOf(s7), SetOf(s8)}
<1> DEFINE first == s1 \o s2 \o s3 \o s4 \o s5 \o s6
<1>1. /\ IsList(first)
      /\ SetOf(first) = UNION {SetOf(s1), SetOf(s2), SetOf(s3), SetOf(s4), SetOf(s5), SetOf(s6)}
  BY JoinSix
<1> HIDE DEF first
<1>2. /\ IsList(first \o s7 \o s8)
      /\ SetOf(first \o s7 \o s8) = UNION {SetOf(first), SetOf(s7), SetOf(s8)}
  BY <1>1, JoinThree
<1> QED BY <1>1, <1>2 DEF first

\* What FlattenSeq computes step by step exists for every number of lists.
LEMMA FlattenExists ==
  ASSUME NEW n \in Nat, NEW ss
  PROVE  \E f : f = [i \in 1..n |-> IF i = 1 THEN ss[i] ELSE f[i - 1] \o ss[i]]
<1> DEFINE Ex(k) == \E f : f = [i \in 1..k |-> IF i = 1 THEN ss[i] ELSE f[i - 1] \o ss[i]]
           T == {k \in Nat : ~Ex(k)}
<1> SUFFICES ASSUME T # {} PROVE FALSE
  OBVIOUS
<1>1. PICK k \in T : \A y \in T : k <= y
  <2> HIDE DEF Ex
  <2> QED BY LeastElement
<1>2. k # 0
  <2> DEFINE g == [i \in 1..0 |-> ss[1]]
  <2>1. g = [i \in 1..0 |-> IF i = 1 THEN ss[i] ELSE g[i - 1] \o ss[i]]
    OBVIOUS
  <2>2. Ex(0)
    <3> HIDE DEF g
    <3> QED BY <2>1, Zenon
  <2> HIDE DEF Ex, g
  <2> QED BY <2>2, <1>1
<1>3. Ex(k - 1) /\ k - 1 \in Nat
  <2> HIDE DEF Ex
  <2> QED BY <1>1, <1>2
<1>4. PICK f : f = [i \in 1..(k - 1) |-> IF i = 1 THEN ss[i] ELSE f[i - 1] \o ss[i]]
  BY <1>3
<1> DEFINE g == [i \in 1..k |-> IF i = k THEN (IF k = 1 THEN ss[k] ELSE f[k - 1] \o ss[k])
                                ELSE f[i]]
<1>5. \A i \in 1..k : g[i] = IF i = 1 THEN ss[i] ELSE g[i - 1] \o ss[i]
  <2> SUFFICES ASSUME NEW i \in 1..k PROVE g[i] = IF i = 1 THEN ss[i] ELSE g[i - 1] \o ss[i]
    OBVIOUS
  <2>1. CASE i = 1
    BY <2>1, <1>4
  <2>2. CASE i # 1
    <3>1. i - 1 \in 1..k /\ i - 1 # k /\ g[i - 1] = f[i - 1]
      BY <2>2
    <3>2. CASE i = k
      BY <3>1, <3>2, <2>2
    <3>3. CASE i # k
      <4>1. i \in 1..(k - 1)
        BY <3>3
      <4> QED BY <4>1, <3>1, <3>3, <2>2, <1>4
    <3> QED BY <3>2, <3>3
  <2> QED BY <2>1, <2>2
<1>6. g = [i \in 1..k |-> IF i = 1 THEN ss[i] ELSE g[i - 1] \o ss[i]]
  BY <1>5
<1>7. Ex(k)
  <2> HIDE DEF g
  <2> QED BY <1>6
<1> QED BY <1>7, <1>1

\* A flattened list tells what its parts tell.
LEMMA Flatten ==
  ASSUME NEW ss, IsList(ss), \A i \in DOMAIN ss : IsList(ss[i])
  PROVE  /\ IsList(FlattenSeq(ss))
         /\ SetOf(FlattenSeq(ss)) = UNION {SetOf(ss[i]) : i \in DOMAIN ss}
<1> DEFINE n == Len(ss)
           P(f) == f = [i \in 1..n |-> IF i = 1 THEN ss[i] ELSE f[i - 1] \o ss[i]]
           Parts(k) == UNION {SetOf(ss[i]) : i \in 1..k}
<1>1. n \in Nat /\ DOMAIN ss = 1..n
  BY DEF IsList
<1>2. CASE n = 0
  <2>1. ss = <<>> /\ FlattenSeq(ss) = ss
    BY <1>1, <1>2 DEF IsList, FlattenSeq
  <2> QED BY <2>1, Nothing
<1>3. CASE n # 0
  <2> DEFINE f == CHOOSE f : P(f)
  <2>1. P(f)
    BY <1>1, FlattenExists
  <2>2. FlattenSeq(ss) = f[n]
    BY <1>3 DEF FlattenSeq
  <2> HIDE DEF f
  <2> DEFINE Good(k) == IsList(f[k]) /\ SetOf(f[k]) = Parts(k)
             T == {k \in 1..n : ~Good(k)}
  <2>3. T = {}
    <3> SUFFICES ASSUME T # {} PROVE FALSE
      OBVIOUS
    <3>0. T \subseteq Nat
      <4> HIDE DEF Good
      <4> QED BY <1>1
    <3>1. PICK k \in T : \A y \in T : k <= y
      <4> HIDE DEF T
      <4> QED BY <3>0, LeastElement
    <3>2. k \in 1..n /\ ~Good(k)
      BY <3>1
    <3>3. CASE k = 1
      <4>1. f[k] = ss[1]
        BY <2>1, <3>2, <3>3
      <4>2. Parts(k) = SetOf(ss[1])
        BY <3>3
      <4> QED BY <4>1, <4>2, <3>2, <3>3, <1>1
    <3>4. CASE k # 1
      <4>0. k \in 1..n /\ k - 1 \in 1..n
        BY <1>1, <3>2, <3>4
      <4>1. k - 1 \in 1..n /\ f[k] = f[k - 1] \o ss[k]
        <5>1. f[k] = IF k = 1 THEN ss[k] ELSE f[k - 1] \o ss[k]
          BY <2>1, <4>0
        <5> QED BY <5>1, <4>0, <3>4
      <4>2. Good(k - 1)
        <5>1. k - 1 \notin T
          <6> HIDE DEF T
          <6> QED BY <3>1, <3>2, <1>1
        <5> QED BY <5>1, <4>1
      <4>3. Parts(k) = Parts(k - 1) \cup SetOf(ss[k])
        <5>1. 1..k = 1..(k - 1) \cup {k}
          BY <3>2
        <5> QED BY <5>1
      <4>4. IsList(f[k]) /\ SetOf(f[k]) = SetOf(f[k - 1]) \cup SetOf(ss[k])
        BY <4>1, <4>2, <3>2, <1>1, Join
      <4> QED BY <4>2, <4>3, <4>4, <3>2
    <3> QED BY <3>3, <3>4
  <2>4. Good(n)
    <3>1. n \in 1..n
      BY <1>1, <1>3
    <3> QED BY <3>1, <2>3
  <2> QED BY <2>2, <2>4, <1>1
<1> QED BY <1>2, <1>3

(***************************************************************************)
(* Rules that never tell what stands for no reason, nor what only the      *)
(* registry of the methods decides, nor that the outcome is constant.      *)
(***************************************************************************)
Foreign == {NoReason, "method.implementation_unavailable"}
Reserved == Foreign \cup {"outcome.zero_variance"}
Telling(s) == IsList(s) /\ SetOf(s) \cap Reserved = {}

LEMMA TellingNothing == Telling(<<>>)
  BY Nothing DEF Telling

LEMMA TellingOne == ASSUME NEW x, x \notin Reserved PROVE Telling(<<x>>)
  BY Single DEF Telling

LEMMA TellingTold == ASSUME NEW p, NEW x, x \notin Reserved PROVE Telling(Told(p, x))
  BY TellingOne, TellingNothing DEF Told

LEMMA TellingJoin ==
  ASSUME NEW s, NEW t, Telling(s), Telling(t) PROVE Telling(s \o t)
  BY Join DEF Telling

\* What is told of each of a list.
LEMMA PartsOf ==
  ASSUME NEW seq, IsList(seq), NEW F, F = [i \in DOMAIN seq |-> F[i]]
  PROVE  IsList(F) /\ DOMAIN F = DOMAIN seq
<1>1. DOMAIN seq = 1..Len(seq) /\ Len(seq) \in Nat
  BY DEF IsList
<1>2. DOMAIN F = 1..Len(seq)
  BY <1>1
<1>3. F \in [1..Len(seq) -> SetOf(F)]
  BY <1>1, <1>2 DEF SetOf
<1>4. F \in Seq(SetOf(F))
  BY <1>1, <1>3
<1> QED BY <1>1, <1>2, <1>4 DEF IsList

LEMMA TellingEach ==
  ASSUME NEW seq, IsList(seq), NEW F, F = [i \in DOMAIN seq |-> F[i]],
         \A i \in DOMAIN seq : Telling(F[i])
  PROVE  Telling(FlattenSeq(F))
<1>1. IsList(F) /\ DOMAIN F = DOMAIN seq
  BY PartsOf
<1>2. \A i \in DOMAIN F : IsList(F[i])
  BY <1>1 DEF Telling
<1>3. /\ IsList(FlattenSeq(F))
      /\ SetOf(FlattenSeq(F)) = UNION {SetOf(F[i]) : i \in DOMAIN F}
  BY <1>1, <1>2, Flatten
<1> QED BY <1>1, <1>3 DEF Telling

-----------------------------------------------------------------------------
LEMMA TellingMethod == ASSUME NEW q, NEW b PROVE Telling(MethodCodes(q, b))
  BY TellingTold, TellingJoin DEF MethodCodes, Reserved, Foreign, NoReason

LEMMA TellingCovariates ==
  ASSUME NEW q, IsList(q.covariates) PROVE Telling(CovariateCodes(q))
<1> DEFINE F == [i \in DOMAIN q.covariates |->
                   TimingCodes(q, q.covariates[i]) \o RelationshipCodes(q.covariates[i])]
<1>1. CovariateCodes(q) = FlattenSeq(F)
  BY DEF CovariateCodes, Each
<1>2. \A v : Telling(TimingCodes(q, v)) /\ Telling(RelationshipCodes(v))
  BY TellingTold, TellingOne, TellingJoin DEF TimingCodes, RelationshipCodes, Reserved, Foreign, NoReason
<1>3. \A i \in DOMAIN q.covariates : Telling(F[i])
  BY <1>2, TellingJoin
<1> HIDE DEF F
<1>4. F = [i \in DOMAIN q.covariates |-> F[i]]
  BY DEF F
<1> QED BY <1>1, <1>3, <1>4, TellingEach

LEMMA TellingDeclarations ==
  ASSUME NEW q, NEW b
  PROVE  /\ Telling(MetricEstimandCodes(q)) /\ Telling(CateCodes(q))
         /\ Telling(DuplicateCodes(q)) /\ Telling(RoleCodes(q, b))
  BY TellingTold, TellingJoin
  DEF MetricEstimandCodes, CateCodes, DuplicateCodes, RoleCodes, Reserved, Foreign, NoReason

LEMMA TellingUnits == ASSUME NEW q, NEW b PROVE Telling(UnitCodes(q, b))
<1>1. Telling(RandomizationCodes(q, b))
  BY TellingTold, TellingOne, TellingNothing, TellingJoin
  DEF RandomizationCodes, Reserved, Foreign, NoReason
<1> QED
  BY <1>1, TellingTold, TellingOne, TellingNothing, TellingJoin DEF UnitCodes, Reserved, Foreign, NoReason

LEMMA TellingColumns ==
  ASSUME NEW b, IsList(b.preMetrics), \A i \in DOMAIN b.preMetrics : IsList(b.preMetrics[i].columns)
  PROVE  Telling(ColumnCodes(b))
<1> DEFINE once == BoundOnce(b.preMetrics)
           Part(m, column) ==
             IF column \in Protected(b) THEN <<"request.metric_binding_role_conflict">>
             ELSE Told(Claimed(b, column, m.metric), "request.metric_binding_conflict")
           Of(m) == [k \in DOMAIN m.columns |-> Part(m, m.columns[k])]
           F == [i \in DOMAIN b.preMetrics |->
                   IF i \in once THEN FlattenSeq(Of(b.preMetrics[i])) ELSE <<>>]
<1>1. ColumnCodes(b) = FlattenSeq(F)
  BY DEF ColumnCodes, Each
<1>2. ASSUME NEW m, IsList(m.columns) PROVE Telling(FlattenSeq(Of(m)))
  <2>1. \A column : Telling(Part(m, column))
    BY TellingTold, TellingOne DEF Reserved, Foreign, NoReason
  <2>2. \A k \in DOMAIN m.columns : Telling(Of(m)[k])
    BY <2>1
  <2>3. Of(m) = [k \in DOMAIN m.columns |-> Of(m)[k]]
    OBVIOUS
  <2> HIDE DEF Of
  <2> QED BY <1>2, <2>2, <2>3, TellingEach
<1>3. \A i \in DOMAIN b.preMetrics : Telling(F[i])
  <2> HIDE DEF Of
  <2> QED BY <1>2, TellingNothing
<1> HIDE DEF F, Of
<1>4. F = [i \in DOMAIN b.preMetrics |-> F[i]]
  BY DEF F
<1> QED BY <1>1, <1>3, <1>4, TellingEach

LEMMA TellingBinding ==
  ASSUME NEW q, NEW b, RequestOK(q), BindingOK(b) PROVE Telling(BindingCodes(q, b))
<1> DEFINE F == [i \in DOMAIN q.preMetrics |-> PreMetricCodes(q.preMetrics[i], b.preMetrics)]
<1>1. IsList(q.preMetrics) /\ Telling(ColumnCodes(b))
  BY TellingColumns DEF RequestOK, BindingOK
<1>2. \A pre : Telling(PreMetricCodes(pre, b.preMetrics))
  BY TellingTold, TellingOne DEF PreMetricCodes, Reserved, Foreign, NoReason
<1>3. Telling(FlattenSeq(F))
  <2>1. \A i \in DOMAIN q.preMetrics : Telling(F[i])
    BY <1>2
  <2>2. F = [i \in DOMAIN q.preMetrics |-> F[i]]
    OBVIOUS
  <2> HIDE DEF F
  <2> QED BY <1>1, <2>1, <2>2, TellingEach
<1>4. \A type, columns : Telling(ShapeCodes(type, columns))
  BY TellingTold DEF ShapeCodes, Reserved, Foreign, NoReason
<1>5. Each(q.preMetrics, LAMBDA pre : PreMetricCodes(pre, b.preMetrics)) = FlattenSeq(F)
  BY DEF Each
<1> HIDE DEF F
<1> QED BY <1>1, <1>3, <1>4, <1>5, TellingTold, TellingJoin DEF BindingCodes, Reserved, Foreign, NoReason

LEMMA TellingRequest ==
  ASSUME NEW q, NEW b, RequestOK(q), BindingOK(b) PROVE Telling(RequestCodes(q, b))
<1>1. IsList(q.covariates)
  BY DEF RequestOK
<1> QED
  BY <1>1, TellingMethod, TellingCovariates, TellingDeclarations, TellingUnits, TellingBinding,
     TellingJoin DEF RequestCodes

-----------------------------------------------------------------------------
LEMMA OrderOfReadings ==
  /\ IsList(ReadingOrder) /\ SetOf(ReadingOrder) \subseteq DOMAIN OutcomeCode
  /\ DOMAIN OutcomeCode = DOMAIN PreMetricCode
  /\ \A r \in DOMAIN OutcomeCode :
       OutcomeCode[r] \notin Reserved /\ PreMetricCode[r] \notin Reserved
<1>1. IsList(ReadingOrder)
  BY DEF IsList, SetOf, ReadingOrder
<1>2. SetOf(ReadingOrder) \subseteq DOMAIN OutcomeCode
  BY DEF SetOf, ReadingOrder, OutcomeCode
<1> QED BY <1>1, <1>2 DEF OutcomeCode, PreMetricCode, Reserved, Foreign, NoReason

\* Codes of the readings that were seen.
ReadCodes(seen, codes) ==
  FlattenSeq([i \in DOMAIN ReadingOrder |->
                Told(ReadingOrder[i] \in seen, codes[ReadingOrder[i]])])

LEMMA TellingReadings ==
  ASSUME NEW seen, NEW codes, \A r \in SetOf(ReadingOrder) : codes[r] \notin Reserved
  PROVE  Telling(ReadCodes(seen, codes))
<1> DEFINE F == [i \in DOMAIN ReadingOrder |->
                   Told(ReadingOrder[i] \in seen, codes[ReadingOrder[i]])]
<1>1. \A i \in DOMAIN ReadingOrder : Telling(F[i])
  BY TellingTold DEF SetOf
<1>2. F = [i \in DOMAIN ReadingOrder |-> F[i]]
  OBVIOUS
<1>3. ReadCodes(seen, codes) = FlattenSeq(F)
  BY DEF ReadCodes
<1> HIDE DEF F
<1> QED BY <1>1, <1>2, <1>3, OrderOfReadings, TellingEach

Constantly(c) ==
  ValidRows(c) # {} /\ \A i, j \in ValidRows(c) : SameOutcome(c, i, j)

LEMMA TellingOutcome ==
  ASSUME NEW c
  PROVE  /\ IsList(OutcomeCodes(c)) /\ SetOf(OutcomeCodes(c)) \cap Foreign = {}
         /\ "outcome.zero_variance" \in SetOf(OutcomeCodes(c)) <=> Constantly(c)
<1> DEFINE read == ReadCodes({OutcomeReading(c, i) : i \in Population(c)}, OutcomeCode)
<1>1. Telling(read)
  BY OrderOfReadings, TellingReadings
<1>2. OutcomeCodes(c)
        = read \o Told(Constantly(c), "outcome.zero_variance")
  BY DEF OutcomeCodes, Each, ReadCodes, Constantly
<1> HIDE DEF read
<1> DEFINE constant == Told(Constantly(c), "outcome.zero_variance")
<1>3. IsList(constant) /\ SetOf(constant) = IF Constantly(c) THEN {"outcome.zero_variance"} ELSE {}
  BY Single, Nothing DEF Told
<1> HIDE DEF constant
<1>4. IsList(OutcomeCodes(c)) /\ SetOf(OutcomeCodes(c)) = SetOf(read) \cup SetOf(constant)
  BY <1>1, <1>2, <1>3, Join DEF Telling, constant
<1> QED BY <1>1, <1>3, <1>4 DEF Telling, Reserved, Foreign, NoReason

LEMMA TellingPreMetrics ==
  ASSUME NEW c, BindingOK(c.bind) PROVE Telling(PreMetricsCodes(c))
<1>1. ASSUME NEW pre, NEW binding PROVE Telling(PreMetricTableCodes(c, pre, binding))
  <2> DEFINE seen == {Reading(pre.type, binding, c.rows[i]) : i \in MeasuredRows(c, pre)}
             read == ReadCodes(seen, PreMetricCode)
  <2>1. Telling(read)
    <3> HIDE DEF seen
    <3> QED BY OrderOfReadings, TellingReadings
  <2>2. PreMetricTableCodes(c, pre, binding)
          = IF MeasuredRows(c, pre) = {} THEN <<"pre_treatment_metric.period_unavailable">>
            ELSE Told("missing" \in seen, "pre_treatment_metric.missing") \o read
                 \o Told("valid" \notin seen, "pre_treatment_metric.empty_valid_population")
    BY DEF PreMetricTableCodes, Each, ReadCodes
  <2> HIDE DEF seen, read
  <2> QED BY <2>1, <2>2, TellingTold, TellingOne, TellingJoin DEF Reserved, Foreign, NoReason
<1> DEFINE Declarations(binding) ==
             {i \in DOMAIN c.req.preMetrics : c.req.preMetrics[i].metric = binding.metric}
           Part(binding) ==
             IF Declarations(binding) = {} THEN <<>>
             ELSE PreMetricTableCodes(c, c.req.preMetrics[CHOOSE i \in Declarations(binding) :
                                           \A j \in Declarations(binding) : j <= i], binding)
           F == [i \in DOMAIN c.bind.preMetrics |-> Part(c.bind.preMetrics[i])]
<1>2. PreMetricsCodes(c) = FlattenSeq(F)
  BY DEF PreMetricsCodes, Each
<1>3. \A i \in DOMAIN c.bind.preMetrics : Telling(F[i])
  <2>1. \A binding : Telling(Part(binding))
    <3> HIDE DEF Declarations
    <3> QED BY <1>1, TellingNothing
  <2> HIDE DEF Part
  <2> QED BY <2>1
<1>4. F = [i \in DOMAIN c.bind.preMetrics |-> F[i]]
  <2> HIDE DEF Part
  <2> QED OBVIOUS
<1>5. IsList(c.bind.preMetrics)
  BY DEF BindingOK
<1> HIDE DEF F
<1> QED BY <1>2, <1>3, <1>4, <1>5, TellingEach

LEMMA TellingSample ==
  ASSUME NEW c
  PROVE  /\ Telling(SampleCodes(c)) /\ Telling(AllocationCodes(c))
         /\ Telling(CovariateBindingCodes(c)) /\ Telling(AssignmentCodes(c))
         /\ Telling(SchemaCodes(c))
<1>1. \A total, weakest, t : Telling(SizeCodes(total, weakest, t))
  BY TellingTold, TellingJoin DEF SizeCodes, Reserved, Foreign, NoReason
<1>2. Telling(SampleCodes(c))
  BY <1>1 DEF SampleCodes
<1>3. Telling(AllocationCodes(c))
  BY TellingTold, TellingOne, TellingNothing DEF AllocationCodes, Reserved, Foreign, NoReason
<1>4. Telling(CovariateBindingCodes(c)) /\ Telling(AssignmentCodes(c))
  BY TellingTold, TellingJoin DEF CovariateBindingCodes, AssignmentCodes, Reserved, Foreign, NoReason
<1>5. Telling(SchemaCodes(c))
  BY <1>4, TellingOne, TellingNothing, TellingJoin DEF SchemaCodes, Reserved, Foreign, NoReason
<1> QED BY <1>2, <1>3, <1>4, <1>5

LEMMA TellingData ==
  ASSUME NEW c, BindingOK(c.bind)
  PROVE  IsList(DataCodes(c)) /\ SetOf(DataCodes(c)) \cap Foreign = {}
<1>1. /\ IsList(OutcomeCodes(c)) /\ SetOf(OutcomeCodes(c)) \cap Foreign = {}
      /\ Telling(PreMetricsCodes(c)) /\ Telling(SampleCodes(c)) /\ Telling(AllocationCodes(c))
      /\ Telling(CovariateBindingCodes(c)) /\ Telling(AssignmentCodes(c))
      /\ Telling(SchemaCodes(c)) /\ Telling(<<"population.empty">>)
  BY TellingSample, TellingOutcome, TellingPreMetrics, TellingOne DEF Reserved, Foreign, NoReason
<1> DEFINE codes == CovariateBindingCodes(c) \o AssignmentCodes(c) \o OutcomeCodes(c)
                    \o PreMetricsCodes(c) \o SampleCodes(c) \o AllocationCodes(c)
<1>2. /\ IsList(codes)
      /\ SetOf(codes) = UNION {SetOf(CovariateBindingCodes(c)), SetOf(AssignmentCodes(c)),
                               SetOf(OutcomeCodes(c)), SetOf(PreMetricsCodes(c)),
                               SetOf(SampleCodes(c)), SetOf(AllocationCodes(c))}
  BY <1>1, JoinSix DEF Telling
<1>3. DataCodes(c) = IF SchemaCodes(c) # <<>> THEN SchemaCodes(c)
                     ELSE IF Population(c) = {} THEN <<"population.empty">> ELSE codes
  BY DEF DataCodes
<1> HIDE DEF codes
<1>4. SetOf(codes) \cap Foreign = {}
  BY <1>1, <1>2 DEF Telling, Reserved
<1> QED BY <1>1, <1>2, <1>3, <1>4 DEF Telling, Reserved

-----------------------------------------------------------------------------
LEMMA TellingUnitTable == ASSUME NEW c PROVE Telling(UnitTableCodes(c))
<1>1. Telling(RandomizationUnitCodes(c))
  BY TellingTold, TellingNothing, TellingJoin DEF RandomizationUnitCodes, Reserved, Foreign, NoReason
<1>2. Telling(ClusterCodes(c))
  BY TellingTold, TellingNothing, TellingJoin DEF ClusterCodes, Reserved, Foreign, NoReason
<1> QED BY <1>1, <1>2, TellingTold, TellingJoin DEF UnitTableCodes, Reserved, Foreign, NoReason

LEMMA TellingCovariateTable ==
  ASSUME NEW c, IsList(c.req.covariates) PROVE Telling(CovariateTableCodes(c))
<1> DEFINE Bound(v) ==
             {i \in DOMAIN c.bind.covariates : c.bind.covariates[i].metric = v.metric}
           Part(v) ==
             IF Bound(v) = {} THEN <<"covariate.binding_missing">>
             ELSE LET column == c.bind.covariates[CHOOSE i \in Bound(v) : TRUE].column
                  IN  Told(/\ c.bind.time # None
                           /\ \E u \in Values(c, c.bind.unit) :
                                \A i \in RowsWith(c, c.bind.unit, u) :
                                  \/ c.rows[i][column] = None
                                  \/ ~InPeriod(c.rows[i].time, v.period),
                           "covariate.period_unavailable")
           F == [i \in DOMAIN c.req.covariates |-> Part(c.req.covariates[i])]
<1>1. CovariateTableCodes(c) = FlattenSeq(F)
  BY DEF CovariateTableCodes, Each
<1>2. \A v : Telling(Part(v))
  BY TellingTold, TellingOne DEF Reserved, Foreign, NoReason
<1>3. \A i \in DOMAIN c.req.covariates : Telling(F[i])
  <2> HIDE DEF Part
  <2> QED BY <1>2
<1>4. F = [i \in DOMAIN c.req.covariates |-> F[i]]
  OBVIOUS
<1> HIDE DEF F
<1> QED BY <1>1, <1>3, <1>4, TellingEach

LEMMA TellingTimes == ASSUME NEW c PROVE Telling(TimeCodes(c))
<1>1. Telling(TreatmentTimeCodes(c))
  BY TellingTold, TellingNothing, TellingJoin DEF TreatmentTimeCodes, Reserved, Foreign, NoReason
<1> QED BY <1>1, TellingTold, TellingNothing, TellingJoin DEF TimeCodes, Reserved, Foreign, NoReason

LEMMA TellingSegment == ASSUME NEW c PROVE Telling(SegmentCodes(c))
  BY TellingTold, TellingOne, TellingNothing, TellingJoin DEF SegmentCodes, Reserved, Foreign, NoReason

LEMMA TellingDesign == ASSUME NEW c, IsList(c.req.covariates) PROVE Telling(DesignCodes(c))
  BY TellingUnitTable, TellingCovariateTable, TellingTimes, TellingSegment, TellingNothing,
     TellingJoin DEF DesignCodes

(***************************************************************************)
(* The eligibility of a request.                                           *)
(***************************************************************************)
WellFormed(c) == RequestOK(c.req) /\ BindingOK(c.bind)

DesignPart(c) ==
  IF SchemaCodes(c) # <<>> THEN <<"schema.dependent_rules_unavailable">> ELSE DesignCodes(c)

LEMMA EligibilityParts ==
  ASSUME NEW c, WellFormed(c), NEW implemented
  PROVE  /\ Telling(RequestCodes(c.req, c.bind)) /\ Telling(DesignPart(c))
         /\ IsList(DataCodes(c)) /\ SetOf(DataCodes(c)) \cap Foreign = {}
         /\ IsList(EligibilityCodes(c, implemented))
         /\ SetOf(EligibilityCodes(c, implemented))
              = UNION {SetOf(RequestCodes(c.req, c.bind)), SetOf(CapabilityCodes(c.req, implemented)),
                       SetOf(DataCodes(c)), SetOf(DesignPart(c))}
<1>1. /\ Telling(RequestCodes(c.req, c.bind))
      /\ IsList(DataCodes(c)) /\ SetOf(DataCodes(c)) \cap Foreign = {}
  BY TellingRequest, TellingData DEF WellFormed
<1>2. Telling(DesignPart(c))
  <2>1. IsList(c.req.covariates)
    BY DEF WellFormed, RequestOK
  <2>2. Telling(DesignCodes(c)) /\ Telling(<<"schema.dependent_rules_unavailable">>)
    BY <2>1, TellingDesign, TellingOne DEF Reserved, Foreign, NoReason
  <2> QED BY <2>2 DEF DesignPart
<1>3. IsList(CapabilityCodes(c.req, implemented))
  BY Single, Nothing DEF CapabilityCodes, Told
<1>4. EligibilityCodes(c, implemented)
        = RequestCodes(c.req, c.bind) \o CapabilityCodes(c.req, implemented) \o DataCodes(c)
          \o DesignPart(c)
  BY DEF EligibilityCodes, DesignPart
<1> QED BY <1>1, <1>2, <1>3, <1>4, JoinFour DEF Telling

LEMMA EligibilityTells ==
  ASSUME NEW c, WellFormed(c), NEW implemented
  PROVE  LET codes == EligibilityCodes(c, implemented)
         IN  /\ IsList(codes) /\ NoReason \notin SetOf(codes)
             /\ "method.implementation_unavailable" \in SetOf(codes)
                  <=> <<c.req.design, c.req.method>> \notin implemented
<1> DEFINE capability == CapabilityCodes(c.req, implemented)
<1>1. /\ <<c.req.design, c.req.method>> \in implemented => SetOf(capability) = {}
      /\ <<c.req.design, c.req.method>> \notin implemented
           => SetOf(capability) = {"method.implementation_unavailable"}
  BY Single, Nothing DEF CapabilityCodes, Told
<1> HIDE DEF capability
<1> QED BY <1>1, EligibilityParts DEF capability, Telling, Reserved, Foreign, NoReason

\* The place of the first code of a kind.
LEMMA FirstOfKind ==
  ASSUME NEW codes, IsList(codes), NEW kind, SetOf(codes) \cap kind # {}
  PROVE  LET I == {i \in 1..Len(codes) : codes[i] \in kind}
         IN  I # {} /\ codes[Min(I)] \in SetOf(codes) \cap kind
<1> DEFINE I == {i \in 1..Len(codes) : codes[i] \in kind}
<1>1. DOMAIN codes = 1..Len(codes) /\ Len(codes) \in Nat
  BY DEF IsList
<1>2. I # {} /\ I \subseteq Nat
  BY <1>1 DEF SetOf
<1>3. Min(I) \in I
  <2> HIDE DEF I
  <2> QED BY <1>2, MinIsLeast
<1> QED BY <1>1, <1>2, <1>3 DEF SetOf

\* Whatever is asked about, the result of an eligibility keeps its contract:
\* the reason for an abstention is one of its codes.
THEOREM EligibilityIsCoherent ==
  ASSUME NEW c, WellFormed(c), NEW implemented
  PROVE  /\ EligibilityContract(Eligibility(c, implemented))
         /\ LET e == Eligibility(c, implemented)
            IN  e.status \notin EligibleStatuses => e.primary \in e.codes
<1> DEFINE codes == EligibilityCodes(c, implemented)
           available == <<c.req.design, c.req.method>> \in implemented
           e == Judged(codes, available)
           blocking == {code \in SetOf(codes) : Blocks(code)}
<1>1. /\ IsList(codes) /\ NoReason \notin SetOf(codes)
      /\ "method.implementation_unavailable" \in SetOf(codes) <=> ~available
  BY EligibilityTells
<1>2. Eligibility(c, implemented) = e
  BY DEF Eligibility
<1> HIDE DEF codes
<1>3. /\ e.status = Aggregate(SetOf(codes)) /\ e.codes = SetOf(codes)
      /\ e.executable = (available /\ DataEligible(SetOf(codes))) /\ e.available = available
      /\ e.primary = Primary(e.status, codes)
  BY DEF Judged
<1>4. CASE e.status = "ineligible"
  <2>1. blocking # {} /\ SetOf(codes) \cap blocking # {}
    BY <1>3, <1>4 DEF Aggregate
  <2> DEFINE I == {i \in 1..Len(codes) : Blocks(codes[i])}
             J == {i \in 1..Len(codes) : codes[i] \in blocking}
  <2>2. I = J
    <3>1. \A i \in 1..Len(codes) : codes[i] \in SetOf(codes)
      BY <1>1 DEF IsList, SetOf
    <3> QED BY <3>1
  <2>3. J # {} /\ codes[Min(J)] \in SetOf(codes) \cap blocking
    <3> HIDE DEF blocking
    <3> QED BY <1>1, <2>1, FirstOfKind
  <2>4. Primary("ineligible", codes) = codes[IF I # {} THEN Min(I) ELSE 0]
    BY DEF Primary, SelectInSeq
  <2>5. e.primary \in SetOf(codes)
    <3> HIDE DEF I, J
    <3> QED BY <1>3, <1>4, <2>2, <2>3, <2>4
  <2> QED BY <1>1, <1>2, <1>3, <1>4, <2>1, <2>5
      DEF EligibilityContract, EligibleStatuses, DataEligible
<1>5. CASE e.status = "needs_more_data"
  <2>1. SetOf(codes) \cap NeedsMoreData # {}
    BY <1>3, <1>5 DEF Aggregate
  <2> DEFINE I == {i \in 1..Len(codes) : codes[i] \in NeedsMoreData}
  <2>2. I # {} /\ codes[Min(I)] \in SetOf(codes) \cap NeedsMoreData
    BY <1>1, <2>1, FirstOfKind
  <2>3. Primary("needs_more_data", codes) = codes[IF I # {} THEN Min(I) ELSE 0]
    BY DEF Primary, SelectInSeq
  <2>4. e.primary \in SetOf(codes)
    <3> HIDE DEF I
    <3> QED BY <1>3, <1>5, <2>2, <2>3
  <2>5. "method.implementation_unavailable" \notin NeedsMoreData
    BY DEF NeedsMoreData
  <2> QED BY <1>1, <1>2, <1>3, <1>5, <2>1, <2>4, <2>5
      DEF EligibilityContract, EligibleStatuses, DataEligible
<1>6. CASE e.status \in EligibleStatuses
  <2>1. e.primary = NoReason
    BY <1>3, <1>6 DEF EligibleStatuses, Primary
  <2> QED BY <1>1, <1>2, <1>3, <1>6, <2>1 DEF EligibilityContract, EligibleStatuses, DataEligible
<1>7. e.status \in {"ineligible", "needs_more_data"} \cup EligibleStatuses
  BY <1>3 DEF Aggregate, EligibleStatuses
<1> QED BY <1>4, <1>5, <1>6, <1>7

(***************************************************************************)
(* What is true of a request and its table when nothing blocks.  A         *)
(* constant outcome is not counted: the Bayesian service accepts one.      *)
(***************************************************************************)
Unblocked(c, implemented) ==
  \A code \in SetOf(EligibilityCodes(c, implemented)) :
    Blocks(code) => code \in CompatibleBlockers

LEMMA IsTold == ASSUME NEW p, NEW x, p PROVE x \in SetOf(Told(p, x))
  BY Single DEF Told

\* The codes of a table that can be indexed and has rows.
LEMMA ExaminedParts ==
  ASSUME NEW c, WellFormed(c), NEW implemented, SchemaCodes(c) = <<>>, Population(c) # {}
  PROVE  SetOf(EligibilityCodes(c, implemented))
           = UNION {SetOf(RequestCodes(c.req, c.bind)),
                    SetOf(CapabilityCodes(c.req, implemented)),
                    SetOf(CovariateBindingCodes(c)), SetOf(AssignmentCodes(c)),
                    SetOf(OutcomeCodes(c)), SetOf(PreMetricsCodes(c)),
                    SetOf(SampleCodes(c)), SetOf(AllocationCodes(c)),
                    SetOf(UnitTableCodes(c)), SetOf(CovariateTableCodes(c)),
                    SetOf(TimeCodes(c)), SetOf(SegmentCodes(c))}
<1> DEFINE codes == SetOf(EligibilityCodes(c, implemented))
<1>1. codes = UNION {SetOf(RequestCodes(c.req, c.bind)), SetOf(CapabilityCodes(c.req, implemented)),
                     SetOf(DataCodes(c)), SetOf(DesignPart(c))}
  BY EligibilityParts
<1> HIDE DEF codes
<1>2. SetOf(DataCodes(c))
        = UNION {SetOf(CovariateBindingCodes(c)), SetOf(AssignmentCodes(c)), SetOf(OutcomeCodes(c)),
                 SetOf(PreMetricsCodes(c)), SetOf(SampleCodes(c)), SetOf(AllocationCodes(c))}
  <2>1. DataCodes(c) = CovariateBindingCodes(c) \o AssignmentCodes(c) \o OutcomeCodes(c)
                       \o PreMetricsCodes(c) \o SampleCodes(c) \o AllocationCodes(c)
    BY DEF DataCodes
  <2>2. /\ Telling(CovariateBindingCodes(c)) /\ Telling(AssignmentCodes(c))
        /\ IsList(OutcomeCodes(c)) /\ Telling(PreMetricsCodes(c))
        /\ Telling(SampleCodes(c)) /\ Telling(AllocationCodes(c))
    BY TellingSample, TellingOutcome, TellingPreMetrics DEF WellFormed
  <2> QED BY <2>1, <2>2, JoinSix DEF Telling
<1>3. SetOf(DesignPart(c))
        = UNION {SetOf(UnitTableCodes(c)), SetOf(CovariateTableCodes(c)),
                 SetOf(TimeCodes(c)), SetOf(SegmentCodes(c))}
  <2>1. DesignPart(c) = UnitTableCodes(c) \o CovariateTableCodes(c) \o TimeCodes(c) \o SegmentCodes(c)
    BY DEF DesignPart, DesignCodes
  <2>2. IsList(c.req.covariates)
    BY DEF WellFormed, RequestOK
  <2>3. /\ Telling(UnitTableCodes(c)) /\ Telling(CovariateTableCodes(c))
        /\ Telling(TimeCodes(c)) /\ Telling(SegmentCodes(c))
    BY <2>2, TellingUnitTable, TellingCovariateTable, TellingTimes, TellingSegment
  <2> QED BY <2>1, <2>3, JoinFour DEF Telling
<1> QED BY <1>1, <1>2, <1>3 DEF codes

\* The rules that return early have not.
LEMMA TableIsExamined ==
  ASSUME NEW c, WellFormed(c), NEW implemented, Unblocked(c, implemented)
  PROVE  LET codes == SetOf(EligibilityCodes(c, implemented))
         IN  /\ SchemaCodes(c) = <<>> /\ Population(c) # {}
             /\ SetOf(RequestCodes(c.req, c.bind)) \subseteq codes
             /\ SetOf(AssignmentCodes(c)) \subseteq codes /\ SetOf(SampleCodes(c)) \subseteq codes
             /\ SetOf(OutcomeCodes(c)) \subseteq codes
             /\ SetOf(UnitTableCodes(c)) \subseteq codes /\ SetOf(TimeCodes(c)) \subseteq codes
             /\ SetOf(EligibilityCodes(c, implemented))
                  = UNION {SetOf(RequestCodes(c.req, c.bind)),
                           SetOf(CapabilityCodes(c.req, implemented)),
                           SetOf(CovariateBindingCodes(c)), SetOf(AssignmentCodes(c)),
                           SetOf(OutcomeCodes(c)), SetOf(PreMetricsCodes(c)),
                           SetOf(SampleCodes(c)), SetOf(AllocationCodes(c)),
                           SetOf(UnitTableCodes(c)), SetOf(CovariateTableCodes(c)),
                           SetOf(TimeCodes(c)), SetOf(SegmentCodes(c))}
<1> DEFINE codes == SetOf(EligibilityCodes(c, implemented))
<1>1. SetOf(DataCodes(c)) \subseteq codes
  BY EligibilityParts
<1> HIDE DEF codes
<1>2. \A code \in codes : Blocks(code) => code = "outcome.zero_variance"
  BY DEF Unblocked, CompatibleBlockers, codes
<1>3. /\ Blocks("schema.duplicate_column") /\ Blocks("schema.empty_dataset")
      /\ Blocks("schema.required_column_missing") /\ Blocks("population.empty")
  BY DEF Blocks, NeedsMoreData, Warnings, Informational
<1>4. SchemaCodes(c) = <<>>
  <2> SUFFICES ASSUME SchemaCodes(c) # <<>> PROVE FALSE
    OBVIOUS
  <2>1. SetOf(SchemaCodes(c)) \subseteq codes
    BY <1>1 DEF DataCodes
  <2>2. \/ "schema.duplicate_column" \in SetOf(SchemaCodes(c))
        \/ "schema.empty_dataset" \in SetOf(SchemaCodes(c))
        \/ "schema.required_column_missing" \in SetOf(SchemaCodes(c))
    <3>1. Telling(CovariateBindingCodes(c))
      BY TellingSample
    <3> QED BY <3>1, Single, Join DEF SchemaCodes, Telling
  <2> QED BY <1>2, <1>3, <2>1, <2>2
<1>5. Population(c) # {}
  <2> SUFFICES ASSUME Population(c) = {} PROVE FALSE
    OBVIOUS
  <2>1. "population.empty" \in SetOf(DataCodes(c))
    BY <1>4, Single DEF DataCodes
  <2> QED BY <1>1, <1>2, <1>3, <2>1
<1> QED BY <1>4, <1>5, ExaminedParts DEF codes

LEMMA ListTold == ASSUME NEW p, NEW x PROVE IsList(Told(p, x))
  BY Single, Nothing DEF Told

LEMMA RequestParts ==
  ASSUME NEW q, NEW b, RequestOK(q), BindingOK(b)
  PROVE  /\ SetOf(BindingCodes(q, b)) \subseteq SetOf(RequestCodes(q, b))
         /\ SetOf(CovariateCodes(q)) \subseteq SetOf(RequestCodes(q, b))
         /\ SetOf(RequestCodes(q, b))
              = UNION {SetOf(MetricEstimandCodes(q)), SetOf(CateCodes(q)), SetOf(MethodCodes(q, b)),
                       SetOf(BindingCodes(q, b)), SetOf(DuplicateCodes(q)), SetOf(RoleCodes(q, b)),
                       SetOf(CovariateCodes(q)), SetOf(UnitCodes(q, b))}
<1>1. IsList(q.covariates)
  BY DEF RequestOK
<1>2. /\ Telling(MetricEstimandCodes(q)) /\ Telling(CateCodes(q)) /\ Telling(MethodCodes(q, b))
      /\ Telling(BindingCodes(q, b)) /\ Telling(DuplicateCodes(q)) /\ Telling(RoleCodes(q, b))
      /\ Telling(CovariateCodes(q)) /\ Telling(UnitCodes(q, b))
  BY <1>1, TellingMethod, TellingCovariates, TellingDeclarations, TellingUnits, TellingBinding
<1> QED BY <1>2, JoinEight DEF Telling, RequestCodes

\* The outcome has the shape of its type, and no covariate is bound that the
\* request does not declare.
LEMMA BindingFits ==
  ASSUME NEW q, NEW b, RequestOK(q), BindingOK(b),
         \A code \in SetOf(BindingCodes(q, b)) : Blocks(code) => code \in CompatibleBlockers
  PROVE  /\ ~Misshapen(q.outcome, b.outcome.columns)
         /\ BoundMetrics(b.covariates) \subseteq BoundMetrics(q.covariates)
<1> DEFINE shape == ShapeCodes(q.outcome, b.outcome.columns)
           undeclared == Told(~(BoundMetrics(b.covariates) \subseteq BoundMetrics(q.covariates)),
                              "request.metric_binding_undeclared")
           F == [i \in DOMAIN q.preMetrics |-> PreMetricCodes(q.preMetrics[i], b.preMetrics)]
           s3 == Told(Duplicated(Metrics(b.preMetrics)), "request.metric_binding_duplicate")
           s4 == FlattenSeq(F)
           s5 == Told(~(BoundMetrics(b.preMetrics) \subseteq BoundMetrics(q.preMetrics)),
                      "request.metric_binding_undeclared")
           s6 == Told(BoundMetrics(b.covariates) \cap BoundMetrics(b.preMetrics) # {},
                      "request.metric_binding_conflict")
           s7 == ColumnCodes(b)
           s8 == Told(/\ q.segment # None
                      /\ \E i \in DOMAIN q.covariates, j \in DOMAIN b.covariates :
                           /\ q.covariates[i].metric = b.covariates[j].metric
                           /\ q.covariates[i].role \in AdjustmentRoles
                           /\ b.covariates[j].column = q.segment.attribute,
                      "request.segment_covariate_binding_conflict")
<1>1. BindingCodes(q, b) = shape \o undeclared \o s3 \o s4 \o s5 \o s6 \o s7 \o s8
  BY DEF BindingCodes, Each
<1>2. IsList(shape) /\ IsList(undeclared) /\ IsList(s3) /\ IsList(s5) /\ IsList(s6) /\ IsList(s8)
  BY ListTold DEF ShapeCodes
<1>3. IsList(s7)
  BY TellingColumns DEF BindingOK, Telling
<1>4. IsList(s4)
  <2>1. \A pre : Telling(PreMetricCodes(pre, b.preMetrics))
    BY TellingTold, TellingOne DEF PreMetricCodes, Reserved, Foreign, NoReason
  <2>2. IsList(q.preMetrics) /\ \A i \in DOMAIN q.preMetrics : Telling(F[i])
    BY <2>1 DEF RequestOK
  <2>3. F = [i \in DOMAIN q.preMetrics |-> F[i]]
    OBVIOUS
  <2> HIDE DEF F
  <2>4. Telling(FlattenSeq(F))
    BY <2>2, <2>3, TellingEach
  <2> QED BY <2>4 DEF Telling
<1> HIDE DEF F, shape, undeclared, s3, s4, s5, s6, s7, s8
<1>5. SetOf(shape) \cup SetOf(undeclared) \subseteq SetOf(BindingCodes(q, b))
  <2>1. SetOf(BindingCodes(q, b))
          = UNION {SetOf(shape), SetOf(undeclared), SetOf(s3), SetOf(s4), SetOf(s5), SetOf(s6),
                   SetOf(s7), SetOf(s8)}
    BY <1>1, <1>2, <1>3, <1>4, JoinEight
  <2> QED BY <2>1
<1>6. /\ Blocks("request.metric_binding_shape_incompatible")
      /\ "request.metric_binding_shape_incompatible" \notin CompatibleBlockers
      /\ Blocks("request.metric_binding_undeclared")
      /\ "request.metric_binding_undeclared" \notin CompatibleBlockers
  BY DEF Blocks, NeedsMoreData, Warnings, Informational, CompatibleBlockers
<1>7. ~Misshapen(q.outcome, b.outcome.columns)
  BY <1>5, <1>6, IsTold DEF shape, ShapeCodes
<1>8. BoundMetrics(b.covariates) \subseteq BoundMetrics(q.covariates)
  BY <1>5, <1>6, IsTold DEF undeclared
<1> QED BY <1>7, <1>8

\* What is measured after the treatment does not count as measured before it.
LEMMA CovariatesPrecede ==
  ASSUME NEW q, RequestOK(q), q.design # "observational",
         \A code \in SetOf(CovariateCodes(q)) : Blocks(code) => code \in CompatibleBlockers,
         NEW i \in DOMAIN q.covariates, q.covariates[i].timing = "pre_treatment"
  PROVE  q.covariates[i].period.end <= q.post.start
<1> DEFINE F == [k \in DOMAIN q.covariates |->
                   TimingCodes(q, q.covariates[k]) \o RelationshipCodes(q.covariates[k])]
<1>1. CovariateCodes(q) = FlattenSeq(F)
  BY DEF CovariateCodes, Each
<1>2. \A v : Telling(TimingCodes(q, v)) /\ Telling(RelationshipCodes(v))
  BY TellingTold, TellingOne, TellingJoin DEF TimingCodes, RelationshipCodes, Reserved, Foreign, NoReason
<1>3. \A k \in DOMAIN q.covariates : IsList(F[k])
  BY <1>2, Join DEF Telling
<1>4. IsList(q.covariates) /\ F = [k \in DOMAIN q.covariates |-> F[k]]
  BY DEF RequestOK
<1>5. SetOf(F[i]) \subseteq SetOf(CovariateCodes(q))
  <2> HIDE DEF F
  <2>1. IsList(F) /\ DOMAIN F = DOMAIN q.covariates
    BY <1>4, PartsOf
  <2> QED BY <1>1, <1>3, <2>1, Flatten
<1>6. SetOf(TimingCodes(q, q.covariates[i])) \subseteq SetOf(F[i])
  BY <1>2, Join DEF Telling
<1>7. /\ Blocks("covariate.measurement_after_treatment")
      /\ "covariate.measurement_after_treatment" \notin CompatibleBlockers
  BY DEF Blocks, NeedsMoreData, Warnings, Informational, CompatibleBlockers
<1>8. "covariate.measurement_after_treatment" \notin SetOf(TimingCodes(q, q.covariates[i]))
  BY <1>5, <1>6, <1>7
<1>9. ~(q.covariates[i].period.end > q.post.start)
  BY <1>8, IsTold DEF TimingCodes
<1>10. q.covariates[i].period.end \in Nat /\ q.post.start \in Nat
  BY DEF RequestOK, IsCovariate, IsPeriod
<1> QED BY <1>9, <1>10

(***************************************************************************)
(* Rows and units.                                                         *)
(***************************************************************************)
\* A table has finitely many rows, and whatever is selected of them is finite.
LEMMA RowsAreFinite ==
  ASSUME NEW c, IsList(c.rows)
  PROVE  IsFiniteSet(DOMAIN c.rows) /\ DOMAIN c.rows \subseteq Nat
<1>1. DOMAIN c.rows = 1..Len(c.rows) /\ Len(c.rows) \in Nat
  BY DEF IsList
<1> QED BY <1>1, FS_Interval

LEMMA AtMostOne ==
  ASSUME NEW S, IsFiniteSet(S), ~(Cardinality(S) > 1), NEW x \in S, NEW y \in S
  PROVE  x = y
<1> SUFFICES ASSUME x # y PROVE FALSE
  OBVIOUS
<1>1. IsFiniteSet({x, y}) /\ Cardinality({x, y}) = 2
  <2>1. IsFiniteSet({x}) /\ Cardinality({x}) = 1
    BY FS_Singleton
  <2> DEFINE T == {x}
  <2>2. IsFiniteSet(T \cup {y}) /\ Cardinality(T \cup {y}) = 2
    <3>1. IsFiniteSet(T) /\ Cardinality(T) = 1 /\ y \notin T
      BY <2>1
    <3> HIDE DEF T
    <3>2. Cardinality(T \cup {y}) = IF y \in T THEN Cardinality(T) ELSE Cardinality(T) + 1
      BY <3>1, FS_AddElement
    <3> QED BY <3>1, <3>2, FS_AddElement
  <2>3. {x, y} = {x} \cup {y}
    OBVIOUS
  <2> QED BY <2>2, <2>3
<1>2. Cardinality({x, y}) <= Cardinality(S) /\ Cardinality(S) \in Nat
  BY FS_Subset, FS_CardinalityType
<1> QED BY <1>1, <1>2

\* Every unit is known, has rows of its own unless the request says how they
\* cluster, and whatever was assigned is in one arm.
LEMMA UnitsAreSound ==
  ASSUME NEW c, IsList(c.rows),
         \A code \in SetOf(UnitTableCodes(c)) : Blocks(code) => code \in CompatibleBlockers
  PROVE  /\ ~Empty(c, c.bind.unit)
         /\ c.req.clustering = None => Repeated(c, c.bind.unit) = {}
         /\ \A v \in Values(c, c.bind.unit) : ~(Cardinality(ArmsOf(c, c.bind.unit, v)) > 1)
         /\ c.bind.assigned # None =>
              /\ ~Empty(c, c.bind.assigned)
              /\ \A v \in Values(c, c.bind.assigned) :
                   ~(Cardinality(ArmsOf(c, c.bind.assigned, v)) > 1)
<1> DEFINE unit == c.bind.unit
           column == c.bind.assigned
           again == Repeated(c, unit) # {}
           s1 == Told(Empty(c, unit), "unit.identifier_missing")
           s2 == Told(again /\ c.bind.time = None, "unit.duplicate_observation")
           s3 == Told(again /\ c.bind.time # None /\ c.req.clustering = None,
                      "unit.repeated_without_clustering")
           s4 == Told(\E v \in Values(c, unit) : Cardinality(ArmsOf(c, unit, v)) > 1,
                      "treatment.switching")
           s5 == RandomizationUnitCodes(c)
           t1 == Told(Empty(c, column), "unit.randomization_identifier_missing")
           t2 == Told(\E v \in Values(c, column) : Cardinality(ArmsOf(c, column, v)) > 1,
                      "treatment.unit_multiple_assignments")
           t3 == Told(\E v \in Values(c, unit) :
                        Cardinality({c.rows[i][column] : i \in RowsWith(c, unit, v)} \ {None}) > 1,
                      "unit.randomization_observation_mismatch")
<1>1. UnitTableCodes(c) = s1 \o s2 \o s3 \o s4 \o s5 \o ClusterCodes(c)
  BY DEF UnitTableCodes
<1>2. /\ IsList(s1) /\ IsList(s2) /\ IsList(s3) /\ IsList(s4)
      /\ IsList(t1) /\ IsList(t2) /\ IsList(t3)
  BY ListTold
<1>3. IsList(ClusterCodes(c)) /\ IsList(s5)
  BY ListTold, Nothing, Join DEF ClusterCodes, RandomizationUnitCodes
<1>4. column # None => s5 = t1 \o t2 \o t3
  BY DEF RandomizationUnitCodes
<1> HIDE DEF s1, s2, s3, s4, s5, t1, t2, t3
<1>5. SetOf(UnitTableCodes(c))
        = UNION {SetOf(s1), SetOf(s2), SetOf(s3), SetOf(s4), SetOf(s5), SetOf(ClusterCodes(c))}
  BY <1>1, <1>2, <1>3, JoinSix
<1>6. column # None => SetOf(s5) = UNION {SetOf(t1), SetOf(t2), SetOf(t3)}
  <2>1. SetOf(t1 \o t2 \o t3) = UNION {SetOf(t1), SetOf(t2), SetOf(t3)}
    BY <1>2, JoinThree
  <2> QED BY <1>4, <2>1
<1>7. \A code \in {"unit.identifier_missing", "unit.duplicate_observation",
                   "unit.repeated_without_clustering", "treatment.switching",
                   "unit.randomization_identifier_missing", "treatment.unit_multiple_assignments"} :
        code \notin SetOf(UnitTableCodes(c))
  BY DEF Blocks, NeedsMoreData, Warnings, Informational, CompatibleBlockers
<1>8. ~Empty(c, unit)
  BY <1>5, <1>7, IsTold DEF s1
<1>9. ~(again /\ c.bind.time = None)
  BY <1>5, <1>7, IsTold DEF s2
<1>10. ~(again /\ c.bind.time # None /\ c.req.clustering = None)
  BY <1>5, <1>7, IsTold DEF s3
<1>11. ~(\E v \in Values(c, unit) : Cardinality(ArmsOf(c, unit, v)) > 1)
  BY <1>5, <1>7, IsTold DEF s4
<1>12. column # None => ~Empty(c, column)
  BY <1>5, <1>6, <1>7, IsTold DEF t1
<1>13. column # None => ~(\E v \in Values(c, column) : Cardinality(ArmsOf(c, column, v)) > 1)
  BY <1>5, <1>6, <1>7, IsTold DEF t2
<1> QED BY <1>8, <1>9, <1>10, <1>11, <1>12, <1>13

\* Every unit was observed in the period, if it is known when.
LEMMA PeriodIsCovered ==
  ASSUME NEW c, c.bind.time # None, "time.period_coverage_missing" \notin SetOf(TimeCodes(c))
  PROVE  Covered(c, c.req.post)
<1> DEFINE t1 == Told(Empty(c, "time"), "time.timestamp_missing")
           t2 == Told(Text \in Values(c, "time"), "time.invalid_timestamp")
           t3 == Told(\/ c.req.pre # None /\ ~Covered(c, c.req.pre)
                      \/ ~Covered(c, c.req.post), "time.period_coverage_missing")
           first == t1 \o t2 \o t3
<1>1. TimeCodes(c) = first \o TreatmentTimeCodes(c)
  BY DEF TimeCodes
<1>2. IsList(t1) /\ IsList(t2) /\ IsList(t3)
  BY ListTold
<1>3. IsList(TreatmentTimeCodes(c))
  <2>1. Telling(TreatmentTimeCodes(c))
    BY TellingTold, TellingNothing, TellingJoin DEF TreatmentTimeCodes, Reserved, Foreign, NoReason
  <2> QED BY <2>1 DEF Telling
<1> HIDE DEF t1, t2, t3
<1>4. IsList(first) /\ SetOf(first) = UNION {SetOf(t1), SetOf(t2), SetOf(t3)}
  BY <1>2, JoinThree
<1> HIDE DEF first
<1>5. SetOf(TimeCodes(c)) = SetOf(first) \cup SetOf(TreatmentTimeCodes(c))
  BY <1>1, <1>3, <1>4, Join
<1>6. "time.period_coverage_missing" \notin SetOf(t3)
  BY <1>4, <1>5
<1> QED BY <1>6, IsTold DEF t3

(***************************************************************************)
(* How many rows there are.                                                *)
(***************************************************************************)
Size(c, arm) == Cardinality(ValidRowsOf(c, arm))

LEMMA SizesAdd ==
  ASSUME NEW c, IsList(c.rows)
  PROVE  /\ IsFiniteSet(ValidRows(c)) /\ \A arm : Size(c, arm) \in Nat
         /\ \A arm : IsFiniteSet(ValidRowsOf(c, arm))
         /\ Cardinality(ValidRows(c)) = Size(c, "treatment") + Size(c, "control")
<1>1. ValidRows(c) \subseteq DOMAIN c.rows
  BY DEF ValidRows, Declared, ArmRows, Population
<1>2. IsFiniteSet(ValidRows(c)) /\ \A arm : IsFiniteSet(ValidRowsOf(c, arm))
  BY <1>1, RowsAreFinite, FS_Subset DEF ValidRowsOf
<1>3. \A arm : Size(c, arm) \in Nat
  BY <1>2, FS_CardinalityType DEF Size
<1> DEFINE S == ValidRowsOf(c, "treatment")
           T == ValidRowsOf(c, "control")
<1>4. ValidRows(c) = S \cup T /\ S \cap T = {}
  BY DEF ValidRowsOf, ValidRows, Declared, Arms, ArmRows
<1>5. IsFiniteSet(S) /\ IsFiniteSet(T)
  BY <1>2
<1>6. Size(c, "treatment") = Cardinality(S) /\ Size(c, "control") = Cardinality(T)
  BY DEF Size
<1> HIDE DEF S, T
<1>7. Cardinality(S \cup T) = Cardinality(S) + Cardinality(T) - Cardinality(S \cap T)
  BY <1>5, FS_Union
<1>8. Cardinality(S \cap T) = 0
  BY <1>4, FS_EmptySet
<1>9. Cardinality(ValidRows(c)) = Size(c, "treatment") + Size(c, "control")
  BY <1>3, <1>4, <1>6, <1>7, <1>8
<1> QED BY <1>2, <1>3, <1>9

LEMMA MinOfTwo ==
  ASSUME NEW a \in Nat, NEW b \in Nat
  PROVE  Min({a, b}) \in {a, b} /\ Min({a, b}) <= a /\ Min({a, b}) <= b
  BY MinIsLeast

LEMMA ThresholdsAreNumbers ==
  ASSUME NEW c
  PROVE  /\ Threshold(c) \in [Thresholds -> Nat \ {0}]
         /\ c.req.method # "bayesian_ab" => Threshold(c) = Policy
         /\ c.req.method = "bayesian_ab" =>
              Threshold(c).minimumTotal = 2 /\ Threshold(c).minimumPerArm = 1
         /\ \A t \in Thresholds \ {"minimumTotal", "minimumPerArm"} : Threshold(c)[t] = Policy[t]
<1>1. Policy \in [Thresholds -> Nat \ {0}]
  BY PolicyAssumption
<1> DEFINE first == [Policy EXCEPT !.minimumTotal = 2]
           own == [first EXCEPT !.minimumPerArm = 1]
<1>2. /\ first \in [Thresholds -> Nat \ {0}] /\ first.minimumTotal = 2
      /\ \A t \in Thresholds \ {"minimumTotal"} : first[t] = Policy[t]
  <2>1. "minimumTotal" \in Thresholds
    BY DEF Thresholds
  <2> HIDE DEF Thresholds
  <2> QED BY <1>1, <2>1
<1>3. /\ own \in [Thresholds -> Nat \ {0}] /\ own.minimumTotal = 2 /\ own.minimumPerArm = 1
      /\ \A t \in Thresholds \ {"minimumTotal", "minimumPerArm"} : own[t] = Policy[t]
  <2>1. "minimumTotal" \in Thresholds /\ "minimumPerArm" \in Thresholds
    BY DEF Thresholds
  <2> HIDE DEF Thresholds, first
  <2> QED BY <1>2, <2>1
<1>4. Threshold(c) = IF c.req.method = "bayesian_ab" THEN own ELSE Policy
  BY DEF Threshold
<1> HIDE DEF own
<1> QED BY <1>1, <1>3, <1>4

\* What the sample rules say of the sizes of the arms.
LEMMA SizesAreTold ==
  ASSUME NEW c, IsList(c.rows)
  PROVE  LET total == Size(c, "treatment") + Size(c, "control")
             t == Threshold(c)
         IN  /\ SetOf(SampleCodes(c)) \subseteq
                  {"sample.total_insufficient", "sample.total_weak",
                   "sample.arm_insufficient", "sample.arm_weak"}
             /\ "sample.total_insufficient" \in SetOf(SampleCodes(c)) <=> total < t.minimumTotal
             /\ "sample.arm_insufficient" \in SetOf(SampleCodes(c))
                  <=> \E arm \in Arms : Size(c, arm) < t.minimumPerArm
<1> DEFINE total == Size(c, "treatment") + Size(c, "control")
           weakest == Min({Size(c, "treatment"), Size(c, "control")})
           t == Threshold(c)
           s1 == Told(total < t.minimumTotal, "sample.total_insufficient")
           s2 == Told(total >= t.minimumTotal /\ total < t.weakTotal, "sample.total_weak")
           s3 == Told(weakest < t.minimumPerArm, "sample.arm_insufficient")
           s4 == Told(weakest >= t.minimumPerArm /\ weakest < t.weakPerArm, "sample.arm_weak")
<1>1. SampleCodes(c) = s1 \o s2 \o s3 \o s4
  BY DEF SampleCodes, SizeCodes, Size
<1>2. /\ IsList(s1) /\ IsList(s2) /\ IsList(s3) /\ IsList(s4)
  BY ListTold
<1>3. /\ Size(c, "treatment") \in Nat /\ Size(c, "control") \in Nat
      /\ t.minimumPerArm \in Nat
  BY SizesAdd, ThresholdsAreNumbers DEF Thresholds
<1>4. /\ weakest \in {Size(c, "treatment"), Size(c, "control")}
      /\ weakest <= Size(c, "treatment") /\ weakest <= Size(c, "control")
  BY <1>3, MinOfTwo
<1> HIDE DEF weakest
<1>5. weakest < t.minimumPerArm <=> \E arm \in Arms : Size(c, arm) < t.minimumPerArm
  <2> HIDE DEF t
  <2> QED BY <1>3, <1>4 DEF Arms
<1> HIDE DEF t, total
<1>6. /\ SetOf(s1) = IF total < t.minimumTotal THEN {"sample.total_insufficient"} ELSE {}
      /\ SetOf(s2) \subseteq {"sample.total_weak"}
      /\ SetOf(s3) = IF weakest < t.minimumPerArm THEN {"sample.arm_insufficient"} ELSE {}
      /\ SetOf(s4) \subseteq {"sample.arm_weak"}
  BY Single, Nothing DEF Told
<1> HIDE DEF s1, s2, s3, s4
<1>7. SetOf(SampleCodes(c)) = UNION {SetOf(s1), SetOf(s2), SetOf(s3), SetOf(s4)}
  BY <1>1, <1>2, JoinFour
<1> QED BY <1>5, <1>6, <1>7 DEF t, total

-----------------------------------------------------------------------------
\* What is eligible is told nothing of that is worse than a warning.
LEMMA EligibleIsUnblocked ==
  ASSUME NEW c, WellFormed(c), NEW implemented,
         Eligibility(c, implemented).status \in EligibleStatuses
  PROVE  /\ Unblocked(c, implemented)
         /\ SetOf(EligibilityCodes(c, implemented)) \cap NeedsMoreData = {}
         /\ \A code \in SetOf(EligibilityCodes(c, implemented)) : ~Blocks(code)
<1>1. Eligibility(c, implemented).status = Aggregate(SetOf(EligibilityCodes(c, implemented)))
  BY DEF Eligibility, Judged
<1> QED BY <1>1 DEF Aggregate, EligibleStatuses, Unblocked

\* Only the rule about outcomes says that they do not vary.
LEMMA ZeroVariance ==
  ASSUME NEW c, WellFormed(c), NEW implemented, Unblocked(c, implemented),
         "outcome.zero_variance" \in SetOf(EligibilityCodes(c, implemented))
  PROVE  Constantly(c)
<1> DEFINE v == "outcome.zero_variance"
<1>1. /\ v \notin SetOf(RequestCodes(c.req, c.bind)) /\ v \notin SetOf(CovariateBindingCodes(c))
      /\ v \notin SetOf(AssignmentCodes(c)) /\ v \notin SetOf(PreMetricsCodes(c))
      /\ v \notin SetOf(SampleCodes(c)) /\ v \notin SetOf(AllocationCodes(c))
      /\ v \notin SetOf(UnitTableCodes(c)) /\ v \notin SetOf(CovariateTableCodes(c))
      /\ v \notin SetOf(TimeCodes(c)) /\ v \notin SetOf(SegmentCodes(c))
  <2>1. IsList(c.req.covariates) /\ BindingOK(c.bind) /\ RequestOK(c.req)
    BY DEF WellFormed, RequestOK
  <2> QED BY <2>1, TellingRequest, TellingSample, TellingPreMetrics, TellingUnitTable,
             TellingCovariateTable, TellingTimes, TellingSegment DEF Telling, Reserved
<1>2. v \notin SetOf(CapabilityCodes(c.req, implemented))
  BY Single, Nothing DEF CapabilityCodes, Told
<1>3. v \in SetOf(OutcomeCodes(c))
  BY <1>1, <1>2, TableIsExamined
<1> QED BY <1>3, TellingOutcome

(***************************************************************************)
(* What the rows of an estimate are like.                                  *)
(***************************************************************************)
SoundCase(c) == WellFormed(c) /\ TableOK(c) /\ c.req.method \in RandomizedMethods

LEMMA Randomized == ASSUME NEW c, SoundCase(c) PROVE c.req.design = "randomized"
  BY DEF SoundCase, WellFormed, RequestOK, MethodsOf, RandomizedMethods

\* A metric that is no ratio is read in one column.
LEMMA OneColumn ==
  ASSUME NEW c, SoundCase(c), c.req.outcome # "ratio",
         ~Misshapen(c.req.outcome, c.bind.outcome.columns)
  PROVE  c.bind.outcome.columns = <<"outcome">>
<1>1. Len(<<"outcome", "denominator">>) = 2
  OBVIOUS
<1> QED BY <1>1 DEF SoundCase, WellFormed, BindingOK, Misshapen

LEMMA ValidCells ==
  ASSUME NEW c, TableOK(c), c.bind.outcome.columns = <<"outcome">>, NEW i \in ValidRows(c)
  PROVE  /\ i \in Population(c) /\ i \in DOMAIN c.rows /\ c.rows[i].arm \in Arms
         /\ c.rows[i].outcome \in Int
         /\ c.req.outcome = "binary" => c.rows[i].outcome \in {0, 1}
<1>1. /\ i \in Population(c) /\ i \in DOMAIN c.rows /\ c.rows[i].arm \in Arms
      /\ OutcomeReading(c, i) = "valid"
  BY DEF ValidRows, Declared, ArmRows, Population
<1> DEFINE cell == c.rows[i].outcome
           cells == [k \in DOMAIN <<"outcome">> |-> c.rows[i][<<"outcome">>[k]]]
<1>2. cells = <<cell>>
  OBVIOUS
<1>3. SetOf(cells) = {cell} /\ cells[1] = cell /\ Len(cells) = 1
  BY <1>2, Single
<1>4. OutcomeReading(c, i)
        = LET n == cells[1]
              d == IF Len(cells) = 2 THEN cells[2] ELSE 1
          IN  IF None \in SetOf(cells) THEN "missing"
              ELSE IF Text \in SetOf(cells) THEN "not_numeric"
              ELSE IF Infinite \in SetOf(cells) THEN "non_finite"
              ELSE IF d = 0 THEN "denominator_zero"
              ELSE IF d < 0 THEN "denominator_invalid_sign"
              ELSE IF c.req.outcome = "binary" /\ n \notin {0, d} THEN "invalid_binary"
              ELSE IF (c.req.outcome = "count" \/ ~c.bind.outcome.allowNegative) /\ n < 0
                   THEN "negative"
              ELSE IF OutsideBounds(n, d, c.req.outcome, c.bind.outcome) THEN "out_of_bounds"
              ELSE "valid"
  BY DEF OutcomeReading, Reading
<1> HIDE DEF cells
<1>5. cell \notin {None, Text, Infinite} /\ (c.req.outcome = "binary" => cell \in {0, 1})
  BY <1>1, <1>3, <1>4
<1>6. "outcome" \in NumberColumns(c.bind)
  BY Single DEF NumberColumns
<1>7. cell \in Int \cup {None, Text, Infinite}
  BY <1>1, <1>6 DEF TableOK, Numeric
<1> QED BY <1>1, <1>5, <1>7

LEMMA UnitsDiffer ==
  ASSUME NEW c, SoundCase(c), NEW implemented, Unblocked(c, implemented),
         c.req.clustering = None, NEW i \in Population(c)
  PROVE  /\ c.rows[i][c.bind.unit] # None
         /\ \A j \in Population(c) : c.rows[j][c.bind.unit] = c.rows[i][c.bind.unit] => j = i
<1> DEFINE unit == c.bind.unit
<1>1. IsList(c.rows)
  BY DEF SoundCase, TableOK
<1>2. ~Empty(c, unit) /\ Repeated(c, unit) = {}
  BY <1>1, TableIsExamined, UnitsAreSound DEF SoundCase, Unblocked
<1> DEFINE v == c.rows[i][unit]
           same == RowsWith(c, unit, v)
<1>3. v # None /\ v \in Values(c, unit)
  BY <1>2 DEF Empty, Values
<1>4. ~(Cardinality(same) > 1)
  BY <1>2, <1>3 DEF Repeated
<1>5. IsFiniteSet(same) /\ i \in same
  <2>1. same \subseteq DOMAIN c.rows /\ i \in same
    BY DEF RowsWith, Population
  <2> HIDE DEF same
  <2> QED BY <1>1, <2>1, RowsAreFinite, FS_Subset
<1>6. ASSUME NEW j \in Population(c), c.rows[j][unit] = v PROVE j = i
  <2>1. j \in same
    BY <1>6 DEF RowsWith
  <2> HIDE DEF same
  <2> QED BY <1>4, <1>5, <2>1, AtMostOne
<1> QED BY <1>3, <1>6

LEMMA OneArm ==
  ASSUME NEW c, SoundCase(c), NEW implemented, Unblocked(c, implemented),
         NEW column \in {c.bind.unit, c.bind.assigned} \ {None},
         NEW i \in Population(c), NEW j \in Population(c),
         c.rows[i].arm \in Arms, c.rows[j].arm \in Arms, c.rows[i][column] = c.rows[j][column]
  PROVE  c.rows[i].arm = c.rows[j].arm
<1>1. IsList(c.rows)
  BY DEF SoundCase, TableOK
<1>2. ~Empty(c, column) /\ \A v \in Values(c, column) : ~(Cardinality(ArmsOf(c, column, v)) > 1)
  BY <1>1, TableIsExamined, UnitsAreSound DEF SoundCase, Unblocked
<1> DEFINE v == c.rows[i][column]
           arms == ArmsOf(c, column, v)
<1>3. v \in Values(c, column)
  BY <1>2 DEF Empty, Values
<1>4. ~(Cardinality(arms) > 1)
  BY <1>2, <1>3
<1>5. c.rows[i].arm \in arms /\ c.rows[j].arm \in arms /\ arms \subseteq Arms
  BY DEF ArmsOf, RowsWith
<1>6. IsFiniteSet(Arms)
  <2> DEFINE t == {"treatment"}
             one == {"control"}
  <2>1. IsFiniteSet(one) /\ IsFiniteSet(t)
    BY FS_Singleton
  <2>2. Arms = t \cup one
    BY DEF Arms
  <2> HIDE DEF one, t
  <2> QED BY <2>1, <2>2, FS_Union
<1>7. IsFiniteSet(arms)
  <2> HIDE DEF arms
  <2> QED BY <1>5, <1>6, FS_Subset
<1> HIDE DEF arms
<1> QED BY <1>4, <1>5, <1>7, AtMostOne

\* A unit that has one row has it in the period.
LEMMA ObservedInTime ==
  ASSUME NEW c, SoundCase(c), NEW implemented, Unblocked(c, implemented),
         "time.period_coverage_missing" \notin SetOf(EligibilityCodes(c, implemented)),
         c.bind.time # None, c.req.clustering = None, NEW i \in Population(c)
  PROVE  c.rows[i].time \in Int /\ InPeriod(c.rows[i].time, c.req.post)
<1>1. "time.period_coverage_missing" \notin SetOf(TimeCodes(c))
  BY TableIsExamined DEF SoundCase
<1>2. Covered(c, c.req.post)
  BY <1>1, PeriodIsCovered
<1>3. /\ c.rows[i][c.bind.unit] # None
      /\ \A j \in Population(c) : c.rows[j][c.bind.unit] = c.rows[i][c.bind.unit] => j = i
  BY UnitsDiffer
<1>4. InPeriod(c.rows[i].time, c.req.post)
  BY <1>2, <1>3 DEF Covered, Values, RowsWith
<1>5. c.rows[i].time \in Int \cup {None, Text}
  BY DEF SoundCase, TableOK, Population
<1> QED BY <1>4, <1>5 DEF InPeriod, Instant

(***************************************************************************)
(* What the services have made sure of when there is an estimate.          *)
(***************************************************************************)
LEMMA WithheldHasNone ==
  \A status, reason : /\ Withheld(status, reason).estimates = {}
                      /\ Withheld(status, reason).rows = {}
                      /\ Withheld(status, reason).status = status
                      /\ Withheld(status, reason).reason = reason
  BY DEF Withheld

LEMMA TestedHas ==
  ASSUME NEW rows, NEW n \in Tested(rows)
  PROVE  /\ n.estimates = {"effect"} /\ n.rows = rows /\ n.status = "completed"
         /\ n.reason = NoReason /\ n.conclusion \in Verdict
  BY DEF Tested, Estimated

LEMMA WelchAccepts ==
  ASSUME NEW treatment, NEW control, NEW V, NEW n \in Welch(treatment, control, V)
  PROVE  \/ /\ n \in Tested(treatment \cup control)
            /\ ~(Cardinality(treatment) < 2) /\ ~(Cardinality(control) < 2)
         \/ \E reason \in {"one_observation_arm", "insufficient_observations",
                           "zero_standard_error", "continuous_computation_error",
                           "nonfinite_relative_effect"} : n = Withheld("abstained", reason)
  BY DEF Welch

LEMMA ProportionsAccept ==
  ASSUME NEW treatment, NEW control, NEW V, NEW floats,
         NEW n \in TwoProportions(treatment, control, V, floats)
  PROVE  \/ /\ n \in Tested(treatment \cup control)
            /\ ~(Cardinality(treatment) < 2) /\ ~(Cardinality(control) < 2)
         \/ \E reason \in {"minimum_observations_not_met", "invalid_binary_outcome",
                           "zero_standard_error", "sparse_cell"} :
              n = Withheld("abstained", reason)
  BY DEF TwoProportions

\* The request a fixed-horizon test is made for.
Testable(c) ==
  /\ c.req.uncertainty = "confidence" /\ c.req.alternative = "two_sided"
  /\ UnsupportedReason(c.req, c.bind) = NoReason
  /\ Complete(c)

LEMMA TestableShape ==
  ASSUME NEW c, SoundCase(c), Testable(c)
  PROVE  c.req.outcome \in {"continuous", "binary"} /\ c.bind.outcome.columns = <<"outcome">>
<1>1. c.req.outcome \in DOMAIN Analysable /\ Len(c.bind.outcome.columns) = 1
  BY DEF Testable, UnsupportedReason, NoReason
<1>2. DOMAIN Analysable = {"continuous", "binary"}
  BY DEF Analysable
<1>3. Len(<<"outcome", "denominator">>) = 2
  OBVIOUS
<1> QED BY <1>1, <1>2, <1>3 DEF SoundCase, WellFormed, BindingOK

\* What becomes of a request: a test of all its rows, or a reason.
LEMMA FixedHorizonAccepts ==
  ASSUME NEW c, SoundCase(c), NEW implemented, NEW n,
         n \in FixedHorizonOf(c, Eligibility(c, implemented)),
         n.estimates # {} \/ n.status \notin {"abstained", "unsupported"}
  PROVE  /\ Eligibility(c, implemented).status \in EligibleStatuses /\ Testable(c)
         /\ n \in Tested(ValidRows(c))
         /\ \A arm \in Arms : Size(c, arm) >= 2
<1> DEFINE e == Eligibility(c, implemented)
           value == [i \in ValidRows(c) |-> c.rows[i].outcome]
           treatment == ValidRowsOf(c, "treatment")
           control == ValidRowsOf(c, "control")
<1> HIDE DEF e, value, treatment, control
<1>1. /\ e.status \in EligibleStatuses /\ Testable(c)
      /\ \/ n \in Welch(treatment, control, value)
         \/ n \in TwoProportions(treatment, control, value, c.floats)
  BY WithheldHasNone DEF FixedHorizonOf, Testable, e, value, treatment, control
<1>2. /\ n \in Tested(treatment \cup control)
      /\ ~(Cardinality(treatment) < 2) /\ ~(Cardinality(control) < 2)
  <2>1. CASE n \in Welch(treatment, control, value)
    <3>1. \/ /\ n \in Tested(treatment \cup control)
             /\ ~(Cardinality(treatment) < 2) /\ ~(Cardinality(control) < 2)
          \/ \E reason : n = Withheld("abstained", reason)
      BY <2>1, WelchAccepts
    <3> QED BY <3>1, WithheldHasNone
  <2>2. CASE n \in TwoProportions(treatment, control, value, c.floats)
    <3>1. \/ /\ n \in Tested(treatment \cup control)
             /\ ~(Cardinality(treatment) < 2) /\ ~(Cardinality(control) < 2)
          \/ \E reason : n = Withheld("abstained", reason)
      <4> DEFINE floats == c.floats
      <4>1. n \in TwoProportions(treatment, control, value, floats)
        BY <2>2
      <4> HIDE DEF floats
      <4> QED BY <4>1, ProportionsAccept
    <3> QED BY <3>1, WithheldHasNone
  <2> QED BY <1>1, <2>1, <2>2
<1>3. treatment \cup control = ValidRows(c)
  BY DEF treatment, control, ValidRowsOf, ValidRows, Declared, Arms, ArmRows
<1>4. \A arm \in Arms : Size(c, arm) >= 2
  <2>1. IsList(c.rows)
    BY DEF SoundCase, TableOK
  <2>2. Size(c, "treatment") \in Nat /\ Size(c, "control") \in Nat
    BY <2>1, SizesAdd
  <2> QED BY <1>2, <2>2 DEF Size, treatment, control, Arms
<1> QED BY <1>1, <1>2, <1>3, <1>4 DEF e

LEMMA BayesianAccepts ==
  ASSUME NEW c, SoundCase(c), NEW implemented, NEW n,
         n \in BayesianOf(c, Eligibility(c, implemented)), n.estimates # {}
  PROVE  /\ LikelihoodOf[c.req.likelihood] = c.req.outcome
         /\ ~Refuses(Eligibility(c, implemented)) /\ Complete(c)
         /\ n = Estimated("completed", ValidRows(c), {"posterior"}, None)
         /\ \A arm \in Arms : Size(c, arm) >= 1
<1> DEFINE e == Eligibility(c, implemented)
           Few(k) == \E arm \in Arms : Size(c, arm) < k
<1> HIDE DEF e
<1>1. /\ LikelihoodOf[c.req.likelihood] = c.req.outcome
      /\ ~Refuses(e) /\ Complete(c) /\ ~Few(1)
      /\ n = Estimated("completed", ValidRows(c), {"posterior"}, None)
  BY WithheldHasNone DEF BayesianOf, Interrupted, e, Size
<1>2. \A arm \in Arms : Size(c, arm) >= 1
  <2>1. IsList(c.rows)
    BY DEF SoundCase, TableOK
  <2>2. \A arm \in Arms : Size(c, arm) \in Nat
    BY <2>1, SizesAdd
  <2> QED BY <1>1, <2>2
<1> QED BY <1>1, <1>2 DEF e

(***************************************************************************)
(* Requests the services make of another.                                  *)
(***************************************************************************)
\* Two requests of one table, read alike.
SameTable(c, d) ==
  /\ d.rows = c.rows /\ d.columns = c.columns
  /\ d.bind.outcome = c.bind.outcome
  /\ d.req.outcome = c.req.outcome /\ d.req.population = c.req.population

LEMMA SameRows ==
  ASSUME NEW c, NEW d, SameTable(c, d)
  PROVE  /\ Population(d) = Population(c) /\ Declared(d) = Declared(c)
         /\ \A arm : ArmRows(d, arm) = ArmRows(c, arm)
         /\ \A i : OutcomeReading(d, i) = OutcomeReading(c, i)
         /\ ValidRows(d) = ValidRows(c)
         /\ \A arm : ValidRowsOf(d, arm) = ValidRowsOf(c, arm)
         /\ \A arm : Size(d, arm) = Size(c, arm)
         /\ Complete(d) <=> Complete(c)
<1>1. Population(d) = Population(c)
  BY DEF SameTable, Population
<1>2. \A arm : ArmRows(d, arm) = ArmRows(c, arm)
  BY <1>1 DEF SameTable, ArmRows
<1>3. Declared(d) = Declared(c)
  BY <1>2 DEF Declared, Arms
<1>4. \A i : OutcomeReading(d, i) = OutcomeReading(c, i)
  BY DEF SameTable, OutcomeReading
<1>5. ValidRows(d) = ValidRows(c)
  BY <1>3, <1>4 DEF ValidRows
<1>6. \A arm : ValidRowsOf(d, arm) = ValidRowsOf(c, arm)
  BY <1>2, <1>5 DEF ValidRowsOf
<1>7. \A arm : Size(d, arm) = Size(c, arm)
  BY <1>6 DEF Size
<1>8. Complete(d) <=> Complete(c)
  BY <1>1, <1>5 DEF Complete
<1> QED BY <1>1, <1>2, <1>3, <1>4, <1>5, <1>6, <1>7, <1>8

LEMMA UnadjustedIs ==
  ASSUME NEW c, SoundCase(c)
  PROVE  LET u == Unadjusted(c)
         IN  /\ SoundCase(u) /\ SameTable(c, u)
             /\ u.req.method = "fixed_horizon_ab" /\ u.floats = c.floats
             /\ \A field \in RequestFields \ {"method", "covariates"} :
                  u.req[field] = c.req[field]
<1> DEFINE q1 == [c.req EXCEPT !.method = "fixed_horizon_ab"]
           c1 == [c EXCEPT !.req = q1]
           q2 == [c1.req EXCEPT !.covariates = <<>>]
           c2 == [c1 EXCEPT !.req = q2]
           b3 == [c2.bind EXCEPT !.covariates = <<>>]
           c3 == [c2 EXCEPT !.bind = b3]
           u == Unadjusted(c)
<1>1. u = c3
  BY DEF Unadjusted
<1>2. /\ {"req", "bind", "floats", "columns", "rows"} \subseteq DOMAIN c
      /\ RequestFields \subseteq DOMAIN c.req /\ BindingFields \subseteq DOMAIN c.bind
  BY DEF SoundCase, WellFormed, TableOK, RequestOK, BindingOK
<1>3. "method" \in RequestFields /\ "covariates" \in RequestFields
      /\ "covariates" \in BindingFields
  BY DEF RequestFields, BindingFields
<1>4. /\ DOMAIN q1 = DOMAIN c.req /\ q1.method = "fixed_horizon_ab"
      /\ \A field \in RequestFields \ {"method"} : q1[field] = c.req[field]
  <2> HIDE DEF RequestFields
  <2> QED BY <1>2, <1>3
<1>5. /\ DOMAIN c1 = DOMAIN c /\ c1.req = q1 /\ c1.bind = c.bind /\ c1.floats = c.floats
      /\ c1.columns = c.columns /\ c1.rows = c.rows
  <2> HIDE DEF q1
  <2> QED BY <1>2
<1> HIDE DEF c1
<1>6. /\ DOMAIN q2 = DOMAIN c.req /\ q2.method = "fixed_horizon_ab" /\ q2.covariates = <<>>
      /\ \A field \in RequestFields \ {"method", "covariates"} : q2[field] = c.req[field]
  <2> HIDE DEF RequestFields, q1
  <2> QED BY <1>2, <1>3, <1>4, <1>5
<1>7. /\ DOMAIN c2 = DOMAIN c /\ c2.req = q2 /\ c2.bind = c.bind /\ c2.floats = c.floats
      /\ c2.columns = c.columns /\ c2.rows = c.rows
  <2> HIDE DEF q1, q2
  <2> QED BY <1>2, <1>5
<1> HIDE DEF c2
<1>8. /\ DOMAIN b3 = DOMAIN c.bind /\ b3.covariates = <<>>
      /\ \A field \in BindingFields \ {"covariates"} : b3[field] = c.bind[field]
  <2> HIDE DEF BindingFields
  <2> QED BY <1>2, <1>3, <1>7
<1>9. /\ DOMAIN c3 = DOMAIN c /\ c3.req = q2 /\ c3.bind = b3 /\ c3.floats = c.floats
      /\ c3.columns = c.columns /\ c3.rows = c.rows
  <2> HIDE DEF q1, q2, b3
  <2> QED BY <1>2, <1>7
<1> HIDE DEF q1, q2, b3, c3
<1>10. SameTable(c, c3)
  <2>1. b3.outcome = c.bind.outcome /\ q2.outcome = c.req.outcome
        /\ q2.population = c.req.population
    BY <1>6, <1>8 DEF RequestFields, BindingFields
  <2> QED BY <1>9, <2>1 DEF SameTable
<1>11. RequestOK(q2)
  <2>1. c.req.design = "randomized"
    BY Randomized
  <2>2. \A field \in {"design", "estimand", "conditioning", "outcome", "segment", "population",
                      "unit", "assignmentUnit", "clustering", "treatmentShare", "pre", "post",
                      "preMetrics", "uncertainty", "alternative", "likelihood"} :
          q2[field] = c.req[field]
    BY <1>6 DEF RequestFields
  <2>3. "fixed_horizon_ab" \in MethodsOf["randomized"]
    BY DEF MethodsOf
  <2>4. q2.method # "bayesian_ab" /\ IsList(q2.covariates) /\ DOMAIN q2.covariates = {}
    BY <1>6, Nothing
  <2>5. RequestOK(c.req)
    BY DEF SoundCase, WellFormed
  <2> QED BY <1>2, <1>6, <2>1, <2>2, <2>3, <2>4, <2>5 DEF RequestOK
<1>12. BindingOK(b3)
  <2>1. \A field \in {"arm", "unit", "outcome", "preMetrics", "assigned", "cluster", "time",
                      "treated"} : b3[field] = c.bind[field]
    BY <1>8 DEF BindingFields, Optional
  <2>2. IsList(b3.covariates) /\ DOMAIN b3.covariates = {}
    BY <1>8, Nothing
  <2>3. BindingOK(c.bind)
    BY DEF SoundCase, WellFormed
  <2> QED BY <1>2, <1>8, <2>1, <2>2, <2>3 DEF BindingOK, Optional
<1>13. TableOK(c3)
  <2>1. NumberColumns(b3) \subseteq NumberColumns(c.bind)
    <3>1. b3.outcome = c.bind.outcome /\ DOMAIN b3.covariates = {}
      BY <1>8, Nothing DEF BindingFields
    <3> QED BY <3>1 DEF NumberColumns
  <2>2. TableOK(c)
    BY DEF SoundCase
  <2> QED BY <1>9, <2>1, <2>2 DEF TableOK
<1> QED BY <1>1, <1>6, <1>9, <1>10, <1>11, <1>12, <1>13
        DEF SoundCase, WellFormed, RandomizedMethods

\* The rows that have a value of the covariate.
Covaried(c, arm) == {i \in ArmRows(c, arm) : c.rows[i][CovariateColumn(c)] # None}
AllCovaried(c) == Covaried(c, "treatment") \cup Covaried(c, "control")

Adjusted(rows, n) ==
  \E status \in Precisions, v \in Verdict : n = Estimated(status, rows, {"effect", "adjusted"}, v)

LEMMA AdjustmentAccepts ==
  ASSUME NEW rows, NEW X, NEW n \in AdjustedResults(rows, X)
  PROVE  \/ n = Interrupted
         \/ Adjusted(rows, n)
         \/ \E reason \in {"constant_or_near_zero_covariate", "cuped_computation_error",
                           "adjusted_inference_unavailable"} : n = Withheld("abstained", reason)
  BY DEF AdjustedResults, Adjusted

LEMMA AdjustedHas ==
  ASSUME NEW rows, NEW n, Adjusted(rows, n)
  PROVE  /\ n.estimates = {"effect", "adjusted"} /\ n.rows = rows /\ n.status \in Precisions
         /\ n.reason = NoReason /\ n.conclusion \in Verdict
  BY DEF Adjusted, Estimated

LEMMA CupedAccepts ==
  ASSUME NEW c, SoundCase(c), NEW implemented, NEW n,
         NEW baseline \in FixedHorizonResults(Unadjusted(c)),
         n \in CupedOf(c, Eligibility(c, implemented), baseline), n.estimates # {}
  PROVE  /\ Eligibility(c, implemented).status \in EligibleStatuses
         /\ CupedUnsupported(c.req) = NoReason /\ Readable(c)
         /\ Testable(Unadjusted(c)) /\ Complete(c)
         /\ baseline \in Tested(ValidRows(c)) /\ \A arm \in Arms : Size(c, arm) >= 2
         /\ c.req.covariates[1].timing = "pre_treatment"
         /\ c.req.covariates[1].relationship = "none_known"
         /\ Adjusted(AllCovaried(c), n)
         /\ \A i \in AllCovaried(c) : c.rows[i][CovariateColumn(c)] \notin {Text, Infinite}
         /\ ~(Cardinality(AllCovaried(c)) < Threshold(c).minimumTotal)
         /\ \A arm \in Arms : ~(Cardinality(Covaried(c, arm)) < Threshold(c).minimumPerArm)
<1> DEFINE e == Eligibility(c, implemented)
           kept == AllCovaried(c)
           x == [i \in kept |-> c.rows[i][CovariateColumn(c)]]
           u == Unadjusted(c)
<1> HIDE DEF e, kept, x, u
<1>1. /\ CupedUnsupported(c.req) = NoReason
      /\ baseline.status = "completed" /\ Readable(c)
      /\ ~\E i \in kept : x[i] \in {Text, Infinite}
      /\ e.status \in EligibleStatuses
      /\ c.req.covariates[1].timing = "pre_treatment"
      /\ c.req.covariates[1].relationship = "none_known"
      /\ ~(Cardinality(kept) < Threshold(c).minimumTotal)
      /\ ~\E arm \in Arms : Cardinality(Covaried(c, arm)) < Threshold(c).minimumPerArm
      /\ n \in AdjustedResults(kept, x)
  BY WithheldHasNone DEF CupedOf, Covaried, AllCovaried, e, kept, x
<1>2. Adjusted(kept, n)
  <2>1. \/ n = Interrupted
        \/ Adjusted(kept, n) \/ \E reason : n = Withheld("abstained", reason)
    BY <1>1, AdjustmentAccepts
  <2> QED BY <2>1, WithheldHasNone DEF Interrupted
<1>3. SoundCase(u) /\ SameTable(c, u)
  BY UnadjustedIs DEF u
<1>4. /\ Testable(u) /\ baseline \in Tested(ValidRows(u)) /\ \A arm \in Arms : Size(u, arm) >= 2
  <2>1. baseline \in FixedHorizonOf(u, Eligibility(u, FixedHorizon))
    BY DEF FixedHorizonResults, u
  <2> QED BY <1>1, <1>3, <2>1, FixedHorizonAccepts
<1>5. /\ Complete(c) /\ baseline \in Tested(ValidRows(c)) /\ \A arm \in Arms : Size(c, arm) >= 2
  BY <1>3, <1>4, SameRows DEF Testable
<1>6. \A i \in kept : c.rows[i][CovariateColumn(c)] \notin {Text, Infinite}
  BY <1>1 DEF x
<1> QED BY <1>1, <1>2, <1>4, <1>5, <1>6 DEF e, kept, u

\* Two requests that differ in their method and in how it is to infer.
SameButMethod(c, d) ==
  /\ d.rows = c.rows /\ d.columns = c.columns /\ d.bind = c.bind
  /\ \A field \in RequestFields \ {"method", "uncertainty", "alternative", "likelihood"} :
       d.req[field] = c.req[field]

LEMMA AlikeRequests ==
  ASSUME NEW c, NEW d, SoundCase(c), SoundCase(d), SameButMethod(c, d), d.req.method # "cuped"
  PROVE  SetOf(RequestCodes(d.req, d.bind)) \subseteq SetOf(RequestCodes(c.req, c.bind))
<1> DEFINE q == c.req
           p == d.req
           b == c.bind
<1>1. \A field \in {"design", "estimand", "conditioning", "outcome", "segment", "unit",
                    "assignmentUnit", "clustering", "pre", "post", "covariates", "preMetrics"} :
        p[field] = q[field]
  BY DEF SameButMethod, RequestFields
<1>2. d.bind = b
  BY DEF SameButMethod
<1>3. /\ p.design = "randomized" /\ q.design = "randomized"
      /\ q.method \in RandomizedMethods /\ p.method \in RandomizedMethods \ {"cuped"}
  BY Randomized DEF SoundCase
<1>4. RequestOK(q) /\ RequestOK(p) /\ BindingOK(b)
  BY DEF SoundCase, WellFormed
<1> HIDE DEF q, p, b
<1>5. MetricEstimandCodes(p) = MetricEstimandCodes(q) /\ CateCodes(p) = CateCodes(q)
  BY <1>1 DEF MetricEstimandCodes, CateCodes, IsCate
<1>6. DuplicateCodes(p) = DuplicateCodes(q) /\ RoleCodes(p, b) = RoleCodes(q, b)
  <2>1. p.covariates = q.covariates /\ p.preMetrics = q.preMetrics /\ p.segment = q.segment
    BY <1>1
  <2> QED BY <2>1 DEF DuplicateCodes, RoleCodes
<1>7. BindingCodes(p, b) = BindingCodes(q, b)
  <2>1. /\ p.outcome = q.outcome /\ p.covariates = q.covariates
        /\ p.preMetrics = q.preMetrics /\ p.segment = q.segment
    BY <1>1
  <2> QED BY <2>1 DEF BindingCodes
<1>8. CovariateCodes(p) = CovariateCodes(q)
  <2>1. p.covariates = q.covariates /\ p.design = q.design /\ p.post = q.post
    BY <1>1
  <2>2. \A v : TimingCodes(p, v) = TimingCodes(q, v)
    BY <2>1 DEF TimingCodes
  <2> QED BY <2>1, <2>2 DEF CovariateCodes, Each
<1>9. UnitCodes(p, b) = UnitCodes(q, b)
  <2>1. /\ p.design = q.design /\ p.unit = q.unit /\ p.assignmentUnit = q.assignmentUnit
        /\ p.clustering = q.clustering
    BY <1>1
  <2>2. RandomizationCodes(p, b) = RandomizationCodes(q, b)
    BY <2>1 DEF RandomizationCodes
  <2> QED BY <2>1, <2>2 DEF UnitCodes
<1>10. SetOf(MethodCodes(p, b)) \subseteq SetOf(MethodCodes(q, b))
  <2> DEFINE S1(r) == Told((r.method = "heterogeneous_treatment_effect") # IsCate(r),
                           "method.estimand_incompatible")
             S2(r) == Told(/\ r.design = "randomized" /\ r.method = "cuped"
                           /\ r.preMetrics = <<>>
                           /\ \A i \in DOMAIN r.covariates : r.covariates[i].role # "cuped",
                           "method.pre_treatment_input_required")
             S3(r) == Told(/\ r.method = "sequential_ab" \/ r.design = "quasi"
                           /\ b.time = None, "method.timestamp_required")
             S4(r) == Told(r.design = "observational" /\ r.covariates = <<>>,
                           "method.covariate_required")
  <2>1. \A r : MethodCodes(r, b) = S1(r) \o S2(r) \o S3(r) \o S4(r)
    BY DEF MethodCodes
  <2>2. \A r : IsList(S1(r)) /\ IsList(S2(r)) /\ IsList(S3(r)) /\ IsList(S4(r))
    BY ListTold
  <2>3. S1(p) = S1(q)
    <3>1. p.method # "heterogeneous_treatment_effect" /\ q.method # "heterogeneous_treatment_effect"
      BY <1>3 DEF RandomizedMethods
    <3>2. p.estimand = q.estimand
      BY <1>1
    <3> QED BY <3>1, <3>2 DEF Told, IsCate
  <2>4. SetOf(S2(p)) = {} /\ SetOf(S3(p)) = {} /\ SetOf(S4(p)) = {}
    BY <1>3, Nothing DEF Told, RandomizedMethods
  <2> HIDE DEF S1, S2, S3, S4
  <2>5. ASSUME NEW r
        PROVE  SetOf(MethodCodes(r, b))
                 = UNION {SetOf(S1(r)), SetOf(S2(r)), SetOf(S3(r)), SetOf(S4(r))}
    <3>1. IsList(S1(r)) /\ IsList(S2(r)) /\ IsList(S3(r)) /\ IsList(S4(r))
      BY <2>2
    <3>2. MethodCodes(r, b) = S1(r) \o S2(r) \o S3(r) \o S4(r)
      BY <2>1
    <3> QED BY <3>1, <3>2, JoinFour
  <2> QED BY <2>3, <2>4, <2>5
<1>11. /\ SetOf(RequestCodes(p, b))
            = UNION {SetOf(MetricEstimandCodes(p)), SetOf(CateCodes(p)), SetOf(MethodCodes(p, b)),
                     SetOf(BindingCodes(p, b)), SetOf(DuplicateCodes(p)), SetOf(RoleCodes(p, b)),
                     SetOf(CovariateCodes(p)), SetOf(UnitCodes(p, b))}
       /\ SetOf(RequestCodes(q, b))
            = UNION {SetOf(MetricEstimandCodes(q)), SetOf(CateCodes(q)), SetOf(MethodCodes(q, b)),
                     SetOf(BindingCodes(q, b)), SetOf(DuplicateCodes(q)), SetOf(RoleCodes(q, b)),
                     SetOf(CovariateCodes(q)), SetOf(UnitCodes(q, b))}
  BY <1>4, RequestParts
<1>12. SetOf(RequestCodes(p, b)) \subseteq SetOf(RequestCodes(q, b))
  BY <1>5, <1>6, <1>7, <1>8, <1>9, <1>10, <1>11
<1> QED BY <1>2, <1>12 DEF p, q, b

LEMMA AlikeData ==
  ASSUME NEW c, NEW d, SoundCase(c), SoundCase(d), SameButMethod(c, d)
  PROVE  /\ SameTable(c, d)
         /\ SchemaCodes(d) = SchemaCodes(c)
         /\ CovariateBindingCodes(d) = CovariateBindingCodes(c)
         /\ AssignmentCodes(d) = AssignmentCodes(c) /\ OutcomeCodes(d) = OutcomeCodes(c)
         /\ PreMetricsCodes(d) = PreMetricsCodes(c) /\ AllocationCodes(d) = AllocationCodes(c)
<1>1. /\ d.rows = c.rows /\ d.columns = c.columns /\ d.bind = c.bind
      /\ d.req.design = c.req.design /\ d.req.outcome = c.req.outcome
      /\ d.req.population = c.req.population /\ d.req.covariates = c.req.covariates
      /\ d.req.preMetrics = c.req.preMetrics /\ d.req.treatmentShare = c.req.treatmentShare
  BY DEF SameButMethod, RequestFields
<1>2. SameTable(c, d)
  BY <1>1 DEF SameTable
<1>3. /\ Population(d) = Population(c) /\ Declared(d) = Declared(c)
      /\ \A arm : ArmRows(d, arm) = ArmRows(c, arm)
      /\ \A i : OutcomeReading(d, i) = OutcomeReading(c, i)
      /\ ValidRows(d) = ValidRows(c)
  BY <1>2, SameRows
<1>4. CovariateBindingCodes(d) = CovariateBindingCodes(c)
  BY <1>1 DEF CovariateBindingCodes
<1>5. SchemaCodes(d) = SchemaCodes(c)
  <2>1. RequiredColumns(d) = RequiredColumns(c)
    BY <1>1 DEF RequiredColumns
  <2> QED BY <1>1, <1>4, <2>1 DEF SchemaCodes
<1>6. AssignmentCodes(d) = AssignmentCodes(c)
  <2>1. Empty(d, "arm") <=> Empty(c, "arm")
    BY <1>1, <1>3 DEF Empty
  <2>2. Values(d, "arm") = Values(c, "arm")
    BY <1>1, <1>3 DEF Values
  <2> QED BY <1>3, <2>1, <2>2 DEF AssignmentCodes, Told
<1>7. OutcomeCodes(d) = OutcomeCodes(c)
  <2> DEFINE Seen(x) == {OutcomeReading(x, i) : i \in Population(x)}
  <2>1. Seen(d) = Seen(c)
    BY <1>3
  <2>2. \A i, j : SameOutcome(d, i, j) <=> SameOutcome(c, i, j)
    BY <1>1 DEF SameOutcome
  <2>3. Constantly(d) <=> Constantly(c)
    BY <1>3, <2>2 DEF Constantly
  <2>4. \A x : OutcomeCodes(x) = ReadCodes(Seen(x), OutcomeCode)
                                 \o Told(Constantly(x), "outcome.zero_variance")
    BY DEF OutcomeCodes, Each, ReadCodes, Constantly
  <2>5. Told(Constantly(d), "outcome.zero_variance") = Told(Constantly(c), "outcome.zero_variance")
    BY <2>3 DEF Told
  <2> HIDE DEF Seen
  <2> QED BY <2>1, <2>4, <2>5
<1>8. PreMetricsCodes(d) = PreMetricsCodes(c)
  <2>1. \A pre : MeasuredRows(d, pre) = MeasuredRows(c, pre)
    BY <1>1, <1>3 DEF MeasuredRows
  <2>2. \A pre, binding : PreMetricTableCodes(d, pre, binding) = PreMetricTableCodes(c, pre, binding)
    <3> DEFINE Seen(x, pre, binding) ==
                 {Reading(pre.type, binding, x.rows[i]) : i \in MeasuredRows(x, pre)}
               Codes(rows, seen) ==
                 IF rows = {} THEN <<"pre_treatment_metric.period_unavailable">>
                 ELSE Told("missing" \in seen, "pre_treatment_metric.missing")
                      \o ReadCodes(seen, PreMetricCode)
                      \o Told("valid" \notin seen, "pre_treatment_metric.empty_valid_population")
    <3>1. \A x, pre, binding :
            PreMetricTableCodes(x, pre, binding) = Codes(MeasuredRows(x, pre), Seen(x, pre, binding))
      BY DEF PreMetricTableCodes, Each, ReadCodes
    <3>2. \A pre, binding : Seen(d, pre, binding) = Seen(c, pre, binding)
      BY <1>1, <2>1
    <3> HIDE DEF Seen, Codes
    <3> QED BY <2>1, <3>1, <3>2
  <2> DEFINE Declarations(x, binding) ==
               {i \in DOMAIN x.req.preMetrics : x.req.preMetrics[i].metric = binding.metric}
             Latest(x, binding) == CHOOSE i \in Declarations(x, binding) :
                                     \A j \in Declarations(x, binding) : j <= i
             Part(x, binding) ==
               IF Declarations(x, binding) = {} THEN <<>>
               ELSE PreMetricTableCodes(x, x.req.preMetrics[Latest(x, binding)], binding)
             F(x) == [i \in DOMAIN x.bind.preMetrics |-> Part(x, x.bind.preMetrics[i])]
  <2>3. \A x : PreMetricsCodes(x) = FlattenSeq(F(x))
    BY DEF PreMetricsCodes, Each
  <2>4. \A binding : Declarations(d, binding) = Declarations(c, binding)
    BY <1>1
  <2>5. \A binding : Latest(d, binding) = Latest(c, binding)
    <3> HIDE DEF Declarations
    <3> QED BY <2>4
  <2>6. \A binding : Part(d, binding) = Part(c, binding)
    <3> HIDE DEF Declarations, Latest
    <3> QED BY <1>1, <2>2, <2>4, <2>5
  <2>7. F(d) = F(c)
    <3> HIDE DEF Part
    <3> QED BY <1>1, <2>6
  <2> HIDE DEF F
  <2> QED BY <2>3, <2>7
<1>9. AllocationCodes(d) = AllocationCodes(c)
  BY <1>1, <1>3 DEF AllocationCodes
<1> QED BY <1>2, <1>4, <1>5, <1>6, <1>7, <1>8, <1>9

LEMMA AlikeDesign ==
  ASSUME NEW c, NEW d, SoundCase(c), SoundCase(d), SameButMethod(c, d)
  PROVE  /\ UnitTableCodes(d) = UnitTableCodes(c)
         /\ CovariateTableCodes(d) = CovariateTableCodes(c)
         /\ TimeCodes(d) = TimeCodes(c) /\ SegmentCodes(d) = SegmentCodes(c)
<1>1. /\ d.rows = c.rows /\ d.columns = c.columns /\ d.bind = c.bind
      /\ d.req.clustering = c.req.clustering /\ d.req.design = c.req.design
      /\ d.req.pre = c.req.pre /\ d.req.post = c.req.post
      /\ d.req.covariates = c.req.covariates /\ d.req.segment = c.req.segment
  BY DEF SameButMethod, RequestFields
<1>2. SameTable(c, d)
  BY AlikeData
<1>3. /\ Population(d) = Population(c)
      /\ \A arm : ArmRows(d, arm) = ArmRows(c, arm)
      /\ \A arm : ValidRowsOf(d, arm) = ValidRowsOf(c, arm)
  BY <1>2, SameRows
<1>4. /\ \A column : Values(d, column) = Values(c, column)
      /\ \A column, v : RowsWith(d, column, v) = RowsWith(c, column, v)
      /\ \A column : Empty(d, column) <=> Empty(c, column)
  BY <1>1, <1>3 DEF Values, RowsWith, Empty
<1>5. /\ \A column : Repeated(d, column) = Repeated(c, column)
      /\ \A column, v : ArmsOf(d, column, v) = ArmsOf(c, column, v)
  BY <1>1, <1>4 DEF Repeated, ArmsOf
<1>6. /\ Threshold(d).minimumClusters = Threshold(c).minimumClusters
      /\ Threshold(d).weakClusters = Threshold(c).weakClusters
      /\ Threshold(d).minimumPerSegmentArm = Threshold(c).minimumPerSegmentArm
  BY ThresholdsAreNumbers DEF Thresholds
<1>7. UnitTableCodes(d) = UnitTableCodes(c)
  <2>1. RandomizationUnitCodes(d) = RandomizationUnitCodes(c)
    <3> DEFINE Cells(x, v) ==
                 {x.rows[i][x.bind.assigned] : i \in RowsWith(x, x.bind.unit, v)} \ {None}
               Moved(x) == \E v \in Values(x, x.bind.unit) : Cardinality(Cells(x, v)) > 1
               Split(x) == \E v \in Values(x, x.bind.assigned) :
                             Cardinality(ArmsOf(x, x.bind.assigned, v)) > 1
    <3>1. \A x : RandomizationUnitCodes(x)
                   = IF x.bind.assigned = None THEN <<>>
                     ELSE Told(Empty(x, x.bind.assigned), "unit.randomization_identifier_missing")
                          \o Told(Split(x), "treatment.unit_multiple_assignments")
                          \o Told(Moved(x), "unit.randomization_observation_mismatch")
      BY DEF RandomizationUnitCodes
    <3>2. \A v : Cells(d, v) = Cells(c, v)
      BY <1>1, <1>4
    <3>3. Moved(d) <=> Moved(c)
      <4> HIDE DEF Cells
      <4> QED BY <1>1, <1>4, <3>2
    <3>4. Split(d) <=> Split(c)
      BY <1>1, <1>4, <1>5
    <3> HIDE DEF Moved, Split
    <3> QED BY <1>1, <1>4, <3>1, <3>3, <3>4 DEF Told
  <2>2. ClusterCodes(d) = ClusterCodes(c)
    BY <1>1, <1>4, <1>6 DEF ClusterCodes, Told
  <2> QED BY <1>1, <1>4, <1>5, <2>1, <2>2 DEF UnitTableCodes, Told
<1>8. CovariateTableCodes(d) = CovariateTableCodes(c)
  <2> DEFINE Bound(x, v) ==
               {i \in DOMAIN x.bind.covariates : x.bind.covariates[i].metric = v.metric}
             Column(x, v) == x.bind.covariates[CHOOSE i \in Bound(x, v) : TRUE].column
             Unseen(x, v) == /\ x.bind.time # None
                             /\ \E u \in Values(x, x.bind.unit) :
                                  \A i \in RowsWith(x, x.bind.unit, u) :
                                    \/ x.rows[i][Column(x, v)] = None
                                    \/ ~InPeriod(x.rows[i].time, v.period)
             Part(x, v) == IF Bound(x, v) = {} THEN <<"covariate.binding_missing">>
                           ELSE Told(Unseen(x, v), "covariate.period_unavailable")
             F(x) == [i \in DOMAIN x.req.covariates |-> Part(x, x.req.covariates[i])]
  <2>1. \A x : CovariateTableCodes(x) = FlattenSeq(F(x))
    BY DEF CovariateTableCodes, Each
  <2>2. \A v : Bound(d, v) = Bound(c, v) /\ Column(d, v) = Column(c, v)
    BY <1>1
  <2>3. \A v : Unseen(d, v) <=> Unseen(c, v)
    <3> HIDE DEF Bound, Column
    <3> QED BY <1>1, <1>4, <2>2
  <2>4. \A v : Part(d, v) = Part(c, v)
    <3> HIDE DEF Bound, Unseen
    <3> QED BY <2>2, <2>3 DEF Told
  <2>5. F(d) = F(c)
    <3> HIDE DEF Part
    <3> QED BY <1>1, <2>4
  <2> HIDE DEF F
  <2> QED BY <2>1, <2>5
<1>9. TimeCodes(d) = TimeCodes(c)
  <2>1. \A period : Covered(d, period) <=> Covered(c, period)
    BY <1>1, <1>4 DEF Covered
  <2>2. TreatmentTimeCodes(d) = TreatmentTimeCodes(c)
    <3> DEFINE Cells(x) == {x.rows[i].treated : i \in Population(x)}
               Unit(x) == IF x.req.design = "randomized" THEN x.bind.assigned ELSE x.bind.unit
               Starts(x, v) == {t \in {x.rows[i].treated : i \in RowsWith(x, Unit(x), v)} :
                                  Instant(t)}
               Late(x) == \E t \in Cells(x) : Instant(t) /\ OutOfBounds(x.req, t)
               Differs(x) == /\ Unit(x) # None
                             /\ \E v \in Values(x, Unit(x)) : Cardinality(Starts(x, v)) > 1
    <3>1. \A x : TreatmentTimeCodes(x)
                   = IF x.bind.treated = None THEN <<>>
                     ELSE Told(None \in Cells(x), "time.treatment_timestamp_missing")
                          \o Told(Text \in Cells(x), "time.invalid_treatment_timestamp")
                          \o Told(Late(x), "time.treatment_timestamp_out_of_bounds")
                          \o Told(Differs(x), "treatment.timing_inconsistent")
      BY DEF TreatmentTimeCodes
    <3>2. Cells(d) = Cells(c) /\ Unit(d) = Unit(c)
      BY <1>1, <1>3
    <3>3. \A v : Starts(d, v) = Starts(c, v)
      <4> HIDE DEF Unit
      <4> QED BY <1>1, <1>4, <3>2
    <3>4. \A t : OutOfBounds(d.req, t) <=> OutOfBounds(c.req, t)
      BY <1>1 DEF OutOfBounds
    <3>5. Late(d) <=> Late(c)
      <4> HIDE DEF Cells
      <4> QED BY <3>2, <3>4
    <3>6. Differs(d) <=> Differs(c)
      <4> HIDE DEF Unit, Starts
      <4> QED BY <1>4, <3>2, <3>3
    <3> HIDE DEF Cells, Late, Differs
    <3> QED BY <1>1, <3>1, <3>2, <3>5, <3>6 DEF Told
  <2>3. /\ d.bind = c.bind /\ d.req.pre = c.req.pre /\ d.req.post = c.req.post
        /\ Empty(d, "time") <=> Empty(c, "time")
        /\ Values(d, "time") = Values(c, "time")
    BY <1>1, <1>4
  <2> DEFINE Uncovered(x) == \/ x.req.pre # None /\ ~Covered(x, x.req.pre)
                             \/ ~Covered(x, x.req.post)
  <2>4. \A x : TimeCodes(x)
                = (IF x.bind.time = None THEN <<>>
                   ELSE Told(Empty(x, "time"), "time.timestamp_missing")
                        \o Told(Text \in Values(x, "time"), "time.invalid_timestamp")
                        \o Told(Uncovered(x), "time.period_coverage_missing"))
                  \o TreatmentTimeCodes(x)
    BY DEF TimeCodes
  <2>5. Uncovered(d) <=> Uncovered(c)
    BY <2>1, <2>3
  <2> HIDE DEF Uncovered
  <2> QED BY <2>2, <2>3, <2>4, <2>5 DEF Told
<1>10. SegmentCodes(d) = SegmentCodes(c)
  <2> DEFINE Filled(x) ==
               {i \in Population(x) : x.rows[i][x.req.segment.attribute] # None}
             Fitting(x) ==
               {i \in Filled(x) : Comparable(x.req.segment, x.rows[i][x.req.segment.attribute])}
             Selected(x) ==
               {i \in Fitting(x) : Selects(x.req.segment, x.rows[i][x.req.segment.attribute])}
             Lacks(x) == \E arm \in Arms : Selected(x) \cap ArmRows(x, arm) = {}
             Few(x) == \E arm \in Arms : Cardinality(Selected(x) \cap ValidRowsOf(x, arm))
                                           < Threshold(x).minimumPerSegmentArm
  <2>1. \A x : SegmentCodes(x)
                 = IF x.req.segment = None THEN <<>>
                   ELSE IF ~Has(x, x.req.segment.attribute) THEN <<"segment.column_missing">>
                   ELSE Told(Filled(x) # Population(x), "segment.missing_assignment")
                        \o Told(Fitting(x) # Filled(x), "segment.criteria_incompatible")
                        \o (IF Selected(x) = {}
                            THEN Told(Fitting(x) = Population(x), "segment.value_absent")
                            ELSE IF Lacks(x) THEN <<"segment.arm_missing">>
                            ELSE Told(Few(x), "segment.insufficient_sample"))
    BY DEF SegmentCodes
  <2>2. Filled(d) = Filled(c)
    BY <1>1, <1>3
  <2>3. Fitting(d) = Fitting(c)
    <3> HIDE DEF Filled
    <3> QED BY <1>1, <2>2
  <2>4. Selected(d) = Selected(c)
    <3> HIDE DEF Fitting
    <3> QED BY <1>1, <2>3
  <2> HIDE DEF Filled, Fitting, Selected
  <2>5. (Lacks(d) <=> Lacks(c)) /\ (Few(d) <=> Few(c))
    BY <1>3, <1>6, <2>4
  <2>6. \A column : Has(d, column) <=> Has(c, column)
    BY <1>1 DEF Has
  <2> HIDE DEF Lacks, Few
  <2> QED BY <1>1, <1>3, <2>1, <2>2, <2>3, <2>4, <2>5, <2>6 DEF Told
<1> QED BY <1>7, <1>8, <1>9, <1>10

\* A service that is asked for what another one is told of is told no more,
\* but for the sizes it is content with.
LEMMA AlikeCodes ==
  ASSUME NEW c, NEW d, SoundCase(c), SoundCase(d), SameButMethod(c, d), d.req.method # "cuped",
         NEW implemented, Unblocked(c, implemented),
         NEW others, <<d.req.design, d.req.method>> \in others
  PROVE  SetOf(EligibilityCodes(d, others))
           \subseteq SetOf(EligibilityCodes(c, implemented)) \cup SetOf(SampleCodes(d))
<1>1. SchemaCodes(c) = <<>> /\ Population(c) # {}
  BY TableIsExamined DEF SoundCase
<1>2. SchemaCodes(d) = <<>> /\ Population(d) # {}
  BY <1>1, AlikeData, SameRows
<1>3. SetOf(CapabilityCodes(d.req, others)) = {}
  BY Nothing DEF CapabilityCodes, Told
<1>4. SetOf(RequestCodes(d.req, d.bind)) \subseteq SetOf(RequestCodes(c.req, c.bind))
  BY AlikeRequests
<1> DEFINE Parts(x, set) == UNION {SetOf(RequestCodes(x.req, x.bind)),
                             SetOf(CapabilityCodes(x.req, set)),
                             SetOf(CovariateBindingCodes(x)), SetOf(AssignmentCodes(x)),
                             SetOf(OutcomeCodes(x)), SetOf(PreMetricsCodes(x)),
                             SetOf(SampleCodes(x)), SetOf(AllocationCodes(x)),
                             SetOf(UnitTableCodes(x)), SetOf(CovariateTableCodes(x)),
                             SetOf(TimeCodes(x)), SetOf(SegmentCodes(x))}
<1>5. Parts(d, others) \subseteq Parts(c, implemented) \cup SetOf(SampleCodes(d))
  BY <1>3, <1>4, AlikeData, AlikeDesign
<1>6. /\ SetOf(EligibilityCodes(d, others)) = Parts(d, others)
      /\ SetOf(EligibilityCodes(c, implemented)) = Parts(c, implemented)
  BY <1>1, <1>2, ExaminedParts DEF SoundCase
<1> HIDE DEF Parts
<1> QED BY <1>5, <1>6

\* A request that is eligible for one service is eligible for an alike one,
\* whose policy asks for no more rows than there are.
LEMMA AlikeIsEligible ==
  ASSUME NEW c, NEW d, SoundCase(c), SoundCase(d), SameButMethod(c, d), d.req.method # "cuped",
         NEW implemented, Eligibility(c, implemented).status \in EligibleStatuses,
         NEW others, <<d.req.design, d.req.method>> \in others,
         \/ c.req.method # "bayesian_ab" /\ d.req.method # "bayesian_ab"
         \/ d.req.method = "bayesian_ab" /\ \A arm \in Arms : Size(c, arm) >= 2
  PROVE  Eligibility(d, others).status \in EligibleStatuses
<1> DEFINE codes == SetOf(EligibilityCodes(c, implemented))
           told == SetOf(EligibilityCodes(d, others))
<1>1. /\ Unblocked(c, implemented) /\ codes \cap NeedsMoreData = {}
      /\ \A code \in codes : ~Blocks(code)
  BY EligibleIsUnblocked DEF SoundCase
<1>2. told \subseteq codes \cup SetOf(SampleCodes(d))
  BY <1>1, AlikeCodes
<1>3. SetOf(SampleCodes(c)) \subseteq codes
  BY <1>1, TableIsExamined DEF SoundCase
<1> DEFINE sizes == {"sample.total_insufficient", "sample.total_weak", "sample.arm_insufficient",
                     "sample.arm_weak"}
           lacking == {"sample.total_insufficient", "sample.arm_insufficient"}
<1> HIDE DEF codes, told
<1>4. IsList(c.rows) /\ IsList(d.rows)
  BY DEF SoundCase, TableOK
<1>5. /\ SetOf(SampleCodes(d)) \subseteq sizes /\ SetOf(SampleCodes(d)) \cap lacking = {}
  <2>1. SetOf(SampleCodes(d)) \subseteq sizes
    BY <1>4, SizesAreTold
  <2>2. \A arm : Size(d, arm) = Size(c, arm)
    BY AlikeData, SameRows
  <2>3. CASE c.req.method # "bayesian_ab" /\ d.req.method # "bayesian_ab"
    <3>1. Threshold(d) = Threshold(c)
      BY <2>3, ThresholdsAreNumbers
    <3>2. SampleCodes(d) = SampleCodes(c)
      BY <2>2, <3>1 DEF SampleCodes, Size
    <3>3. SetOf(SampleCodes(c)) \cap lacking = {}
      BY <1>1, <1>3 DEF NeedsMoreData
    <3> QED BY <2>1, <3>2, <3>3
  <2>4. CASE d.req.method = "bayesian_ab" /\ \A arm \in Arms : Size(c, arm) >= 2
    <3>1. Threshold(d).minimumTotal = 2 /\ Threshold(d).minimumPerArm = 1
      BY <2>4, ThresholdsAreNumbers
    <3>2. Size(d, "treatment") >= 2 /\ Size(d, "control") >= 2
      BY <2>2, <2>4 DEF Arms
    <3>3. Size(d, "treatment") \in Nat /\ Size(d, "control") \in Nat
      BY <1>4, SizesAdd
    <3>4. ~(Size(d, "treatment") + Size(d, "control") < 2)
      BY <3>2, <3>3
    <3>5. \A arm \in Arms : ~(Size(d, arm) < 1)
      BY <3>2, <3>3 DEF Arms
    <3>6. /\ "sample.total_insufficient" \notin SetOf(SampleCodes(d))
          /\ "sample.arm_insufficient" \notin SetOf(SampleCodes(d))
      BY <1>4, <3>1, <3>4, <3>5, SizesAreTold
    <3> QED BY <2>1, <3>6
  <2> QED BY <2>3, <2>4
<1>6. \A code \in sizes \ lacking : ~Blocks(code) /\ code \notin NeedsMoreData
  BY DEF Blocks, NeedsMoreData, Warnings
<1> HIDE DEF sizes, lacking
<1>7. /\ told \cap NeedsMoreData = {} /\ \A code \in told : ~Blocks(code)
  BY <1>1, <1>2, <1>5, <1>6
<1>8. Eligibility(d, others).status = Aggregate(told)
  BY DEF Eligibility, Judged, told
<1> QED BY <1>7, <1>8 DEF Aggregate, EligibleStatuses
=============================================================================
