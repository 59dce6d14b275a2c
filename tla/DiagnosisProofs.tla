-------------------------- MODULE DiagnosisProofs --------------------------
(***************************************************************************)
(* Proofs for Diagnosis, for any tables, any number of metrics and any     *)
(* calibration with a positive margin: a family is named exactly when it   *)
(* is established, no repair is called fixable without it, an ambiguous    *)
(* match stays cautious, and the two ways to a report agree.               *)
(***************************************************************************)
EXTENDS Diagnosis, FiniteSetTheorems, TLAPS

-----------------------------------------------------------------------------
(* The invariant: every result is the one its operator gives for what was  *)
(* seen, which never changes.                                              *)

SeenOK ==
  /\ seen.similarity \in [Families -> Int]
  /\ \A m \in Metrics :
       seen.readings[m] \in [shared : BOOLEAN, number : BOOLEAN, b : Int, c : Int]

SingleOK ==
  \/ single = NoReport
  \/ \E m \in Shared :
       \/ context # NoContext /\ single = FromContext(m)
       \/ \E f \in Families \cup {NoFamily} : single = FromFamily(m, f)

IInv ==
  /\ SeenOK
  /\ context = NoContext \/ \E a \in Assessments : context = SnapshotContext(a)
  /\ full = NoReport \/ \E a \in Assessments : full = FullReport(a)
  /\ SingleOK

LEMMA InitIInv == Init => IInv
<1> SUFFICES ASSUME Init PROVE IInv
  OBVIOUS
<1>1. SeenOK
  <2>1. seen.similarity \in [Families -> Similarities]
    BY DEF Init
  <2>2. \A m \in Metrics : seen.readings[m] \in Readings[m]
    BY DEF Init
  <2> QED  BY <2>1, <2>2, ReadingsAssumption, CalibrationAssumption DEF SeenOK
<1> QED  BY <1>1 DEF Init, IInv, SingleOK

\* What is computed from seen alone does not change while seen does not.
LEMMA SeenFrame ==
  ASSUME seen' = seen
  PROVE  /\ Assessments' = Assessments /\ Shared' = Shared
         /\ SeenOK' = SeenOK
         /\ \A a : SnapshotContext(a)' = SnapshotContext(a)
         /\ \A a : FullReport(a)' = FullReport(a)
         /\ \A m, f : FromFamily(m, f)' = FromFamily(m, f)
         /\ context' = context => \A m : FromContext(m)' = FromContext(m)
<1> USE DEF Shared, Significant
<1>1. Shared' = Shared /\ Significant' = Significant /\ SeenOK' = SeenOK
  BY DEF SeenOK
<1>2. Assessments' = Assessments
  BY <1>1 DEF Assessments, Assess, Firsts, RunnersUp, Closer
<1>3. \A m, f, ambiguous, c, g :
        MetricReport(m, f, ambiguous, c, g)' = MetricReport(m, f, ambiguous, c, g)
  BY <1>1 DEF MetricReport, AnnWarning, IndexLossIsSevere, Level, ReviewReason, AlsoMatched
<1>4. Strengths' = Strengths
  BY <1>1 DEF Strengths
<1> QED  BY <1>1, <1>2, <1>3, <1>4 DEF SnapshotContext, FullReport, FromFamily, FromContext

LEMMA NextIInv == IInv /\ [Next]_vars => IInv'
<1> SUFFICES ASSUME IInv, [Next]_vars PROVE IInv'
  OBVIOUS
<1>0. seen' = seen
  BY DEF Next, vars, FromSnapshots, BuildFullReport, BuildMetricReport
<1>1. CASE FromSnapshots
  BY <1>0, <1>1, SeenFrame DEF FromSnapshots, IInv, SingleOK
<1>2. CASE BuildFullReport
  BY <1>0, <1>2, SeenFrame DEF BuildFullReport, IInv, SingleOK
<1>3. ASSUME NEW m \in Metrics, BuildMetricReport(m) PROVE IInv'
  BY <1>0, <1>3, SeenFrame DEF BuildMetricReport, IInv, SingleOK
<1>4. CASE UNCHANGED vars
  BY <1>0, <1>4, SeenFrame DEF vars, IInv, SingleOK
<1> QED  BY <1>1, <1>2, <1>3, <1>4 DEF Next

LEMMA Inductive == Spec => []IInv
BY InitIInv, NextIInv, PTL DEF Spec

-----------------------------------------------------------------------------
(* The match.                                                              *)

\* The head of the sorted list is unique, and nothing after it is closer.
LEMMA FirstIsNearest ==
  ASSUME SeenOK, NEW S \in SUBSET Families, NEW f \in Firsts(S)
  PROVE  /\ f \in S /\ f \in Families
         /\ \A g \in S : seen.similarity[f] >= seen.similarity[g]
         /\ \A g \in Firsts(S) : g = f
<1>1. f \in S /\ f \in Families /\ \A g \in S \ {f} : Closer(f, g)
  BY DEF Firsts
<1>2. \A g \in Families : seen.similarity[g] \in Int /\ FamilyOrder[g] \in Nat
  BY TablesAssumption DEF SeenOK
<1>3. ASSUME NEW g \in S PROVE seen.similarity[f] >= seen.similarity[g]
  BY <1>1, <1>2 DEF Closer
<1>4. ASSUME NEW g \in Firsts(S), g # f PROVE FALSE
  <2>1. g \in S /\ g \in Families /\ Closer(g, f) /\ Closer(f, g)
    BY <1>1, <1>4 DEF Firsts
  <2> QED  BY <1>1, <1>2, <2>1 DEF Closer
<1> QED  BY <1>1, <1>3, <1>4

LEMMA AssessmentParts ==
  ASSUME NEW a \in Assessments
  PROVE  \E best \in Firsts(Families) : \E runnerUp \in RunnersUp(best) :
           a = Assess(best, runnerUp)
BY DEF Assessments

LEMMA AssessmentUnique ==
  ASSUME SeenOK, NEW a \in Assessments, NEW b \in Assessments
  PROVE  a = b
<1>a. PICK f \in Firsts(Families) : \E g \in RunnersUp(f) : a = Assess(f, g)
  BY AssessmentParts
<1>1. PICK g \in RunnersUp(f) : a = Assess(f, g)
  BY <1>a
<1>b. PICK u \in Firsts(Families) : \E v \in RunnersUp(u) : b = Assess(u, v)
  BY AssessmentParts
<1>2. PICK v \in RunnersUp(u) : b = Assess(u, v)
  BY <1>b
<1>3. f = u
  BY <1>1, <1>2, FirstIsNearest
<1>4. g = v
  <2>1. CASE Families = {f}
    BY <1>1, <1>2, <1>3, <2>1 DEF RunnersUp
  <2>2. CASE Families # {f}
    <3>1. g \in Firsts(Families \ {f}) /\ v \in Firsts(Families \ {f})
      BY <1>1, <1>2, <1>3, <2>2 DEF RunnersUp
    <3>2. Families \ {f} \in SUBSET Families
      OBVIOUS
    <3> QED  BY <3>1, <3>2, FirstIsNearest
  <2> QED  BY <2>1, <2>2
<1> QED  BY <1>1, <1>2, <1>3, <1>4

\* The count of significant metrics is a number.
LEMMA CardinalityOrder ==
  Cardinality(Significant) >= MinMetrics <=> ~(Cardinality(Significant) < MinMetrics)
<1>1. IsFiniteSet(Significant)
  BY MetricsAssumption, FS_Subset DEF Significant, Shared
<1>2. Cardinality(Significant) \in Nat
  BY <1>1, FS_CardinalityType
<1> QED  BY <1>2 DEF MinMetrics

\* What the three outcomes of a match mean.
LEMMA AssessmentMeans ==
  ASSUME SeenOK, NEW a \in Assessments
  PROVE  /\ a.status \in {"none", "ambiguous", "match"}
         /\ a.family \in Families \cup {NoFamily}
         /\ a.status = "match" <=> a.family # NoFamily
         /\ \A f \in Families : a.family = f <=> Established(f)
<1>a. PICK f \in Firsts(Families) : \E g \in RunnersUp(f) : a = Assess(f, g)
  BY AssessmentParts
<1>1. PICK g \in RunnersUp(f) : a = Assess(f, g)
  BY <1>a
<1>2. /\ f \in Families
      /\ \A h \in Families : seen.similarity[f] >= seen.similarity[h]
  BY FirstIsNearest
<1>3. \A h \in Families : seen.similarity[h] \in Int
  BY DEF SeenOK
<1>4. Threshold \in Int /\ Margin \in Nat \ {0} /\ NoFamily \notin Families
  BY CalibrationAssumption, TablesAssumption
<1>5. \/ Families = {f} /\ g = f
      \/ /\ g \in Families \ {f}
         /\ \A h \in Families \ {f} : seen.similarity[g] >= seen.similarity[h]
  <2>1. CASE Families = {f}
    BY <1>1, <2>1 DEF RunnersUp
  <2>2. CASE Families # {f}
    <3>1. g \in Firsts(Families \ {f})
      BY <1>1, <2>2 DEF RunnersUp
    <3>2. Families \ {f} \in SUBSET Families
      OBVIOUS
    <3> QED  BY <3>1, <3>2, FirstIsNearest
  <2> QED  BY <2>1, <2>2
<1>6. \A h \in Families : Established(h) => h = f
  <2> SUFFICES ASSUME NEW h \in Families, Established(h), h # f PROVE FALSE
    OBVIOUS
  <2>1. seen.similarity[h] - seen.similarity[f] >= Margin
    BY <1>2 DEF Established
  <2> QED  BY <1>2, <1>3, <1>4, <2>1
<1>7. CASE Cardinality(Significant) < MinMetrics \/ seen.similarity[f] < Threshold
  <2>1. a = [status |-> "none", family |-> NoFamily]
    BY <1>1, <1>7 DEF Assess
  <2>2. ~Established(f)
    <3>1. CASE seen.similarity[f] < Threshold
      BY <1>2, <1>3, <1>4, <3>1 DEF Established
    <3>2. CASE Cardinality(Significant) < MinMetrics
      <4>1. Established(f) => Cardinality(Significant) >= MinMetrics
        BY DEF Established
      <4> QED  BY <3>2, <4>1, CardinalityOrder
    <3> QED  BY <1>7, <3>1, <3>2
  <2> QED  BY <1>4, <1>6, <2>1, <2>2
<1>8. CASE /\ ~(Cardinality(Significant) < MinMetrics)
           /\ ~(seen.similarity[f] < Threshold)
           /\ g # f /\ seen.similarity[f] - seen.similarity[g] < Margin
  <2>1. a = [status |-> "ambiguous", family |-> NoFamily]
    BY <1>1, <1>8 DEF Assess
  <2>2. ~Established(f)
    BY <1>2, <1>3, <1>4, <1>5, <1>8 DEF Established
  <2> QED  BY <1>4, <1>6, <2>1, <2>2
<1>9. CASE /\ ~(Cardinality(Significant) < MinMetrics)
           /\ ~(seen.similarity[f] < Threshold)
           /\ ~(g # f /\ seen.similarity[f] - seen.similarity[g] < Margin)
  <2>1. a = [status |-> "match", family |-> f]
    BY <1>1, <1>9 DEF Assess
  <2>2. \A h \in Families \ {f} : seen.similarity[f] - seen.similarity[h] >= Margin
    BY <1>2, <1>3, <1>4, <1>5, <1>9
  <2>3. Established(f)
    BY <1>2, <1>3, <1>4, <1>9, <2>2, CardinalityOrder DEF Established
  <2> QED  BY <1>2, <1>4, <1>6, <2>1, <2>3
<1> QED  BY <1>7, <1>8, <1>9

-----------------------------------------------------------------------------
(* The reports.                                                            *)

\* What the full report is made of.
LEMMA FullParts ==
  ASSUME NEW a
  PROVE  /\ FullReport(a).status = a.status /\ FullReport(a).family = a.family
         /\ DOMAIN FullReport(a).entries = Shared
         /\ \A m \in Shared : \E g \in BOOLEAN :
              /\ FullReport(a).entries[m] =
                   MetricReport(m, a.family, a.status = "ambiguous",
                                [family |-> a.family, deltas |-> Shared # {},
                                 ambiguous |-> FALSE], g)
              /\ g => a.status = "match" /\ m \in Significant
<1> DEFINE inside == IF a.status = "match" THEN Significant \cap Members[a.family] ELSE {}
           c == [family |-> a.family, deltas |-> Shared # {}, ambiguous |-> FALSE]
<1>1. /\ FullReport(a).status = a.status /\ FullReport(a).family = a.family
      /\ FullReport(a).entries =
           [m \in Shared |-> MetricReport(m, a.family, a.status = "ambiguous", c,
                                          m \in inside)]
  BY DEF FullReport
<1>2. ASSUME NEW m \in Shared
      PROVE  \E g \in BOOLEAN :
               /\ FullReport(a).entries[m] =
                    MetricReport(m, a.family, a.status = "ambiguous", c, g)
               /\ g => a.status = "match" /\ m \in Significant
  <2>1. FullReport(a).entries[m] =
          MetricReport(m, a.family, a.status = "ambiguous", c, m \in inside)
    BY <1>1
  <2>2. (m \in inside) \in BOOLEAN
    OBVIOUS
  <2>3. m \in inside => a.status = "match" /\ m \in Significant
    OBVIOUS
  <2> HIDE DEF inside, c
  <2> QED  BY <2>1, <2>2, <2>3
<1>3. DOMAIN FullReport(a).entries = Shared
  BY <1>1
<1> QED  BY <1>1, <1>2, <1>3

LEMMA EntryParts ==
  ASSUME NEW m, NEW f, NEW ambiguous, NEW c, NEW g
  PROVE  LET e == MetricReport(m, f, ambiguous, c, g)
         IN  /\ e.status = Status(Strength(seen.readings[m]),
                                  ~ambiguous /\ f # NoFamily /\ IndexLossIsSevere(f))
             /\ e.warning = AnnWarning(f, ambiguous) /\ e.family = f
             /\ e.level = Level(m, c) /\ e.grouped = g
             /\ e.action = Action(m, Level(m, c))
             /\ e.parameter = IF Level(m, c) = "auto_fixable" THEN ParameterSource[m]
                              ELSE "none"
             /\ e.change = Change(seen.readings[m])
             /\ e.priority = Score(DefaultVariant, m, Strength(seen.readings[m]))
BY DEF MetricReport

LEMMA EntryGrouped ==
  ASSUME NEW m, NEW f, NEW ambiguous, NEW c, NEW g
  PROVE  MetricReport(m, f, ambiguous, c, g).grouped = g
BY DEF MetricReport

LEMMA MovedIsNotNormal ==
  ASSUME NEW m, NEW f, NEW ambiguous, NEW c, NEW g,
         ~(Strength(seen.readings[m]) < NoiseFloor)
  PROVE  MetricReport(m, f, ambiguous, c, g).status # "normal"
BY DEF MetricReport, Status

\* Every report comes from a match, or from the family of the caller.
LEMMA MadeParts ==
  ASSUME IInv, NEW m \in Metrics, NEW e \in Made(m)
  PROVE  /\ m \in Shared
         /\ \/ \E a \in Assessments, g \in BOOLEAN, b \in BOOLEAN :
                 e = MetricReport(m, a.family, a.status = "ambiguous",
                                  [family |-> a.family, deltas |-> TRUE,
                                   ambiguous |-> b], g)
            \/ /\ single # NoReport /\ single.from = "family" /\ e = single.entry
               /\ \E f \in Families \cup {NoFamily} : e = FromFamily(m, f).entry
<1>1. CASE full # NoReport /\ m \in Shared /\ e = full.entries[m]
  <2>1. PICK a \in Assessments : full = FullReport(a)
    BY <1>1 DEF IInv
  <2>2. Shared # {}
    BY <1>1
  <2> QED  BY <1>1, <2>1, <2>2, FullParts
<1>2. CASE single # NoReport /\ single.metric = m /\ e = single.entry
  <2>1. PICK o \in Shared :
           \/ context # NoContext /\ single = FromContext(o)
           \/ \E f \in Families \cup {NoFamily} : single = FromFamily(o, f)
    BY <1>2 DEF IInv, SingleOK
  <2>2. o = m
    <3>1. \A f : FromFamily(o, f).metric = o
      BY DEF FromFamily
    <3>2. FromContext(o).metric = o
      BY DEF FromContext
    <3> QED  BY <1>2, <2>1, <3>1, <3>2
  <2>3. CASE context # NoContext /\ single = FromContext(m)
    <3>1. PICK a \in Assessments : context = SnapshotContext(a)
      BY <2>3 DEF IInv
    <3>2. /\ context.family = a.family
          /\ context.ambiguous = (a.status = "ambiguous")
          /\ context = [family |-> a.family, deltas |-> TRUE,
                        ambiguous |-> a.status = "ambiguous"]
      BY <2>1, <3>1 DEF SnapshotContext
    <3>3. e = MetricReport(m, context.family, context.ambiguous, context, FALSE)
      BY <1>2, <2>3 DEF FromContext
    <3>4. e = MetricReport(m, a.family, a.status = "ambiguous",
                           [family |-> a.family, deltas |-> TRUE,
                            ambiguous |-> a.status = "ambiguous"], FALSE)
      BY <3>2, <3>3
    <3>5. (a.status = "ambiguous") \in BOOLEAN
      OBVIOUS
    <3> QED  BY <2>1, <2>2, <3>4, <3>5
  <2>4. CASE \E f \in Families \cup {NoFamily} : single = FromFamily(m, f)
    <3>1. single.from = "family"
      BY <2>4 DEF FromFamily
    <3> QED  BY <1>2, <2>1, <2>2, <2>4, <3>1
  <2> QED  BY <2>1, <2>2, <2>3, <2>4
<1> QED  BY <1>1, <1>2 DEF Made

\* A fixable repair: the family is its target, and no confounding one is matched.
LEMMA FixableMeans ==
  ASSUME NEW m \in Metrics, NEW c, Level(m, c) = "auto_fixable"
  PROVE  /\ Evidence[m] = 2 /\ Target[m] # NoFamily /\ c.family = Target[m]
         /\ AlsoMatched(m, c) = {}
<1>1. Evidence[m] \in 0..2
  BY WeightsAssumption
<1>2. Evidence[m] = 2 /\ ReviewReason(m, c) = "none"
  BY <1>1 DEF Level
<1> QED  BY <1>2 DEF ReviewReason

-----------------------------------------------------------------------------

\* The report names a family exactly when the observation establishes it, and no
\* second family can be named (assess_signature_match and build_full_report).
THEOREM MatchEstablished == Spec => []MatchIsEstablished
<1>1. IInv => MatchIsEstablished
  <2> SUFFICES ASSUME IInv, full # NoReport
               PROVE  /\ \A f \in Families : full.family = f <=> Established(f)
                      /\ full.status = "match" <=> full.family # NoFamily
    BY DEF MatchIsEstablished
  <2>1. PICK a \in Assessments : full = FullReport(a)
    BY DEF IInv
  <2> QED  BY <2>1, FullParts, AssessmentMeans DEF IInv
<1> QED  BY <1>1, Inductive, PTL

\* No recommendation is AUTO_FIXABLE unless the family its repair was validated on
\* is established, alone, or named by the caller (classify_recommendation_level).
THEOREM FailsClosed == Spec => []FailClosed
<1>1. IInv => FailClosed
  <2> SUFFICES ASSUME IInv, NEW m \in Metrics, NEW e \in Made(m)
               PROVE  /\ e.level = "auto_fixable" =>
                           e.action = "suggested" /\ e.parameter # "none"
                      /\ \/ e.level = "auto_fixable" \/ e.parameter # "none"
                         \/ Evidence[m] = 2 /\ e.action = "suggested"
                         => /\ Evidence[m] = 2
                            /\ e.family = Target[m] /\ Target[m] # NoFamily
                            /\ \/ single # NoReport /\ single.from = "family"
                                  /\ e = single.entry
                               \/ /\ Established(e.family)
                                  /\ \A f \in Confounders[m] :
                                       seen.similarity[f] < Threshold
    BY DEF FailClosed
  <2>a. PICK f0, amb, c0, g0 : e = MetricReport(m, f0, amb, c0, g0)
    <3>1. CASE \E a \in Assessments, g \in BOOLEAN, b \in BOOLEAN :
                 e = MetricReport(m, a.family, a.status = "ambiguous",
                                  [family |-> a.family, deltas |-> TRUE,
                                   ambiguous |-> b], g)
      <4>1. PICK a \in Assessments, g \in BOOLEAN, b \in BOOLEAN :
               e = MetricReport(m, a.family, a.status = "ambiguous",
                                [family |-> a.family, deltas |-> TRUE,
                                 ambiguous |-> b], g)
        BY <3>1
      <4> DEFINE amb == a.status = "ambiguous"
                 c == [family |-> a.family, deltas |-> TRUE, ambiguous |-> b]
      <4>2. e = MetricReport(m, a.family, amb, c, g)
        BY <4>1
      <4> HIDE DEF amb, c
      <4> QED  BY <4>2, Zenon
    <3>2. CASE \E f \in Families \cup {NoFamily} : e = FromFamily(m, f).entry
      <4>1. PICK f \in Families \cup {NoFamily} : e = FromFamily(m, f).entry
        BY <3>2
      <4> DEFINE c == IF f = NoFamily THEN NoContext
                      ELSE [family |-> f, deltas |-> FALSE, ambiguous |-> FALSE]
      <4>2. e = MetricReport(m, f, FALSE, c, FALSE)
        BY <4>1 DEF FromFamily
      <4> HIDE DEF c
      <4> QED  BY <4>2, Zenon
    <3> QED  BY <3>1, <3>2, MadeParts
  <2>b. /\ e.level = Level(m, c0) /\ e.action = Action(m, e.level)
        /\ e.parameter = IF e.level = "auto_fixable" THEN ParameterSource[m] ELSE "none"
    BY <2>a, EntryParts
  <2>c. e.level = "auto_fixable" => e.action = "suggested" /\ e.parameter # "none"
    BY <2>b, FixableMeans, TablesAssumption DEF Action
  <2>d. \/ e.parameter # "none"
        \/ Evidence[m] = 2 /\ e.action = "suggested"
        => e.level = "auto_fixable"
    BY <2>b DEF Action, Level
  <2> SUFFICES ASSUME e.level = "auto_fixable"
               PROVE  /\ Evidence[m] = 2
                      /\ e.family = Target[m] /\ Target[m] # NoFamily
                      /\ \/ single # NoReport /\ single.from = "family" /\ e = single.entry
                         \/ /\ Established(e.family)
                            /\ \A f \in Confounders[m] : seen.similarity[f] < Threshold
    BY <2>c, <2>d
  <2>1. CASE \E a \in Assessments, g \in BOOLEAN, b \in BOOLEAN :
               e = MetricReport(m, a.family, a.status = "ambiguous",
                                [family |-> a.family, deltas |-> TRUE,
                                 ambiguous |-> b], g)
    <3>1. PICK a \in Assessments, g \in BOOLEAN, b \in BOOLEAN :
             e = MetricReport(m, a.family, a.status = "ambiguous",
                              [family |-> a.family, deltas |-> TRUE,
                               ambiguous |-> b], g)
      BY <2>1
    <3> DEFINE c == [family |-> a.family, deltas |-> TRUE, ambiguous |-> b]
    <3>2. c.family = a.family /\ c.deltas
      OBVIOUS
    <3>3. e.family = a.family /\ Level(m, c) = "auto_fixable"
      BY <3>1, EntryParts
    <3> HIDE DEF c
    <3>4. /\ Evidence[m] = 2 /\ Target[m] # NoFamily /\ a.family = Target[m]
          /\ AlsoMatched(m, c) = {}
      BY <3>2, <3>3, FixableMeans
    <3>5. Established(a.family)
      BY <3>4, AssessmentMeans DEF IInv
    <3>6. Cardinality(Significant) >= MinMetrics
      BY <3>5 DEF Established
    <3>7. ASSUME NEW f \in Confounders[m] PROVE seen.similarity[f] < Threshold
      <4>1. f \in Families
        BY TablesAssumption
      <4>2. ~(seen.similarity[f] >= Threshold)
        BY <3>2, <3>4, <3>6 DEF AlsoMatched
      <4>3. seen.similarity[f] \in Int /\ Threshold \in Int
        BY <4>1, CalibrationAssumption DEF IInv, SeenOK
      <4> QED  BY <4>2, <4>3
    <3> QED  BY <3>3, <3>4, <3>5, <3>7
  <2>2. CASE /\ single # NoReport /\ single.from = "family" /\ e = single.entry
             /\ \E f \in Families \cup {NoFamily} : e = FromFamily(m, f).entry
    <3>1. PICK f \in Families \cup {NoFamily} : e = FromFamily(m, f).entry
      BY <2>2
    <3>2. CASE f = NoFamily
      <4>0. e = MetricReport(m, NoFamily, FALSE, NoContext, FALSE)
        BY <3>1, <3>2 DEF FromFamily
      <4>1. e.level = Level(m, NoContext)
        BY <4>0 DEF MetricReport
      <4>2. ReviewReason(m, NoContext) # "none"
        BY DEF ReviewReason
      <4>3. Evidence[m] \in 0..2
        BY WeightsAssumption
      <4> QED  BY <4>1, <4>2, <4>3 DEF Level
    <3>3. CASE f # NoFamily
      <4> DEFINE c == [family |-> f, deltas |-> FALSE, ambiguous |-> FALSE]
      <4>0. e = MetricReport(m, f, FALSE, c, FALSE) /\ c.family = f
        BY <3>1, <3>3 DEF FromFamily
      <4>1. e.family = f /\ e.level = Level(m, c) /\ c.family = f
        BY <4>0 DEF MetricReport
      <4> HIDE DEF c
      <4> QED  BY <2>2, <4>1, FixableMeans
    <3> QED  BY <3>2, <3>3
  <2> QED  BY <2>1, <2>2, MadeParts
<1> QED  BY <1>1, Inductive, PTL

\* A delta at the floor of the signatures is a strength at the floor of the status.
LEMMA SignificantIsStrong ==
  ASSUME NEW r \in [shared : BOOLEAN, number : BOOLEAN, b : Int, c : Int],
         r.number, Abs(SignedDelta(r)) >= NoiseFloor
  PROVE  ~(Strength(r) < NoiseFloor)
<1>1. CASE r.b = 0
  BY <1>1 DEF Strength, SignedDelta, Abs, NoiseFloor
<1>2. CASE r.b # 0
  <2>1. Abs(r.b) \in Nat \ {0} /\ (r.c - r.b) * 100 \in Int
    BY <1>2 DEF Abs
  <2>2. SignedDelta(r) \in Int
    BY <1>2, <2>1 DEF SignedDelta
  <2>3. Abs(SignedDelta(r)) \in Int
    BY <2>2 DEF Abs
  <2> QED  BY <1>2, <2>3 DEF Strength, NoiseFloor
<1> QED  BY <1>1, <1>2

LEMMA UnchangedIsWeak ==
  ASSUME NEW r \in [shared : BOOLEAN, number : BOOLEAN, b : Int, c : Int],
         r.number, r.b = r.c
  PROVE  Strength(r) = 0 /\ SignedDelta(r) = 0
<1>1. CASE r.b = 0
  BY <1>1 DEF Strength, SignedDelta
<1>2. CASE r.b # 0
  <2>1. (r.c - r.b) * 100 = 0 /\ Abs(r.b) \in Nat \ {0}
    BY <1>2 DEF Abs
  <2>2. SignedDelta(r) = 0
    BY <1>2, <2>1 DEF SignedDelta
  <2> QED  BY <1>2, <2>2 DEF Strength, Abs
<1> QED  BY <1>1, <1>2

\* A metric of the matched pattern is never NORMAL, and an unchanged one always: the
\* three readings of a change agree (signed_delta, _diagnostic_strength_from_drift,
\* interpret_drift).
THEOREM GroupedNotNormal == Spec => []GroupedIsNotNormal
<1>1. IInv => GroupedIsNotNormal
  <2> SUFFICES ASSUME IInv, full # NoReport, NEW m \in Shared
               PROVE  /\ full.entries[m].grouped => full.entries[m].status # "normal"
                      /\ full.entries[m].change = "no_change" =>
                           full.entries[m].status = "normal" /\ ~full.entries[m].grouped
    BY DEF GroupedIsNotNormal
  <2>1. PICK a \in Assessments : full = FullReport(a)
    BY DEF IInv
  <2>2. PICK g \in BOOLEAN :
          /\ full.entries[m] =
               MetricReport(m, a.family, a.status = "ambiguous",
                            [family |-> a.family, deltas |-> Shared # {},
                             ambiguous |-> FALSE], g)
          /\ g => a.status = "match" /\ m \in Significant
    BY <2>1, FullParts
  <2> DEFINE c == [family |-> a.family, deltas |-> Shared # {}, ambiguous |-> FALSE]
             e == MetricReport(m, a.family, a.status = "ambiguous", c, g)
             r == seen.readings[m]
  <2>3. /\ full.entries[m] = e /\ e.grouped = g /\ e.change = Change(r)
        /\ e.status = Status(Strength(r), ~(a.status = "ambiguous") /\ a.family # NoFamily
                                            /\ IndexLossIsSevere(a.family))
    <3>1. full.entries[m] = e
      BY <2>2
    <3>2. e.grouped = g
      BY EntryGrouped
    <3>3. e.change = Change(r)
      BY DEF MetricReport
    <3>4. e.status = Status(Strength(r), ~(a.status = "ambiguous") /\ a.family # NoFamily
                                            /\ IndexLossIsSevere(a.family))
      BY Zenon DEF MetricReport
    <3> QED  BY <3>1, <3>2, <3>3, <3>4
  <2>4. r \in [shared : BOOLEAN, number : BOOLEAN, b : Int, c : Int]
    BY DEF IInv, SeenOK, Shared
  <2>5. g => r.number /\ Abs(SignedDelta(r)) >= NoiseFloor
    BY <2>2 DEF Significant
  <2> HIDE DEF e, r, c
  <2>6. ASSUME g PROVE e.status # "normal"
    <3>1. ~(Strength(r) < NoiseFloor)
      BY <2>4, <2>5, <2>6, SignificantIsStrong
    <3> QED  BY <2>3, <3>1 DEF Status
  <2>7. ASSUME e.change = "no_change" PROVE e.status = "normal" /\ ~g
    <3>1. r.number /\ r.b = r.c
      BY <2>3, <2>7 DEF Change
    <3>2. Strength(r) = 0 /\ SignedDelta(r) = 0
      BY <2>4, <3>1, UnchangedIsWeak
    <3>3. e.status = "normal"
      BY <2>3, <3>2 DEF Status, NoiseFloor
    <3>4. ~(Abs(SignedDelta(r)) >= NoiseFloor)
      BY <3>2 DEF Abs, NoiseFloor
    <3> QED  BY <2>5, <3>3, <3>4
  <2> QED  BY <2>3, <2>6, <2>7
<1> QED  BY <1>1, Inductive, PTL

LEMMA UrgentMeans ==
  ASSUME NEW m, NEW f, NEW ambiguous, NEW c, NEW g,
         MetricReport(m, f, ambiguous, c, g).status = "urgent"
  PROVE  f # NoFamily /\ IndexLossIsSevere(f) /\ ~(Strength(seen.readings[m]) < NoiseFloor)
BY DEF MetricReport, Status

\* URGENT needs a change, and a family that is established and was measured to lose
\* most of its recall under the declared index (_classify_status).
THEOREM UrgentMeasured == Spec => []UrgentIsMeasured
<1>1. IInv => UrgentIsMeasured
  <2> SUFFICES ASSUME IInv, full # NoReport, NEW m \in Shared,
                      full.entries[m].status = "urgent"
               PROVE  /\ \E f \in Families : Established(f) /\ <<f, seen.index>> \in SevereLoss
                      /\ ~(seen.readings[m].number /\ seen.readings[m].b = seen.readings[m].c)
    BY DEF UrgentIsMeasured
  <2>1. PICK a \in Assessments : full = FullReport(a)
    BY DEF IInv
  <2>2. PICK g \in BOOLEAN :
          full.entries[m] =
            MetricReport(m, a.family, a.status = "ambiguous",
                         [family |-> a.family, deltas |-> Shared # {},
                          ambiguous |-> FALSE], g)
    BY <2>1, FullParts
  <2>3. /\ a.family # NoFamily /\ IndexLossIsSevere(a.family)
        /\ ~(Strength(seen.readings[m]) < NoiseFloor)
    BY <2>2, UrgentMeans
  <2>4. a.family \in Families /\ Established(a.family)
    BY <2>3, AssessmentMeans DEF IInv
  <2> DEFINE r == seen.readings[m]
  <2>5. ASSUME r.number, r.b = r.c PROVE FALSE
    <3>1. r \in [shared : BOOLEAN, number : BOOLEAN, b : Int, c : Int]
      BY DEF IInv, SeenOK, Shared
    <3>2. ~(Strength(r) < NoiseFloor)
      BY <2>3
    <3> HIDE DEF r
    <3> QED  BY <2>5, <3>1, <3>2, UnchangedIsWeak DEF NoiseFloor
  <2> QED  BY <2>3, <2>4, <2>5 DEF IndexLossIsSevere
<1> QED  BY <1>1, Inductive, PTL

\* An entry made under an ambiguous match.
LEMMA CautiousEntry ==
  ASSUME NEW m \in Metrics, NEW c, c.family = NoFamily
  PROVE  LET e == MetricReport(m, NoFamily, TRUE, c, FALSE)
         IN  /\ e.status # "urgent" /\ ~e.grouped /\ e.level # "auto_fixable"
             /\ e.family = NoFamily
             /\ e.warning = IF seen.index \in Approximate THEN "cautious" ELSE "none"
<1> DEFINE e == MetricReport(m, NoFamily, TRUE, c, FALSE)
<1>1. e.status # "urgent" /\ e.family = NoFamily
  BY DEF MetricReport, Status
<1>2. e.grouped = FALSE
  BY DEF MetricReport
<1>3. e.warning = IF seen.index \in Approximate THEN "cautious" ELSE "none"
  BY DEF MetricReport, AnnWarning
<1>4. e.level # "auto_fixable"
  <2>1. e.level = Level(m, c)
    BY DEF MetricReport
  <2> QED  BY <2>1, FixableMeans
<1> QED  BY <1>1, <1>2, <1>3, <1>4

\* While the match is ambiguous no family is named anywhere, and every warning about
\* an approximate index is the cautious one (ann_context_warning).
THEOREM AmbiguityCautious == Spec => []AmbiguityIsCautious
<1>1. IInv => AmbiguityIsCautious
  <2> SUFFICES ASSUME IInv, full # NoReport, full.status = "ambiguous"
               PROVE  /\ full.family = NoFamily
                      /\ \A m \in Shared : \A e \in Made(m) :
                           (e = full.entries[m] \/ single.from = "context") =>
                             /\ e.status # "urgent" /\ ~e.grouped
                             /\ e.level # "auto_fixable"
                             /\ e.family = NoFamily
                             /\ e.warning = IF seen.index \in Approximate
                                            THEN "cautious" ELSE "none"
    BY DEF AmbiguityIsCautious
  <2>1. PICK a \in Assessments : full = FullReport(a)
    BY DEF IInv
  <2>2. a.status = "ambiguous" /\ a.family = NoFamily /\ full.family = NoFamily
    BY <2>1, FullParts, AssessmentMeans DEF IInv
  <2>3. ASSUME NEW m \in Shared
        PROVE  \E c : c.family = NoFamily
                        /\ full.entries[m] = MetricReport(m, NoFamily, TRUE, c, FALSE)
    <3> DEFINE c == [family |-> a.family, deltas |-> Shared # {}, ambiguous |-> FALSE]
    <3>1. PICK g \in BOOLEAN :
            /\ full.entries[m] = MetricReport(m, a.family, a.status = "ambiguous", c, g)
            /\ g => a.status = "match"
      BY <2>1, FullParts
    <3>2. g = FALSE /\ (a.status = "ambiguous") = TRUE
      BY <2>2, <3>1
    <3>3. c.family = NoFamily
      BY <2>2
    <3> HIDE DEF c
    <3> QED  BY <2>2, <3>1, <3>2, <3>3, Zenon
  <2>4. ASSUME NEW m \in Shared, single # NoReport, single.metric = m,
               single.from = "context"
        PROVE  \E c : c.family = NoFamily
                        /\ single.entry = MetricReport(m, NoFamily, TRUE, c, FALSE)
    <3>1. PICK o \in Shared :
             \/ context # NoContext /\ single = FromContext(o)
             \/ \E f \in Families \cup {NoFamily} : single = FromFamily(o, f)
      BY <2>4 DEF IInv, SingleOK
    <3>2. \A f : FromFamily(o, f).from = "family"
      BY DEF FromFamily
    <3>3. context # NoContext /\ single = FromContext(o)
      BY <2>4, <3>1, <3>2
    <3>4. o = m
      BY <2>4, <3>3 DEF FromContext
    <3>5. PICK b \in Assessments : context = SnapshotContext(b)
      BY <3>3 DEF IInv
    <3>6. b = a
      BY <3>5, AssessmentUnique DEF IInv
    <3>7. context.family = NoFamily /\ context.ambiguous = TRUE
      BY <2>2, <3>5, <3>6 DEF SnapshotContext
    <3>8. single.entry =
            MetricReport(m, context.family, context.ambiguous, context, FALSE)
      BY <3>3, <3>4 DEF FromContext
    <3> QED  BY <3>7, <3>8, Zenon
  <2>5. ASSUME NEW m \in Shared, NEW e \in Made(m),
               e = full.entries[m] \/ single.from = "context"
        PROVE  \E c : c.family = NoFamily
                        /\ e = MetricReport(m, NoFamily, TRUE, c, FALSE)
    BY <2>3, <2>4, <2>5 DEF Made
  <2>6. ASSUME NEW m \in Shared, NEW e \in Made(m),
               e = full.entries[m] \/ single.from = "context"
        PROVE  /\ e.status # "urgent" /\ ~e.grouped /\ e.level # "auto_fixable"
               /\ e.family = NoFamily
               /\ e.warning = IF seen.index \in Approximate THEN "cautious" ELSE "none"
    <3>1. PICK c : c.family = NoFamily
                     /\ e = MetricReport(m, NoFamily, TRUE, c, FALSE)
      BY <2>5, <2>6
    <3>2. m \in Metrics
      BY DEF Shared
    <3> QED  BY <3>1, <3>2, CautiousEntry
  <2> QED  BY <2>2, <2>6
<1> QED  BY <1>1, Inductive, PTL

\* A metric report built from from_snapshots and the full report of the same
\* snapshots give a metric one status, warning, level and priority.
THEOREM PathsAgreed == Spec => []PathsAgree
<1>1. IInv => PathsAgree
  <2> SUFFICES ASSUME IInv, full # NoReport, single # NoReport, single.from = "context"
               PROVE  LET e == full.entries[single.metric]
                          s == single.entry
                      IN  /\ e.status = s.status /\ e.warning = s.warning
                          /\ e.family = s.family
                          /\ e.level = s.level /\ e.priority = s.priority
                          /\ e.action = s.action /\ e.change = s.change
    BY DEF PathsAgree
  <2>1. PICK a \in Assessments : full = FullReport(a)
    BY DEF IInv
  <2>2. PICK m \in Shared :
           \/ context # NoContext /\ single = FromContext(m)
           \/ \E f \in Families \cup {NoFamily} : single = FromFamily(m, f)
    BY DEF IInv, SingleOK
  <2>3. context # NoContext /\ single = FromContext(m)
    <3>1. \A f : FromFamily(m, f).from = "family"
      BY DEF FromFamily
    <3> QED  BY <2>2, <3>1
  <2>4. PICK b \in Assessments : context = SnapshotContext(b)
    BY <2>3 DEF IInv
  <2>5. b = a
    BY <2>4, AssessmentUnique DEF IInv
  <2> DEFINE ambiguous == a.status = "ambiguous"
             c == [family |-> a.family, deltas |-> Shared # {}, ambiguous |-> FALSE]
  <2>6. PICK g \in BOOLEAN :
          full.entries[m] = MetricReport(m, a.family, ambiguous, c, g)
    BY <2>1, FullParts
  <2>7. /\ context.family = a.family /\ context.ambiguous = ambiguous
        /\ context.deltas = (Shared # {})
    BY <2>4, <2>5 DEF SnapshotContext
  <2>8. /\ single.metric = m
        /\ single.entry = MetricReport(m, a.family, ambiguous, context, FALSE)
    BY <2>3, <2>7 DEF FromContext
  <2>9. c # NoContext /\ c.family = a.family /\ c.deltas = (Shared # {})
    <3>1. a.family \in Families \cup {NoFamily} /\ (Shared # {}) \in BOOLEAN
      BY AssessmentMeans DEF IInv
    <3>2. c \in [family : Families \cup {NoFamily}, deltas : BOOLEAN, ambiguous : BOOLEAN]
      BY <3>1
    <3> QED  BY <3>2, TablesAssumption
  <2>10. Level(m, c) = Level(m, context)
    <3> HIDE DEF c
    <3>1. AlsoMatched(m, c) = AlsoMatched(m, context)
      BY <2>7, <2>9 DEF AlsoMatched
    <3>2. Shared # {}
      OBVIOUS
    <3>3. ReviewReason(m, c) = "none" <=> ReviewReason(m, context) = "none"
      BY <2>3, <2>7, <2>9, <3>1, <3>2 DEF ReviewReason
    <3> QED  BY <3>3 DEF Level
  <2>11. ambiguous \in BOOLEAN
    OBVIOUS
  <2> DEFINE e == MetricReport(m, a.family, ambiguous, c, g)
             s == MetricReport(m, a.family, ambiguous, context, FALSE)
  <2>12. /\ e.status = s.status /\ e.warning = s.warning /\ e.family = s.family
         /\ e.level = s.level /\ e.priority = s.priority
         /\ e.action = s.action /\ e.change = s.change
    <3> HIDE DEF c, ambiguous
    <3>1. /\ e.level = Level(m, c) /\ s.level = Level(m, context)
          /\ e.action = Action(m, Level(m, c)) /\ s.action = Action(m, Level(m, context))
          /\ e.change = s.change
      BY DEF MetricReport
    <3>2. /\ e.warning = AnnWarning(a.family, ambiguous)
          /\ s.warning = AnnWarning(a.family, ambiguous)
          /\ e.family = s.family /\ e.priority = s.priority
      BY DEF MetricReport
    <3>3. e.status = s.status
      BY Zenon DEF MetricReport
    <3> QED  BY <2>10, <3>1, <3>2, <3>3
  <2>13. full.entries[single.metric] = e /\ single.entry = s
    BY <2>6, <2>8
  <2> HIDE DEF e, s
  <2> QED  BY <2>12, <2>13
<1> QED  BY <1>1, Inductive, PTL

-----------------------------------------------------------------------------
(* Types.                                                                  *)

LEMMA StrengthRange ==
  ASSUME NEW r \in [shared : BOOLEAN, number : BOOLEAN, b : Int, c : Int]
  PROVE  Strength(r) \in 0..100
<1>1. CASE r.b = 0
  BY <1>1 DEF Strength
<1>2. CASE r.b # 0
  <2>1. Abs(r.b) \in Nat \ {0} /\ (r.c - r.b) * 100 \in Int
    BY <1>2 DEF Abs
  <2>2. SignedDelta(r) \in Int
    BY <1>2, <2>1 DEF SignedDelta
  <2>3. Abs(SignedDelta(r)) \in Nat
    BY <2>2 DEF Abs
  <2> QED  BY <1>2, <2>3 DEF Strength
<1> QED  BY <1>1, <1>2

LEMMA PriorityBound ==
  ASSUME NEW m \in Metrics, NEW strength \in 0..100
  PROVE  /\ Score(DefaultVariant, m, strength) \in Nat
         /\ Score(DefaultVariant, m, strength)
              <= 100 * CausalWeight[Evidence[m]] * Reliability[m]
<1> DEFINE w == CausalWeight[Evidence[m]]
           r == Reliability[m]
<1>1. w \in Nat /\ r \in Nat
  BY WeightsAssumption
<1> HIDE DEF w, r
<1>2. strength * w \in Nat /\ strength * w <= 100 * w /\ 100 * w \in Nat
  BY <1>1, SMT
<1>3. \A x, y \in Nat : x <= y => x * r \in Nat /\ x * r <= y * r
  BY <1>1, SMT
<1>4. strength * w * r \in Nat /\ strength * w * r <= 100 * w * r
  <2> DEFINE x == strength * w
             y == 100 * w
  <2>1. x \in Nat /\ y \in Nat /\ x <= y
    BY <1>2
  <2> HIDE DEF x, y
  <2>2. x * r \in Nat /\ x * r <= y * r
    BY <1>3, <2>1, Zenon
  <2> QED  BY <2>2 DEF x, y
<1> QED  BY <1>4 DEF Score, DefaultVariant, Multiplicative, w, r

LEMMA EntryTyped ==
  ASSUME SeenOK, NEW m \in Metrics, NEW f \in Families \cup {NoFamily},
         NEW ambiguous \in BOOLEAN, NEW c, NEW g \in BOOLEAN
  PROVE  /\ MetricReport(m, f, ambiguous, c, g) \in EntryType
         /\ MetricReport(m, f, ambiguous, c, g).priority
              <= 100 * CausalWeight[Evidence[m]] * Reliability[m]
<1> DEFINE e == MetricReport(m, f, ambiguous, c, g)
           strength == Strength(seen.readings[m])
<1>1. strength \in 0..100
  BY StrengthRange, Zenon DEF SeenOK
<1>2. e.priority = Score(DefaultVariant, m, strength)
  BY Zenon DEF MetricReport
<1>3. Score(DefaultVariant, m, strength) \in Nat
  BY <1>1, PriorityBound
<1>4. Level(m, c) \in Levels
  <2>1. Evidence[m] \in 0..2
    BY WeightsAssumption
  <2> QED  BY <2>1 DEF Level, Levels
<1>5. ReviewReason(m, c) \in Reasons
  BY DEF ReviewReason, Reasons
<1>6. \A severe : Status(strength, severe) \in Statuses
  BY DEF Status, Statuses
<1>7. AnnWarning(f, ambiguous) \in Warnings
  BY DEF AnnWarning, Warnings
<1>8. e \in EntryType
  <2> DEFINE s == Status(strength, ~ambiguous /\ f # NoFamily /\ IndexLossIsSevere(f))
             l == Level(m, c)
             r == IF l = "review_required" THEN ReviewReason(m, c) ELSE "none"
             p == Score(DefaultVariant, m, strength)
             x == Action(m, l)
             y == IF l = "auto_fixable" THEN ParameterSource[m] ELSE "none"
             z == Change(seen.readings[m])
             w == AnnWarning(f, ambiguous)
  <2>1. e = [status |-> s, warning |-> w, family |-> f, level |-> l, reason |-> r,
             action |-> x, parameter |-> y, change |-> z, grouped |-> g, priority |-> p]
    BY DEF MetricReport
  <2>2. s \in Statuses
    BY <1>6
  <2>3. r \in Reasons
    BY <1>5 DEF Reasons
  <2>4. x \in Actions /\ z \in Changes
    BY DEF Action, Actions, Change, Changes
  <2>5. y \in ParameterSources
    BY TablesAssumption DEF ParameterSources
  <2>6. l \in Levels /\ p \in Nat /\ w \in Warnings
    BY <1>3, <1>4, <1>7
  <2> HIDE DEF s, r, l, p, w, e, x, y, z
  <2> QED  BY <2>1, <2>2, <2>3, <2>4, <2>5, <2>6 DEF EntryType
<1> QED  BY <1>1, <1>2, <1>8, PriorityBound

\* The statuses, levels, warnings and reasons are those the code has, and no score
\* exceeds that of a full signal: compute_priority's check never fails.
THEOREM TypeCorrect == Spec => []TypeOK
<1>1. IInv => TypeOK
  <2> SUFFICES ASSUME IInv PROVE TypeOK
    OBVIOUS
  <2>1. \A m \in Shared : m \in Metrics
    BY DEF Shared
  <2>2. context # NoContext =>
          /\ context.family \in Families \cup {NoFamily}
          /\ context.deltas \in BOOLEAN /\ context.ambiguous \in BOOLEAN
    <3> SUFFICES ASSUME context # NoContext
                 PROVE  /\ context.family \in Families \cup {NoFamily}
                        /\ context.deltas \in BOOLEAN /\ context.ambiguous \in BOOLEAN
      OBVIOUS
    <3>1. PICK a \in Assessments : context = SnapshotContext(a)
      BY DEF IInv
    <3>2. /\ context.family = a.family /\ context.deltas = (Shared # {})
          /\ context.ambiguous = (a.status = "ambiguous")
      BY <3>1 DEF SnapshotContext
    <3>3. a.family \in Families \cup {NoFamily}
      BY AssessmentMeans DEF IInv
    <3>4. (Shared # {}) \in BOOLEAN /\ (a.status = "ambiguous") \in BOOLEAN
      OBVIOUS
    <3> QED  BY <3>2, <3>3, <3>4
  <2>3. full # NoReport =>
          /\ full.status \in {"none", "ambiguous", "match"}
          /\ full.family \in Families \cup {NoFamily}
          /\ DOMAIN full.entries = Shared
    BY FullParts, AssessmentMeans DEF IInv
  <2>4. single # NoReport => single.metric \in Shared
    <3>1. \A m, f : FromFamily(m, f).metric = m
      BY DEF FromFamily
    <3>2. \A m : FromContext(m).metric = m
      BY DEF FromContext
    <3> QED  BY <3>1, <3>2 DEF IInv, SingleOK
  <2>5. ASSUME NEW m \in Metrics, NEW e \in Made(m)
        PROVE  /\ e \in EntryType
               /\ e.priority <= 100 * CausalWeight[Evidence[m]] * Reliability[m]
    <3>1. \E f \in Families \cup {NoFamily}, ambiguous \in BOOLEAN, g \in BOOLEAN :
            \E c : e = MetricReport(m, f, ambiguous, c, g)
      <4>1. CASE \E a \in Assessments, g \in BOOLEAN, b \in BOOLEAN :
                   e = MetricReport(m, a.family, a.status = "ambiguous",
                                    [family |-> a.family, deltas |-> TRUE,
                                     ambiguous |-> b], g)
        <5>1. PICK a \in Assessments, g \in BOOLEAN, b \in BOOLEAN :
                 e = MetricReport(m, a.family, a.status = "ambiguous",
                                  [family |-> a.family, deltas |-> TRUE,
                                   ambiguous |-> b], g)
          BY <4>1
        <5>2. (a.status = "ambiguous") \in BOOLEAN /\ a.family \in Families \cup {NoFamily}
          BY AssessmentMeans DEF IInv
        <5> QED  BY <5>1, <5>2, Zenon
      <4>2. CASE \E f \in Families \cup {NoFamily} : e = FromFamily(m, f).entry
        BY <4>2 DEF FromFamily
      <4> QED  BY <4>1, <4>2, MadeParts
    <3> QED  BY <3>1, EntryTyped DEF IInv
  <2> QED  BY <2>2, <2>3, <2>4, <2>5 DEF TypeOK
<1> QED  BY <1>1, Inductive, PTL

-----------------------------------------------------------------------------
(* The order of a report.                                                  *)

\* What one grade of evidence weighs more than a lower one, in the product and in
\* the sum, whatever the two reliabilities are.
LEMMA EvidenceOutweighs ==
  ASSUME NEW m \in Metrics, NEW o \in Metrics, Evidence[m] > Evidence[o]
  PROVE  /\ CausalWeight[Evidence[m]] * Reliability[m]
              > CausalWeight[Evidence[o]] * Reliability[o]
         /\ 350 * CausalScore[Evidence[m]] + 150 * Reliability[m]
              > 350 * CausalScore[Evidence[o]] + 150 * Reliability[o]
<1> DEFINE r == Reliability[m]
           q == Reliability[o]
<1>1. r \in 6..10 /\ q \in 6..10 /\ Evidence[m] \in 0..2 /\ Evidence[o] \in 0..2
  BY WeightsAssumption
<1>2. /\ CausalWeight[0] \in Nat /\ CausalWeight[1] \in Nat /\ CausalWeight[2] \in Nat
      /\ CausalScore[0] \in Nat /\ CausalScore[1] \in Nat /\ CausalScore[2] \in Nat
      /\ 6 * CausalWeight[1] > 10 * CausalWeight[0]
      /\ 6 * CausalWeight[2] > 10 * CausalWeight[1]
      /\ CausalScore[1] - CausalScore[0] >= 2 /\ CausalScore[2] - CausalScore[1] >= 2
  <2>1. 0 \in 0..1 /\ 1 \in 0..1 /\ 0 + 1 = 1 /\ 1 + 1 = 2
    OBVIOUS
  <2> QED  BY <2>1, WeightsAssumption
<1>3. \/ Evidence[m] = 1 /\ Evidence[o] = 0
      \/ Evidence[m] = 2 /\ Evidence[o] = 1
      \/ Evidence[m] = 2 /\ Evidence[o] = 0
  BY <1>1
<1> HIDE DEF r, q
<1>4. PICK a \in Nat, b \in Nat : /\ a = CausalWeight[Evidence[m]]
                                 /\ b = CausalWeight[Evidence[o]]
                                 /\ 6 * a > 10 * b
  BY <1>2, <1>3
<1>5. a * r > b * q
  <2>1. a * r >= 6 * a
    BY <1>1, <1>4, SMT
  <2>2. 10 * b >= b * q
    BY <1>1, <1>4, SMT
  <2>3. a * r \in Int /\ b * q \in Int
    BY <1>1, <1>4
  <2> QED  BY <1>4, <2>1, <2>2, <2>3
<1>6. 350 * CausalScore[Evidence[m]] + 150 * r > 350 * CausalScore[Evidence[o]] + 150 * q
  BY <1>1, <1>2, <1>3
<1> QED  BY <1>4, <1>5, <1>6 DEF r, q

\* Of two metrics the one with more evidence has the higher score, in every variant
\* if they moved alike, in the lexicographic one in any case.
LEMMA EvidenceOutscores ==
  ASSUME NEW variant \in Variants, NEW m \in Metrics, NEW o \in Metrics,
         NEW s \in 0..100, NEW t \in 0..100, Evidence[m] > Evidence[o],
         variant = "lexicographic" \/ (s = t /\ s > 0)
  PROVE  /\ Score(variant, m, s) \in Int /\ Score(variant, o, t) \in Int
         /\ Score(variant, m, s) > Score(variant, o, t)
<1> DEFINE r == Reliability[m]
           q == Reliability[o]
           a == CausalWeight[Evidence[m]]
           b == CausalWeight[Evidence[o]]
           x == CausalScore[Evidence[m]]
           y == CausalScore[Evidence[o]]
<1>1. /\ r \in 6..10 /\ q \in 6..10 /\ Evidence[m] \in 0..2 /\ Evidence[o] \in 0..2
      /\ a \in Nat /\ b \in Nat /\ x \in Nat /\ y \in Nat
  BY WeightsAssumption
<1>2. a * r > b * q /\ 350 * x + 150 * r > 350 * y + 150 * q
  BY EvidenceOutweighs
<1> HIDE DEF r, q, a, b, x, y
<1>3. CASE variant = "multiplicative"
  <2>1. Score(variant, m, s) = s * a * r /\ Score(variant, o, t) = s * b * q
    BY <1>3 DEF Score, Multiplicative, r, q, a, b
  <2>2. a * r \in Int /\ b * q \in Int
    BY <1>1
  <2>3. s * a * r = s * (a * r) /\ s * b * q = s * (b * q)
    BY <1>1, SMT
  <2>4. \A u, v \in Int : u > v => s * u \in Int /\ s * v \in Int /\ s * u > s * v
    BY <1>3, SMT
  <2> QED  BY <1>2, <2>1, <2>2, <2>3, <2>4
<1>4. CASE variant = "lexicographic"
  <2>1. /\ Score(variant, m, s) = Evidence[m] * 10000 + s * r
        /\ Score(variant, o, t) = Evidence[o] * 10000 + t * q
    BY <1>4 DEF Score, Lexicographic, r, q
  <2>2. s * r \in 0..1000 /\ t * q \in 0..1000
    BY <1>1, SMT
  <2> QED  BY <1>1, <2>1, <2>2
<1>5. CASE variant = "weighted_sum"
  <2>1. /\ Score(variant, m, s) = 50 * s + 350 * x + 150 * r
        /\ Score(variant, o, t) = 50 * s + 350 * y + 150 * q
    BY <1>5 DEF Score, WeightedSum, r, q, x, y
  <2> QED  BY <1>1, <1>2, <2>1
<1> QED  BY <1>3, <1>4, <1>5 DEF Variants

\* Every score is a number.
LEMMA ScoreType ==
  ASSUME NEW variant \in Variants, NEW m \in Metrics, NEW s \in 0..100
  PROVE  Score(variant, m, s) \in Int
<1>1. /\ Reliability[m] \in Int /\ Evidence[m] \in Int
      /\ CausalWeight[Evidence[m]] \in Int /\ CausalScore[Evidence[m]] \in Int
  BY WeightsAssumption
<1>2. \A x, y \in Int : x * y \in Int /\ x + y \in Int
  OBVIOUS
<1>3. Multiplicative(m, s) \in Int
  BY <1>1, <1>2 DEF Multiplicative
<1>4. Lexicographic(m, s) \in Int /\ WeightedSum(m, s) \in Int
  BY <1>1, <1>2 DEF Lexicographic, WeightedSum
<1> QED  BY <1>3, <1>4 DEF Variants, Score

\* A higher score is listed first: what is ahead of the higher one is ahead of the
\* lower one too, and so is the higher one itself (reports.sort).
LEMMA HigherIsFirst ==
  ASSUME NEW variant \in Variants, NEW S \in SUBSET Metrics,
         NEW strengths \in [S -> 0..100], NEW m \in S, NEW o \in S,
         Score(variant, m, strengths[m]) > Score(variant, o, strengths[o])
  PROVE  RankMetricsByPriority(variant, strengths)[m]
           < RankMetricsByPriority(variant, strengths)[o]
<1> DEFINE Before(x) == {y \in S : Ahead(variant, strengths, y, x)}
           score == [x \in S |-> Score(variant, x, strengths[x])]
<1>1. \A x \in S : score[x] \in Int /\ MetricOrder[x] \in Nat
  BY ScoreType, MetricsAssumption
<1>2. \A x, y \in S : Ahead(variant, strengths, x, y) <=>
        \/ score[x] > score[y]
        \/ score[x] = score[y] /\ MetricOrder[x] < MetricOrder[y]
  BY DEF Ahead
<1>3. score[m] > score[o]
  OBVIOUS
<1>4. Before(m) \subseteq Before(o) /\ m \in Before(o) /\ m \notin Before(m)
  <2> HIDE DEF score
  <2> QED  BY <1>1, <1>2, <1>3
<1>5. IsFiniteSet(S) /\ IsFiniteSet(Before(m)) /\ IsFiniteSet(Before(o))
  BY MetricsAssumption, FS_Subset
<1>6. /\ RankMetricsByPriority(variant, strengths)[m] = 1 + Cardinality(Before(m))
      /\ RankMetricsByPriority(variant, strengths)[o] = 1 + Cardinality(Before(o))
  BY DEF RankMetricsByPriority, Place
<1> HIDE DEF Before, score
<1>7. /\ Cardinality(Before(m)) \in Nat /\ Cardinality(Before(o)) \in Nat
      /\ Cardinality(Before(m)) <= Cardinality(Before(o))
      /\ Cardinality(Before(m)) # Cardinality(Before(o))
  BY <1>4, <1>5, FS_Subset, FS_CardinalityType
<1> QED  BY <1>6, <1>7

\* Evidence comes before reliability in the full report, and under each of the three
\* variants of rank_metrics_by_priority.
THEOREM EvidenceFirst == Spec => []EvidenceOutranksReliability
<1>1. IInv => EvidenceOutranksReliability
  <2> SUFFICES ASSUME IInv, full # NoReport, NEW variant \in Variants,
                      NEW m \in Shared, NEW o \in Shared, Evidence[m] > Evidence[o],
                      \/ variant = "lexicographic"
                      \/ Strengths[m] = Strengths[o] /\ Strengths[m] > 0
               PROVE  LET Order(v) == IF v = DefaultVariant THEN full.place
                                      ELSE RankMetricsByPriority(v, Strengths)
                      IN  Order(variant)[m] < Order(variant)[o]
    BY DEF EvidenceOutranksReliability
  <2>1. PICK a \in Assessments : full = FullReport(a)
    BY DEF IInv
  <2>2. full.place = RankMetricsByPriority(DefaultVariant, Strengths)
    BY <2>1 DEF FullReport
  <2>3. Strengths \in [Shared -> 0..100] /\ Shared \in SUBSET Metrics
    BY StrengthRange DEF IInv, SeenOK, Strengths, Shared
  <2>4. Score(variant, m, Strengths[m]) > Score(variant, o, Strengths[o])
    <3> DEFINE s == Strengths[m]
               t == Strengths[o]
    <3>1. m \in Metrics /\ o \in Metrics /\ s \in 0..100 /\ t \in 0..100
      BY <2>3
    <3>2. variant = "lexicographic" \/ (s = t /\ s > 0)
      BY Zenon
    <3> HIDE DEF s, t
    <3>3. Score(variant, m, s) > Score(variant, o, t)
      BY <3>1, <3>2, EvidenceOutscores, Zenon
    <3> QED  BY <3>3 DEF s, t
  <2>5. RankMetricsByPriority(variant, Strengths)[m]
          < RankMetricsByPriority(variant, Strengths)[o]
    BY <2>3, <2>4, HigherIsFirst
  <2> QED  BY <2>2, <2>5
<1> QED  BY <1>1, Inductive, PTL
=============================================================================
