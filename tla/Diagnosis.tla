----------------------------- MODULE Diagnosis -----------------------------
(***************************************************************************)
(* The interpretation layer (rust/bindings/python/vechealth/interpretation)*)
(* from two snapshots of metric values to a report: the deltas, the match  *)
(* against the signatures of the pathology families, the recommendation    *)
(* and the status of every metric, and their order. Values and deltas are  *)
(* in hundredths; texts are tags.                                          *)
(***************************************************************************)
EXTENDS PriorityVariants

CONSTANTS
  Families, FamilyOrder,     \* order of SIGNATURES
  Members,                   \* the metrics each signature lists
  Target, Confounders,       \* _REPAIR_TARGET_FAMILY, _CONFOUNDING_FAMILIES
  HasAction,                 \* the metrics with an entry in _SUGGESTED_ACTION
  ParameterSource,           \* _PARAMETER_SOURCE: derived, default or none
  SevereLoss,                \* <<family, index>> pairs that lost most of their recall
  Indexes, Approximate,      \* IndexType, and the ones with a label
  Readings,                  \* what the snapshots may say of each metric
  Similarities,              \* cosine similarities
  Threshold, Margin,         \* SIMILARITY_THRESHOLD, AMBIGUITY_MARGIN
  NoFamily, NoContext, NoReport

NoiseFloor == 15  \* NOISE_FLOOR
MinMetrics == 2   \* MIN_METRICS_FOR_GROUPING

ParameterSources == {"none", "derived", "default"}

ASSUME TablesAssumption ==
  /\ Families # {} /\ NoFamily \notin Families
  /\ NoContext \notin [family : Families \cup {NoFamily}, deltas : BOOLEAN,
                      ambiguous : BOOLEAN]
  /\ Target \in [Metrics -> Families \cup {NoFamily}]
  /\ Confounders \in [Metrics -> SUBSET Families]
  /\ Members \in [Families -> SUBSET Metrics]
  /\ ParameterSource \in [Metrics -> ParameterSources]
  /\ \A m \in Metrics :
       Evidence[m] = 2 => m \in HasAction /\ ParameterSource[m] # "none"
  /\ FamilyOrder \in [Families -> Nat]
  /\ \A f, g \in Families : FamilyOrder[f] = FamilyOrder[g] => f = g

ASSUME ReadingsAssumption ==
  \A m \in Metrics :
    Readings[m] \subseteq [shared : BOOLEAN, number : BOOLEAN, b : Int, c : Int]

ASSUME CalibrationAssumption ==
  Similarities \subseteq Int /\ Threshold \in Int /\ Margin \in Nat \ {0}

VARIABLES
  seen,      \* the two snapshots, the similarities they give, the declared index
  context,   \* DiagnosisContext.from_snapshots, or NoContext
  full,      \* the FullReport, or NoReport
  single     \* a MetricReport built on its own, or NoReport

vars == <<seen, context, full, single>>

-----------------------------------------------------------------------------
(* Deltas. A reading is the pair of values of one metric; it is no      *)
(* number when either is NaN, and not shared when one snapshot lacks it.   *)

Abs(x) == IF x < 0 THEN -x ELSE x

Shared == {m \in Metrics : seen.readings[m].shared}

SignedDelta(r) ==
  IF r.b = 0 THEN r.c - r.b ELSE ((r.c - r.b) * 100) \div Abs(r.b)

\* min(1.0, nan) is 1.0.
StrengthOfShare(r) ==  \* mutant: a change from zero is taken for no change
  IF ~r.number THEN 100
  ELSE IF r.b = 0 THEN 0
  ELSE IF Abs(SignedDelta(r)) > 100 THEN 100 ELSE Abs(SignedDelta(r))
StrengthUncapped(r) ==  \* mutant: min(1.0, ...) is left out
  IF ~r.number THEN 100
  ELSE IF r.b = 0 THEN IF r.c = 0 THEN 0 ELSE 100
  ELSE Abs(SignedDelta(r))
Strength(r) ==
  IF ~r.number THEN 100
  ELSE IF r.b = 0 THEN IF r.c = 0 THEN 0 ELSE 100
  ELSE IF Abs(SignedDelta(r)) > 100 THEN 100 ELSE Abs(SignedDelta(r))

\* interpret_drift: the direction of no metric is validated.
Change(r) == IF r.number /\ r.b = r.c THEN "no_change" ELSE "ambiguous"

Significant ==
  {m \in Shared : /\ seen.readings[m].number
                  /\ Abs(SignedDelta(seen.readings[m])) >= NoiseFloor}

-----------------------------------------------------------------------------
(* assess_signature_match.                                                 *)

CloserLastFirst(f, g) ==  \* mutant: sorted in ascending order
  \/ seen.similarity[f] < seen.similarity[g]
  \/ seen.similarity[f] = seen.similarity[g] /\ FamilyOrder[f] < FamilyOrder[g]
Closer(f, g) ==
  \/ seen.similarity[f] > seen.similarity[g]
  \/ seen.similarity[f] = seen.similarity[g] /\ FamilyOrder[f] < FamilyOrder[g]

\* The head of the list sorted by similarity; sort is stable.
Firsts(S) == {f \in S : \A g \in S \ {f} : Closer(f, g)}

RunnersUp(best) == IF Families = {best} THEN {best} ELSE Firsts(Families \ {best})

AssessUnmargined(best, runnerUp) ==  \* mutant: the runner-up is not looked at
  IF Cardinality(Significant) < MinMetrics \/ seen.similarity[best] < Threshold
  THEN [status |-> "none", family |-> NoFamily]
  ELSE [status |-> "match", family |-> best]
Assess(best, runnerUp) ==
  IF Cardinality(Significant) < MinMetrics \/ seen.similarity[best] < Threshold
  THEN [status |-> "none", family |-> NoFamily]
  ELSE IF /\ runnerUp # best
          /\ seen.similarity[best] - seen.similarity[runnerUp] < Margin
  THEN [status |-> "ambiguous", family |-> NoFamily]
  ELSE [status |-> "match", family |-> best]

Assessments ==
  UNION {{Assess(best, runnerUp) : runnerUp \in RunnersUp(best)} : best \in Firsts(Families)}

-----------------------------------------------------------------------------
(* Recommendations.                                                        *)

\* The families the observation points at as well, if the context has deltas.
AlsoMatched(m, c) ==
  {f \in Confounders[m] :
     /\ c.deltas /\ Cardinality(Significant) >= MinMetrics
     /\ seen.similarity[f] >= Threshold}

ReviewReasonTrusting(m, c) ==  \* mutant: the confounding families are not checked
  IF c = NoContext \/ c.family = NoFamily THEN "no context"
  ELSE IF c.family # Target[m] THEN "other family" ELSE "none"
ReviewReason(m, c) ==
  IF Target[m] = NoFamily THEN "no target"
  ELSE IF c = NoContext THEN "no context"
  ELSE IF c.family = NoFamily /\ ~c.deltas THEN "no context"
  ELSE IF c.family # Target[m]
  THEN IF c.family # NoFamily THEN "other family"
       ELSE IF c.ambiguous THEN "ambiguous" ELSE "no family"
  ELSE IF AlsoMatched(m, c) # {} THEN "confounded"
  ELSE "none"

Level(m, c) ==
  CASE Evidence[m] = 0 -> "no_validated_fix"
    [] Evidence[m] = 1 -> "safe_but_unproven"
    [] OTHER -> IF ReviewReason(m, c) = "none" THEN "auto_fixable" ELSE "review_required"

\* Where build_recommendation puts the repair: a reviewer finds a candidate where
\* an agent would look for a suggestion.
Action(m, level) ==
  IF m \notin HasAction \/ level = "no_validated_fix" THEN "none"
  ELSE IF level = "review_required" THEN "candidate" ELSE "suggested"

-----------------------------------------------------------------------------
(* build_metric_report.                                                    *)

IndexLossIsSevere(f) == seen.index \in Approximate /\ <<f, seen.index>> \in SevereLoss

AnnWarningUnflagged(f, ambiguous) ==  \* mutant: the ambiguous flag is ignored
  IF seen.index \notin Approximate THEN "none"
  ELSE IF f = NoFamily THEN "none"
  ELSE IF IndexLossIsSevere(f) THEN "severe" ELSE "mild"
AnnWarning(f, ambiguous) ==
  IF seen.index \notin Approximate THEN "none"
  ELSE IF ambiguous THEN "cautious"
  ELSE IF f = NoFamily THEN "none"
  ELSE IF IndexLossIsSevere(f) THEN "severe" ELSE "mild"

Status(strength, severe) ==
  IF strength < NoiseFloor THEN "normal" ELSE IF severe THEN "urgent" ELSE "observe"

MetricReport(m, f, ambiguous, c, grouped) ==
  LET strength == Strength(seen.readings[m])
  IN  [status |-> Status(strength, ~ambiguous /\ f # NoFamily /\ IndexLossIsSevere(f)),
       warning |-> AnnWarning(f, ambiguous),
       family |-> f,
       level |-> Level(m, c),
       reason |-> IF Level(m, c) = "review_required" THEN ReviewReason(m, c) ELSE "none",
       action |-> Action(m, Level(m, c)),
       parameter |-> IF Level(m, c) = "auto_fixable" THEN ParameterSource[m] ELSE "none",
       change |-> Change(seen.readings[m]),
       grouped |-> grouped,
       priority |-> Score(DefaultVariant, m, strength)]

-----------------------------------------------------------------------------
(* Calls.                                                                  *)

Init ==
  /\ seen \in [readings : {r \in [Metrics -> UNION {Readings[m] : m \in Metrics}] :
                             \A m \in Metrics : r[m] \in Readings[m]},
               similarity : [Families -> Similarities],
               index : Indexes]
  /\ context = NoContext
  /\ full = NoReport
  /\ single = NoReport

\* The observed deltas are empty when the snapshots share no metric.
SnapshotContextNearest(a) ==  \* mutant: the ambiguous flag is not passed on
  [family |-> a.family, deltas |-> Shared # {}, ambiguous |-> FALSE]
SnapshotContext(a) ==
  [family |-> a.family, deltas |-> Shared # {}, ambiguous |-> a.status = "ambiguous"]

FromSnapshots ==
  /\ context = NoContext
  /\ \E a \in Assessments : context' = SnapshotContext(a)
  /\ UNCHANGED <<seen, full, single>>

\* diagnostic_strength of each metric both snapshots have.
Strengths == [m \in Shared |-> Strength(seen.readings[m])]

\* The context this path builds says nothing of an ambiguous match.
FullReport(a) ==
  LET inside == IF a.status = "match" THEN Significant \cap Members[a.family] ELSE {}
      c == [family |-> a.family, deltas |-> Shared # {}, ambiguous |-> FALSE]
  IN  [status |-> a.status, family |-> a.family,
       entries |-> [m \in Shared |->
         MetricReport(m, a.family, a.status = "ambiguous", c, m \in inside)],
       place |-> RankMetricsByPriority(DefaultVariant, Strengths)]

BuildFullReport ==
  /\ full = NoReport
  /\ \E a \in Assessments : full' = FullReport(a)
  /\ UNCHANGED <<seen, context, single>>

FromContext(m) ==
  [metric |-> m, from |-> "context",
   entry |-> MetricReport(m, context.family, context.ambiguous, context, FALSE)]

FromFamily(m, f) ==
  LET c == IF f = NoFamily THEN NoContext
           ELSE [family |-> f, deltas |-> FALSE, ambiguous |-> FALSE]
  IN  [metric |-> m, from |-> "family", entry |-> MetricReport(m, f, FALSE, c, FALSE)]

\* With the context of from_snapshots, or with nothing but a family. Nothing is
\* kept from one call to the next: one such report is enough.
BuildMetricReport(m) ==
  /\ single = NoReport
  /\ m \in Shared
  /\ \/ context # NoContext /\ single' = FromContext(m)
     \/ \E f \in Families \cup {NoFamily} : single' = FromFamily(m, f)
  /\ UNCHANGED <<seen, context, full>>

Next ==
  \/ FromSnapshots
  \/ BuildFullReport
  \/ \E m \in Metrics : BuildMetricReport(m)

Spec == Init /\ [][Next]_vars

-----------------------------------------------------------------------------
(* Properties.                                                             *)

Statuses == {"normal", "observe", "urgent"}
Warnings == {"none", "cautious", "mild", "severe"}
Levels == {"no_validated_fix", "safe_but_unproven", "review_required", "auto_fixable"}
Reasons == {"none", "no target", "no context", "other family", "ambiguous", "no family",
            "confounded"}
Actions == {"none", "suggested", "candidate"}
Changes == {"no_change", "ambiguous"}

EntryType ==
  [status : Statuses, warning : Warnings, family : Families \cup {NoFamily},
   level : Levels, reason : Reasons, action : Actions, parameter : ParameterSources,
   change : Changes, grouped : BOOLEAN, priority : Nat]

\* The entries of every report made so far.
Made(m) ==
  (IF full # NoReport /\ m \in Shared THEN {full.entries[m]} ELSE {})
    \cup (IF single # NoReport /\ single.metric = m THEN {single.entry} ELSE {})

\* Types; of a report the entries are the metrics both snapshots have, and no
\* priority exceeds the one of a full-strength change (min(1.0, ...)).
TypeOK ==
  /\ context # NoContext =>
       /\ context.family \in Families \cup {NoFamily}
       /\ context.deltas \in BOOLEAN /\ context.ambiguous \in BOOLEAN
  /\ full # NoReport =>
       /\ full.status \in {"none", "ambiguous", "match"}
       /\ full.family \in Families \cup {NoFamily}
       /\ DOMAIN full.entries = Shared
  /\ single # NoReport => single.metric \in Shared
  /\ \A m \in Metrics : \A e \in Made(m) :
       e \in EntryType /\ e.priority <= 100 * CausalWeight[Evidence[m]] * Reliability[m]

\* What a reader calls an established family: the changes of at least two metrics
\* resemble it, and resemble no other family nearly as much.
Established(f) ==
  /\ Cardinality(Significant) >= MinMetrics
  /\ seen.similarity[f] >= Threshold
  /\ \A g \in Families \ {f} : seen.similarity[f] - seen.similarity[g] >= Margin

\* A family is reported exactly when it is established, and no other is.
MatchIsEstablished ==
  full # NoReport =>
    /\ \A f \in Families : full.family = f <=> Established(f)
    /\ full.status = "match" <=> full.family # NoFamily

\* "FAIL CLOSED": a repair of a strong metric is suggested, and counts as fixable,
\* only on the family it was validated on, established by the observation or named
\* by the caller, and, wherever the deltas are known, only if no family with the
\* same reading is matched as well; an agent then finds its parameter too.
FailClosed ==
  \A m \in Metrics : \A e \in Made(m) :
    /\ e.level = "auto_fixable" => e.action = "suggested" /\ e.parameter # "none"
    /\ \/ e.level = "auto_fixable" \/ e.parameter # "none"
       \/ Evidence[m] = 2 /\ e.action = "suggested"
       => /\ Evidence[m] = 2
          /\ e.family = Target[m] /\ Target[m] # NoFamily
          /\ \/ single # NoReport /\ single.from = "family" /\ e = single.entry
             \/ /\ Established(e.family)
                /\ \A f \in Confounders[m] : seen.similarity[f] < Threshold

\* An ambiguous match names no family anywhere: every entry of the report, and of
\* the reports built from the same snapshots, warns with caution if the index is
\* approximate, none is urgent, grouped or fixable.
AmbiguityIsCautious ==
  full # NoReport /\ full.status = "ambiguous" =>
    /\ full.family = NoFamily
    /\ \A m \in Shared : \A e \in Made(m) :
         (e = full.entries[m] \/ single.from = "context") =>
           /\ e.status # "urgent" /\ ~e.grouped /\ e.level # "auto_fixable"
           /\ e.family = NoFamily
           /\ e.warning = IF seen.index \in Approximate THEN "cautious" ELSE "none"

\* URGENT is said of a metric that moved, under an index for which the loss of an
\* established family was measured to be severe.
UrgentIsMeasured ==
  full # NoReport =>
    \A m \in Shared :
      full.entries[m].status = "urgent" =>
        /\ \E f \in Families : Established(f) /\ <<f, seen.index>> \in SevereLoss
        /\ ~(seen.readings[m].number /\ seen.readings[m].b = seen.readings[m].c)

\* A metric that counts for the matched pattern is not called NORMAL, and one whose
\* message says it is unchanged is, and counts for no pattern: the change is worked
\* out in three places, for a baseline of zero and for NaN too.
GroupedIsNotNormal ==
  full # NoReport =>
    \A m \in Shared :
      LET e == full.entries[m]
      IN  /\ e.grouped => e.status # "normal"
          /\ e.change = "no_change" => e.status = "normal" /\ ~e.grouped

\* "Always lower than the identical signal under strong causality", "NO
\* diagnostic_strength value in a lower causality layer can outscore a higher": of
\* two metrics the one with more evidence is listed first, however reliable the
\* other is, if they moved alike, and under the lexicographic variant in any case.
EvidenceOutranksReliability ==
  LET Order(variant) == IF variant = DefaultVariant THEN full.place
                        ELSE RankMetricsByPriority(variant, Strengths)
  IN  full # NoReport =>
        \A variant \in Variants : \A m, o \in Shared :
          /\ Evidence[m] > Evidence[o]
          /\ \/ variant = "lexicographic"
             \/ Strengths[m] = Strengths[o] /\ Strengths[m] > 0
          => Order(variant)[m] < Order(variant)[o]

\* The two ways to a report agree: a metric report built from from_snapshots says
\* of a metric what the full report says, but for the wording of the reason.
PathsAgree ==
  full # NoReport /\ single # NoReport /\ single.from = "context" =>
    LET e == full.entries[single.metric]
        s == single.entry
    IN  /\ e.status = s.status /\ e.warning = s.warning /\ e.family = s.family
        /\ e.level = s.level /\ e.priority = s.priority
        /\ e.action = s.action /\ e.change = s.change

\* Claimed by _review_reason, which has words of its own for an ambiguous match:
\* "no family above the threshold" is said only when the match is not ambiguous.
AmbiguityIsSaid ==
  full # NoReport /\ full.status = "ambiguous" =>
    \A m \in Shared : full.entries[m].reason # "no family"
=============================================================================
