------------------------------ MODULE Reports ------------------------------
(***************************************************************************)
(* Saved reports and the gate on them: Report.save, load and compare       *)
(* (rust/report/src), the noise filter (interpretation/noise_filter.py)    *)
(* and `vechealth analyze` and `vechealth compare` (cli.py). Analyses      *)
(* write their reports while a comparison reads; they share the files and  *)
(* no lock.                                                                *)
(*                                                                         *)
(* External: a file is a sequence of cells of report text. fs::write opens *)
(* and truncates, then writes from the start in one call (a report is a    *)
(* few kilobytes); what lies beyond stays. read_to_string first takes at   *)
(* most as much as the file held when it was opened, then whatever each    *)
(* further call gives, to the first call that gives nothing.               *)
(***************************************************************************)
EXTENDS Integers, Sequences, FiniteSets

CONSTANTS
  Analyses,      \* runs of `vechealth analyze`, or of compute_report and save
  Paths,
  Results,       \* reports an analysis may compute
  Keys,          \* keys of flatten()
  Parameter,     \* the configuration field each key is computed with
  Floor,         \* its noise floor in tenths of a percent, or Unassessable
  Multipliers,
  Unassessable,  \* no profile (unmapped) or no measured floor (UNKNOWN)
  Infinite, NaN, \* floats that are not finite: beyond every number, and no number
  Adaptive,      \* outlier_distance_threshold None
  Missing, Nobody, Phantom, NoResult

Parameters == {"k", "k_intrinsic_dim", "outlier_distance_threshold", "duplicate_epsilon"}
Sides == {"baseline", "current"}
EpsilonTolerance == 1  \* f32::EPSILON, the unit of duplicate_epsilon

ASSUME NamesAssumption ==
  /\ Nobody \notin Analyses \cup {Phantom} /\ Phantom \notin Analyses
  /\ Infinite \notin Int /\ NaN \notin Int \cup {Infinite}
  /\ Adaptive \notin Int \cup {Infinite, NaN}
  /\ Unassessable \notin Int
  /\ Multipliers \subseteq Nat /\ Paths \cap Analyses = {}
  /\ Parameter \in [Keys -> Parameters \cup {"none"}]
  /\ Floor \in [Keys -> Nat \cup {Unassessable}]

\* derived is what None stands for on the report's dataset; it is not saved. A
\* caller may name any float for a threshold or an epsilon.
ASSUME ResultsAssumption ==
  \A r \in Results :
    /\ DOMAIN r = {"dim", "size", "derived", "metrics"} \cup Parameters
    /\ {r.dim, r.k, r.k_intrinsic_dim, r.derived} \subseteq Int
    /\ r.duplicate_epsilon \in Int \cup {Infinite, NaN}
    /\ r.outlier_distance_threshold \in Int \cup {Infinite, NaN, Adaptive}
    /\ r.size \in Nat \ {0}
    /\ DOMAIN r.metrics \subseteq Keys
    /\ \A key \in DOMAIN r.metrics : r.metrics[key] \in Int \cup {Infinite}

ASSUME MissingAssumption ==
  /\ Missing \notin Seq([of : Analyses, at : Nat \ {0}])
  /\ NoResult \notin [verdicts : UNION {[D -> {"significant", "likely_noise", "unassessed"}] :
                                          D \in SUBSET Keys},
                      warned : SUBSET (Keys \cup Parameters \cup {"dim"}),
                      multiplier : Int, gated : BOOLEAN]

VARIABLES
  pc,       \* "new", "computed", "opened", "saved" or "failed", per analysis
  report,   \* what it computed
  path,     \* where it saves
  file,     \* the text under each path, or Missing
  alone,    \* history: saves that no other save has disturbed since they opened
  stage,    \* of the comparison: "idle", "opening", "reading", "ready" or "done"
  source,   \* per side: a path, or an analysis whose report is still in memory
  hint,     \* length of the file when it was opened
  text,     \* what has been read of it
  loaded,   \* per side: the analysis whose report it is, Nobody yet, or Phantom
  touched,  \* history, per side: saves that opened or wrote its file meanwhile
  result,   \* the comparison and its verdicts, or NoResult
  exit      \* exit status of `vechealth compare`; -1 while there is none

saving == <<pc, report, path, file, alone>>
comparing == <<stage, source, hint, text, loaded, result, exit>>
vars == <<saving, comparing, touched>>

-----------------------------------------------------------------------------
(* What a report says, in memory and reloaded. *)

Whole(a) == [i \in 1..report[a].size |-> [of |-> a, at |-> i]]

\* Every cell in its place up to a last one, so that it looks like one report.
Complete(t) ==
  /\ t # <<>>
  /\ \A i \in DOMAIN t : t[i].at = i /\ (report[t[i].of].size = i <=> i = Len(t))

\* serde_json writes null for a float that is not finite; a metric and the
\* epsilon are no Options.
FiniteUnchecked(r) == TRUE  \* mutant: a null is read as a number
Finite(r) ==
  /\ r.duplicate_epsilon \notin {Infinite, NaN}
  /\ \A key \in DOMAIN r.metrics : r.metrics[key] # Infinite

\* The threshold is an Option: null is None.
Reloaded(r) ==
  IF r.outlier_distance_threshold \notin {Infinite, NaN} THEN r
  ELSE [r EXCEPT !.outlier_distance_threshold = Adaptive]

InMemory(side) == source[side] \in Analyses
Side(side) ==
  IF InMemory(side) THEN report[loaded[side]] ELSE Reloaded(report[loaded[side]])

-----------------------------------------------------------------------------
(* compare and assess_comparison. *)

Abs(x) == IF x < 0 THEN -x ELSE x
Common(b, c) == DOMAIN b.metrics \cap DOMAIN c.metrics

ComparableIfEqual(b, c) ==  \* mutant: two data-derived thresholds pass for equal
  b.outlier_distance_threshold = c.outlier_distance_threshold
ThresholdsComparable(b, c) ==
  /\ b.outlier_distance_threshold \notin {Adaptive, NaN}
  /\ b.outlier_distance_threshold = c.outlier_distance_threshold

\* (b - c).abs() > f32::EPSILON: a NaN differs from nothing.
EpsilonsDiffer(b, c) ==
  CASE NaN \in {b, c} -> FALSE
    [] NaN \notin {b, c} /\ Infinite \in {b, c} -> b # c
    [] OTHER -> Abs(b - c) > EpsilonTolerance

Warned(b, c) ==
  (DOMAIN b.metrics \ DOMAIN c.metrics) \cup (DOMAIN c.metrics \ DOMAIN b.metrics)
  \cup {p \in {"dim"} : b.dim # c.dim}
  \cup {p \in {"k"} : b.k # c.k}
  \cup {p \in {"k_intrinsic_dim"} : b.k_intrinsic_dim # c.k_intrinsic_dim}
  \cup {p \in {"outlier_distance_threshold"} : ~ThresholdsComparable(b, c)}
  \cup {p \in {"duplicate_epsilon"} : EpsilonsDiffer(b.duplicate_epsilon, c.duplicate_epsilon)}

\* |delta_pct| > floor * multiplier; an infinite baseline makes delta_pct NaN,
\* which exceeds nothing.
ExceedsUnsigned(b, c, floor) ==  \* mutant: only a rise counts
  CASE b = Infinite -> FALSE
    [] b # Infinite /\ c = Infinite -> TRUE
    [] OTHER -> (c - b) * 1000 > floor * Abs(b)
Exceeds(b, c, floor) ==
  CASE b = Infinite -> FALSE
    [] b # Infinite /\ c = Infinite -> TRUE
    [] OTHER -> Abs(c - b) * 1000 > floor * Abs(b)

Verdict(key, b, c, multiplier) ==
  IF Floor[key] = Unassessable \/ b = 0 THEN "unassessed"
  ELSE IF Exceeds(b, c, Floor[key] * multiplier) THEN "significant"
  ELSE "likely_noise"

Compared(b, c, multiplier, gated) ==
  [verdicts |-> [key \in Common(b, c) |->
                   Verdict(key, b.metrics[key], c.metrics[key], multiplier)],
   warned |-> Warned(b, c), multiplier |-> multiplier, gated |-> gated]

Failing(r) == r.gated /\ \E key \in DOMAIN r.verdicts : r.verdicts[key] = "significant"

-----------------------------------------------------------------------------
(* Analyses. *)

Init ==
  /\ pc = [a \in Analyses |-> "new"]
  /\ report \in [Analyses -> Results]
  /\ path \in [Analyses -> Paths]
  /\ file = [p \in Paths |-> Missing]
  /\ alone = {}
  /\ stage = "idle"
  /\ source = [side \in Sides |-> Nobody]
  /\ hint = 0
  /\ text = <<>>
  /\ loaded = [side \in Sides |-> Nobody]
  /\ touched = [side \in Sides |-> {}]
  /\ result = NoResult
  /\ exit = -1

Compute(a) ==
  /\ pc[a] = "new"
  /\ pc' = [pc EXCEPT ![a] = "computed"]
  /\ UNCHANGED <<report, path, file, alone, comparing, touched>>

Loading == IF loaded["baseline"] = Nobody THEN "baseline" ELSE "current"

Touch(a) ==
  /\ alone' = {b \in alone : path[b] = path[a] => b = a}
                \cup (IF pc[a] = "computed" THEN {a} ELSE {})
  /\ touched' = IF stage = "reading" /\ source[Loading] = path[a]
                THEN [touched EXCEPT ![Loading] = @ \cup {a}] ELSE touched

OpenKeeping(a) ==  \* mutant: the file is opened without truncating it
  /\ pc[a] = "computed"
  /\ pc' = [pc EXCEPT ![a] = "opened"]
  /\ file' = [file EXCEPT ![path[a]] = IF @ = Missing THEN <<>> ELSE @]
  /\ Touch(a)
  /\ UNCHANGED <<report, path, comparing>>
Open(a) ==
  /\ pc[a] = "computed"
  /\ pc' = [pc EXCEPT ![a] = "opened"]
  /\ file' = [file EXCEPT ![path[a]] = <<>>]
  /\ Touch(a)
  /\ UNCHANGED <<report, path, comparing>>

Overwritten(old, new) == new \o SubSeq(old, Len(new) + 1, Len(old))

WriteBuffered(a) ==  \* mutant: the text is written in more than one call
  /\ pc[a] = "opened"
  /\ \E n \in 1..report[a].size :
       /\ pc' = [pc EXCEPT ![a] = IF n = report[a].size THEN "saved" ELSE "opened"]
       /\ file' = [file EXCEPT ![path[a]] = Overwritten(@, SubSeq(Whole(a), 1, n))]
  /\ Touch(a)
  /\ UNCHANGED <<report, path, comparing>>
Write(a) ==
  /\ pc[a] = "opened"
  /\ pc' = [pc EXCEPT ![a] = "saved"]
  /\ file' = [file EXCEPT ![path[a]] = Overwritten(@, Whole(a))]
  /\ Touch(a)
  /\ UNCHANGED <<report, path, comparing>>

\* A crash or an I/O error: what has been truncated stays so. One before the
\* file is opened changes nothing and is the analysis that takes no more steps.
Fail(a) ==
  /\ pc[a] = "opened"
  /\ pc' = [pc EXCEPT ![a] = "failed"]
  /\ UNCHANGED <<report, path, file, alone, comparing, touched>>

-----------------------------------------------------------------------------
(* The comparison: `vechealth compare` loads both reports; a program may *)
(* compare a report it has just computed with a saved baseline.            *)

Begin(current) ==
  /\ stage = "idle"
  /\ current \in Analyses => pc[current] # "new"
  /\ \E p \in Paths : source' = [baseline |-> p, current |-> current]
  /\ stage' = "opening"
  /\ UNCHANGED <<saving, hint, text, loaded, touched, result, exit>>

OpenLoad ==
  /\ stage = "opening"
  /\ file[source[Loading]] # Missing
  /\ stage' = "reading"
  /\ hint' = Len(file[source[Loading]])
  /\ text' = <<>>
  /\ UNCHANGED <<saving, source, loaded, touched, result, exit>>

Unread == SubSeq(file[source[Loading]], Len(text) + 1, Len(file[source[Loading]]))

\* While the hint lasts one call takes all there is, then it takes what it likes.
Read ==
  /\ stage = "reading"
  /\ Unread # <<>>
  /\ \E n \in 1..Len(Unread) :
       /\ Len(text) < hint =>
            n = IF Len(Unread) < hint - Len(text) THEN Len(Unread) ELSE hint - Len(text)
       /\ text' = text \o SubSeq(Unread, 1, n)
  /\ UNCHANGED <<saving, stage, source, hint, loaded, touched, result, exit>>

Loadable ==
  Complete(text) /\ \A i \in DOMAIN text : Finite(report[text[i].of])

\* A text of cells of two reports may read as a report that nobody computed.
Parse ==
  /\ stage = "reading"
  /\ Unread = <<>>
  /\ Loadable
  /\ loaded' = [loaded EXCEPT ![Loading] =
       IF \A i \in DOMAIN text : text[i].of = text[1].of THEN text[1].of ELSE Phantom]
  /\ stage' = IF Loading = "baseline" /\ ~InMemory("current") THEN "opening" ELSE "ready"
  /\ UNCHANGED <<saving, source, hint, text, touched, result, exit>>

ErrorStatusOfUsage == 2  \* mutant: an error exits as argparse does
ErrorStatus == 1

LoadFails ==
  /\ \/ stage = "opening" /\ file[source[Loading]] = Missing
     \/ stage = "reading" /\ Unread = <<>> /\ ~Loadable
  /\ stage' = "done"
  /\ exit' = IF InMemory("current") THEN exit ELSE ErrorStatus
  /\ UNCHANGED <<saving, source, hint, text, loaded, touched, result>>

\* Nothing is known of a phantom's values.
Compare(multiplier, gated) ==
  /\ stage = "ready"
  /\ UNCHANGED <<saving, source, hint, text, touched>>
  /\ stage' = "done"
  /\ loaded' = IF InMemory("current") THEN [loaded EXCEPT !["current"] = source["current"]]
               ELSE loaded
  /\ IF Phantom \in {loaded'[side] : side \in Sides}
     THEN /\ result' = NoResult
          /\ exit' \in IF InMemory("current") THEN {exit} ELSE {0, 1}
     ELSE /\ result' = Compared(Side("baseline")', Side("current")', multiplier, gated)
          /\ exit' = IF InMemory("current") THEN exit
                     ELSE IF Failing(result') THEN 1 ELSE 0

Next ==
  \/ \E a \in Analyses : Compute(a) \/ Open(a) \/ Write(a) \/ Fail(a)
  \/ \E current \in Paths \cup Analyses : Begin(current)
  \/ OpenLoad \/ Read \/ Parse \/ LoadFails
  \/ \E multiplier \in Multipliers, gated \in BOOLEAN : Compare(multiplier, gated)

Spec == Init /\ [][Next]_vars

-----------------------------------------------------------------------------
(* Properties. *)

\* Types. A report in memory is taken for the current side only, and `vechealth
\* compare` ends with status 0 or 1.
TypeOK ==
  /\ pc \in [Analyses -> {"new", "computed", "opened", "saved", "failed"}]
  /\ report \in [Analyses -> Results]
  /\ path \in [Analyses -> Paths]
  /\ file \in [Paths -> Seq([of : Analyses, at : Nat \ {0}]) \cup {Missing}]
  /\ alone \subseteq Analyses
  /\ stage \in {"idle", "opening", "reading", "ready", "done"}
  /\ stage # "idle" => /\ source["baseline"] \in Paths
                       /\ source["current"] \in Paths \cup Analyses
  /\ DOMAIN source = Sides
  /\ hint \in Nat
  /\ text \in Seq([of : Analyses, at : Nat \ {0}])
  /\ loaded \in [Sides -> Analyses \cup {Nobody, Phantom}]
  /\ touched \in [Sides -> SUBSET Analyses]
  /\ exit \in {-1, 0, 1}

\* Report.load returns a report that one Report.save to this path wrote to the
\* end, never a mix, when no more than one save reaches the file meanwhile:
\* whatever other saves, crashes and failed writes have left there before.
LoadedWasSaved ==
  \A side \in Sides : ~InMemory(side) =>
    /\ loaded[side] \in Analyses =>
         pc[loaded[side]] = "saved" /\ path[loaded[side]] = source[side]
    /\ loaded[side] = Phantom => \E a, b \in touched[side] : a # b

\* A save that nobody disturbed leaves exactly its report, whatever was there.
SaveReplaces ==
  \A a \in alone : pc[a] = "saved" => file[path[a]] = Whole(a)

\* The CI gate is fail-closed: `vechealth compare` exits with 0 only over two
\* loaded reports, and under --fail-on-significant only if no statistic with
\* a measured floor and a baseline other than zero has left its floor.
GateHolds ==
  (exit = 0 /\ Phantom \notin {loaded[side] : side \in Sides}) =>
    LET b == report[loaded["baseline"]].metrics
        c == report[loaded["current"]].metrics
    IN  /\ result # NoResult
        /\ {loaded[side] : side \in Sides} \subseteq Analyses
        /\ result.gated =>
             \A key \in DOMAIN b \cap DOMAIN c :
               (Floor[key] # Unassessable /\ b[key] # 0) =>
                 Abs(c[key] - b[key]) * 1000 <= Floor[key] * result.multiplier * Abs(b[key])

\* "likely noise" is only said of two numbers: a mean that came out infinite is
\* never dismissed as noise, though NaN exceeds no floor, because a baseline
\* that is not finite does not load.
NoiseIsMeasured ==
  result # NoResult =>
    \A key \in DOMAIN result.verdicts : result.verdicts[key] = "likely_noise" =>
      \A side \in Sides : report[loaded[side]].metrics[key] # Infinite

\* The value of a configuration field that a report's metrics were computed with.
Effective(r, field) ==
  CASE field = "k" -> r.k
    [] field = "k_intrinsic_dim" -> r.k_intrinsic_dim
    [] field = "duplicate_epsilon" -> r.duplicate_epsilon
    [] field = "outlier_distance_threshold" ->
         IF r.outlier_distance_threshold = Adaptive THEN r.derived
         ELSE r.outlier_distance_threshold
    [] OTHER -> 0

\* A statistic about which compare is silent was computed with the same
\* parameter on both sides, when the reports were computed and not as reloaded:
\* neither a threshold derived from the data nor one lost in JSON slips by.
\* One that only one report has is named. The exception: a NaN epsilon is taken in
\* silence for any other, but only of a current report that is still in memory.
SilentMeansComparable ==
  result # NoResult =>
    LET b == report[loaded["baseline"]]  c == report[loaded["current"]]
    IN  /\ \A key \in DOMAIN b.metrics \cup DOMAIN c.metrics :
             key \notin result.warned =>
               /\ key \in DOMAIN b.metrics \cap DOMAIN c.metrics
               /\ Parameter[key] \notin result.warned \cup {"duplicate_epsilon"} =>
                    Effective(b, Parameter[key]) = Effective(c, Parameter[key])
        /\ "duplicate_epsilon" \notin result.warned =>
             \/ InMemory("current") /\ c.duplicate_epsilon = NaN
             \/ /\ {b.duplicate_epsilon, c.duplicate_epsilon} \subseteq Int
                /\ Abs(b.duplicate_epsilon - c.duplicate_epsilon) <= EpsilonTolerance
        /\ "dim" \notin result.warned => b.dim = c.dim

=============================================================================
