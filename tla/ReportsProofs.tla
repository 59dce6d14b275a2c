--------------------------- MODULE ReportsProofs ---------------------------
(***************************************************************************)
(* Proofs about Reports. SettledInv says what is known of a side once it   *)
(* has been loaded and of a result once it is there; the properties of     *)
(* results follow from it and from what Compared says of two reports.      *)
(* AloneInv follows an undisturbed save through its two steps; FileInv is  *)
(* what the types of texts need. CellsInv (a file is empty or begins with  *)
(* a whole report), ReadInv (what has been read of an undisturbed file)    *)
(* and LoadInv carry a saved report through a load.                        *)
(***************************************************************************)
EXTENDS Reports, SequenceTheorems, TLAPS

Cells == [of : Analyses, at : Nat \ {0}]

\* What the comparison knows at each stage.
SettledInv ==
  /\ source["baseline"] \notin Analyses
  /\ stage = "idle" => loaded["baseline"] = Nobody
  /\ stage \in {"idle", "opening", "reading"} => loaded["current"] = Nobody
  /\ stage = "ready" => /\ loaded["baseline"] # Nobody
                        /\ InMemory("current") \/ loaded["current"] # Nobody
  /\ \A side \in Sides : (loaded[side] \in Analyses /\ ~InMemory(side)) =>
       Finite(report[loaded[side]])
  /\ stage # "done" => result = NoResult /\ exit = -1
  /\ result # NoResult =>
       /\ loaded["baseline"] \in Analyses /\ loaded["current"] \in Analyses
       /\ \E multiplier \in Multipliers, gated \in BOOLEAN :
            result = Compared(Side("baseline"), Side("current"), multiplier, gated)
  /\ (exit = 0 /\ Phantom \notin {loaded[side] : side \in Sides}) =>
       result # NoResult /\ ~Failing(result)

\* A file that is being written or read exists.
FileInv ==
  /\ \A a \in Analyses : pc[a] = "opened" => file[path[a]] # Missing
  /\ stage \in {"opening", "reading"} => source[Loading] \in Paths
  /\ stage = "reading" => file[source[Loading]] # Missing

\* A save nobody has disturbed: its file is empty until it writes it.
AloneInv ==
  \A a \in alone :
    /\ pc[a] = "opened" => file[path[a]] = <<>>
    /\ pc[a] = "saved" => file[path[a]] = Whole(a)

-----------------------------------------------------------------------------

\* Whole(a) is a text of report[a].size cells.
LEMMA WholeText ==
  ASSUME NEW a \in Analyses, report \in [Analyses -> Results]
  PROVE  Whole(a) \in Seq(Cells) /\ Len(Whole(a)) = report[a].size
<1>1. report[a].size \in Nat \ {0}
  BY ResultsAssumption
<1>2. \A i \in 1..report[a].size : [of |-> a, at |-> i] \in Cells
  BY <1>1 DEF Cells
<1> QED
  BY <1>1, <1>2 DEF Whole

\* Writing over a text gives a text.
LEMMA OverwrittenText ==
  ASSUME NEW S, NEW old \in Seq(S), NEW new \in Seq(S)
  PROVE  Overwritten(old, new) \in Seq(S)
<1>1. SubSeq(old, Len(new) + 1, Len(old)) \in Seq(S)
  BY SubSeqProperties
<1> QED
  BY <1>1, ConcatProperties DEF Overwritten

\* Writing over an empty file leaves what is written.
LEMMA OverwrittenEmpty ==
  ASSUME NEW S, NEW new \in Seq(S)
  PROVE  Overwritten(<<>>, new) = new
<1>1. SubSeq(<<>>, Len(new) + 1, Len(<<>>)) = <<>>
  <2>1. Len(new) \in Nat
    OBVIOUS
  <2> QED
    BY <2>1
<1> QED
  BY <1>1, ConcatEmptySeq DEF Overwritten

\* Reloading changes a report's threshold only.
LEMMA ReloadedSame ==
  ASSUME NEW r \in Results
  PROVE  /\ Reloaded(r).metrics = r.metrics
         /\ Reloaded(r).dim = r.dim
         /\ Reloaded(r).k = r.k
         /\ Reloaded(r).k_intrinsic_dim = r.k_intrinsic_dim
         /\ Reloaded(r).duplicate_epsilon = r.duplicate_epsilon
         /\ Reloaded(r).outlier_distance_threshold \in
              {r.outlier_distance_threshold, Adaptive}
<1>1. DOMAIN r = {"dim", "size", "derived", "metrics"} \cup Parameters
  BY ResultsAssumption
<1> DEFINE q == [r EXCEPT !.outlier_distance_threshold = Adaptive]
<1>2. /\ q.metrics = r.metrics /\ q.dim = r.dim /\ q.k = r.k
      /\ q.k_intrinsic_dim = r.k_intrinsic_dim
      /\ q.duplicate_epsilon = r.duplicate_epsilon
      /\ q.outlier_distance_threshold = Adaptive
  BY <1>1 DEF Parameters
<1>3. Reloaded(r) = r \/ Reloaded(r) = q
  BY DEF Reloaded
<1> HIDE DEF q
<1> QED
  BY <1>2, <1>3

\* A comparison of two reports is a result.
LEMMA ComparedIsResult ==
  ASSUME NEW b, NEW c, NEW multiplier \in Multipliers, NEW gated \in BOOLEAN,
         DOMAIN b.metrics \subseteq Keys, DOMAIN c.metrics \subseteq Keys
  PROVE  Compared(b, c, multiplier, gated) # NoResult
<1> DEFINE D == Common(b, c)
           V == {"significant", "likely_noise", "unassessed"}
           v == [key \in D |-> Verdict(key, b.metrics[key], c.metrics[key], multiplier)]
<1>1. D \in SUBSET Keys
  BY DEF Common
<1>2. v \in [D -> V]
  BY DEF Verdict
<1>3. v \in UNION {[E -> V] : E \in SUBSET Keys}
  BY <1>1, <1>2
<1>4. Warned(b, c) \in SUBSET (Keys \cup Parameters \cup {"dim"})
  BY DEF Warned, Parameters
<1>5. multiplier \in Int
  BY NamesAssumption
<1> HIDE DEF v, V, D
<1>6. [verdicts |-> v, warned |-> Warned(b, c), multiplier |-> multiplier, gated |-> gated]
        \in [verdicts : UNION {[E -> V] : E \in SUBSET Keys},
            warned : SUBSET (Keys \cup Parameters \cup {"dim"}),
            multiplier : Int, gated : BOOLEAN]
  BY <1>3, <1>4, <1>5
<1>7. Compared(b, c, multiplier, gated) =
        [verdicts |-> v, warned |-> Warned(b, c), multiplier |-> multiplier, gated |-> gated]
  BY DEF Compared, v, D
<1> QED
  BY <1>6, <1>7, MissingAssumption DEF V

\* The metrics of a loaded side are those the analysis computed.
LEMMA SideMetrics ==
  ASSUME NEW side \in Sides, loaded[side] \in Analyses, report \in [Analyses -> Results]
  PROVE  /\ Side(side).metrics = report[loaded[side]].metrics
         /\ DOMAIN Side(side).metrics \subseteq Keys
<1>1. report[loaded[side]] \in Results
  OBVIOUS
<1>2. Side(side).metrics = report[loaded[side]].metrics
  BY <1>1, ReloadedSame DEF Side
<1> QED
  BY <1>1, <1>2, ResultsAssumption

-----------------------------------------------------------------------------

\* Loading, one call after the other, and the comparison keep SettledInv.
LEMMA SettledSaving ==
  ASSUME SettledInv, UNCHANGED <<report, comparing>>
  PROVE  SettledInv'
<1>1. /\ report' = report /\ stage' = stage /\ source' = source /\ loaded' = loaded
      /\ result' = result /\ exit' = exit
  BY DEF comparing
<1> QED
  BY <1>1 DEF SettledInv, InMemory, Side, Sides

\* The side being loaded gets the report of its text, whose metrics are finite.
LEMMA SettledParse ==
  ASSUME TypeOK, SettledInv, Parse
  PROVE  SettledInv'
<1>1. PICK who \in Analyses \cup {Phantom} :
        /\ loaded' = [loaded EXCEPT ![Loading] = who]
        /\ who \in Analyses => Finite(report[who])
  <2>1. text # <<>> /\ text \in Seq([of : Analyses, at : Nat \ {0}])
    BY DEF Parse, Loadable, Complete, TypeOK
  <2>2. 1 \in DOMAIN text /\ text[1].of \in Analyses
    <3> DEFINE S == [of : Analyses, at : Nat \ {0}]
    <3>1. text # <<>> /\ text \in Seq(S)
      BY <2>1
    <3> HIDE DEF S
    <3>2. Len(text) \in Nat \ {0} /\ DOMAIN text = 1..Len(text)
      BY <3>1, EmptySeq, LenProperties
    <3>3. 1 \in DOMAIN text /\ text[1] \in S
      BY <3>1, <3>2, LenProperties
    <3> QED
      BY <3>3 DEF S
  <2>3. Finite(report[text[1].of])
    BY <2>2 DEF Parse, Loadable
  <2> DEFINE w == IF \A i \in DOMAIN text : text[i].of = text[1].of
                  THEN text[1].of ELSE Phantom
  <2>4. w \in Analyses \cup {Phantom} /\ (w \in Analyses => Finite(report[w]))
    BY <2>2, <2>3, NamesAssumption
  <2> QED
    BY <2>4 DEF Parse
<1>2. /\ report' = report /\ source' = source /\ result' = result /\ exit' = exit
      /\ stage = "reading" /\ loaded \in [Sides -> Analyses \cup {Nobody, Phantom}]
      /\ stage' = IF Loading = "baseline" /\ ~InMemory("current") THEN "opening" ELSE "ready"
  BY DEF Parse, saving, TypeOK
<1>3. result = NoResult /\ exit = -1 /\ loaded["current"] = Nobody
  BY <1>2 DEF SettledInv
<1>4. who # Nobody
  BY NamesAssumption
<1>5. CASE loaded["baseline"] = Nobody
  <2>1. Loading = "baseline"
    BY <1>5 DEF Loading
  <2>2. loaded'["baseline"] = who /\ loaded'["current"] = Nobody
    BY <1>1, <1>2, <1>3, <2>1 DEF Sides
  <2>3. stage' = "opening" \/ (stage' = "ready" /\ InMemory("current"))
    BY <1>2, <2>1
  <2> QED
    BY <1>1, <1>2, <1>3, <1>4, <2>2, <2>3, NamesAssumption
    DEF SettledInv, InMemory, Sides
<1>6. CASE loaded["baseline"] # Nobody
  <2>1. Loading = "current"
    BY <1>6 DEF Loading
  <2>2. loaded'["current"] = who /\ loaded'["baseline"] = loaded["baseline"]
    BY <1>1, <1>2, <2>1 DEF Sides
  <2>3. stage' = "ready"
    BY <1>2, <2>1
  <2> QED
    BY <1>1, <1>2, <1>3, <1>4, <1>6, <2>2, <2>3, NamesAssumption
    DEF SettledInv, InMemory, Sides
<1> QED
  BY <1>5, <1>6

\* Comparing gives a result of the two sides, or nothing about a phantom.
LEMMA SettledCompare ==
  ASSUME TypeOK, SettledInv, NEW multiplier \in Multipliers, NEW gated \in BOOLEAN,
         Compare(multiplier, gated)
  PROVE  SettledInv'
<1>1. /\ report' = report /\ source' = source /\ stage = "ready" /\ stage' = "done"
      /\ loaded \in [Sides -> Analyses \cup {Nobody, Phantom}]
      /\ report \in [Analyses -> Results] /\ exit = -1
  BY DEF Compare, saving, TypeOK, SettledInv
<1>2. InMemory("current")' = InMemory("current") /\ InMemory("baseline")' = InMemory("baseline")
  BY <1>1 DEF InMemory
<1>3. /\ loaded'["baseline"] = loaded["baseline"]
      /\ loaded'["current"] = IF InMemory("current") THEN source["current"] ELSE loaded["current"]
  BY <1>1 DEF Compare, Sides
<1>4. loaded'["baseline"] \in Analyses \cup {Phantom}
  BY <1>1, <1>3 DEF SettledInv, Sides
<1>5. loaded'["current"] \in Analyses \cup {Phantom}
  <2>1. InMemory("current") => source["current"] \in Analyses
    BY DEF InMemory
  <2>2. ~InMemory("current") => loaded["current"] \in Analyses \cup {Phantom}
    BY <1>1 DEF SettledInv, Sides
  <2> QED
    BY <1>3, <2>1, <2>2
<1>6. ASSUME NEW side \in Sides, loaded'[side] \in Analyses, ~InMemory(side)'
      PROVE  Finite(report'[loaded'[side]])
  <2>1. ~InMemory(side) /\ loaded'[side] = loaded[side]
    BY <1>2, <1>3, <1>6 DEF Sides
  <2> QED
    BY <1>1, <1>6, <2>1 DEF SettledInv
<1>7. CASE Phantom \in {loaded'[side] : side \in Sides}
  <2>1. result' = NoResult
    BY <1>7 DEF Compare
  <2> QED
    BY <1>1, <1>4, <1>5, <1>6, <1>7, <2>1 DEF SettledInv
<1>8. CASE Phantom \notin {loaded'[side] : side \in Sides}
  <2>1. loaded'["baseline"] \in Analyses /\ loaded'["current"] \in Analyses
    BY <1>4, <1>5, <1>8 DEF Sides
  <2>2. result' = Compared(Side("baseline")', Side("current")', multiplier, gated)
    BY <1>8 DEF Compare
  <2>3. /\ DOMAIN Side("baseline").metrics' \subseteq Keys
        /\ DOMAIN Side("current").metrics' \subseteq Keys
    <3>1. ASSUME NEW side \in Sides, loaded'[side] \in Analyses
          PROVE  DOMAIN Side(side)'.metrics \subseteq Keys
      <4>1. report'[loaded'[side]] \in Results
        BY <1>1, <3>1
      <4>2. Side(side)'.metrics = report'[loaded'[side]].metrics
        BY <4>1, ReloadedSame DEF Side
      <4> QED
        BY <4>1, <4>2, ResultsAssumption
    <3> QED
      BY <2>1, <3>1 DEF Sides
  <2>4. result' # NoResult
    BY <2>2, <2>3, ComparedIsResult
  <2>5. exit' = 0 => ~Failing(result')
    BY <1>1, <1>8 DEF Compare
  <2>6. \E m \in Multipliers, g \in BOOLEAN :
          result' = Compared(Side("baseline")', Side("current")', m, g)
    BY <2>2
  <2> QED
    BY <1>1, <1>6, <2>1, <2>4, <2>5, <2>6 DEF SettledInv
<1> QED
  BY <1>7, <1>8

\* Every other step of the comparison.
LEMMA SettledLoading ==
  ASSUME TypeOK, SettledInv,
         \/ \E current \in Paths \cup Analyses : Begin(current)
         \/ OpenLoad \/ Read \/ LoadFails
  PROVE  SettledInv'
<1>1. ASSUME NEW current \in Paths \cup Analyses, Begin(current)  PROVE SettledInv'
  <2>1. /\ report' = report /\ loaded' = loaded /\ result' = result /\ exit' = exit
        /\ stage = "idle" /\ stage' = "opening"
        /\ source'["baseline"] \in Paths
    BY <1>1 DEF Begin, saving
  <2>2. loaded["baseline"] = Nobody /\ loaded["current"] = Nobody
    BY <2>1 DEF SettledInv
  <2>3. result = NoResult /\ exit = -1
    BY <2>1 DEF SettledInv
  <2> QED
    BY <2>1, <2>2, <2>3, NamesAssumption DEF SettledInv, Sides
<1>2. CASE OpenLoad
  <2>1. /\ report' = report /\ loaded' = loaded /\ result' = result /\ exit' = exit
        /\ source' = source /\ stage = "opening" /\ stage' = "reading"
    BY <1>2 DEF OpenLoad, saving
  <2> QED
    BY <2>1 DEF SettledInv, InMemory, Side, Sides
<1>3. CASE Read
  <2>1. /\ report' = report /\ loaded' = loaded /\ result' = result /\ exit' = exit
        /\ source' = source /\ stage' = stage
    BY <1>3 DEF Read, saving
  <2> QED
    BY <2>1 DEF SettledInv, InMemory, Side, Sides
<1>4. CASE LoadFails
  <2>1. /\ report' = report /\ loaded' = loaded /\ result' = result
        /\ source' = source /\ stage \in {"opening", "reading"} /\ stage' = "done"
        /\ exit' = exit \/ exit' = 1
    BY <1>4 DEF LoadFails, saving, ErrorStatus
  <2>2. result = NoResult /\ exit = -1
    BY <2>1 DEF SettledInv
  <2> QED
    BY <2>1, <2>2 DEF SettledInv, InMemory, Sides
<1> QED
  BY <1>1, <1>2, <1>3, <1>4

\* What has been read is text of the file.
LEMMA UnreadText ==
  ASSUME TypeOK, file[source[Loading]] # Missing, source[Loading] \in Paths
  PROVE  /\ Unread \in Seq(Cells)
         /\ \A n \in 1..Len(Unread) : SubSeq(Unread, 1, n) \in Seq(Cells)
<1>1. file[source[Loading]] \in Seq(Cells) /\ text \in Seq(Cells)
  BY DEF TypeOK, Cells
<1>2. Unread \in Seq(Cells)
  BY <1>1, SubSeqProperties, LenProperties DEF Unread
<1>3. ASSUME NEW n \in 1..Len(Unread)  PROVE SubSeq(Unread, 1, n) \in Seq(Cells)
  <2>1. \A i \in 1..n : Unread[i] \in Cells
    BY <1>2, LenProperties
  <2> QED
    BY <2>1, SubSeqProperties
<1> QED
  BY <1>2, <1>3

\* Saving keeps the types, and files that exist go on existing.
LEMMA TypeSaving ==
  ASSUME TypeOK, FileInv, NEW a \in Analyses, Compute(a) \/ Open(a) \/ Write(a) \/ Fail(a)
  PROVE  TypeOK' /\ FileInv'
<1>1. /\ report' = report /\ path' = path /\ stage' = stage /\ source' = source
      /\ hint' = hint /\ text' = text /\ loaded' = loaded /\ exit' = exit
      /\ Loading' = Loading
  BY DEF Compute, Open, Write, Fail, comparing, Loading
<1>2. pc' \in [Analyses -> {"new", "computed", "opened", "saved", "failed"}]
  BY DEF TypeOK, Compute, Open, Write, Fail
<1>3. alone' \subseteq Analyses /\ touched' \in [Sides -> SUBSET Analyses]
  <2>1. CASE Compute(a) \/ Fail(a)
    BY <2>1 DEF Compute, Fail, TypeOK
  <2>2. CASE Touch(a)
    <3>1. Loading \in Sides
      BY DEF Loading, Sides
    <3> QED
      BY <2>2, <3>1 DEF Touch, TypeOK
  <2> QED
    BY <2>1, <2>2 DEF Open, Write
<1>4. /\ file' \in [Paths -> Seq(Cells) \cup {Missing}]
      /\ \A p \in Paths : file[p] # Missing => file'[p] # Missing
      /\ \A b \in Analyses : pc'[b] = "opened" => file'[path[b]] # Missing
  <2>1. /\ file \in [Paths -> Seq(Cells) \cup {Missing}] /\ path[a] \in Paths
        /\ pc \in [Analyses -> {"new", "computed", "opened", "saved", "failed"}]
        /\ path \in [Analyses -> Paths]
    BY DEF TypeOK, Cells
  <2>2. Missing \notin Seq(Cells)
    BY MissingAssumption DEF Cells
  <2>3. CASE Compute(a) \/ Fail(a)
    <3>1. file' = file /\ \A b \in Analyses : pc'[b] = "opened" => pc[b] = "opened"
      BY <2>1, <2>3 DEF Compute, Fail
    <3> QED
      BY <2>1, <3>1 DEF FileInv
  <2>4. CASE Open(a) \/ Write(a)
    <3>1. PICK t \in Seq(Cells) : file' = [file EXCEPT ![path[a]] = t]
      <4>1. CASE Open(a)
        BY <4>1, EmptySeq DEF Open
      <4>2. CASE Write(a)
        <5>1. file[path[a]] \in Seq(Cells)
          BY <2>1, <4>2 DEF Write, FileInv
        <5>2. Overwritten(file[path[a]], Whole(a)) \in Seq(Cells)
          BY <5>1, WholeText, OverwrittenText DEF TypeOK
        <5> QED
          BY <4>2, <5>2 DEF Write
      <4> QED
        BY <2>4, <4>1, <4>2
    <3>2. \A b \in Analyses \ {a} : pc'[b] = pc[b]
      BY <2>1, <2>4 DEF Open, Write
    <3> QED
      BY <2>1, <2>2, <3>1, <3>2 DEF FileInv
  <2> QED
    BY <2>3, <2>4
<1>5. TypeOK'
  BY <1>1, <1>2, <1>3, <1>4 DEF TypeOK, Cells
<1>6. FileInv'
  BY <1>1, <1>4 DEF FileInv
<1> QED
  BY <1>5, <1>6

\* So does the comparison.
LEMMA TypeComparing ==
  ASSUME TypeOK, FileInv, SettledInv,
         \/ \E current \in Paths \cup Analyses : Begin(current)
         \/ OpenLoad \/ Read \/ Parse \/ LoadFails
         \/ \E multiplier \in Multipliers, gated \in BOOLEAN : Compare(multiplier, gated)
  PROVE  TypeOK' /\ FileInv'
<1>1. /\ pc' = pc /\ report' = report /\ path' = path /\ file' = file /\ alone' = alone
      /\ touched' = touched
  BY DEF Begin, OpenLoad, Read, Parse, LoadFails, Compare, saving
<1>2. ASSUME NEW current \in Paths \cup Analyses, Begin(current)
      PROVE  TypeOK' /\ FileInv'
  <2>1. /\ hint' = hint /\ text' = text /\ loaded' = loaded /\ exit' = exit
        /\ stage' = "opening" /\ source' \in [Sides -> Paths \cup Analyses]
        /\ source'["baseline"] \in Paths /\ stage = "idle"
        /\ source'["current"] \in Paths \cup Analyses
    BY <1>2 DEF Begin, Sides
  <2>2. Loading' = "baseline"
    BY <2>1 DEF Loading, SettledInv
  <2>3. TypeOK'
    BY <1>1, <2>1 DEF TypeOK
  <2> QED
    BY <1>1, <2>1, <2>2, <2>3 DEF FileInv
<1>3. CASE OpenLoad
  <2>1. /\ source' = source /\ loaded' = loaded /\ exit' = exit /\ Loading' = Loading
        /\ stage = "opening" /\ stage' = "reading"
        /\ file[source[Loading]] # Missing /\ source[Loading] \in Paths
    BY <1>3 DEF OpenLoad, Loading, FileInv
  <2>2. hint' \in Nat
    <3>1. file[source[Loading]] \in Seq(Cells)
      BY <2>1 DEF TypeOK, Cells
    <3> QED
      BY <1>3, <3>1, LenProperties DEF OpenLoad
  <2>3. text' \in Seq(Cells)
    BY <1>3, EmptySeq DEF OpenLoad
  <2>4. TypeOK'
    BY <1>1, <2>1, <2>2, <2>3 DEF TypeOK, Cells
  <2> QED
    BY <1>1, <2>1, <2>4 DEF FileInv
<1>4. CASE Read
  <2>1. /\ source' = source /\ loaded' = loaded /\ exit' = exit /\ hint' = hint
        /\ Loading' = Loading /\ stage = "reading" /\ stage' = stage
        /\ file[source[Loading]] # Missing /\ source[Loading] \in Paths
    BY <1>4 DEF Read, Loading, FileInv
  <2>2. text' \in Seq(Cells)
    <3>1. PICK n \in 1..Len(Unread) : text' = text \o SubSeq(Unread, 1, n)
      BY <1>4 DEF Read
    <3>2. SubSeq(Unread, 1, n) \in Seq(Cells)
      BY <2>1, UnreadText
    <3>3. text \in Seq(Cells)
      BY DEF TypeOK, Cells
    <3> QED
      BY <3>1, <3>2, <3>3, ConcatProperties
  <2>3. TypeOK'
    BY <1>1, <2>1, <2>2 DEF TypeOK, Cells
  <2> QED
    BY <1>1, <2>1, <2>3 DEF FileInv
<1>5. CASE Parse
  <2>1. /\ source' = source /\ exit' = exit /\ hint' = hint /\ text' = text
        /\ stage = "reading"
        /\ stage' = IF Loading = "baseline" /\ ~InMemory("current") THEN "opening" ELSE "ready"
    BY <1>5 DEF Parse
  <2>2. SettledInv'
    BY <1>5, SettledParse
  <2> DEFINE who == IF \A i \in DOMAIN text : text[i].of = text[1].of
                    THEN text[1].of ELSE Phantom
  <2>3. who \in Analyses \cup {Phantom}
    <3> DEFINE S == [of : Analyses, at : Nat \ {0}]
    <3>1. text # <<>> /\ text \in Seq(S)
      BY <1>5 DEF Parse, Loadable, Complete, TypeOK
    <3> HIDE DEF S
    <3>2. text[1] \in S
      BY <3>1, EmptySeq, LenProperties
    <3> QED
      BY <3>2 DEF S
  <2>4. loaded' = [loaded EXCEPT ![Loading] = who]
    BY <1>5 DEF Parse
  <2>5. loaded' \in [Sides -> Analyses \cup {Nobody, Phantom}]
    BY <2>3, <2>4 DEF TypeOK
  <2>6. TypeOK'
    BY <1>1, <2>1, <2>5 DEF TypeOK
  <2>7. stage' = "opening" => Loading' = "current" /\ source["current"] \in Paths
    <3>1. ASSUME stage' = "opening"  PROVE loaded'["baseline"] = who /\ ~InMemory("current")
      <4>1. Loading = "baseline" /\ ~InMemory("current")
        BY <2>1, <3>1
      <4> QED
        BY <2>4, <4>1 DEF TypeOK, Sides
    <3>2. who # Nobody
      BY <2>3, NamesAssumption
    <3>3. source["current"] \in Paths \cup Analyses
      BY <2>1 DEF TypeOK
    <3> QED
      BY <3>1, <3>2, <3>3 DEF Loading, InMemory
  <2> QED
    BY <1>1, <2>1, <2>6, <2>7 DEF FileInv
<1>6. CASE LoadFails
  <2>1. /\ source' = source /\ loaded' = loaded /\ hint' = hint /\ text' = text
        /\ stage \in {"opening", "reading"} /\ stage' = "done"
        /\ exit' \in {-1, 0, 1}
    BY <1>6 DEF LoadFails, ErrorStatus, TypeOK
  <2>2. TypeOK'
    BY <1>1, <2>1 DEF TypeOK
  <2> QED
    BY <1>1, <2>1, <2>2 DEF FileInv
<1>7. ASSUME NEW multiplier \in Multipliers, NEW gated \in BOOLEAN,
             Compare(multiplier, gated)
      PROVE  TypeOK' /\ FileInv'
  <2>1. /\ source' = source /\ hint' = hint /\ text' = text
        /\ stage = "ready" /\ stage' = "done"
    BY <1>7 DEF Compare
  <2>2. loaded' \in [Sides -> Analyses \cup {Nobody, Phantom}]
    <3>1. InMemory("current") => source["current"] \in Analyses
      BY DEF InMemory
    <3> QED
      BY <1>7, <3>1 DEF Compare, TypeOK
  <2>3. exit' \in {-1, 0, 1}
    BY <1>7 DEF Compare, TypeOK
  <2>4. TypeOK'
    BY <1>1, <2>1, <2>2, <2>3 DEF TypeOK
  <2> QED
    BY <1>1, <2>1, <2>4 DEF FileInv
<1> QED
  BY <1>2, <1>3, <1>4, <1>5, <1>6, <1>7

\* Opening empties the file, writing fills the empty file, and a step of another
\* save to the same file ends the claim.
LEMMA AloneSaving ==
  ASSUME TypeOK, AloneInv, NEW a \in Analyses, Compute(a) \/ Open(a) \/ Write(a) \/ Fail(a)
  PROVE  AloneInv'
<1>1. /\ report' = report /\ path' = path
      /\ pc \in [Analyses -> {"new", "computed", "opened", "saved", "failed"}]
      /\ path \in [Analyses -> Paths] /\ DOMAIN file = Paths /\ alone \subseteq Analyses
      /\ report \in [Analyses -> Results]
  BY DEF Compute, Open, Write, Fail, TypeOK
<1>2. \A b \in Analyses : Whole(b)' = Whole(b)
  BY <1>1 DEF Whole
<1>3. CASE Compute(a) \/ Fail(a)
  <2>1. file' = file /\ alone' = alone
    BY <1>3 DEF Compute, Fail
  <2>2. \A b \in Analyses : pc'[b] = pc[b] \/ pc'[b] \in {"computed", "failed"}
    BY <1>1, <1>3 DEF Compute, Fail
  <2> QED
    BY <1>1, <1>2, <2>1, <2>2 DEF AloneInv
<1>4. CASE Open(a)
  <2>1. alone' = {b \in alone : path[b] = path[a] => b = a} \cup {a}
    BY <1>4 DEF Open, Touch
  <2>2. file'[path[a]] = <<>> /\ pc'[a] = "opened"
    BY <1>1, <1>4 DEF Open
  <2>3. ASSUME NEW b \in alone', b # a
        PROVE  b \in alone /\ pc'[b] = pc[b] /\ file'[path[b]] = file[path[b]]
    BY <1>1, <1>4, <2>1, <2>3 DEF Open
  <2> QED
    BY <1>1, <1>2, <2>1, <2>2, <2>3 DEF AloneInv
<1>5. CASE Write(a)
  <2>1. alone' = {b \in alone : path[b] = path[a] => b = a}
    BY <1>5 DEF Write, Touch
  <2>2. file'[path[a]] = Overwritten(file[path[a]], Whole(a)) /\ pc'[a] = "saved"
    BY <1>1, <1>5 DEF Write
  <2>3. a \in alone => file'[path[a]] = Whole(a)
    <3>1. a \in alone => file[path[a]] = <<>>
      BY <1>5 DEF AloneInv, Write
    <3>2. Overwritten(<<>>, Whole(a)) = Whole(a)
      BY <1>1, WholeText, OverwrittenEmpty
    <3> QED
      BY <2>2, <3>1, <3>2
  <2>4. ASSUME NEW b \in alone', b # a
        PROVE  b \in alone /\ pc'[b] = pc[b] /\ file'[path[b]] = file[path[b]]
    BY <1>1, <1>5, <2>1, <2>4 DEF Write
  <2> QED
    BY <1>1, <1>2, <2>1, <2>2, <2>3, <2>4 DEF AloneInv
<1> QED
  BY <1>3, <1>4, <1>5

-----------------------------------------------------------------------------

IInv == TypeOK /\ FileInv /\ SettledInv /\ AloneInv

LEMMA Inductive == Spec => []IInv
<1>1. Init => IInv
  <2> SUFFICES ASSUME Init  PROVE IInv
    OBVIOUS
  <2>1. TypeOK
    BY EmptySeq DEF Init, TypeOK, Sides
  <2>2. FileInv
    BY DEF Init, FileInv
  <2>3. SettledInv
    BY NamesAssumption DEF Init, SettledInv, Sides
  <2>4. AloneInv
    BY DEF Init, AloneInv
  <2> QED
    BY <2>1, <2>2, <2>3, <2>4 DEF IInv
<1>2. IInv /\ [Next]_vars => IInv'
  <2> SUFFICES ASSUME IInv, [Next]_vars  PROVE IInv'
    OBVIOUS
  <2>1. TypeOK /\ FileInv /\ SettledInv /\ AloneInv
    BY DEF IInv
  <2>2. ASSUME NEW a \in Analyses, Compute(a) \/ Open(a) \/ Write(a) \/ Fail(a)
        PROVE  IInv'
    <3>1. UNCHANGED <<report, comparing>>
      BY <2>2 DEF Compute, Open, Write, Fail
    <3> QED
      BY <2>1, <2>2, <3>1, TypeSaving, SettledSaving, AloneSaving DEF IInv
  <2>3. ASSUME \/ \E current \in Paths \cup Analyses : Begin(current)
               \/ OpenLoad \/ Read \/ Parse \/ LoadFails
               \/ \E multiplier \in Multipliers, gated \in BOOLEAN :
                    Compare(multiplier, gated)
        PROVE  IInv'
    <3>1. TypeOK' /\ FileInv'
      BY <2>1, <2>3, TypeComparing
    <3>2. SettledInv'
      BY <2>1, <2>3, SettledLoading, SettledParse, SettledCompare
    <3>3. UNCHANGED saving
      BY <2>3 DEF Begin, OpenLoad, Read, Parse, LoadFails, Compare
    <3>4. AloneInv'
      BY <2>1, <3>3 DEF AloneInv, saving, Whole
    <3> QED
      BY <3>1, <3>2, <3>4 DEF IInv
  <2>4. CASE UNCHANGED vars
    <3>1. UNCHANGED <<saving, comparing, touched>>
      BY <2>4 DEF vars
    <3>2. SettledInv'
      BY <2>1, <3>1, SettledSaving DEF saving
    <3>3. TypeOK' /\ FileInv' /\ AloneInv'
      BY <2>1, <3>1 DEF TypeOK, FileInv, AloneInv, Loading, Whole, saving, comparing
    <3> QED
      BY <3>2, <3>3 DEF IInv
  <2> QED
    BY <2>2, <2>3, <2>4 DEF Next
<1> QED
  BY <1>1, <1>2, PTL DEF Spec

\* Every variable keeps its type.
THEOREM TypeCorrect == Spec => []TypeOK
<1>1. IInv => TypeOK
  BY DEF IInv
<1> QED
  BY <1>1, Inductive, PTL

\* Report.save leaves its report alone in the file, when no other save comes by.
THEOREM SaveReplacesAll == Spec => []SaveReplaces
<1>1. IInv => SaveReplaces
  BY DEF IInv, AloneInv, SaveReplaces
<1> QED
  BY <1>1, Inductive, PTL

-----------------------------------------------------------------------------
(* Results. *)

\* A result is the comparison of the reports its sides were loaded from, a
\* loaded threshold apart; the baseline's metrics are finite.
LEMMA ResultOfReports ==
  ASSUME IInv, result # NoResult, NEW b, NEW c,
         b = report[loaded["baseline"]], c = report[loaded["current"]]
  PROVE  /\ b \in Results /\ c \in Results /\ Finite(b)
         /\ loaded["baseline"] \in Analyses /\ loaded["current"] \in Analyses
         /\ result.multiplier \in Nat
         /\ DOMAIN result.verdicts = DOMAIN b.metrics \cap DOMAIN c.metrics
         /\ \A key \in DOMAIN result.verdicts :
              result.verdicts[key] =
                Verdict(key, b.metrics[key], c.metrics[key], result.multiplier)
         /\ \E bb, cc :
              /\ result.warned = Warned(bb, cc)
              /\ bb = Reloaded(b) /\ cc \in {c, Reloaded(c)}
<1>1. /\ loaded["baseline"] \in Analyses /\ loaded["current"] \in Analyses
      /\ source["baseline"] \notin Analyses
  BY DEF IInv, SettledInv
<1>2. PICK multiplier \in Multipliers, gated \in BOOLEAN :
        result = Compared(Side("baseline"), Side("current"), multiplier, gated)
  BY DEF IInv, SettledInv
<1>3. report \in [Analyses -> Results]
  BY DEF IInv, TypeOK
<1>4. b \in Results /\ c \in Results
  BY <1>1, <1>3
<1>5. Finite(b)
  BY <1>1 DEF IInv, SettledInv, InMemory, Sides
<1>6. Side("baseline") = Reloaded(b) /\ Side("current") \in {c, Reloaded(c)}
  BY <1>1 DEF Side, InMemory
<1>7. Side("baseline").metrics = b.metrics /\ Side("current").metrics = c.metrics
  BY <1>1, <1>3, SideMetrics DEF Sides
<1>8. /\ result.multiplier = multiplier
      /\ result.warned = Warned(Side("baseline"), Side("current"))
      /\ result.verdicts = [key \in Common(Side("baseline"), Side("current")) |->
            Verdict(key, Side("baseline").metrics[key], Side("current").metrics[key], multiplier)]
  BY <1>2 DEF Compared
<1>9. multiplier \in Nat
  BY NamesAssumption
<1>10. Common(Side("baseline"), Side("current")) = DOMAIN b.metrics \cap DOMAIN c.metrics
  BY <1>7 DEF Common
<1> QED
  BY <1>1, <1>4, <1>5, <1>6, <1>7, <1>8, <1>9, <1>10

\* "likely noise" is said of two numbers: the baseline is finite, and anything
\* infinite against it exceeds every floor.
THEOREM NoiseMeasured == Spec => []NoiseIsMeasured
<1>1. IInv => NoiseIsMeasured
  <2> SUFFICES ASSUME IInv, result # NoResult, NEW key \in DOMAIN result.verdicts,
                      result.verdicts[key] = "likely_noise", NEW side \in Sides
               PROVE  report[loaded[side]].metrics[key] # Infinite
    BY DEF NoiseIsMeasured
  <2> DEFINE b == report[loaded["baseline"]]
             c == report[loaded["current"]]
  <2>1. /\ Finite(b) /\ key \in DOMAIN b.metrics
        /\ result.verdicts[key] =
             Verdict(key, b.metrics[key], c.metrics[key], result.multiplier)
    BY ResultOfReports
  <2>2. b.metrics[key] # Infinite
    BY <2>1 DEF Finite
  <2>3. ~Exceeds(b.metrics[key], c.metrics[key], Floor[key] * result.multiplier)
    BY <2>1 DEF Verdict
  <2>4. c.metrics[key] # Infinite
    BY <2>2, <2>3 DEF Exceeds
  <2> QED
    BY <2>2, <2>4 DEF Sides
<1> QED
  BY <1>1, Inductive, PTL

\* The gate lets nothing pass that it has not read or that has left its floor.
THEOREM GateIsClosed == Spec => []GateHolds
<1>1. IInv => GateHolds
  <2> SUFFICES ASSUME IInv, exit = 0, Phantom \notin {loaded[side] : side \in Sides}
               PROVE  /\ result # NoResult
                      /\ {loaded[side] : side \in Sides} \subseteq Analyses
                      /\ result.gated =>
                           \A key \in DOMAIN report[loaded["baseline"]].metrics
                                         \cap DOMAIN report[loaded["current"]].metrics :
                             (/\ Floor[key] # Unassessable
                              /\ report[loaded["baseline"]].metrics[key] # 0) =>
                               Abs(report[loaded["current"]].metrics[key]
                                     - report[loaded["baseline"]].metrics[key]) * 1000
                                 <= Floor[key] * result.multiplier
                                      * Abs(report[loaded["baseline"]].metrics[key])
    BY DEF GateHolds
  <2> DEFINE b == report[loaded["baseline"]]
             c == report[loaded["current"]]
  <2>1. result # NoResult /\ ~Failing(result)
    BY DEF IInv, SettledInv
  <2>2. /\ b \in Results /\ c \in Results /\ Finite(b) /\ result.multiplier \in Nat
        /\ loaded["baseline"] \in Analyses /\ loaded["current"] \in Analyses
        /\ DOMAIN result.verdicts = DOMAIN b.metrics \cap DOMAIN c.metrics
        /\ \A key \in DOMAIN result.verdicts :
              result.verdicts[key] =
                Verdict(key, b.metrics[key], c.metrics[key], result.multiplier)
    BY <2>1, ResultOfReports
  <2>3. ASSUME result.gated, NEW key \in DOMAIN b.metrics \cap DOMAIN c.metrics,
               Floor[key] # Unassessable, b.metrics[key] # 0
        PROVE  Abs(c.metrics[key] - b.metrics[key]) * 1000
                 <= Floor[key] * result.multiplier * Abs(b.metrics[key])
    <3>1. b.metrics[key] \in Int /\ c.metrics[key] \in Int \cup {Infinite} /\ key \in Keys
      BY <2>2, <2>3, ResultsAssumption DEF Finite
    <3>2. Floor[key] \in Nat
      BY <2>3, <3>1, NamesAssumption
    <3>3. ~Exceeds(b.metrics[key], c.metrics[key], Floor[key] * result.multiplier)
      BY <2>1, <2>2, <2>3 DEF Failing, Verdict
    <3>4. b.metrics[key] # Infinite /\ c.metrics[key] \in Int /\ c.metrics[key] # Infinite
      BY <3>1, <3>3, NamesAssumption DEF Exceeds
    <3>5. ~(Abs(c.metrics[key] - b.metrics[key]) * 1000
              > (Floor[key] * result.multiplier) * Abs(b.metrics[key]))
      BY <3>3, <3>4 DEF Exceeds
    <3> DEFINE l == Abs(c.metrics[key] - b.metrics[key]) * 1000
               r == (Floor[key] * result.multiplier) * Abs(b.metrics[key])
    <3>6. l \in Int /\ r \in Int
      BY <2>2, <3>1, <3>2, <3>4 DEF Abs
    <3> HIDE DEF l, r
    <3>7. l <= r
      BY <3>5, <3>6 DEF l, r
    <3> QED
      BY <3>7 DEF l, r
  <2> QED
    BY <2>1, <2>2, <2>3 DEF Sides
<1> QED
  BY <1>1, Inductive, PTL

\* Beside a number, an epsilon that does not differ is close to it or NaN.
LEMMA OnlyNaNIsSilent ==
  ASSUME NEW b \in Int, NEW c \in Int \cup {Infinite, NaN}, ~EpsilonsDiffer(b, c)
  PROVE  c = NaN \/ (c \in Int /\ Abs(b - c) <= EpsilonTolerance)
<1>1. b # NaN /\ b # Infinite
  BY NamesAssumption
<1>2. CASE c \in Int
  <2>1. c # NaN /\ c # Infinite
    BY <1>2, NamesAssumption
  <2>2. ~(Abs(b - c) > EpsilonTolerance)
    BY <1>1, <2>1 DEF EpsilonsDiffer
  <2> QED
    BY <1>2, <2>2 DEF Abs, EpsilonTolerance
<1>3. CASE c = Infinite
  BY <1>1, <1>3, NamesAssumption DEF EpsilonsDiffer
<1> QED
  BY <1>2, <1>3

\* What compare keeps silent about was computed with the same parameters, a NaN
\* epsilon of a report in memory apart.
THEOREM SilenceMeansComparable == Spec => []SilentMeansComparable
<1>1. IInv => SilentMeansComparable
  <2> SUFFICES ASSUME IInv, result # NoResult, NEW b, NEW c,
                      b = report[loaded["baseline"]], c = report[loaded["current"]]
               PROVE  /\ \A key \in DOMAIN b.metrics \cup DOMAIN c.metrics :
                           key \notin result.warned =>
                             /\ key \in DOMAIN b.metrics \cap DOMAIN c.metrics
                             /\ Parameter[key] \notin result.warned \cup {"duplicate_epsilon"} =>
                                  Effective(b, Parameter[key]) = Effective(c, Parameter[key])
                      /\ "duplicate_epsilon" \notin result.warned =>
                           \/ InMemory("current") /\ c.duplicate_epsilon = NaN
                           \/ /\ {b.duplicate_epsilon, c.duplicate_epsilon} \subseteq Int
                              /\ Abs(b.duplicate_epsilon - c.duplicate_epsilon)
                                   <= EpsilonTolerance
                      /\ "dim" \notin result.warned => b.dim = c.dim
    BY DEF SilentMeansComparable
  <2>1. PICK bb, cc : result.warned = Warned(bb, cc) /\ bb = Reloaded(b) /\ cc \in {c, Reloaded(c)}
    BY ResultOfReports
  <2>2. b \in Results /\ c \in Results
    BY ResultOfReports
  <2>3. /\ bb.metrics = b.metrics /\ bb.dim = b.dim /\ bb.k = b.k
        /\ bb.k_intrinsic_dim = b.k_intrinsic_dim
        /\ bb.duplicate_epsilon = b.duplicate_epsilon
        /\ bb.outlier_distance_threshold \in {b.outlier_distance_threshold, Adaptive}
    BY <2>1, <2>2, ReloadedSame
  <2>4. /\ cc.metrics = c.metrics /\ cc.dim = c.dim /\ cc.k = c.k
        /\ cc.k_intrinsic_dim = c.k_intrinsic_dim
        /\ cc.duplicate_epsilon = c.duplicate_epsilon
        /\ cc.outlier_distance_threshold \in {c.outlier_distance_threshold, Adaptive}
    <3>1. CASE cc = c
      BY <3>1
    <3>2. CASE cc = Reloaded(c)
      BY <2>2, <3>2, ReloadedSame
    <3> QED  BY <2>1, <3>1, <3>2
  <2>5. /\ DOMAIN b.metrics \cup DOMAIN c.metrics \subseteq
             result.warned \cup (DOMAIN b.metrics \cap DOMAIN c.metrics)
        /\ "dim" \notin result.warned => b.dim = c.dim
        /\ "k" \notin result.warned => b.k = c.k
        /\ "k_intrinsic_dim" \notin result.warned => b.k_intrinsic_dim = c.k_intrinsic_dim
        /\ "outlier_distance_threshold" \notin result.warned => ThresholdsComparable(bb, cc)
    BY <2>1, <2>3, <2>4 DEF Warned
  <2>6. ~EpsilonsDiffer(b.duplicate_epsilon, c.duplicate_epsilon)
        \/ "duplicate_epsilon" \in result.warned
    BY <2>1, <2>3, <2>4 DEF Warned
  <2>7. /\ b.duplicate_epsilon \in Int
        /\ c.duplicate_epsilon \in Int \cup {Infinite, NaN}
        /\ ~InMemory("current") => c.duplicate_epsilon \in Int
    <3>1. Finite(b) /\ loaded["current"] \in Analyses
      BY ResultOfReports
    <3>2. ~InMemory("current") => Finite(c)
      BY <3>1 DEF IInv, SettledInv, Sides
    <3> QED
      BY <2>2, <3>1, <3>2, ResultsAssumption DEF Finite
  <2>8. ASSUME "duplicate_epsilon" \notin result.warned
        PROVE  \/ InMemory("current") /\ c.duplicate_epsilon = NaN
               \/ /\ {b.duplicate_epsilon, c.duplicate_epsilon} \subseteq Int
                  /\ Abs(b.duplicate_epsilon - c.duplicate_epsilon) <= EpsilonTolerance
    <3>1. \/ c.duplicate_epsilon = NaN
          \/ /\ c.duplicate_epsilon \in Int
             /\ Abs(b.duplicate_epsilon - c.duplicate_epsilon) <= EpsilonTolerance
      BY <2>6, <2>7, <2>8, OnlyNaNIsSilent
    <3>2. c.duplicate_epsilon = NaN => InMemory("current")
      BY <2>7, NamesAssumption
    <3> QED
      BY <2>7, <3>1, <3>2
  <2>9. ThresholdsComparable(bb, cc) =>
          Effective(b, "outlier_distance_threshold") = Effective(c, "outlier_distance_threshold")
    BY <2>3, <2>4 DEF ThresholdsComparable, Effective
  <2>10. ASSUME NEW key \in DOMAIN b.metrics \cup DOMAIN c.metrics,
                Parameter[key] \notin result.warned \cup {"duplicate_epsilon"}
         PROVE  Effective(b, Parameter[key]) = Effective(c, Parameter[key])
    <3>1. Parameter[key] \in Parameters \cup {"none"}
      BY <2>2, NamesAssumption, ResultsAssumption
    <3>2. CASE Parameter[key] = "k"
      BY <2>5, <2>10, <3>2 DEF Effective
    <3>3. CASE Parameter[key] = "k_intrinsic_dim"
      BY <2>5, <2>10, <3>3 DEF Effective
    <3>4. CASE Parameter[key] = "outlier_distance_threshold"
      BY <2>5, <2>9, <2>10, <3>4
    <3>5. CASE Parameter[key] = "none"
      BY <3>5 DEF Effective
    <3> QED
      BY <2>10, <3>1, <3>2, <3>3, <3>4, <3>5 DEF Parameters
  <2> QED
    BY <2>5, <2>8, <2>10
<1> QED
  BY <1>1, Inductive, PTL

-----------------------------------------------------------------------------
(* What is read. A file is empty or begins with a whole report: the last    *)
(* one written. A text that begins with a whole report can only be complete *)
(* if it is that report, because the cell that ends a report is its last.   *)

Saved(p) == {a \in Analyses : pc[a] = "saved" /\ path[a] = p}
From(t, p) == \A i \in DOMAIN t : t[i].of \in Saved(p)
Headed(t) ==
  \E b \in Analyses : /\ report[b].size <= Len(t)
                      /\ \A i \in 1..report[b].size : t[i].of = b
Begins(t, whole) == Len(t) <= Len(whole) /\ \A i \in 1..Len(t) : t[i] = whole[i]

CellsInv ==
  /\ \A p \in Paths : file[p] # Missing =>
       From(file[p], p) /\ (file[p] = <<>> \/ Headed(file[p]))
  /\ stage = "reading" => From(text, source[Loading])

\* A load that one save at most has disturbed has read nothing, a whole report
\* and more, or the beginning of what that save wrote in one piece.
ReadInv ==
  stage = "reading" =>
    /\ touched[Loading] = {} =>
         /\ hint = Len(file[source[Loading]])
         /\ text = <<>> \/ Headed(text)
    /\ \A a \in Analyses : touched[Loading] = {a} =>
         /\ path[a] = source[Loading]
         /\ pc[a] \in {"opened", "saved", "failed"}
         /\ pc[a] = "saved" \/ file[source[Loading]] = <<>>
         /\ \/ text = <<>>
            \/ Headed(text)
            \/ pc[a] = "saved" /\ Begins(text, file[source[Loading]])

\* Nobody is said to disturb a load that has not begun; what is loaded is a
\* saved report or was disturbed twice.
LoadInv ==
  /\ stage \in {"idle", "opening"} => touched[Loading] = {}
  /\ loaded["baseline"] = Nobody => touched["current"] = {}
  /\ \A side \in Sides :
       /\ loaded[side] \in Analyses /\ ~InMemory(side) =>
            loaded[side] \in Saved(source[side])
       /\ loaded[side] = Phantom => \E a, b \in touched[side] : a # b

\* A complete text that begins with a whole report is that report.
LEMMA HeadedIsWhole ==
  ASSUME TypeOK, text # <<>>, Complete(text), Headed(text)
  PROVE  \A i \in DOMAIN text : text[i].of = text[1].of
<1>1. PICK b \in Analyses : /\ report[b].size <= Len(text)
                           /\ \A i \in 1..report[b].size : text[i].of = b
  BY DEF Headed
<1>2. report[b].size \in Nat \ {0}
  BY ResultsAssumption DEF TypeOK
<1>3. DOMAIN text = 1..Len(text) /\ Len(text) \in Nat
  BY LenProperties DEF TypeOK
<1>4. report[b].size = Len(text)
  <2>1. report[b].size \in DOMAIN text /\ text[report[b].size].of = b
    BY <1>1, <1>2, <1>3
  <2> QED
    BY <2>1 DEF Complete
<1> QED
  BY <1>1, <1>2, <1>3, <1>4

\* Writing over a text: the new cells first, then some of the old ones.
LEMMA OverwrittenCells ==
  ASSUME NEW old \in Seq(Cells), NEW new \in Seq(Cells)
  PROVE  /\ Overwritten(old, new) \in Seq(Cells)
         /\ Len(new) <= Len(Overwritten(old, new))
         /\ \A i \in 1..Len(new) : Overwritten(old, new)[i] = new[i]
         /\ \A i \in DOMAIN Overwritten(old, new) :
              \/ i \in DOMAIN new /\ Overwritten(old, new)[i] = new[i]
              \/ i \in DOMAIN old /\ Overwritten(old, new)[i] = old[i]
<1> DEFINE rest == SubSeq(old, Len(new) + 1, Len(old))
<1>1. /\ Len(new) \in Nat /\ Len(old) \in Nat
      /\ DOMAIN new = 1..Len(new) /\ DOMAIN old = 1..Len(old)
      /\ \A i \in 1..Len(old) : old[i] \in Cells
  BY LenProperties
<1>2. /\ rest \in Seq(Cells)
      /\ Len(rest) = IF Len(new) + 1 <= Len(old) THEN Len(old) - Len(new) ELSE 0
      /\ \A i \in 1..(Len(old) - Len(new)) : rest[i] = old[Len(new) + i]
  <2>1. \A i \in (Len(new) + 1)..Len(old) : old[i] \in Cells
    BY <1>1
  <2>2. /\ rest \in Seq(Cells)
        /\ Len(rest) = IF Len(new) + 1 <= Len(old) THEN Len(old) - (Len(new) + 1) + 1 ELSE 0
        /\ \A i \in 1..(Len(old) - (Len(new) + 1) + 1) : rest[i] = old[(Len(new) + 1) + i - 1]
    BY <1>1, <2>1, SubSeqProperties
  <2> QED
    BY <1>1, <2>2
<1> HIDE DEF rest
<1>3. /\ new \o rest \in Seq(Cells)
      /\ Len(new \o rest) = Len(new) + Len(rest)
      /\ \A i \in 1..(Len(new) + Len(rest)) :
           (new \o rest)[i] = IF i <= Len(new) THEN new[i] ELSE rest[i - Len(new)]
  BY <1>2, ConcatProperties
<1>4. DOMAIN (new \o rest) = 1..(Len(new) + Len(rest))
  BY <1>3, LenProperties
<1>5. Overwritten(old, new) = new \o rest
  BY DEF Overwritten, rest
<1>6. Len(rest) \in Nat /\ \A i \in Int : i > 0 /\ i <= Len(rest) => i + Len(new) <= Len(old)
  <2> DEFINE m == Len(new)  n == Len(old)  l == Len(rest)
  <2>1. m \in Nat /\ n \in Nat /\ l = IF m + 1 <= n THEN n - m ELSE 0
    BY <1>1, <1>2
  <2> HIDE DEF m, n, l
  <2>2. l \in Nat /\ \A i \in Int : i > 0 /\ i <= l => i + m <= n
    BY <2>1
  <2> QED
    BY <2>2 DEF m, n, l
<1>7. ASSUME NEW i \in DOMAIN (new \o rest)
      PROVE  \/ i \in DOMAIN new /\ (new \o rest)[i] = new[i]
             \/ i \in DOMAIN old /\ (new \o rest)[i] = old[i]
  <2>1. CASE i <= Len(new)
    BY <1>1, <1>3, <1>4, <1>6, <1>7, <2>1
  <2>2. CASE ~(i <= Len(new))
    <3>1. /\ i \in Int /\ i - Len(new) \in 1..(Len(old) - Len(new))
          /\ i \in DOMAIN old /\ Len(new) + (i - Len(new)) = i
      <4> DEFINE m == Len(new)  n == Len(old)  l == Len(rest)
      <4>1. /\ m \in Nat /\ n \in Nat /\ l \in Nat /\ i \in 1..(m + l) /\ ~(i <= m)
            /\ \A j \in Int : j > 0 /\ j <= l => j + m <= n
        BY <1>1, <1>4, <1>6, <1>7, <2>2
      <4> HIDE DEF m, n, l
      <4>2. i \in Int /\ i - m \in Int /\ i - m > 0 /\ i - m <= l
        BY <4>1
      <4>3. (i - m) + m <= n
        BY <4>1, <4>2
      <4>4. i \in Int /\ i - m \in 1..(n - m) /\ i \in 1..n /\ m + (i - m) = i
        BY <4>1, <4>2, <4>3
      <4> QED
        BY <1>1, <4>4 DEF m, n, l
    <3>2. rest[i - Len(new)] = old[i]
      BY <1>2, <3>1
    <3>3. (new \o rest)[i] = rest[i - Len(new)]
      BY <1>3, <1>4, <2>2
    <3> QED
      BY <3>1, <3>2, <3>3
  <2> QED
    BY <2>1, <2>2
<1> QED
  BY <1>1, <1>3, <1>5, <1>6, <1>7

\* What each step of a save does to the rest of the state.
LEMMA SavingSteps ==
  ASSUME TypeOK, NEW a \in Analyses, Compute(a) \/ Open(a) \/ Write(a) \/ Fail(a)
  PROVE  /\ UNCHANGED <<report, path, comparing>>
         /\ \A b \in Analyses \ {a} : pc'[b] = pc[b]
         /\ pc[a] # "saved"
         /\ \A p \in Paths \ {path[a]} : file'[p] = file[p]
         /\ \A p \in Paths : Saved(p) \subseteq Saved(p)'
         /\ \A t : Headed(t) => Headed(t)'
<1>1. /\ UNCHANGED <<report, path, comparing>> /\ pc[a] # "saved"
      /\ pc \in [Analyses -> {"new", "computed", "opened", "saved", "failed"}]
      /\ DOMAIN file = Paths
  BY DEF Compute, Open, Write, Fail, TypeOK
<1>2. \A b \in Analyses \ {a} : pc'[b] = pc[b]
  BY <1>1 DEF Compute, Open, Write, Fail
<1>3. \A p \in Paths \ {path[a]} : file'[p] = file[p]
  BY <1>1 DEF Compute, Open, Write, Fail
<1>4. \A p \in Paths : Saved(p) \subseteq Saved(p)'
  BY <1>1, <1>2 DEF Saved
<1>5. \A t : Headed(t) => Headed(t)'
  BY <1>1 DEF Headed
<1> QED
  BY <1>1, <1>2, <1>3, <1>4, <1>5

\* Every cell is of a save to its path that has come to its end.
LEMMA CellsSaving ==
  ASSUME TypeOK, FileInv, CellsInv, NEW a \in Analyses,
         Compute(a) \/ Open(a) \/ Write(a) \/ Fail(a)
  PROVE  CellsInv'
<1>1. /\ UNCHANGED <<report, path, comparing>>
      /\ \A p \in Paths \ {path[a]} : file'[p] = file[p]
      /\ \A p \in Paths : Saved(p) \subseteq Saved(p)'
      /\ \A t : Headed(t) => Headed(t)'
  BY SavingSteps
<1>2. /\ stage' = stage /\ source' = source /\ text' = text /\ Loading' = Loading
      /\ report' = report /\ path' = path
  BY <1>1 DEF comparing, Loading
<1>3. ASSUME stage' = "reading"  PROVE From(text, source[Loading])'
  BY <1>1, <1>2, <1>3 DEF CellsInv, From, FileInv
<1>4. ASSUME NEW p \in Paths, file'[p] # Missing
      PROVE  From(file[p], p)' /\ (file'[p] = <<>> \/ Headed(file[p])')
  <2>1. CASE file'[p] = file[p]
    BY <1>1, <1>4, <2>1 DEF CellsInv, From, Headed
  <2>2. CASE file'[p] # file[p]
    <3>1. p = path[a]
      BY <1>1, <2>2
    <3>2. CASE Open(a)
      <4>1. file'[p] = <<>>
        BY <3>1, <3>2 DEF Open, TypeOK
      <4> QED
        BY <4>1 DEF From
    <3>3. CASE Write(a)
      <4>1. file[p] \in Seq(Cells) /\ From(file[p], p)
        BY <3>1, <3>3 DEF Write, FileInv, CellsInv, TypeOK, Cells
      <4>2. /\ Whole(a) \in Seq(Cells) /\ Len(Whole(a)) = report[a].size
            /\ \A i \in DOMAIN Whole(a) : Whole(a)[i].of = a
            /\ DOMAIN Whole(a) = 1..report[a].size
        <5>1. Whole(a) \in Seq(Cells) /\ Len(Whole(a)) = report[a].size
          BY WholeText DEF TypeOK
        <5> QED
          BY <5>1 DEF Whole
      <4>3. file'[p] = Overwritten(file[p], Whole(a))
        BY <3>1, <3>3 DEF Write, TypeOK
      <4>4. a \in Saved(p)'
        BY <3>1, <3>3, <1>2 DEF Write, Saved, TypeOK
      <4>5. From(file[p], p)'
        <5>1. ASSUME NEW i \in DOMAIN file'[p]  PROVE file'[p][i].of \in Saved(p)'
          <6>1. CASE i \in DOMAIN Whole(a) /\ file'[p][i] = Whole(a)[i]
            BY <4>2, <4>4, <6>1
          <6>2. CASE i \in DOMAIN file[p] /\ file'[p][i] = file[p][i]
            BY <1>1, <4>1, <6>2 DEF From
          <6> QED
            BY <4>1, <4>2, <4>3, <5>1, <6>1, <6>2, OverwrittenCells
        <5> QED
          BY <5>1 DEF From
      <4>6. Headed(file[p])'
        <5>1. /\ report'[a].size <= Len(file'[p])
              /\ \A i \in 1..report'[a].size : file'[p][i].of = a
          BY <1>2, <4>1, <4>2, <4>3, OverwrittenCells
        <5> QED
          BY <5>1 DEF Headed
      <4> QED
        BY <4>5, <4>6
    <3> QED
      BY <2>2, <3>2, <3>3 DEF Compute, Fail
  <2> QED
    BY <2>1, <2>2
<1> QED
  BY <1>3, <1>4 DEF CellsInv

\* A read appends cells of the file to the text.
LEMMA ReadCells ==
  ASSUME TypeOK, FileInv, Read
  PROVE  /\ text' \in Seq(Cells) /\ Len(text) \in Nat /\ Len(text') \in Nat
         /\ Len(text) <= Len(text') /\ Len(text') <= Len(file[source[Loading]])
         /\ Len(text) < Len(file[source[Loading]])
         /\ file[source[Loading]] \in Seq(Cells)
         /\ \A i \in 1..Len(text) : text'[i] = text[i]
         /\ \A i \in 1..Len(text') : i > Len(text) => text'[i] = file[source[Loading]][i]
         /\ text = <<>> /\ hint = Len(file[source[Loading]]) => text' = file[source[Loading]]
<1> DEFINE f == file[source[Loading]]
<1>1. f \in Seq(Cells) /\ text \in Seq(Cells)
  BY DEF Read, FileInv, TypeOK, Cells
<1> HIDE DEF f
<1>2. /\ Len(f) \in Nat /\ Len(text) \in Nat
      /\ DOMAIN text = 1..Len(text) /\ \A i \in 1..Len(f) : f[i] \in Cells
  BY <1>1, LenProperties
<1>3. /\ Unread \in Seq(Cells)
      /\ Len(Unread) = IF Len(text) + 1 <= Len(f) THEN Len(f) - Len(text) ELSE 0
      /\ \A i \in 1..(Len(f) - Len(text)) : Unread[i] = f[Len(text) + i]
  <2>1. \A i \in (Len(text) + 1)..Len(f) : f[i] \in Cells
    BY <1>2
  <2>2. Unread = SubSeq(f, Len(text) + 1, Len(f))
    BY DEF Unread, f
  <2>3. /\ Unread \in Seq(Cells)
        /\ Len(Unread) = IF Len(text) + 1 <= Len(f) THEN Len(f) - (Len(text) + 1) + 1 ELSE 0
        /\ \A i \in 1..(Len(f) - (Len(text) + 1) + 1) : Unread[i] = f[(Len(text) + 1) + i - 1]
    BY <1>2, <2>1, <2>2, SubSeqProperties
  <2> QED
    BY <1>2, <2>3
<1>4. PICK n \in 1..Len(Unread) :
        /\ Len(text) < hint =>
             n = IF Len(Unread) < hint - Len(text) THEN Len(Unread) ELSE hint - Len(text)
        /\ text' = text \o SubSeq(Unread, 1, n)
  BY DEF Read
<1> DEFINE l == Len(text)  m == Len(f)  piece == SubSeq(Unread, 1, n)
<1>5. l \in Nat /\ m \in Nat /\ n \in Nat \ {0} /\ l + n <= m
  <2>1. Len(Unread) \in Nat
    BY <1>3, LenProperties
  <2> QED
    BY <1>2, <1>3, <2>1
<1>6. piece \in Seq(Cells) /\ Len(piece) = n /\ \A i \in 1..n : piece[i] = f[l + i]
  <2>1. \A i \in 1..n : Unread[i] = f[l + i]
    BY <1>3, <1>5
  <2>2. \A i \in 1..n : Unread[i] \in Cells
    BY <1>2, <1>5, <2>1
  <2>3. /\ piece \in Seq(Cells) /\ Len(piece) = IF 1 <= n THEN n - 1 + 1 ELSE 0
        /\ \A i \in 1..(n - 1 + 1) : piece[i] = Unread[1 + i - 1]
    BY <1>5, <2>2, SubSeqProperties
  <2> QED
    BY <1>5, <2>1, <2>3
<1> HIDE DEF piece
<1>7. /\ text' \in Seq(Cells) /\ Len(text') = l + n
      /\ \A i \in 1..(l + n) : text'[i] = IF i <= l THEN text[i] ELSE piece[i - l]
  <2>1. text' = text \o piece
    BY <1>4 DEF piece
  <2> QED
    BY <1>1, <1>6, <2>1, ConcatProperties
<1>8. \A i \in 1..(l + n) : i > l => text'[i] = f[i]
  <2> SUFFICES ASSUME NEW i \in 1..(l + n), i > l  PROVE text'[i] = f[i]
    OBVIOUS
  <2>1. text'[i] = piece[i - l] /\ i - l \in 1..n /\ l + (i - l) = i
    BY <1>5, <1>7
  <2> QED
    BY <1>6, <2>1
<1>9. ASSUME text = <<>>, hint = m  PROVE text' = f
  <2>1. l = 0
    BY <1>9, EmptySeq
  <2>2. Len(Unread) = m /\ m > 0
    BY <1>3, <1>5, <2>1
  <2>3. n = m
    BY <1>4, <1>5, <1>9, <2>1, <2>2
  <2>4. Len(text') = m /\ \A i \in 1..m : text'[i] = f[i]
    BY <1>5, <1>7, <1>8, <2>1, <2>3
  <2> QED
    BY <1>1, <1>7, <2>4, SeqEqual
<1> QED
  <2>1. \A i \in 1..l : text'[i] = text[i]
    BY <1>5, <1>7
  <2> QED
    BY <1>1, <1>5, <1>7, <1>8, <1>9, <2>1 DEF f

\* The comparison's steps leave the files alone; of a text, only Read adds cells.
LEMMA CellsComparing ==
  ASSUME TypeOK, FileInv, SettledInv, CellsInv, UNCHANGED <<saving, touched>>,
         \/ \E current \in Paths \cup Analyses : Begin(current)
         \/ OpenLoad \/ Read \/ Parse \/ LoadFails
         \/ \E multiplier \in Multipliers, gated \in BOOLEAN : Compare(multiplier, gated)
  PROVE  CellsInv'
<1>1. /\ pc' = pc /\ report' = report /\ path' = path /\ file' = file
  BY DEF saving
<1>2. \A p \in Paths : file'[p] # Missing =>
        From(file[p], p)' /\ (file'[p] = <<>> \/ Headed(file[p])')
  BY <1>1 DEF CellsInv, From, Saved, Headed
<1>3. ASSUME stage' = "reading"  PROVE From(text, source[Loading])'
  <2>1. CASE OpenLoad
    <3>1. text' = <<>>
      BY <2>1 DEF OpenLoad
    <3> QED
      BY <3>1 DEF From
  <2>2. CASE Read
    <3>1. /\ stage = "reading" /\ source' = source /\ Loading' = Loading
          /\ source[Loading] \in Paths /\ file[source[Loading]] # Missing
      BY <2>2 DEF Read, Loading, FileInv
    <3> DEFINE f == file[source[Loading]]  p == source[Loading]
    <3>2. From(text, p) /\ From(f, p)
      BY <3>1 DEF CellsInv
    <3>3. /\ text \in Seq(Cells) /\ f \in Seq(Cells) /\ text' \in Seq(Cells)
          /\ Len(text) \in Nat /\ Len(text') \in Nat
          /\ Len(text') <= Len(f)
          /\ \A i \in 1..Len(text) : text'[i] = text[i]
          /\ \A i \in 1..Len(text') : i > Len(text) => text'[i] = f[i]
      BY <2>2, ReadCells DEF TypeOK, Cells
    <3> HIDE DEF f, p
    <3>4. /\ DOMAIN text = 1..Len(text) /\ DOMAIN f = 1..Len(f) /\ Len(f) \in Nat
          /\ DOMAIN text' = 1..Len(text')
      BY <3>3, LenProperties
    <3>5. ASSUME NEW i \in DOMAIN text'  PROVE text'[i].of \in Saved(p)
      <4>1. CASE i <= Len(text)
        BY <3>2, <3>3, <3>4, <3>5, <4>1 DEF From
      <4>2. CASE i > Len(text)
        BY <3>2, <3>3, <3>4, <3>5, <4>2 DEF From
      <4> QED
        BY <3>3, <3>4, <3>5, <4>1, <4>2
    <3> QED
      BY <1>1, <3>1, <3>5 DEF From, Saved, p
  <2> QED
    BY <1>3, <2>1, <2>2 DEF Begin, Parse, LoadFails, Compare
<1> QED
  BY <1>2, <1>3 DEF CellsInv

\* The first save to disturb a load finds it at the start or past a whole report,
\* and is through when the load can read on; a second one ends the claim.
LEMMA ReadSaving ==
  ASSUME TypeOK, FileInv, CellsInv, ReadInv, NEW a \in Analyses,
         Compute(a) \/ Open(a) \/ Write(a) \/ Fail(a)
  PROVE  ReadInv'
<1>1. /\ report' = report /\ path' = path /\ stage' = stage /\ source' = source
      /\ text' = text /\ hint' = hint /\ Loading' = Loading
      /\ pc[a] # "saved"
      /\ \A b \in Analyses \ {a} : pc'[b] = pc[b]
      /\ \A p \in Paths \ {path[a]} : file'[p] = file[p]
      /\ \A t : Headed(t) => Headed(t)'
  BY SavingSteps DEF comparing, Loading
<1> SUFFICES ASSUME stage = "reading"  PROVE ReadInv'
  BY <1>1 DEF ReadInv
<1> DEFINE p == source[Loading]  T == touched[Loading]
<1>2. p \in Paths /\ Loading \in Sides /\ DOMAIN touched = Sides
  BY DEF FileInv, Loading, Sides, TypeOK
<1>3. CASE touched' = touched /\ file'[p] = file[p] /\ ~(T = {a} /\ pc[a] = "saved")
           /\ (T = {a} => pc'[a] \in {"opened", "saved", "failed"})
           /\ (T = {a} => file[p] = <<>>)
  <2>1. T = {} => hint' = Len(file'[p]) /\ (text' = <<>> \/ Headed(text)')
    BY <1>1, <1>3 DEF ReadInv
  <2>2. ASSUME NEW b \in Analyses, T = {b}
        PROVE  /\ path'[b] = p
               /\ pc'[b] \in {"opened", "saved", "failed"}
               /\ pc'[b] = "saved" \/ file'[p] = <<>>
               /\ text' = <<>> \/ Headed(text)' \/ (pc'[b] = "saved" /\ Begins(text', file'[p]))
    <3>1. CASE b = a
      BY <1>1, <1>3, <2>2, <3>1 DEF ReadInv
    <3>2. CASE b # a
      BY <1>1, <1>3, <2>2, <3>2 DEF ReadInv
    <3> QED
      BY <3>1, <3>2
  <2> QED
    BY <1>1, <1>3, <2>1, <2>2 DEF ReadInv
<1>4. CASE Compute(a)
  <2>1. T # {a}
    BY <1>4 DEF Compute, ReadInv
  <2>2. touched' = touched /\ file' = file
    BY <1>4 DEF Compute
  <2> QED
    BY <1>3, <2>1, <2>2
<1>5. CASE Fail(a)
  <2>1. touched' = touched /\ file' = file /\ pc[a] = "opened" /\ pc'[a] = "failed"
    BY <1>5 DEF Fail, TypeOK
  <2>2. T = {a} => file[p] = <<>>
    BY <2>1 DEF ReadInv
  <2> QED
    BY <1>3, <2>1, <2>2
<1>6. CASE Open(a) \/ Write(a)
  <2>1. CASE p # path[a]
    <3>1. touched' = touched
      BY <1>6, <2>1 DEF Open, Write, Touch
    <3>2. T # {a}
      BY <2>1 DEF ReadInv
    <3>3. file'[p] = file[p]
      BY <1>1, <1>2, <2>1
    <3> QED
      BY <1>3, <3>1, <3>2, <3>3
  <2>2. CASE p = path[a]
    <3>1. touched'[Loading] = T \cup {a}
      BY <1>2, <1>6, <2>2 DEF Open, Write, Touch
    <3>2. CASE T \subseteq {a}
      <4>1. T = {} \/ T = {a}
        BY <3>2
      <4>2. /\ pc'[a] \in {"opened", "saved"}
            /\ pc'[a] = "saved" \/ file'[p] = <<>>
            /\ text = <<>> \/ Headed(text)
        <5>1. CASE Open(a)
          <6>1. pc[a] = "computed" /\ pc'[a] = "opened" /\ file'[p] = <<>>
            BY <1>2, <2>2, <5>1 DEF Open, TypeOK
          <6> QED
            BY <4>1, <6>1 DEF ReadInv
        <5>2. CASE Write(a)
          <6>1. pc[a] = "opened" /\ pc'[a] = "saved"
            BY <5>2 DEF Write, TypeOK
          <6> QED
            BY <4>1, <6>1 DEF ReadInv
        <5> QED
          BY <1>6, <5>1, <5>2
      <4>3. touched'[Loading] = {a}
        BY <3>1, <3>2
      <4> QED
        BY <1>1, <2>2, <4>2, <4>3 DEF ReadInv
    <3>3. CASE ~(T \subseteq {a})
      <4>1. \A b : touched'[Loading] # {b}
        BY <3>1, <3>3
      <4>2. touched'[Loading] # {}
        BY <3>1
      <4> QED
        BY <1>1, <4>1, <4>2 DEF ReadInv
    <3> QED
      BY <3>2, <3>3
  <2> QED
    BY <2>1, <2>2
<1> QED
  BY <1>4, <1>5, <1>6

\* An undisturbed load takes the whole file at once; a disturbed one goes on where
\* it is.
LEMMA ReadComparing ==
  ASSUME TypeOK, FileInv, SettledInv, CellsInv, ReadInv, LoadInv,
         UNCHANGED <<saving, touched>>,
         \/ \E current \in Paths \cup Analyses : Begin(current)
         \/ OpenLoad \/ Read \/ Parse \/ LoadFails
         \/ \E multiplier \in Multipliers, gated \in BOOLEAN : Compare(multiplier, gated)
  PROVE  ReadInv'
<1>1. /\ pc' = pc /\ report' = report /\ path' = path /\ file' = file /\ touched' = touched
  BY DEF saving
<1>2. CASE OpenLoad
  <2>1. /\ source' = source /\ Loading' = Loading /\ stage = "opening"
        /\ hint' = Len(file[source[Loading]]) /\ text' = <<>>
    BY <1>2 DEF OpenLoad, Loading
  <2>2. touched[Loading] = {}
    BY <2>1 DEF LoadInv
  <2> QED
    BY <1>1, <2>1, <2>2 DEF ReadInv
<1>3. CASE Read
  <2>1. /\ stage = "reading" /\ source' = source /\ Loading' = Loading /\ hint' = hint
        /\ source[Loading] \in Paths /\ file[source[Loading]] # Missing
    BY <1>3 DEF Read, Loading, FileInv
  <2> DEFINE f == file[source[Loading]]
  <2>2. /\ text \in Seq(Cells) /\ f \in Seq(Cells) /\ text' \in Seq(Cells)
        /\ Len(text) \in Nat /\ Len(text') \in Nat /\ Len(text) <= Len(text')
        /\ Len(text') <= Len(f) /\ Len(text) < Len(f)
        /\ \A i \in 1..Len(text) : text'[i] = text[i]
        /\ \A i \in 1..Len(text') : i > Len(text) => text'[i] = f[i]
        /\ text = <<>> /\ hint = Len(f) => text' = f
    BY <1>3, ReadCells DEF TypeOK, Cells
  <2>3. f # <<>> /\ Headed(f)
    BY <2>1, <2>2, EmptySeq DEF CellsInv
  <2>4. Headed(text) => Headed(text')
    <3> SUFFICES ASSUME Headed(text)  PROVE Headed(text')
      OBVIOUS
    <3>1. PICK b \in Analyses : /\ report[b].size <= Len(text)
                               /\ \A i \in 1..report[b].size : text[i].of = b
      BY DEF Headed
    <3>2. report[b].size \in Nat \ {0}
      BY ResultsAssumption DEF TypeOK
    <3>3. /\ report[b].size <= Len(text')
          /\ \A i \in 1..report[b].size : i \in 1..Len(text)
      BY <2>2, <3>1, <3>2
    <3> QED
      BY <2>2, <3>1, <3>3 DEF Headed
  <2>5. touched[Loading] = {} => hint = Len(f) /\ Headed(text')
    <3> SUFFICES ASSUME touched[Loading] = {}  PROVE hint = Len(f) /\ Headed(text')
      OBVIOUS
    <3>1. hint = Len(f) /\ (text = <<>> \/ Headed(text))
      BY <2>1 DEF ReadInv
    <3> QED
      BY <2>2, <2>3, <2>4, <3>1
  <2>6. ASSUME NEW a \in Analyses, touched[Loading] = {a}
        PROVE  /\ path[a] = source[Loading]
               /\ pc[a] \in {"opened", "saved", "failed"}
               /\ pc[a] = "saved"
               /\ Headed(text') \/ Begins(text', f)
    <3>1. /\ path[a] = source[Loading] /\ pc[a] \in {"opened", "saved", "failed"}
          /\ pc[a] = "saved"
          /\ text = <<>> \/ Headed(text) \/ Begins(text, f)
      BY <2>1, <2>3, <2>6 DEF ReadInv
    <3>2. text = <<>> => Begins(text, f)
      BY <2>2, EmptySeq DEF Begins
    <3>3. Begins(text, f) => Begins(text', f)
      <4> SUFFICES ASSUME Begins(text, f)  PROVE Begins(text', f)
        OBVIOUS
      <4>1. ASSUME NEW i \in 1..Len(text')  PROVE text'[i] = f[i]
        <5>1. CASE i <= Len(text)
          <6>1. i \in 1..Len(text)
            BY <2>2, <4>1, <5>1
          <6> QED
            BY <2>2, <6>1 DEF Begins
        <5>2. CASE i > Len(text)
          BY <2>2, <5>2
        <5> QED
          BY <2>2, <5>1, <5>2
      <4> QED
        BY <2>2, <4>1 DEF Begins
    <3> QED
      BY <2>4, <3>1, <3>2, <3>3
  <2>7. Headed(text') <=> Headed(text)'
    BY <1>1 DEF Headed
  <2> QED
    BY <1>1, <2>1, <2>5, <2>6, <2>7 DEF ReadInv
<1>4. CASE ~OpenLoad /\ ~Read
  <2>1. stage' # "reading"
    BY <1>4 DEF Begin, Parse, LoadFails, Compare
  <2> QED
    BY <2>1 DEF ReadInv
<1> QED
  BY <1>2, <1>3, <1>4

\* What is loaded stays saved and disturbed; nobody disturbs a load too early.
LEMMA LoadSaving ==
  ASSUME TypeOK, LoadInv, NEW a \in Analyses,
         Compute(a) \/ Open(a) \/ Write(a) \/ Fail(a)
  PROVE  LoadInv'
<1>1. /\ stage' = stage /\ source' = source /\ loaded' = loaded /\ Loading' = Loading
      /\ \A p \in Paths : Saved(p) \subseteq Saved(p)'
      /\ path' = path
  BY SavingSteps DEF comparing, Loading
<1>2. /\ DOMAIN touched = Sides /\ Loading \in Sides
      /\ loaded \in [Sides -> Analyses \cup {Nobody, Phantom}]
  BY DEF TypeOK, Loading, Sides
<1>3. /\ stage # "reading" => touched' = touched
      /\ \A side \in Sides : /\ side # Loading => touched'[side] = touched[side]
                             /\ touched[side] \subseteq touched'[side]
  <2>1. CASE Compute(a) \/ Fail(a)
    BY <2>1 DEF Compute, Fail
  <2>2. CASE Touch(a)
    BY <1>2, <2>2 DEF Touch
  <2> QED
    BY <2>1, <2>2 DEF Open, Write
<1>4. stage \in {"idle", "opening"} => touched'[Loading] = {}
  BY <1>3 DEF LoadInv
<1>5. loaded["baseline"] = Nobody => touched'["current"] = {}
  BY <1>3 DEF LoadInv, Loading, Sides
<1>6. ASSUME NEW side \in Sides
      PROVE  /\ loaded[side] \in Analyses /\ ~InMemory(side) =>
                  loaded[side] \in Saved(source[side])'
             /\ loaded[side] = Phantom => \E b, c \in touched'[side] : b # c
  <2>1. ASSUME loaded[side] \in Analyses, ~InMemory(side)
        PROVE  loaded[side] \in Saved(source[side])'
    <3>1. loaded[side] \in Saved(source[side])
      BY <1>6, <2>1 DEF LoadInv
    <3>2. source[side] \in Paths
      BY <3>1 DEF Saved, TypeOK
    <3> QED
      BY <1>1, <3>1, <3>2
  <2> QED
    BY <1>3, <1>6, <2>1 DEF LoadInv
<1> QED
  BY <1>1, <1>4, <1>5, <1>6 DEF LoadInv, InMemory

\* A text that loads is of one report, unless two saves disturbed the load.
LEMMA LoadedText ==
  ASSUME TypeOK, FileInv, CellsInv, ReadInv, stage = "reading", Unread = <<>>,
         text # <<>>, Complete(text), NEW i \in DOMAIN text, text[i].of # text[1].of
  PROVE  \E a, b \in touched[Loading] : a # b
<1> SUFFICES ASSUME ~(\E a, b \in touched[Loading] : a # b)  PROVE FALSE
  OBVIOUS
<1>1. ~Headed(text)
  BY HeadedIsWhole
<1>2. touched[Loading] # {}
  BY <1>1 DEF ReadInv
<1>3. PICK a \in Analyses : touched[Loading] = {a}
  <2>1. Loading \in Sides /\ touched[Loading] \subseteq Analyses
    BY DEF TypeOK, Loading, Sides
  <2>2. PICK a \in touched[Loading] : TRUE
    BY <1>2
  <2> QED
    BY <2>1, <2>2
<1> DEFINE f == file[source[Loading]]
<1>4. Begins(text, f)
  BY <1>1, <1>3 DEF ReadInv
<1>5. source[Loading] \in Paths /\ f # Missing /\ f \in Seq(Cells) /\ text \in Seq(Cells)
  BY DEF FileInv, TypeOK, Cells
<1> HIDE DEF f
<1>6. Len(f) \in Nat /\ Len(text) \in Nat /\ \A j \in 1..Len(f) : f[j] \in Cells
  BY <1>5, LenProperties
<1>7. Len(f) <= Len(text)
  <2>1. ~(Len(text) + 1 <= Len(f))
    <3> SUFFICES ASSUME Len(text) + 1 <= Len(f)  PROVE FALSE
      OBVIOUS
    <3>1. \A j \in (Len(text) + 1)..Len(f) : f[j] \in Cells
      BY <1>6
    <3>2. Len(SubSeq(f, Len(text) + 1, Len(f))) = Len(f) - (Len(text) + 1) + 1
      BY <1>6, <3>1, SubSeqProperties
    <3>3. SubSeq(f, Len(text) + 1, Len(f)) = <<>>
      BY DEF Unread, f
    <3>4. Len(SubSeq(f, Len(text) + 1, Len(f))) = 0
      BY <3>3, EmptySeq
    <3> QED
      BY <1>6, <3>2, <3>4
  <2> QED
    BY <1>6, <2>1
<1>8. text = f
  BY <1>4, <1>5, <1>6, <1>7, SeqEqual DEF Begins
<1>9. Headed(f)
  BY <1>5, <1>8 DEF CellsInv, f
<1> QED
  BY <1>1, <1>8, <1>9

\* A load ends with a saved report, or in spite of two saves.
LEMMA LoadComparing ==
  ASSUME TypeOK, FileInv, SettledInv, CellsInv, ReadInv, LoadInv,
         UNCHANGED <<saving, touched>>,
         \/ \E current \in Paths \cup Analyses : Begin(current)
         \/ OpenLoad \/ Read \/ Parse \/ LoadFails
         \/ \E multiplier \in Multipliers, gated \in BOOLEAN : Compare(multiplier, gated)
  PROVE  LoadInv'
<1>1. /\ touched' = touched /\ pc' = pc /\ path' = path
      /\ loaded \in [Sides -> Analyses \cup {Nobody, Phantom}]
  BY DEF saving, TypeOK
<1>2. ASSUME NEW current \in Paths \cup Analyses, Begin(current)  PROVE LoadInv'
  <2>1. loaded' = loaded /\ Loading' = Loading /\ stage = "idle"
    BY <1>2 DEF Begin, Loading
  <2>2. \A side \in Sides : loaded[side] = Nobody
    BY <2>1 DEF SettledInv, Sides
  <2> QED
    BY <1>1, <2>1, <2>2, NamesAssumption DEF LoadInv, Saved
<1>3. CASE OpenLoad \/ Read \/ LoadFails
  <2>1. /\ loaded' = loaded /\ source' = source /\ Loading' = Loading
        /\ stage' \in {"reading", "done"}
    BY <1>3 DEF OpenLoad, Read, LoadFails, Loading
  <2> QED
    BY <1>1, <2>1 DEF LoadInv, InMemory, Saved
<1>4. CASE Parse
  <2>1. /\ text # <<>> /\ Complete(text) /\ Unread = <<>> /\ stage = "reading"
        /\ source' = source /\ stage' \in {"opening", "ready"}
        /\ stage' = "opening" => Loading = "baseline"
    BY <1>4 DEF Parse, Loadable, Complete
  <2> DEFINE who == IF \A i \in DOMAIN text : text[i].of = text[1].of
                    THEN text[1].of ELSE Phantom
  <2>2. loaded' = [loaded EXCEPT ![Loading] = who]
    BY <1>4 DEF Parse
  <2>3. 1 \in DOMAIN text /\ text[1].of \in Saved(source[Loading])
    <3>1. Len(text) \in Nat \ {0} /\ DOMAIN text = 1..Len(text)
      BY <2>1, EmptySeq, LenProperties DEF TypeOK
    <3> QED
      BY <2>1, <3>1 DEF CellsInv, From
  <2>4. who # Phantom => who \in Saved(source[Loading])
    BY <2>3
  <2>5. who = Phantom => \E a, b \in touched[Loading] : a # b
    <3>1. text[1].of # Phantom
      BY <2>3, NamesAssumption DEF Saved
    <3> SUFFICES ASSUME who = Phantom  PROVE \E a, b \in touched[Loading] : a # b
      OBVIOUS
    <3>2. PICK i \in DOMAIN text : text[i].of # text[1].of
      BY <3>1
    <3> QED
      BY <2>1, <3>2, LoadedText
  <2>6. who # Nobody
    BY <2>4, NamesAssumption DEF Saved
  <2> HIDE DEF who
  <2>7. /\ Loading \in Sides
        /\ loaded'[Loading] = who
        /\ \A side \in Sides \ {Loading} : loaded'[side] = loaded[side]
    BY <1>1, <2>2 DEF Loading, Sides
  <2>8. loaded'["baseline"] # Nobody
    BY <2>6, <2>7 DEF Loading, Sides
  <2>9. stage' = "opening" => touched'[Loading'] = {}
    <3>1. Loading' = "current"
      BY <2>8 DEF Loading
    <3> QED
      BY <1>1, <2>1, <3>1 DEF LoadInv, Loading
  <2>10. ASSUME NEW side \in Sides
         PROVE  /\ loaded'[side] \in Analyses /\ ~InMemory(side)' =>
                     loaded'[side] \in Saved(source[side])'
                /\ loaded'[side] = Phantom => \E a, b \in touched'[side] : a # b
    <3>1. CASE side = Loading
      BY <1>1, <2>1, <2>4, <2>5, <2>7, <3>1, NamesAssumption DEF Saved
    <3>2. CASE side # Loading
      BY <1>1, <2>1, <2>7, <2>10, <3>2 DEF LoadInv, InMemory, Saved
    <3> QED
      BY <3>1, <3>2
  <2> QED
    BY <2>1, <2>8, <2>9, <2>10 DEF LoadInv
<1>5. ASSUME NEW multiplier \in Multipliers, NEW gated \in BOOLEAN,
             Compare(multiplier, gated)
      PROVE  LoadInv'
  <2>1. /\ source' = source /\ stage' = "done"
        /\ loaded' = IF InMemory("current") THEN [loaded EXCEPT !["current"] = source["current"]]
                     ELSE loaded
    BY <1>5 DEF Compare
  <2>2. loaded'["baseline"] = loaded["baseline"]
    BY <1>1, <2>1 DEF Sides
  <2>3. \/ loaded'["current"] = loaded["current"]
        \/ InMemory("current") /\ loaded'["current"] \in Analyses
    BY <1>1, <2>1 DEF InMemory, Sides
  <2> QED
    BY <1>1, <2>1, <2>2, <2>3, NamesAssumption DEF LoadInv, InMemory, Sides, Saved
<1> QED
  BY <1>2, <1>3, <1>4, <1>5

\* Report.load returns what one Report.save wrote to the end, for any number of
\* analyses, of any sizes, whatever crashes and failures came before, unless two
\* saves reach the file while it is read.
THEOREM LoadedIsSaved == Spec => []LoadedWasSaved
<1> DEFINE LInv == CellsInv /\ ReadInv /\ LoadInv
<1>1. Init => LInv
  <2> SUFFICES ASSUME Init  PROVE LInv
    OBVIOUS
  <2>1. CellsInv /\ ReadInv
    BY DEF Init, CellsInv, ReadInv
  <2>2. LoadInv
    BY NamesAssumption DEF Init, LoadInv, Loading, Sides
  <2> QED
    BY <2>1, <2>2
<1>2. IInv /\ LInv /\ [Next]_vars => LInv'
  <2> SUFFICES ASSUME IInv, LInv, [Next]_vars  PROVE LInv'
    OBVIOUS
  <2>1. TypeOK /\ FileInv /\ SettledInv /\ CellsInv /\ ReadInv /\ LoadInv
    BY DEF IInv
  <2>2. ASSUME NEW a \in Analyses, Compute(a) \/ Open(a) \/ Write(a) \/ Fail(a)
        PROVE  LInv'
    BY <2>1, <2>2, CellsSaving, ReadSaving, LoadSaving
  <2>3. ASSUME \/ \E current \in Paths \cup Analyses : Begin(current)
               \/ OpenLoad \/ Read \/ Parse \/ LoadFails
               \/ \E multiplier \in Multipliers, gated \in BOOLEAN :
                    Compare(multiplier, gated)
        PROVE  LInv'
    <3>1. UNCHANGED <<saving, touched>>
      BY <2>3 DEF Begin, OpenLoad, Read, Parse, LoadFails, Compare
    <3> QED
      BY <2>1, <2>3, <3>1, CellsComparing, ReadComparing, LoadComparing
  <2>4. CASE UNCHANGED vars
    BY <2>1, <2>4
    DEF vars, saving, comparing, CellsInv, ReadInv, LoadInv, From, Saved, Headed,
        Loading, InMemory
  <2> QED
    BY <2>2, <2>3, <2>4 DEF Next
<1>3. LInv => LoadedWasSaved
  BY DEF LoadInv, LoadedWasSaved, Saved
<1> HIDE DEF LInv
<1> QED
  BY <1>1, <1>2, <1>3, Inductive, PTL DEF Spec

=============================================================================
