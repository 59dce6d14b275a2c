--------------------------- MODULE HubInspection ---------------------------
(***************************************************************************)
(* inspect_hubs (bindings/python/vechealth/hub_inspector.py), a Python     *)
(* function that makes one or two calls on an evaluator other threads use  *)
(* too, the example provider that keeps one of its reports, and            *)
(* compare_hub_snapshots. Between the two calls the evaluator belongs to   *)
(* whoever comes first; PyO3 refuses a call while another is in progress.  *)
(*                                                                         *)
(* Each of the calls is a one-step request to Evaluator. A report carries, *)
(* beside the code's fields, the citers its dispersion was computed from   *)
(* and the widths of the k-NN cache that answered the two calls.           *)
(***************************************************************************)
EXTENDS Evaluator

CONSTANTS
  None,            \* an optional argument that is not given
  Inspections(_),  \* Inspections(v), arguments of inspect_hubs over v
  Entropy(_, _)    \* Entropy(counts, m): normalised entropy of the citers per
                   \* category among m categories, in hundredths

ExampleTop == 3    \* top_n of the example provider
Threshold == 50    \* _LIKELY_PATHOLOGY_DISPERSION_THRESHOLD

HubsCall(a) == <<[metric |-> "hubs", k |-> a.k, b |-> a.b, arg |-> a.topN]>>
KnnCallDefault(a) ==  \* mutant: k is not passed on
  <<[metric |-> "get_knn", k |-> 2, b |-> a.b, arg |-> 0]>>
KnnCall(a) == <<[metric |-> "get_knn", k |-> a.k, b |-> a.b, arg |-> 0]>>

\* What inspect_hubs asks is among what an evaluator is asked.
ASSUME InspectionsAssumption ==
  \A v \in Datasets : \A a \in Inspections(v) :
    /\ a = [k |-> a.k, topN |-> a.topN, b |-> a.b, ids |-> a.ids, labels |-> a.labels]
    /\ a.topN \in Nat
    /\ a.labels = None \/ a.labels \in Seq(Range(a.labels))
    /\ HubsCall(a) \in Requests(v)
    /\ HubsCall([a EXCEPT !.topN = ExampleTop]) \in Requests(v)
    /\ KnnCall(a) \in Requests(v)

\* None is none of the lists a report may carry.
ASSUME NoneAssumption ==
  \A v \in Datasets : \A m \in 0..v.n : None \notin [1..m -> SUBSET Rows(v)]

\* The entropy of points of one category is 0, that of points spread evenly over
\* all the categories is the whole.
ASSUME EntropyAssumption ==
  \A v \in Datasets : \A a \in Inspections(v) : a.labels # None =>
    LET all == {a.labels[r] : r \in DOMAIN a.labels}
    IN  Cardinality(all) > 1 =>
          \A x \in 1..v.n :
            /\ \A c \in all : Entropy([d \in {c} |-> x], Cardinality(all)) = 0
            /\ Entropy([d \in all |-> x], Cardinality(all)) = 100

VARIABLES
  inspection,      \* the inspect_hubs in progress
  previous,        \* the last but one report, kept by a client
  current,         \* the last report
  example          \* the provider's _cache, one report for its k

hubVars == <<inspection, previous, current, example>>
allVars == <<vars, hubVars>>

NoReport == None
NoInspection == [stage |-> "idle"]

HubInit ==
  /\ Init
  /\ inspection = NoInspection
  /\ previous = NoReport
  /\ current = NoReport
  /\ example = NoReport

-----------------------------------------------------------------------------
(* What a report is made of.                                               *)

\* An array is long enough for row r, counted from 1.
Covers(array, r) == array = None \/ r <= Len(array)
IdOf(ids, r) == IF ids = None THEN r ELSE ids[r]

HubEntriesByRank(found, ids) ==  \* mutant: the rank looked up, not the row
  [p \in DOMAIN found |->
     [index |-> found[p][1], id |-> IdOf(ids, p), count |-> found[p][2]]]
HubEntries(found, ids) ==
  [p \in DOMAIN found |->
     [index |-> found[p][1], id |-> IdOf(ids, found[p][1]), count |-> found[p][2]]]

\* The rows that have the row j among their neighbours.
Citers(rows, j) == {r \in DOMAIN rows : \E c \in DOMAIN rows[r] : rows[r][c] = j}

\* _compute_category_dispersion: the mean entropy of the hubs' citers, weighted
\* by their number; a hub that nobody cites counts for nothing.
CountsWithHub(labels, S, j) ==  \* mutant: the hub's own category counted in
  [c \in {labels[r] : r \in S \cup {j}} |-> Quantify(S \cup {j}, LAMBDA r : labels[r] = c)]
Counts(labels, S, j) ==
  [c \in {labels[r] : r \in S} |-> Quantify(S, LAMBDA r : labels[r] = c)]

HubEntropy(labels, S, j) ==
  LET categories == Cardinality(Range(labels))
  IN  IF categories <= 1 THEN 0 ELSE Entropy(Counts(labels, S, j), categories)

LikelyPathology(hubs, labels, rows) ==
  LET cited == {p \in DOMAIN hubs : Citers(rows, hubs[p].index) # {}}
      Weight(p) == Cardinality(Citers(rows, hubs[p].index))
      Weighed(p) ==
        Weight(p) * HubEntropy(labels, Citers(rows, hubs[p].index), hubs[p].index)
  IN  SumOver(cited, Weighed) > Threshold * SumOver(cited, Weight)

\* compare_hub_snapshots.
HubIds(report) == {report.hubs[p].id : p \in DOMAIN report.hubs}
NewHubs(before, after) == HubIds(after) \ HubIds(before)
ResolvedHubs(before, after) == HubIds(before) \ HubIds(after)

-----------------------------------------------------------------------------
(* inspect_hubs.                                                           *)

Inspect(a, purpose) ==
  /\ inspection = NoInspection
  /\ Begin(HubsCall(a))
  /\ inspection' = [stage |-> "hubs", args |-> a, purpose |-> purpose]
  /\ UNCHANGED <<previous, current, example>>

\* provider(metric_name), for either of the two hubness metrics: the first
\* report is kept, and every later question answered from it.
AskExample(a) ==
  /\ example = NoReport
  /\ Inspect([a EXCEPT !.topN = ExampleTop], "example")

Raise == inspection' = NoInspection /\ UNCHANGED <<previous, current, example>>

\* The report reaches whoever asked.
Return(report) ==
  /\ inspection' = NoInspection
  /\ IF inspection.purpose = "example"
     THEN example' = report /\ UNCHANGED <<previous, current>>
     ELSE previous' = current /\ current' = report /\ UNCHANGED example

Report(hubs, width) ==
  [args |-> inspection.args, hubs |-> hubs, width |-> width,
   citers |-> None, knnWidth |-> None, pathology |-> None]

\* identify_hubs returns or raises; an id_array that is too short raises.
HubsAnswered ==
  /\ inspection.stage = "hubs"
  /\ Step
  /\ LET a == inspection.args
     IN  IF \/ reply'.error # "none"
            \/ \E p \in DOMAIN reply'.results[1] : ~Covers(a.ids, reply'.results[1][p][1])
         THEN Raise
         ELSE LET report == Report(HubEntries(reply'.results[1], a.ids), knn'.k)
              IN  IF a.labels = None
                  THEN Return(report)
                  ELSE /\ inspection' = [stage |-> "labels", args |-> a,
                                         purpose |-> inspection.purpose,
                                         report |-> report]
                       /\ UNCHANGED <<previous, current, example>>

\* The second call, which is refused while another one is in progress.
AskKnn ==
  /\ inspection.stage = "labels"
  /\ Begin(KnnCall(inspection.args))
  /\ inspection' = [inspection EXCEPT !.stage = "knn"]
  /\ UNCHANGED <<previous, current, example>>

KnnRefused ==
  /\ inspection.stage = "labels"
  /\ call.todo # <<>>
  /\ Raise
  /\ UNCHANGED vars

\* get_knn returns or raises; a citer without a label raises.
KnnAnswered ==
  /\ inspection.stage = "knn"
  /\ Step
  /\ LET hubs == inspection.report.hubs
         labels == inspection.args.labels
         CitersAt(p) == Citers(reply'.results[1], hubs[p].index)
     IN  IF \/ reply'.error # "none"
            \/ \E p \in DOMAIN hubs : \E r \in CitersAt(p) : ~Covers(labels, r)
         THEN Raise
         ELSE Return([inspection.report EXCEPT
                        !.citers = [p \in DOMAIN hubs |-> CitersAt(p)],
                        !.knnWidth = knn'.k,
                        !.pathology = LikelyPathology(hubs, labels, reply'.results[1])])

\* The evaluator's other callers.
OtherCall ==
  /\ inspection.stage \in {"idle", "labels"}
  /\ Step \/ \E request \in Requests(vectors) : Begin(request)
  /\ UNCHANGED hubVars

HubNext ==
  \/ \E a \in Inspections(vectors) : Inspect(a, "client") \/ AskExample(a)
  \/ HubsAnswered \/ AskKnn \/ KnnRefused \/ KnnAnswered
  \/ OtherCall

HubSpec == HubInit /\ [][HubNext]_allVars

-----------------------------------------------------------------------------
(* Properties.                                                             *)

Kept == {previous, current, example} \ {NoReport}

\* Two answers of an evaluator come from the same neighbour lists: the cache had
\* the same width, or its width does not matter.
SameLists(width1, width2) == width1 = width2 \/ OrderFaithful(vectors)

\* Types; every report lists as many hubs as asked for or there are, each row
\* once, under the id the caller gave that row, strongest first.
HubTypeOK ==
  /\ inspection.stage \in {"idle", "hubs", "labels", "knn"}
  /\ \A report \in Kept :
       LET hubs == report.hubs
       IN  /\ Len(hubs) = Min({report.args.topN, vectors.n})
           /\ \A p \in DOMAIN hubs :
                /\ hubs[p].index \in Rows(vectors)
                /\ hubs[p].id = IdOf(report.args.ids, hubs[p].index)
           /\ \A p, q \in DOMAIN hubs : p < q =>
                \/ hubs[p].count > hubs[q].count
                \/ hubs[p].count = hubs[q].count /\ hubs[p].index < hubs[q].index

\* The hubs and the categories of one report come from two calls, and any other
\* caller may run in between: as long as both calls were answered from the same
\* lists, a hub has as many citers in the dispersion as occurrences in the list.
CitersAreCounted ==
  \A report \in Kept :
    /\ report.args.labels # None => report.citers # None
    /\ report.citers # None /\ SameLists(report.width, report.knnWidth) =>
         \A p \in DOMAIN report.hubs :
           Cardinality(report.citers[p]) = report.hubs[p].count

\* A NEW hub is not made up, nor a resolved one: whatever else was asked of the
\* evaluator around two inspections at one k and with one id_array, the second
\* lists a hub the first does not only because it lists more of them or was
\* answered from other lists, and the other way round.
RepeatsAgree ==
  /\ {previous, current} \subseteq Kept
  /\ previous.args.k = current.args.k
  /\ previous.args.ids = current.args.ids
  /\ SameLists(previous.width, current.width)
  => /\ current.args.topN <= previous.args.topN => NewHubs(previous, current) = {}
     /\ current.args.topN >= previous.args.topN => ResolvedHubs(previous, current) = {}

\* The example a metric report quotes beside hubness_max may be older than the
\* metric; from the same lists, its count is the metric's value all the same.
\* The metric's lists are the cache's, unless a later metric of the same call
\* widened it.
ExampleIsTheMaximum ==
  \A i \in DOMAIN reply.results :
    /\ example # NoReport
    /\ reply.request[i].metric = "hubness"
    /\ reply.request[i].k = example.args.k
    /\ \A j \in DOMAIN reply.request : j > i => reply.request[j].k <= reply.request[i].k
    /\ SameLists(example.width, knn.k)
    => reply.results[i][1] = example.hubs[1].count

\* likely_pathology is about the points that cite the hubs: it is raised only
\* when some hub is cited from two categories, and always when every cited hub
\* is cited from two in equal parts.
PathologyIsMixed ==
  \A report \in Kept : report.citers # None =>
    LET labels == report.args.labels
        Cited(p) == {labels[r] : r \in report.citers[p]}
        Evenly(p) == \A c, d \in Range(labels) :
          Quantify(report.citers[p], LAMBDA r : labels[r] = c)
            = Quantify(report.citers[p], LAMBDA r : labels[r] = d)
    IN  /\ report.pathology => \E p \in DOMAIN report.hubs : Cardinality(Cited(p)) > 1
        /\ /\ \E p \in DOMAIN report.hubs : report.citers[p] # {}
           /\ \A p \in DOMAIN report.hubs : Evenly(p)
           /\ Cardinality(Range(labels)) > 1
           => report.pathology
=============================================================================
