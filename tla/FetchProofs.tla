----------------------------- MODULE FetchProofs -----------------------------
(***************************************************************************)
(* Proofs about Fetch for every source, page size and history of writes.   *)
(* The only assumption on the arguments is a positive page size. For a     *)
(* cursor the argument is about one row at a time (IInv): once the cursor  *)
(* has passed a row that has been there all along, it was fetched, and     *)
(* what was fetched is behind the cursor, so never again. Offset paging    *)
(* (Chroma) has none of this; it keeps OffsetInv, that a fetch which took  *)
(* nothing is still at the start.                                          *)
(***************************************************************************)
EXTENDS Fetch, FiniteSetTheorems, TLAPS

PositivePages == 0 \notin PageSizes

\* The cursor has passed row i; Qdrant's next_page_offset is the next row.
Behind(i) == IF source.connector = "qdrant" THEN i < cursor ELSE i <= cursor

Paging == pc \in {"reading", "looking_up"}

\* Which ids a fetch in progress holds, in view of where its cursor is.
ScanInv ==
  /\ Paging => \A i \in Ids : fetched[i] > 0 => Behind(i) /\ i \notin listed
  /\ Paging => \A i \in steady : Behind(i) => fetched[i] > 0 \/ i \in listed
  /\ listed # {} => pc \in {"looking_up", "done"} /\ \A i \in listed : Behind(i)
  /\ pc = "looking_up" => source.connector = "pinecone"
  /\ pc = "converting" => \A i \in steady : fetched[i] > 0

\* A steady row is in the source, and in what a LanceDB scan or a file loader opened.
SteadyInv ==
  /\ pc # "done" => \A i \in steady : store[i] # Absent
  /\ \A i \in steady : version[i] # Absent
  /\ pc = "idle" => steady = {} /\ cursor = 0 /\ \A i \in Ids : fetched[i] = 0

OutcomeInv ==
  /\ pc \in {"idle", "reading", "looking_up", "converting", "done"}
  /\ outcome # "none" => pc = "done"
  /\ outcome \in {"built", "EmptySource"} => \A i \in steady : fetched[i] > 0
  /\ outcome = "EmptySource" => \A i \in Ids : fetched[i] = 0

\* Whatever was fetched has given the matrix its dimension.
DimInv == (\E i \in Ids : fetched[i] > 0) => dim # Unknown

OnceEach == \A i \in Ids : fetched[i] <= 1

IInv == TypeOK /\ OnceEach /\ ScanInv /\ SteadyInv /\ OutcomeInv /\ DimInv

-----------------------------------------------------------------------------
(* One page.                                                               *)

\* A page that is empty or not full has everything that was asked for, and a
\* page has nothing behind a row it leaves out.
LEMMA PageFacts ==
  ASSUME NEW P, NEW S, Page(P, S), P \subseteq S, source.pageSize \in Nat \ {0}
  PROVE  /\ P = {} => S = {}
         /\ Cardinality(P) < source.pageSize => P = S
         /\ \A i \in P, j \in S \ P : i < j
<1>1. Cardinality({}) = 0
  BY FS_EmptySet
<1> QED
  BY <1>1 DEF Page

LEMMA TakeTypes ==
  ASSUME TypeOK, DimInv, NEW content \in [Ids -> Dims \cup {Absent, Unusable}],
         NEW P, P \subseteq Present(content), NEW next, Take(P, content, next)
  PROVE  /\ fetched' \in [Ids -> Nat]
         /\ dim' \in Dims \cup {Unknown}
         /\ DimInv'
<1>1. fetched' \in [Ids -> Nat]
  BY DEF Take, TypeOK
<1>2. ASSUME P # {} PROVE dim' \in Dims
  <2>1. dim' \in Shape(P, content) /\ Refused(P, content) = {}
    BY <1>2 DEF Take
  <2>2. CASE dim # Unknown
    BY <2>1, <2>2 DEF Shape, TypeOK
  <2>3. CASE dim = Unknown
    <3>1. PICK i \in Least(P) : dim' = content[i]
      BY <2>1, <2>3 DEF Shape
    <3>2. i \in P /\ i \in Ids /\ content[i] # Absent
      BY <3>1 DEF Least, Present
    <3>3. content[i] # Unusable
      BY <2>1, <3>2 DEF Refused
    <3> QED
      BY <3>1, <3>2, <3>3
  <2> QED
    BY <2>2, <2>3
<1>3. P = {} => dim' = dim /\ fetched' = fetched
  BY DEF Take, TypeOK
<1>4. \A d \in Dims : d # Unknown
  BY ContentAssumption DEF Unknown
<1> QED
  BY <1>1, <1>2, <1>3, <1>4 DEF TypeOK, DimInv

\* The step of every page protocol but Pinecone's: rows that were ahead of the
\* cursor are taken, and exactly these are behind it from then on, or the scan
\* is over.
LEMMA ScanTake ==
  ASSUME TypeOK, OnceEach, ScanInv, pc = "reading",
         NEW P \in SUBSET Ids,
         fetched' = [i \in Ids |-> IF i \in P THEN fetched[i] + 1 ELSE fetched[i]],
         UNCHANGED <<source, steady, listed>>,
         pc' \in {"reading", "converting"},
         \A i \in P : ~Behind(i),
         pc' = "reading" => /\ \A i \in Ids : Behind(i) \/ i \in P => Behind(i)'
                            /\ \A i \in steady : Behind(i)' => Behind(i) \/ i \in P,
         pc' = "converting" => \A i \in steady : Behind(i) \/ i \in P
  PROVE  OnceEach' /\ ScanInv'
<1>1. listed = {} /\ listed' = {} /\ steady \subseteq Ids
  BY DEF ScanInv, TypeOK
<1>2. \A i \in Ids : fetched[i] \in Nat /\ (i \in P => fetched[i] = 0)
  BY DEF ScanInv, Paging, TypeOK
<1>3. \A i \in Ids : /\ i \in P => fetched'[i] = 1
                     /\ i \notin P => fetched'[i] = fetched[i]
  BY <1>2
<1>4. OnceEach'
  BY <1>3 DEF OnceEach
<1>5. pc' = "reading" => \A i \in Ids : fetched'[i] > 0 => Behind(i)'
  BY <1>2, <1>3 DEF ScanInv, Paging
<1>6. \A i \in steady : Behind(i) \/ i \in P => fetched'[i] > 0
  BY <1>1, <1>2, <1>3 DEF ScanInv, Paging
<1> QED
  BY <1>1, <1>4, <1>5, <1>6 DEF ScanInv, Paging

LEMMA ScanPage ==
  ASSUME IInv, NEW connectors, Reading(connectors),
         NEW content \in [Ids -> Dims \cup {Absent, Unusable}],
         NEW P, P \subseteq Present(content),
         NEW next \in {"reading", "converting"}, Take(P, content, next),
         listed' = listed, cursor' \in Nat,
         \A i \in P : ~Behind(i),
         next = "reading" => /\ \A i \in Ids : Behind(i) \/ i \in P => Behind(i)'
                             /\ \A i \in steady : Behind(i)' => Behind(i) \/ i \in P,
         next = "converting" => \A i \in steady : Behind(i) \/ i \in P
  PROVE  IInv'
<1>1. pc = "reading" /\ UNCHANGED <<source, store, version, warned, steady>>
  BY DEF Reading
<1>2. /\ fetched' = [i \in Ids |-> IF i \in P THEN fetched[i] + 1 ELSE fetched[i]]
      /\ pc' = next /\ outcome' = outcome /\ P \in SUBSET Ids
  BY DEF Take, Present
<1>3. OnceEach' /\ ScanInv'
  BY <1>1, <1>2, ScanTake DEF IInv
<1>4. outcome = "none"
  BY <1>1 DEF IInv, OutcomeInv
<1>5. /\ fetched' \in [Ids -> Nat]
      /\ dim' \in Dims \cup {Unknown}
      /\ DimInv'
  BY TakeTypes DEF IInv
<1>6. TypeOK'
  BY <1>1, <1>2, <1>4, <1>5 DEF IInv, TypeOK
<1>7. SteadyInv'
  BY <1>1, <1>2 DEF IInv, SteadyInv
<1>8. OutcomeInv'
  BY <1>2, <1>4 DEF OutcomeInv
<1> QED
  BY <1>3, <1>5, <1>6, <1>7, <1>8 DEF IInv

LEMMA FetchFails ==
  ASSUME IInv, pc \in {"idle", "reading", "looking_up"}, pc' = "done",
         outcome' \in {"Network", "SchemaMismatch", "Panic"},
         UNCHANGED <<source, store, cursor, version, listed, dim, fetched, warned, steady>>
  PROVE  IInv'
<1>1. TypeOK' /\ OnceEach' /\ DimInv'
  BY DEF IInv, TypeOK, OnceEach, DimInv
<1>2. ScanInv'
  BY DEF IInv, ScanInv, Paging, Behind
<1>3. SteadyInv' /\ OutcomeInv'
  BY DEF IInv, SteadyInv, OutcomeInv
<1> QED
  BY <1>1, <1>2, <1>3 DEF IInv

LEMMA RefusalFails ==
  ASSUME IInv, NEW P, NEW content, Refuse(P, content),
         pc \in {"reading", "looking_up"},
         UNCHANGED <<source, store, version, warned, steady>>
  PROVE  IInv'
<1>1. pc' = "done" /\ outcome' \in {"SchemaMismatch", "Panic"}
  BY DEF Refuse, End
<1> QED
  BY <1>1, FetchFails DEF Refuse

-----------------------------------------------------------------------------
(* The protocols.                                                          *)

LEMMA PageSizePositive ==
  ASSUME PositivePages, TypeOK PROVE source.pageSize \in Nat \ {0}
BY PageAssumption DEF PositivePages, TypeOK

LEMMA ContentSteady ==
  ASSUME IInv, pc # "done"
  PROVE  /\ steady \subseteq Ids /\ Ids \subseteq Nat
         /\ store \in [Ids -> Dims \cup {Absent, Unusable}]
         /\ version \in [Ids -> Dims \cup {Absent, Unusable}]
         /\ steady \subseteq Present(store) /\ steady \subseteq Present(version)
BY IdsAssumption DEF IInv, TypeOK, SteadyInv, Present

\* A page of the rows after the cursor, which then stands on its last row.
LEMMA ForwardPage ==
  ASSUME PositivePages, IInv, source.connector # "qdrant",
         NEW connectors, Reading(connectors),
         NEW content \in [Ids -> Dims \cup {Absent, Unusable}],
         steady \subseteq Present(content),
         NEW P \in SUBSET After(content, cursor),
         Page(P, After(content, cursor)),
         NEW next \in {"reading", "converting"}, Take(P, content, next),
         next = "converting" => P = {} \/ Cardinality(P) < source.pageSize,
         cursor' \in Greatest(P \cup {cursor}), listed' = listed
  PROVE  IInv'
<1>1. /\ pc = "reading" /\ cursor \in Nat
      /\ UNCHANGED <<source, store, version, warned, steady>>
  BY DEF Reading, IInv, TypeOK
<1>2. steady \subseteq Ids /\ Ids \subseteq Nat
  BY <1>1, ContentSteady
<1>3. P \subseteq Present(content) /\ P \subseteq Ids /\ \A i \in P : i > cursor
  BY DEF After, Present
<1>4. /\ cursor' \in Nat /\ cursor <= cursor'
      /\ \A i \in P : i <= cursor'
      /\ cursor' = cursor \/ cursor' \in P
  BY <1>1, <1>2, <1>3 DEF Greatest
<1>5. /\ P = {} => After(content, cursor) = {}
      /\ Cardinality(P) < source.pageSize => P = After(content, cursor)
      /\ \A i \in P, j \in After(content, cursor) \ P : i < j
  BY PageFacts, PageSizePositive DEF IInv
<1>6. \A i \in steady : i <= cursor \/ i \in After(content, cursor)
  BY <1>1, <1>2 DEF After
<1>7. \A i \in steady : i <= cursor' => i <= cursor \/ i \in P
  <2> SUFFICES ASSUME NEW i \in steady, i <= cursor', ~(i <= cursor), i \notin P
               PROVE  FALSE
    OBVIOUS
  <2>1. i \in After(content, cursor) \ P
    BY <1>6
  <2>2. cursor' \in P /\ i \in Nat
    BY <1>1, <1>2, <1>4
  <2>3. cursor' < i
    BY <1>5, <2>1, <2>2
  <2> QED
    BY <1>4, <2>2, <2>3
<1>8. next = "converting" => \A i \in steady : i <= cursor \/ i \in P
  BY <1>5, <1>6
<1>9. \A i : (Behind(i) <=> i <= cursor) /\ (Behind(i)' <=> i <= cursor')
  BY <1>1 DEF Behind
<1>10. /\ \A i \in P : ~Behind(i)
       /\ \A i \in Ids : Behind(i) \/ i \in P => Behind(i)'
       /\ \A i \in steady : Behind(i)' => Behind(i) \/ i \in P
       /\ next = "converting" => \A i \in steady : Behind(i) \/ i \in P
  <2>1. \A i \in P : ~(i <= cursor)
    BY <1>1, <1>2, <1>3
  <2>2. \A i \in Ids : i <= cursor \/ i \in P => i <= cursor'
    BY <1>1, <1>2, <1>4
  <2> QED
    BY <1>7, <1>8, <1>9, <2>1, <2>2
<1> QED
  BY <1>3, <1>4, <1>10, ScanPage

LEMMA KeysetNext ==
  ASSUME PositivePages, IInv, KeysetPage PROVE IInv'
<1>1. pc = "reading" /\ source.connector = "pgvector" /\ Reading({"pgvector"})
      /\ UNCHANGED <<source, store, version, warned, steady>>
  BY DEF KeysetPage, Reading
<1>2. PICK P \in SUBSET After(store, cursor) :
        /\ Page(P, After(store, cursor))
        /\ \/ /\ End("Panic")
              /\ UNCHANGED <<cursor, listed, dim, fetched>>
           \/ \/ /\ Take(P, store, IF P = {} \/ Cardinality(P) < source.pageSize
                                   THEN "converting" ELSE "reading")
                 /\ cursor' \in Greatest(P \cup {cursor})
                 /\ UNCHANGED listed
              \/ Refuse(P, store)
  BY DEF KeysetPage
<1>3. CASE End("Panic") /\ UNCHANGED <<cursor, listed, dim, fetched>>
  BY <1>1, <1>3, FetchFails DEF End
<1>4. CASE Refuse(P, store)
  BY <1>1, <1>4, RefusalFails
<1>5. ASSUME NEW next, next = IF P = {} \/ Cardinality(P) < source.pageSize
                              THEN "converting" ELSE "reading",
             Take(P, store, next), cursor' \in Greatest(P \cup {cursor}),
             UNCHANGED listed
      PROVE  IInv'
  <2>1. /\ next \in {"reading", "converting"}
        /\ next = "converting" => P = {} \/ Cardinality(P) < source.pageSize
    BY <1>5
  <2>2. /\ store \in [Ids -> Dims \cup {Absent, Unusable}]
        /\ steady \subseteq Present(store)
    BY <1>1, ContentSteady
  <2> QED
    BY <1>1, <1>2, <1>5, <2>1, <2>2, ForwardPage
<1> QED
  BY <1>2, <1>3, <1>4, <1>5

LEMMA IterateNext ==
  ASSUME PositivePages, IInv, source.connector # "qdrant",
         NEW connectors, Reading(connectors),
         NEW content \in [Ids -> Dims \cup {Absent, Unusable}],
         steady \subseteq Present(content), Iterate(content)
  PROVE  IInv'
<1>1. pc = "reading" /\ UNCHANGED <<source, store, version, warned, steady>>
  BY DEF Reading
<1>2. PICK P \in SUBSET After(content, cursor) :
        /\ Page(P, After(content, cursor))
        /\ \/ /\ Take(P, content, IF P = {} THEN "converting" ELSE "reading")
              /\ cursor' \in Greatest(P \cup {cursor})
              /\ UNCHANGED listed
           \/ Refuse(P, content)
  BY DEF Iterate
<1>3. CASE Refuse(P, content)
  BY <1>1, <1>3, RefusalFails
<1>4. ASSUME NEW next, next = IF P = {} THEN "converting" ELSE "reading",
             Take(P, content, next), cursor' \in Greatest(P \cup {cursor}),
             UNCHANGED listed
      PROVE  IInv'
  <2>1. next \in {"reading", "converting"} /\ (next = "converting" => P = {})
    BY <1>4
  <2> QED
    BY <1>1, <1>2, <1>4, <2>1, ForwardPage
<1> QED
  BY <1>2, <1>3, <1>4

LEMMA WholeFileNext ==
  ASSUME IInv, source.connector \in Files, NEW connectors, Reading(connectors),
         NEW content \in [Ids -> Dims \cup {Absent, Unusable}],
         steady \subseteq Present(content), WholeFile(content)
  PROVE  IInv'
<1> DEFINE P == After(content, cursor)
<1>1. /\ pc = "reading" /\ cursor \in Nat /\ source.connector # "qdrant"
      /\ UNCHANGED <<source, store, version, warned, steady>>
  BY DEF Reading, IInv, TypeOK, Files
<1>2. steady \subseteq Ids /\ Ids \subseteq Nat
  BY <1>1, ContentSteady
<1>3. CASE Refuse(P, content)
  BY <1>1, <1>3, RefusalFails
<1>4. CASE Take(P, content, "converting") /\ cursor' \in Greatest(P \cup {cursor})
           /\ UNCHANGED listed
  <2>1. P \subseteq Present(content) /\ P \subseteq Ids /\ cursor' \in Nat
    BY <1>1, <1>2, <1>4 DEF Greatest, After, Present
  <2>2. \A i : Behind(i) <=> i <= cursor
    BY <1>1 DEF Behind
  <2>3. \A i \in P : ~Behind(i)
    BY <1>1, <1>2, <2>1, <2>2 DEF After
  <2>4. \A i \in steady : Behind(i) \/ i \in P
    BY <1>1, <1>2, <2>2 DEF After
  <2> QED
    BY <1>1, <1>4, <2>1, <2>3, <2>4, ScanPage
<1> QED
  BY <1>3, <1>4 DEF WholeFile

LEMMA BatchNext ==
  ASSUME PositivePages, IInv,
         \/ MilvusBatch \/ WeaviatePage \/ LanceBatch
         \/ ReadNpy \/ ReadCsv \/ ReadParquet
  PROVE  IInv'
<1>1. pc # "done"
  BY DEF MilvusBatch, WeaviatePage, LanceBatch, ReadNpy, ReadCsv, ReadParquet, Reading
<1>2. CASE MilvusBatch
  BY <1>1, <1>2, ContentSteady, IterateNext DEF MilvusBatch, Reading
<1>3. CASE WeaviatePage
  BY <1>1, <1>3, ContentSteady, IterateNext DEF WeaviatePage, Reading
<1>4. CASE LanceBatch
  BY <1>1, <1>4, ContentSteady, IterateNext DEF LanceBatch, Reading
<1>5. CASE ReadNpy
  BY <1>1, <1>5, ContentSteady, WholeFileNext DEF ReadNpy, Reading, Files
<1>6. CASE ReadCsv
  BY <1>1, <1>6, ContentSteady, WholeFileNext DEF ReadCsv, Reading, Files
<1>7. CASE ReadParquet
  BY <1>1, <1>7, ContentSteady, WholeFileNext DEF ReadParquet, Reading, Files
<1> QED
  BY <1>2, <1>3, <1>4, <1>5, <1>6, <1>7

LEMMA ScrollNext ==
  ASSUME PositivePages, IInv, ScrollPage PROVE IInv'
<1>1. /\ pc = "reading" /\ source.connector = "qdrant" /\ Reading({"qdrant"})
      /\ UNCHANGED <<source, store, version, warned, steady>>
  BY DEF ScrollPage, Reading
<1> DEFINE S == From(store, cursor)
<1>2. PICK P \in SUBSET S :
        /\ Page(P, S)
        /\ \/ /\ Take(P, store, IF S \ P = {} THEN "converting" ELSE "reading")
              /\ cursor' \in IF S \ P = {} THEN {cursor} ELSE Least(S \ P)
              /\ UNCHANGED listed
           \/ Refuse(P, store)
  BY DEF ScrollPage
<1>3. CASE Refuse(P, store)
  BY <1>1, <1>3, RefusalFails
<1>4. ASSUME NEW next, next = IF S \ P = {} THEN "converting" ELSE "reading",
             Take(P, store, next),
             cursor' \in IF S \ P = {} THEN {cursor} ELSE Least(S \ P),
             UNCHANGED listed
      PROVE  IInv'
  <2>1. /\ steady \subseteq Ids /\ Ids \subseteq Nat /\ cursor \in Nat
        /\ store \in [Ids -> Dims \cup {Absent, Unusable}]
        /\ steady \subseteq Present(store)
    BY <1>1, ContentSteady DEF IInv, TypeOK
  <2>2. \A i : i \in S <=> i \in Present(store) /\ i >= cursor
    BY DEF From
  <2>3. P \subseteq Present(store) /\ P \subseteq Ids /\ S \subseteq Ids
    BY <1>2 DEF From, Present
  <2>4. \A i \in steady : i < cursor \/ i \in S
    BY <2>1, <2>2
  <2>5. \A i \in P, j \in S \ P : i < j
    BY <1>2 DEF Page
  <2>6. next \in {"reading", "converting"} /\ (next = "converting" <=> S \ P = {})
    BY <1>4
  <2>7. cursor' \in Nat
    BY <1>4, <2>1, <2>3 DEF Least
  <2> HIDE DEF S
  <2>8. ASSUME next = "reading"
        PROVE  /\ \A i \in Ids : i < cursor \/ i \in P => i < cursor'
               /\ \A i \in steady : i < cursor' => i < cursor \/ i \in P
    <3>1. cursor' \in S \ P /\ \A j \in S \ P : cursor' <= j
      BY <1>4, <2>6, <2>8 DEF Least
    <3>2. cursor' >= cursor
      BY <2>2, <3>1
    <3>3. ASSUME NEW i \in Ids, i < cursor \/ i \in P PROVE i < cursor'
      BY <2>1, <2>5, <2>7, <3>1, <3>2, <3>3
    <3>4. ASSUME NEW i \in steady, i < cursor' PROVE i < cursor \/ i \in P
      <4>1. i \in S \ P => cursor' <= i
        BY <3>1
      <4> QED
        BY <2>1, <2>4, <2>7, <3>4, <4>1
    <3> QED
      BY <3>3, <3>4
  <2>9. \A i : (Behind(i) <=> i < cursor) /\ (Behind(i)' <=> i < cursor')
    BY <1>1 DEF Behind
  <2>10. /\ \A i \in P : ~Behind(i)
         /\ next = "converting" => \A i \in steady : Behind(i) \/ i \in P
    <3>1. \A i \in P : ~(i < cursor)
      BY <2>1, <2>2, <2>3
    <3> QED
      BY <2>4, <2>6, <2>9, <3>1
  <2> QED
    BY <1>1, <1>4, <2>1, <2>3, <2>6, <2>7, <2>8, <2>9, <2>10, ScanPage
<1> QED
  BY <1>2, <1>3, <1>4

LEMMA ListNext ==
  ASSUME PositivePages, IInv, ListPage PROVE IInv'
<1>1. /\ pc = "reading" /\ source.connector = "pinecone"
      /\ UNCHANGED <<source, store, version, warned, steady, dim, fetched, outcome>>
  BY DEF ListPage, Reading
<1>2. PICK P \in SUBSET After(store, cursor) :
        /\ Page(P, After(store, cursor))
        /\ listed' = P
        /\ pc' = IF P = {} THEN "converting" ELSE "looking_up"
        /\ cursor' \in Greatest(P \cup {cursor})
  BY DEF ListPage
<1>3. /\ steady \subseteq Ids /\ Ids \subseteq Nat /\ cursor \in Nat
      /\ steady \subseteq Present(store) /\ listed = {}
  BY <1>1, ContentSteady DEF IInv, TypeOK, ScanInv
<1>4. P \subseteq Ids /\ \A i \in P : i > cursor
  BY <1>2 DEF After, Present
<1>5. /\ cursor' \in Nat /\ cursor <= cursor' /\ (\A i \in P : i <= cursor')
      /\ cursor' = cursor \/ cursor' \in P
  BY <1>2, <1>3, <1>4 DEF Greatest
<1>6. /\ P = {} => After(store, cursor) = {}
      /\ \A i \in P, j \in After(store, cursor) \ P : i < j
  BY <1>2, PageFacts, PageSizePositive DEF IInv
<1>7. \A i \in steady : i <= cursor \/ i \in After(store, cursor)
  BY <1>3 DEF After
<1>8. \A i : (Behind(i) <=> i <= cursor) /\ (Behind(i)' <=> i <= cursor')
  BY <1>1 DEF Behind
<1>9. \A i \in Ids : fetched[i] > 0 => i <= cursor' /\ i \notin P
  <2>1. \A i \in Ids : fetched[i] > 0 => i <= cursor
    BY <1>1, <1>8 DEF IInv, ScanInv, Paging
  <2> QED
    BY <1>3, <1>4, <1>5, <2>1
<1>10. \A i \in steady : i <= cursor => fetched[i] > 0
  BY <1>1, <1>3, <1>8 DEF IInv, ScanInv, Paging
<1>11. \A i \in steady : i <= cursor' => i <= cursor \/ i \in P
  <2> SUFFICES ASSUME NEW i \in steady, i <= cursor', ~(i <= cursor), i \notin P
               PROVE  FALSE
    OBVIOUS
  <2>1. cursor' \in P /\ i \in Nat /\ i \in After(store, cursor) \ P
    BY <1>3, <1>5, <1>7
  <2>2. cursor' < i
    BY <1>6, <2>1
  <2> QED
    BY <1>5, <2>1, <2>2
<1>12. pc' = "converting" => P = {} /\ \A i \in steady : fetched[i] > 0
  BY <1>2, <1>6, <1>7, <1>10
<1>13. ScanInv'
  BY <1>1, <1>2, <1>5, <1>8, <1>9, <1>10, <1>11, <1>12 DEF ScanInv, Paging
<1>14. TypeOK' /\ OnceEach' /\ DimInv'
  BY <1>1, <1>2, <1>4, <1>5 DEF IInv, TypeOK, OnceEach, DimInv
<1>15. SteadyInv' /\ OutcomeInv'
  BY <1>1, <1>2 DEF IInv, SteadyInv, OutcomeInv
<1> QED
  BY <1>13, <1>14, <1>15 DEF IInv

LEMMA FetchListedNext ==
  ASSUME PositivePages, IInv, FetchListed PROVE IInv'
<1> DEFINE P == listed \cap Present(store)
<1>1. /\ pc = "looking_up" /\ source.connector # "qdrant"
      /\ UNCHANGED <<source, store, version, warned, steady>>
  BY DEF FetchListed, IInv, ScanInv
<1>2. CASE Refuse(P, store)
  BY <1>1, <1>2, RefusalFails
<1>3. CASE Take(P, store, "reading") /\ listed' = {} /\ UNCHANGED cursor
  <2>1. /\ steady \subseteq Ids /\ steady \subseteq Present(store)
        /\ store \in [Ids -> Dims \cup {Absent, Unusable}]
        /\ P \subseteq Ids /\ P \subseteq Present(store)
    BY <1>1, ContentSteady DEF Present
  <2>2. /\ fetched' = [i \in Ids |-> IF i \in P THEN fetched[i] + 1 ELSE fetched[i]]
        /\ pc' = "reading" /\ outcome' = outcome /\ outcome = "none"
    BY <1>1, <1>3 DEF Take, IInv, OutcomeInv
  <2>3. fetched' \in [Ids -> Nat] /\ dim' \in Dims \cup {Unknown} /\ DimInv'
    BY <1>3, <2>1, TakeTypes DEF IInv
  <2>4. \A i \in Ids : fetched[i] \in Nat /\ (i \in P => fetched[i] = 0)
    BY <1>1 DEF IInv, TypeOK, ScanInv, Paging
  <2>5. \A i \in Ids : /\ i \in P => fetched'[i] = 1
                       /\ i \notin P => fetched'[i] = fetched[i]
    BY <2>2, <2>4
  <2>6. OnceEach'
    BY <2>5 DEF IInv, OnceEach
  <2>7. \A i : Behind(i)' <=> Behind(i)
    BY <1>1, <1>3 DEF Behind
  <2>8. \A i \in Ids : fetched'[i] > 0 => Behind(i)
    <3>1. \A i \in P : Behind(i)
      BY DEF IInv, ScanInv
    <3>2. \A i \in Ids : fetched[i] > 0 => Behind(i)
      BY <1>1 DEF IInv, ScanInv, Paging
    <3> QED
      BY <2>5, <3>1, <3>2
  <2>9. \A i \in steady : Behind(i) => fetched'[i] > 0
    <3>1. \A i \in steady : Behind(i) => fetched[i] > 0 \/ i \in P
      BY <1>1, <2>1 DEF IInv, ScanInv, Paging
    <3> QED
      BY <2>1, <2>5, <3>1
  <2>10. ScanInv'
    BY <1>1, <1>3, <2>2, <2>7, <2>8, <2>9 DEF ScanInv, Paging
  <2>11. TypeOK'
    BY <1>1, <1>3, <2>2, <2>3 DEF IInv, TypeOK
  <2>12. SteadyInv' /\ OutcomeInv'
    BY <1>1, <2>2 DEF IInv, SteadyInv, OutcomeInv
  <2> QED
    BY <2>3, <2>6, <2>10, <2>11, <2>12 DEF IInv
<1> QED
  BY <1>2, <1>3 DEF FetchListed

-----------------------------------------------------------------------------
(* The writers, and the two ends of a fetch.                               *)

LEMMA WriteNext ==
  ASSUME IInv, NEW i \in Ids, NEW content \in Contents(source.connector),
         Insert(i, content) \/ Overwrite(i, content)
  PROVE  IInv'
<1>1. /\ store' = [store EXCEPT ![i] = content]
      /\ UNCHANGED <<source, fetchVars, steady>>
  BY DEF Insert, Overwrite
<1>2. content \in Dims \cup {Unusable} /\ content # Absent
  BY ContentAssumption DEF Contents, Least, Unusable, Absent
<1>3. TypeOK' /\ OnceEach' /\ DimInv'
  BY <1>1, <1>2 DEF IInv, TypeOK, OnceEach, DimInv, fetchVars
<1>4. ScanInv' /\ OutcomeInv'
  BY <1>1 DEF IInv, ScanInv, OutcomeInv, Paging, Behind, fetchVars
<1>5. SteadyInv'
  BY <1>1, <1>2 DEF IInv, SteadyInv, TypeOK, fetchVars
<1> QED
  BY <1>3, <1>4, <1>5 DEF IInv

LEMMA DeleteNext ==
  ASSUME IInv, NEW i \in Ids, Delete(i) PROVE IInv'
<1>1. /\ store' = [store EXCEPT ![i] = Absent] /\ steady' = steady \ {i}
      /\ UNCHANGED <<source, fetchVars>>
  BY DEF Delete
<1>2. TypeOK' /\ OnceEach' /\ DimInv'
  BY <1>1 DEF IInv, TypeOK, OnceEach, DimInv, fetchVars
<1>3. ScanInv' /\ OutcomeInv'
  BY <1>1 DEF IInv, ScanInv, OutcomeInv, Paging, Behind, fetchVars
<1>4. SteadyInv'
  BY <1>1 DEF IInv, SteadyInv, TypeOK, fetchVars
<1> QED
  BY <1>2, <1>3, <1>4 DEF IInv

LEMMA OpenNext ==
  ASSUME IInv, Open PROVE IInv'
<1>1. /\ pc = "idle" /\ pc' = "reading" /\ version' = store /\ steady' = Present(store)
      /\ UNCHANGED <<source, store, cursor, listed, fetched, warned, outcome>>
  BY DEF Open
<1>2. /\ cursor = 0 /\ listed = {} /\ outcome = "none"
      /\ \A i \in Ids : fetched[i] = 0
  BY <1>1 DEF IInv, SteadyInv, ScanInv, OutcomeInv
<1>3. \A i \in Ids : ~Behind(i)'
  BY <1>1, <1>2, IdsAssumption DEF Behind
<1>4. dim' \in Dims \cup {Unknown}
  BY DEF Open, Declared, Least
<1>5. TypeOK' /\ OnceEach' /\ DimInv'
  BY <1>1, <1>2, <1>4 DEF IInv, TypeOK, OnceEach, DimInv, Present
<1>6. ScanInv'
  BY <1>1, <1>2, <1>3 DEF ScanInv, Paging, Present
<1>7. SteadyInv' /\ OutcomeInv'
  BY <1>1, <1>2 DEF SteadyInv, OutcomeInv, Present
<1> QED
  BY <1>5, <1>6, <1>7 DEF IInv

LEMMA FailureNext ==
  ASSUME IInv, OpenFails \/ RequestFails PROVE IInv'
BY FetchFails DEF OpenFails, RequestFails, End

LEMMA ConversionNext ==
  ASSUME IInv, NothingFetched \/ Build PROVE IInv'
<1>1. /\ pc = "converting" /\ pc' = "done"
      /\ UNCHANGED <<source, store, cursor, version, listed, dim, fetched, steady>>
      /\ outcome' = "EmptySource" => \A i \in Ids : fetched[i] = 0
      /\ outcome' \in {"built", "UserWarning"} => \E i \in Ids : fetched[i] # 0
      /\ outcome' \in {"EmptySource", "built", "UserWarning"}
  BY DEF NothingFetched, Build, End
<1>2. \A i \in steady : fetched[i] > 0
  BY <1>1 DEF IInv, ScanInv
<1>3. outcome' = "built" => dim \in Dims
  BY <1>1 DEF IInv, DimInv, TypeOK
<1>4. TypeOK' /\ OnceEach' /\ DimInv'
  BY <1>1, <1>3 DEF IInv, TypeOK, OnceEach, DimInv
<1>5. ScanInv'
  BY <1>1 DEF IInv, ScanInv, Paging
<1>6. SteadyInv' /\ OutcomeInv'
  BY <1>1, <1>2 DEF IInv, SteadyInv, OutcomeInv
<1> QED
  BY <1>4, <1>5, <1>6 DEF IInv

-----------------------------------------------------------------------------
LEMMA InitIInv ==
  ASSUME Init PROVE IInv
<1>1. /\ store \in [Ids -> Dims \cup {Absent, Unusable}]
      /\ version \in [Ids -> Dims \cup {Absent, Unusable}]
  BY ContentAssumption DEF Init, Contents, Least
<1>2. TypeOK /\ OnceEach /\ DimInv
  BY <1>1 DEF Init, TypeOK, OnceEach, DimInv
<1>3. ScanInv /\ SteadyInv /\ OutcomeInv
  BY DEF Init, ScanInv, SteadyInv, OutcomeInv, Paging
<1> QED
  BY <1>2, <1>3 DEF IInv

LEMMA NextIInv ==
  ASSUME PositivePages, CursorPaged, IInv, [Next]_vars PROVE IInv'
<1>1. CASE Writer
  BY <1>1, WriteNext, DeleteNext DEF Writer
<1>2. CASE Open
  BY <1>2, OpenNext
<1>3. CASE OpenFails \/ RequestFails
  BY <1>3, FailureNext
<1>4. CASE KeysetPage
  BY <1>4, KeysetNext
<1>5. CASE ScrollPage
  BY <1>5, ScrollNext
<1>6. CASE OffsetPage
  BY <1>6 DEF OffsetPage, Reading, CursorPaged
<1>7. CASE \/ MilvusBatch \/ WeaviatePage \/ LanceBatch
           \/ ReadNpy \/ ReadCsv \/ ReadParquet
  BY <1>7, BatchNext
<1>8. CASE ListPage
  BY <1>8, ListNext
<1>9. CASE FetchListed
  BY <1>9, FetchListedNext
<1>10. CASE NothingFetched \/ Build
  BY <1>10, ConversionNext
<1>11. CASE UNCHANGED vars
  BY <1>11 DEF vars, IInv, TypeOK, OnceEach, ScanInv, Paging, Behind, SteadyInv,
               OutcomeInv, DimInv
<1> QED
  BY <1>1, <1>2, <1>3, <1>4, <1>5, <1>6, <1>7, <1>8, <1>9, <1>10, <1>11
     DEF Next, Step

-----------------------------------------------------------------------------
(* Chroma.                                                                 *)

NothingTaken == \A i \in Ids : fetched[i] = 0

OffsetInv ==
  /\ TypeOK /\ DimInv
  /\ pc \in {"idle", "reading", "converting", "done"}
  /\ pc # "done" => outcome = "none" /\ \A i \in steady : store[i] # Absent
  /\ pc = "idle" => cursor = 0 /\ NothingTaken
  /\ pc = "reading" /\ NothingTaken => cursor = 0
  /\ pc = "converting" /\ NothingTaken => steady = {}
  /\ outcome = "EmptySource" => steady = {}

\* Nothing is skipped at offset 0.
LEMMA FirstOffset ==
  ASSUME NEW content PROVE Skipping(content, 0) = Present(content)
<1>1. SUFFICES ASSUME NEW i \in Present(content)
               PROVE  Cardinality({j \in Present(content) : j <= i}) > 0
  BY DEF Skipping
<1> DEFINE S == {j \in Present(content) : j <= i}
<1>2. S \subseteq Ids /\ i \in Ids /\ i \in S
  BY IdsAssumption DEF Present
<1>3. IsFiniteSet(S)
  BY <1>2, IdsAssumption, FS_Subset
<1>4. Cardinality(S) \in Nat /\ Cardinality(S) # 0
  BY <1>2, <1>3, FS_CardinalityType, FS_EmptySet
<1> QED
  BY <1>4

LEMMA OffsetNext ==
  ASSUME PositivePages, OffsetInv, OffsetPage PROVE OffsetInv'
<1>1. /\ pc = "reading" /\ UNCHANGED <<source, store, version, warned, steady>>
      /\ outcome = "none" /\ cursor \in Nat
      /\ store \in [Ids -> Dims \cup {Absent, Unusable}]
  BY DEF OffsetPage, Reading, OffsetInv, TypeOK
<1>2. PICK P \in SUBSET Skipping(store, cursor) :
        /\ Page(P, Skipping(store, cursor))
        /\ \/ /\ Take(P, store, IF Cardinality(P) < source.pageSize
                                 THEN "converting" ELSE "reading")
              /\ cursor' = cursor + Cardinality(P)
              /\ UNCHANGED listed
           \/ Refuse(P, store)
  BY DEF OffsetPage
<1>3. P \subseteq Present(store) /\ P \subseteq Ids /\ IsFiniteSet(P)
  BY IdsAssumption, FS_Subset DEF Skipping, Present
<1>4. CASE Refuse(P, store)
  <2>1. /\ pc' = "done" /\ outcome' \in {"SchemaMismatch", "Panic"}
        /\ UNCHANGED <<cursor, listed, dim, fetched>>
    BY <1>4 DEF Refuse, End
  <2> QED
    BY <1>1, <2>1 DEF OffsetInv, TypeOK, DimInv, NothingTaken
<1>5. CASE /\ Take(P, store, IF Cardinality(P) < source.pageSize
                             THEN "converting" ELSE "reading")
           /\ cursor' = cursor + Cardinality(P)
           /\ UNCHANGED listed
  <2>1. /\ fetched' = [i \in Ids |-> IF i \in P THEN fetched[i] + 1 ELSE fetched[i]]
        /\ pc' = IF Cardinality(P) < source.pageSize THEN "converting" ELSE "reading"
        /\ outcome' = outcome
    BY <1>5 DEF Take
  <2>2. fetched' \in [Ids -> Nat] /\ dim' \in Dims \cup {Unknown} /\ DimInv'
    BY <1>1, <1>3, <1>5, TakeTypes DEF OffsetInv
  <2>3. Cardinality(P) \in Nat /\ Cardinality({}) = 0
    BY <1>3, FS_CardinalityType, FS_EmptySet
  <2>4. TypeOK'
    BY <1>1, <1>5, <2>1, <2>2, <2>3 DEF OffsetInv, TypeOK
  <2>5. ASSUME NothingTaken' PROVE P = {} /\ NothingTaken /\ cursor = 0
    <3>1. \A i \in Ids : fetched[i] \in Nat
      BY DEF OffsetInv, TypeOK
    <3>2. \A i \in Ids : fetched'[i] = 0
      BY <2>5 DEF NothingTaken
    <3>3. \A i \in Ids : i \notin P /\ fetched[i] = 0
      BY <2>1, <3>1, <3>2
    <3> QED
      BY <1>1, <1>3, <3>3 DEF OffsetInv, NothingTaken
  <2>6. NothingTaken' => cursor' = 0 /\ pc' = "converting"
    <3>1. source.pageSize \in Nat \ {0}
      BY PageSizePositive DEF OffsetInv
    <3>2. NothingTaken' => Cardinality(P) = 0 /\ cursor = 0
      BY <2>3, <2>5
    <3>3. Cardinality(P) = 0 => Cardinality(P) < source.pageSize
      BY <3>1
    <3> QED
      BY <1>5, <2>1, <3>2, <3>3
  <2>7. NothingTaken' => steady' = {}
    <3>1. P = {} => Skipping(store, cursor) = {}
      BY <1>2, PageFacts, PageSizePositive DEF OffsetInv
    <3>2. NothingTaken' => Present(store) = {}
      BY <2>5, <3>1, FirstOffset
    <3> QED
      BY <1>1, <3>2 DEF OffsetInv, TypeOK, Present
  <2> QED
    BY <1>1, <2>1, <2>2, <2>4, <2>6, <2>7 DEF OffsetInv
<1> QED
  BY <1>2, <1>4, <1>5

LEMMA NextOffsetInv ==
  ASSUME PositivePages, ~CursorPaged, OffsetInv, [Next]_vars PROVE OffsetInv'
<1>1. ASSUME NEW i \in Ids, NEW content \in Contents(source.connector),
             Insert(i, content) \/ Overwrite(i, content)
      PROVE  OffsetInv'
  <2>1. content \in Dims \cup {Unusable} /\ content # Absent
    BY ContentAssumption DEF Contents, Least, Unusable, Absent
  <2> QED
    BY <1>1, <2>1 DEF Insert, Overwrite, OffsetInv, TypeOK, DimInv, NothingTaken, fetchVars
<1>2. ASSUME NEW i \in Ids, Delete(i) PROVE OffsetInv'
  BY <1>2 DEF Delete, OffsetInv, TypeOK, DimInv, NothingTaken, fetchVars
<1>3. CASE Open
  <2>1. dim' \in Dims \cup {Unknown}
    BY <1>3 DEF Open, Declared, Least
  <2>2. TypeOK'
    BY <1>3, <2>1 DEF Open, OffsetInv, TypeOK, Present
  <2>3. DimInv'
    BY <1>3 DEF Open, OffsetInv, NothingTaken, DimInv
  <2> QED
    BY <1>3, <2>2, <2>3 DEF Open, OffsetInv, NothingTaken, Present
<1>4. CASE OpenFails \/ RequestFails
  BY <1>4 DEF OpenFails, RequestFails, End, OffsetInv, TypeOK, DimInv, NothingTaken
<1>5. CASE OffsetPage
  BY <1>5, OffsetNext
<1>6. CASE \/ KeysetPage \/ ScrollPage \/ ListPage \/ FetchListed
           \/ MilvusBatch \/ WeaviatePage \/ LanceBatch
           \/ ReadNpy \/ ReadCsv \/ ReadParquet
  BY <1>6 DEF KeysetPage, ScrollPage, ListPage, FetchListed, MilvusBatch,
              WeaviatePage, LanceBatch, ReadNpy, ReadCsv, ReadParquet, Reading,
              CursorPaged, OffsetInv
<1>7. CASE NothingFetched
  BY <1>7 DEF NothingFetched, End, OffsetInv, TypeOK, DimInv, NothingTaken
<1>8. CASE Build
  BY <1>8 DEF Build, End, OffsetInv, TypeOK, DimInv, NothingTaken
<1>9. CASE UNCHANGED vars
  BY <1>9 DEF vars, OffsetInv, TypeOK, DimInv, NothingTaken
<1> QED
  BY <1>1, <1>2, <1>3, <1>4, <1>5, <1>6, <1>7, <1>8, <1>9 DEF Next, Step, Writer

-----------------------------------------------------------------------------
Inv == IF CursorPaged THEN IInv ELSE OffsetInv

LEMMA Invariant ==
  ASSUME PositivePages PROVE Spec => []Inv
<1>1. Init => Inv
  <2>1. ASSUME Init PROVE OffsetInv
    <3>1. TypeOK /\ DimInv
      BY <2>1, InitIInv DEF IInv
    <3> QED
      BY <2>1, <3>1 DEF Init, OffsetInv, NothingTaken
  <2> QED
    BY <2>1, InitIInv DEF Inv
<1>2. Inv /\ [Next]_vars => Inv'
  <2>1. ASSUME [Next]_vars PROVE CursorPaged' <=> CursorPaged
    <3>1. source' = source
      BY <2>1 DEF Next, Writer, Step, Insert, Overwrite, Delete, Open, OpenFails,
         RequestFails, KeysetPage, ScrollPage, OffsetPage, ListPage, FetchListed,
         MilvusBatch, WeaviatePage, LanceBatch, ReadNpy, ReadCsv, ReadParquet,
         NothingFetched, Build, Reading, vars
    <3> QED
      BY <3>1 DEF CursorPaged
  <2> QED
    BY <2>1, NextIInv, NextOffsetInv DEF Inv
<1> QED
  BY <1>1, <1>2, PTL DEF Spec

\* The state is well-typed: what is built has one of the stored dimensions.
THEOREM TypeCorrect ==
  ASSUME PositivePages PROVE Spec => []TypeOK
<1>1. Inv => TypeOK
  BY DEF Inv, IInv, OffsetInv
<1> QED
  BY <1>1, Invariant, PTL

\* For every source, page size and history of writes, an evaluator built from a
\* cursor-paged source has every row that was there all along.
THEOREM NothingSteadyMissed ==
  ASSUME PositivePages PROVE Spec => []SteadyRowsFetched
<1>1. Inv => SteadyRowsFetched
  BY DEF Inv, IInv, OutcomeInv, SteadyRowsFetched
<1> QED
  BY <1>1, Invariant, PTL

\* No page boundary makes a cursor-paged connector take a row twice.
THEOREM TakenOnce ==
  ASSUME PositivePages PROVE Spec => []NoRowTwice
<1>1. Inv => NoRowTwice
  BY DEF Inv, IInv, OnceEach, NoRowTwice
<1> QED
  BY <1>1, Invariant, PTL

\* EmptySource is only reported of a source none of whose rows stayed, by every
\* connector.
THEOREM EmptyIsEmpty ==
  ASSUME PositivePages PROVE Spec => []EmptyMeansEmpty
<1>1. Inv => EmptyMeansEmpty
  BY DEF Inv, IInv, OffsetInv, OutcomeInv, EmptyMeansEmpty, TypeOK
<1> QED
  BY <1>1, Invariant, PTL
=============================================================================
