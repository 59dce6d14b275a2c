------------------------------- MODULE Fetch -------------------------------
(***************************************************************************)
(* The connectors: fetch_all of rust/connectors/src/{pgvector,qdrant,      *)
(* lancedb}.rs and of bindings/python/vechealth/connectors/*.py, the file  *)
(* loaders of local.rs, and the evaluator built from their result. One     *)
(* fetch reads a source that other clients keep writing to; no page is     *)
(* retried, and nothing is kept of a fetch that fails. Python and Rust     *)
(* errors have one name here, and a parse error is a SchemaMismatch.       *)
(*                                                                         *)
(* What a server does with a request is external: a page is the first rows *)
(* of those asked for, in the source's own scan order, as they are at the  *)
(* moment of the request.                                                  *)
(***************************************************************************)
EXTENDS Integers, FiniteSets

CONSTANTS
  Ids,           \* the rows a source may hold, numbered in its scan order
  Connectors,    \* the connectors looked at
  PageSizes,     \* page_size or batch_size
  Dims,          \* dimensions of stored vectors
  Broken,        \* {Unusable} when rows without a usable vector may occur, or {}
  Metrics,       \* distance metrics sources are indexed with
  KeyTypes       \* integer types of a table's id column: "int8", "int4"

Absent == -1     \* no row under this id
Unusable == 0    \* a row whose vector is null, sparse or multi
Unknown == 0     \* no dimension seen or declared yet

Files == {"npy", "csv", "parquet"}
Known == {"pgvector", "qdrant", "chroma", "pinecone", "milvus", "weaviate", "lancedb"}
           \cup Files

ASSUME IdsAssumption == Ids \subseteq Nat \ {0} /\ IsFiniteSet(Ids)
ASSUME ConnectorsAssumption == Connectors \subseteq Known
ASSUME PageAssumption == PageSizes \subseteq Nat
ASSUME ContentAssumption == Dims \subseteq Nat \ {0} /\ Broken \subseteq {Unusable}

VARIABLES
  source,        \* the call's arguments and the source's configuration
  store,         \* what is under each id: a dimension, Unusable or Absent
  pc,            \* "idle", "reading", "looking_up", "converting" or "done"
  cursor,        \* where the next page starts
  version,       \* the table version a LanceDB scan reads, the file opened
  listed,        \* ids Pinecone has listed and not yet returned
  dim,           \* the dimension every further row must have
  fetched,       \* how often each row was taken into the matrix
  warned,        \* the user was told that the metric is not cosine
  outcome,       \* "none" until the fetch ends, then "built" or the error
  steady         \* history: rows that were in the source all along

vars == <<source, store, pc, cursor, version, listed, dim, fetched, warned,
          outcome, steady>>
fetchVars == <<pc, cursor, version, listed, dim, fetched, warned, outcome>>

Present(content) == {i \in Ids : content[i] # Absent}
Greatest(S) == {i \in S : \A j \in S : j <= i}
Least(S) == {i \in S : \A j \in S : i <= j}

\* A pgvector column and the lines of a csv file may mix dimensions; a Milvus
\* vector is never null, nor is a row of an npy array.
Contents(connector) ==
  (IF connector \in {"pgvector", "csv"} THEN Dims ELSE Least(Dims))
    \cup (IF connector \in {"milvus", "npy"} THEN {} ELSE Broken)

Init ==
  /\ source \in [connector : Connectors, pageSize : PageSizes,
                 metric : Metrics, key : KeyTypes]
  /\ source.connector # "pgvector" => source.key = "int8"
  /\ store \in [Ids -> Contents(source.connector) \cup {Absent}]
  /\ pc = "idle"
  /\ cursor = 0
  /\ version = [i \in Ids |-> Absent]
  /\ listed = {}
  /\ dim = Unknown
  /\ fetched = [i \in Ids |-> 0]
  /\ warned = FALSE
  /\ outcome = "none"
  /\ steady = {}

-----------------------------------------------------------------------------
(* Other clients of the source, until the fetch is over. Chroma returns    *)
(* records in the order they were added, so a new one comes after those    *)
(* present; the other stores order them by id. A file is replaced by one   *)
(* with other rows; what is open stays as it was.                          *)

Insert(i, content) ==
  /\ pc # "done"
  /\ store[i] = Absent
  /\ source.connector = "chroma" => \A j \in Present(store) : j < i
  /\ store' = [store EXCEPT ![i] = content]
  /\ UNCHANGED <<source, fetchVars, steady>>

Overwrite(i, content) ==
  /\ pc # "done"
  /\ store[i] # Absent
  /\ store' = [store EXCEPT ![i] = content]
  /\ UNCHANGED <<source, fetchVars, steady>>

Delete(i) ==
  /\ pc # "done"
  /\ store[i] # Absent
  /\ store' = [store EXCEPT ![i] = Absent]
  /\ steady' = steady \ {i}
  /\ UNCHANGED <<source, fetchVars>>

-----------------------------------------------------------------------------
(* The ends of a fetch.                                                    *)

End(o) ==
  /\ pc' = "done"
  /\ outcome' = o

\* The dimension a source declares: the size of Qdrant's vectors, the list size
\* of LanceDB's column, the number of numeric columns of a Parquet file.
Declared(connector) ==
  IF connector \in {"qdrant", "lancedb", "parquet"} THEN Least(Dims) ELSE {Unknown}

\* Connecting and reading the collection's configuration; a LanceDB scan pins
\* the table's version.
Open ==
  /\ pc = "idle"
  /\ pc' = "reading"
  /\ dim' \in Declared(source.connector)
  /\ version' = store
  /\ steady' = Present(store)
  /\ UNCHANGED <<source, store, cursor, listed, fetched, warned, outcome>>

\* No such collection, credentials, named vectors, a column of another type ...
OpenFails ==
  /\ pc = "idle"
  /\ \E o \in {"Network", "SchemaMismatch"} : End(o)
  /\ UNCHANGED <<source, store, cursor, version, listed, dim, fetched, warned, steady>>

RequestFails ==
  /\ pc \in {"reading", "looking_up"}
  /\ End("Network")
  /\ UNCHANGED <<source, store, cursor, version, listed, dim, fetched, warned, steady>>

-----------------------------------------------------------------------------
(* The rows of one page.                                                   *)

\* The dimension rows of page P must have, once its first row is seen.
Shape(P, content) ==
  IF dim # Unknown THEN {dim} ELSE {content[i] : i \in Least(P)}

RefusedMixed(P, content) ==  \* mutant: rows without a vector are let through
  {i \in P : content[i] \notin Shape(P, content)}
Refused(P, content) ==
  {i \in P : content[i] = Unusable \/ content[i] \notin Shape(P, content)}

Take(P, content, next) ==
  /\ Refused(P, content) = {}
  /\ dim' \in IF P = {} THEN {dim} ELSE Shape(P, content)
  /\ fetched' = [i \in Ids |-> IF i \in P THEN fetched[i] + 1 ELSE fetched[i]]
  /\ pc' = next
  /\ UNCHANGED outcome

\* The first row refused ends the fetch. Row::get panics on a NULL.
Refuse(P, content) ==
  /\ \E i \in Least(Refused(P, content)) :
       End(IF content[i] = Unusable /\ source.connector = "pgvector"
           THEN "Panic" ELSE "SchemaMismatch")
  /\ UNCHANGED <<cursor, listed, dim, fetched>>

-----------------------------------------------------------------------------
(* The pages, one protocol per kind of source.                             *)

Reading(connectors) ==
  /\ pc = "reading"
  /\ source.connector \in connectors
  /\ UNCHANGED <<source, store, version, warned, steady>>

AfterInclusive(content, c) == {i \in Present(content) : i >= c}  \* mutant: `>=`
After(content, c) == {i \in Present(content) : i > c}
From(content, c) == {i \in Present(content) : i >= c}
Skipping(content, n) ==
  {i \in Present(content) : Cardinality({j \in Present(content) : j <= i}) > n}

\* P is what a request for the rows S returns.
Page(P, S) ==
  /\ \A i \in P, j \in S \ P : i < j
  /\ Cardinality(P) <= source.pageSize
  /\ P # S => Cardinality(P) = source.pageSize

\* pgvector.rs: WHERE id > last_id ORDER BY id LIMIT page_size, until a page is
\* short. Row::get::<i64> panics on an id column that is not int8.
KeysetPageEarly ==  \* mutant: a full page counts as the last one
  /\ Reading({"pgvector"})
  /\ source.key = "int8"
  /\ \E P \in SUBSET After(store, cursor) :
       /\ Page(P, After(store, cursor))
       /\ Take(P, store, "converting")
       /\ cursor' \in Greatest(P \cup {cursor})
       /\ UNCHANGED listed

KeysetPage ==
  /\ Reading({"pgvector"})
  /\ \E P \in SUBSET After(store, cursor) :
       /\ Page(P, After(store, cursor))
       /\ \/ /\ P # {} /\ source.key # "int8"
             /\ End("Panic")
             /\ UNCHANGED <<cursor, listed, dim, fetched>>
          \/ /\ P = {} \/ source.key = "int8"
             /\ \/ /\ Take(P, store, IF P = {} \/ Cardinality(P) < source.pageSize
                                     THEN "converting" ELSE "reading")
                   /\ cursor' \in Greatest(P \cup {cursor})
                   /\ UNCHANGED listed
                \/ Refuse(P, store)

\* qdrant.rs: scroll from next_page_offset, the id of the first point left.
ScrollPage ==
  /\ Reading({"qdrant"})
  /\ \E P \in SUBSET From(store, cursor) :
       /\ Page(P, From(store, cursor))
       /\ LET left == From(store, cursor) \ P
          IN  \/ /\ Take(P, store, IF left = {} THEN "converting" ELSE "reading")
                 /\ cursor' \in IF left = {} THEN {cursor} ELSE Least(left)
                 /\ UNCHANGED listed
              \/ Refuse(P, store)

\* chroma.py: get(limit, offset), until a page is short.
OffsetPage ==
  /\ Reading({"chroma"})
  /\ \E P \in SUBSET Skipping(store, cursor) :
       /\ Page(P, Skipping(store, cursor))
       /\ \/ /\ Take(P, store, IF Cardinality(P) < source.pageSize
                               THEN "converting" ELSE "reading")
             /\ cursor' = cursor + Cardinality(P)
             /\ UNCHANGED listed
          \/ Refuse(P, store)

\* A batch of an SDK's iterator, until it has nothing left.
Iterate(content) ==
  \E P \in SUBSET After(content, cursor) :
    /\ Page(P, After(content, cursor))
    /\ \/ /\ Take(P, content, IF P = {} THEN "converting" ELSE "reading")
          /\ cursor' \in Greatest(P \cup {cursor})
          /\ UNCHANGED listed
       \/ Refuse(P, content)

\* milvus.py: query_iterator; weaviate.py: Collection.iterator, a page read ahead;
\* lancedb.py and lancedb.rs: the scan, which sees its version of the table only.
MilvusBatch == Reading({"milvus"}) /\ Iterate(store)
WeaviatePage == Reading({"weaviate"}) /\ Iterate(store)
LanceBatch == Reading({"lancedb"}) /\ Iterate(version)

\* pinecone.py: a page of ids from list, then a fetch of those ids, which
\* answers with the ones still there.
ListPage ==
  /\ Reading({"pinecone"})
  /\ \E P \in SUBSET After(store, cursor) :
       /\ Page(P, After(store, cursor))
       /\ listed' = P
       /\ pc' = IF P = {} THEN "converting" ELSE "looking_up"
       /\ cursor' \in Greatest(P \cup {cursor})
  /\ UNCHANGED <<dim, fetched, outcome>>

FetchListedOrStop ==  \* mutant: an empty answer ends the loop
  /\ pc = "looking_up"
  /\ LET P == listed \cap Present(store)
     IN  /\ Take(P, store, IF P = {} THEN "converting" ELSE "reading")
         /\ listed' = {}
         /\ UNCHANGED cursor
  /\ UNCHANGED <<source, store, version, warned, steady>>

FetchListedAgain ==  \* mutant: a page whose ids are all gone is listed again
  /\ pc = "looking_up"
  /\ LET P == listed \cap Present(store)
     IN  \/ /\ Take(P, store, "reading")
            /\ listed' = {}
            /\ cursor' \in IF P = {} THEN {i - 1 : i \in Least(listed)} ELSE {cursor}
         \/ Refuse(P, store)
  /\ UNCHANGED <<source, store, version, warned, steady>>

FetchListed ==
  /\ pc = "looking_up"
  /\ LET P == listed \cap Present(store)
     IN  \/ Take(P, store, "reading") /\ listed' = {} /\ UNCHANGED cursor
         \/ Refuse(P, store)
  /\ UNCHANGED <<source, store, version, warned, steady>>

-----------------------------------------------------------------------------
(* Files, whose rows are all taken, or none.                               *)

WholeFile(content) ==
  LET P == After(content, cursor)
  IN  \/ /\ Take(P, content, "converting")
         /\ cursor' \in Greatest(P \cup {cursor})
         /\ UNCHANGED listed
      \/ Refuse(P, content)

\* load_npy opens the path again when the array turns out not to be float32.
ReadNpy ==
  /\ Reading({"npy"})
  /\ \E content \in {version, store} : WholeFile(content)

\* load_csv: the lines after the header, each as wide as the first one.
ReadCsv == Reading({"csv"}) /\ WholeFile(version)

\* load_parquet: the selected columns, batch by batch, transposed to rows.
ReadParquet == Reading({"parquet"}) /\ WholeFile(version)

-----------------------------------------------------------------------------
(* From the rows to an evaluator.                                          *)

\* What the connector makes of the metric: pgvector does not ask for it, a file
\* has none, and the others drop a name they have no equivalent for.
Reported ==
  IF /\ source.connector \notin {"pgvector"} \cup Files
     /\ source.metric \in {"cosine", "dot", "euclidean"}
  THEN source.metric ELSE "unknown"

NothingFetched ==
  /\ pc = "converting"
  /\ \A i \in Ids : fetched[i] = 0
  /\ End("EmptySource")
  /\ UNCHANGED <<source, store, cursor, version, listed, dim, fetched, warned, steady>>

\* evaluator_from_fetched; the warning filters may make the warning an error.
Build ==
  /\ pc = "converting"
  /\ \E i \in Ids : fetched[i] # 0
  /\ warned' = (Reported \notin {"cosine", "unknown"})
  /\ \/ End("built")
     \/ warned' /\ End("UserWarning")
  /\ UNCHANGED <<source, store, cursor, version, listed, dim, fetched, steady>>

-----------------------------------------------------------------------------
Writer ==
  \E i \in Ids :
    \/ \E content \in Contents(source.connector) :
         Insert(i, content) \/ Overwrite(i, content)
    \/ Delete(i)

Step ==
  \/ Open \/ OpenFails \/ RequestFails
  \/ KeysetPage \/ ScrollPage \/ OffsetPage \/ ListPage \/ FetchListed
  \/ MilvusBatch \/ WeaviatePage \/ LanceBatch
  \/ ReadNpy \/ ReadCsv \/ ReadParquet
  \/ NothingFetched \/ Build

Next == Writer \/ Step

Spec == Init /\ [][Next]_vars

\* Every request is answered or fails, and the connector goes on; nothing is
\* asked of the writers.
FairSpec == Spec /\ WF_vars(Step)

-----------------------------------------------------------------------------
(* Properties.                                                             *)

\* Types; an evaluator is built of vectors of one dimension, however rows were
\* overwritten between the pages: every connector refuses a mixed collection.
TypeOK ==
  /\ source \in [connector : Connectors, pageSize : PageSizes,
                 metric : Metrics, key : KeyTypes]
  /\ store \in [Ids -> Dims \cup {Absent, Unusable}]
  /\ version \in [Ids -> Dims \cup {Absent, Unusable}]
  /\ cursor \in Nat
  /\ listed \subseteq Ids
  /\ fetched \in [Ids -> Nat]
  /\ steady \subseteq Ids
  /\ dim \in Dims \cup {Unknown}
  /\ outcome = "built" => dim \in Dims

\* Every connector but Chroma's pages by a cursor that names a row, or iterates.
CursorPaged == source.connector # "chroma"

\* A cursor makes pages without a transaction as good as one snapshot for the
\* rows that matter: an evaluator has every row that was in the source all the
\* while, whatever was written and deleted around it.
SteadyRowsFetched ==
  CursorPaged /\ outcome = "built" => \A i \in steady : fetched[i] > 0

\* Nor does a page boundary, however rows move across it, take a row twice: it
\* would count as a near duplicate and as a neighbour of itself.
NoRowTwice == CursorPaged => \A i \in Ids : fetched[i] <= 1

\* EmptySource is never reported of a source that had a row all along.
EmptyMeansEmpty == outcome = "EmptySource" => steady = {}

\* Every answered request brings the end of the fetch nearer, whatever the
\* writers do: over the ids a source may hold, the paging loops end.
FetchEnds == pc = "reading" ~> pc = "done"

-----------------------------------------------------------------------------
(* What the documentation says, where the code does otherwise.             *)

\* docs/reference.md:188 "Each pulls the *complete* collection": every row that
\* was there from the first request to the last is in the evaluator.
CompleteCollection == outcome = "built" => \A i \in steady : fetched[i] > 0

\* rust/bindings/src/lib.rs:882 "`id_column` must be an integer primary/unique
\* key": with such a key and a vector in every row the fetch does not panic.
IntegerKeysAccepted == outcome # "Panic"
=============================================================================
