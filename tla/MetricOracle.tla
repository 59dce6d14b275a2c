---------------------------- MODULE MetricOracle ----------------------------
(***************************************************************************)
(* What an evaluator promises: a caller submits a request, and the reply   *)
(* is a function of the vectors and of this request alone, as if nothing   *)
(* had ever been asked before. Evaluator takes Truth from MetricTruth.     *)
(***************************************************************************)
CONSTANTS
  Datasets,      \* the sets of vectors an evaluator may be built from
  Requests(_),   \* Requests(v), what callers ask of an evaluator over v
  Truth(_, _),   \* Truth(v, request), the reply to it
  Nothing        \* no reply yet

VARIABLES
  vectors,       \* the evaluator's vectors
  pending,       \* the request in progress, <<>> when there is none
  reply          \* the last reply, Nothing while a request is in progress

oracleVars == <<vectors, pending, reply>>

OracleInit ==
  /\ vectors \in Datasets
  /\ pending = <<>>
  /\ reply = Nothing

Submit ==
  /\ pending = <<>>
  /\ pending' \in Requests(vectors)
  /\ reply' = Nothing
  /\ UNCHANGED vectors

Answer ==
  /\ pending # <<>>
  /\ pending' = <<>>
  /\ reply' = Truth(vectors, pending)
  /\ UNCHANGED vectors

OracleSpec == OracleInit /\ [][Submit \/ Answer]_oracleVars
=============================================================================
