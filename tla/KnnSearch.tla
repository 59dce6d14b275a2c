----------------------------- MODULE KnnSearch -----------------------------
(***************************************************************************)
(* The exact k-nearest-neighbour search of rust/core/src/knn.rs.           *)
(*                                                                         *)
(* A set of vectors is a record                                            *)
(*    n     the number of rows, numbered 1..n here (0..n-1 in the code),   *)
(*    kind  what normalisation makes of each row: "ok", "zero" (norm 0) or *)
(*          "nonfinite" (a NaN or an infinity among its components),       *)
(*    dist  dist[i][j], the exact (f64) chord distance of rows i and j,    *)
(*    sim   sim[i][j], the f32 cosine similarity the blocks compute.       *)
(* Floating point enters in two places only: sim is a rounded image of     *)
(* dist, so that distinct distances may share one similarity, and NaN      *)
(* compares false with everything.                                         *)
(***************************************************************************)
EXTENDS Integers, Sequences, FiniteSets, SequencesExt

NaN == -1        \* an f32 NaN; every finite similarity is positive
NegInf == 0      \* f32::NEG_INFINITY, below every finite similarity
NoIndex == 0     \* u32::MAX, the index of a slot nothing was put in

Rows(v) == 1..v.n

\* What the arithmetic makes of rows: a component that is not finite turns
\* every similarity of its row into NaN (normalised, it is a NaN itself), and
\* its distances but the one to a row of norm 0, which is fixed.
VectorsOK(v) ==
  /\ v.n \in Nat
  /\ \A i, j \in Rows(v) :
       IF "nonfinite" \in {v.kind[i], v.kind[j]}
       THEN v.sim[i][j] = NaN /\ v.dist[i][j] \in Nat \cup {NaN}
       ELSE v.sim[i][j] \in Nat \ {NegInf} /\ v.dist[i][j] \in Nat

\* The two f32 comparisons the search makes; both are false on NaN.
AtMost(a, b) == a # NaN /\ b # NaN /\ a <= b
AboveTotal(a, b) == a # b /\ (a = NaN \/ (b # NaN /\ a > b))  \* mutant: total_cmp
Above(a, b) == a # NaN /\ b # NaN /\ a > b

\* normalize_l2_with_report fails when no row has a positive norm.
AllDegenerate(v) == \A i \in Rows(v) : v.kind[i] = "zero"

-----------------------------------------------------------------------------
(* Candidate selection: a bounded buffer, worst candidate first.           *)

Slot == [sim |-> NegInf, idx |-> NoIndex]

\* insert_top_k: the new value overwrites slot 1 and bubbles up past the
\* slots strictly below it, stopping at the first one that is not.
InsertTopKLater(topK, val, idx) ==  \* mutant: `<` for `<=`, the later tie wins
  IF Above(topK[1].sim, val)
  THEN topK
  ELSE LET rest == Tail(topK)
           risen == {p \in 0..Len(rest) :
                       \A q \in 1..p : AtMost(rest[q].sim, val)}
       IN  InsertAt(rest, Max(risen) + 1, [sim |-> val, idx |-> idx])

InsertTopK(topK, val, idx) ==
  IF AtMost(val, topK[1].sim)
  THEN topK
  ELSE LET rest == Tail(topK)
           risen == {p \in 0..Len(rest) :
                       \A q \in 1..p : Above(val, rest[q].sim)}
       IN  InsertAt(rest, Max(risen) + 1, [sim |-> val, idx |-> idx])

\* The buffer after the rows 1..n but `self` were offered, in order, with the
\* similarities sims. With self = NoIndex no row is left out.
TopK(sims, n, self, size) ==
  LET buffer[m \in 0..n] ==
        IF m = 0 THEN [p \in 1..size |-> Slot]
        ELSE IF m = self THEN buffer[m - 1]
        ELSE InsertTopK(buffer[m - 1], sims[m], m)
  IN  buffer[n]

\* k_cand: twice k candidates, as far as there are other rows.
CandidateCountUncapped(n, k) == 2 * k  \* mutant: not capped at the other rows
CandidateCount(n, k) ==
  Max({Min({2 * k, n - 1}), k})

\* Row r's candidates, the row `self` left out.
Candidates(v, r, self, k) ==
  LET topK == TopK(v.sim[r], v.n, self, CandidateCount(v.n, k))
  IN  {topK[p].idx : p \in DOMAIN topK}

-----------------------------------------------------------------------------
(* Exact ranking of the candidates and the blocked search.                 *)

\* The comparator of the final sort: by exact distance, then by index.
Closer(v, r, a, b) ==
  \/ v.dist[r][a] < v.dist[r][b]
  \/ v.dist[r][a] = v.dist[r][b] /\ a < b

\* The members of S from the closest to row r to the farthest.
Ranked(v, r, S) ==
  [p \in 1..Cardinality(S) |->
     CHOOSE j \in S : Cardinality({m \in S : Closer(v, r, m, j)}) = p - 1]

\* Output row r is written by block (r-1) \div b at offset (r-1) % b; the block
\* recomputes from these which column is the row itself.
GlobalRowUnscaled(r, b) == (r - 1) \div b + ((r - 1) % b) + 1  \* mutant: block number for its start
GlobalRow(r, b) == b * ((r - 1) \div b) + ((r - 1) % b) + 1

\* An index is out of bounds: the buffer has no slot at all to compare with,
\* or a slot was never filled and its index is looked up as a row.
SearchPanics(v, k) ==
  IF k = 0 THEN v.n > 1
  ELSE \E r \in Rows(v) : NoIndex \in Candidates(v, r, r, k)

\* blocked_topk_cosine: for every row the indices of its k nearest neighbours.
Search(v, k, b) ==
  [r \in Rows(v) |->
     SubSeq(Ranked(v, r, Candidates(v, r, GlobalRow(r, b), k)), 1, k)]

-----------------------------------------------------------------------------
(* Reference definitions.                                                  *)

\* What the doc of get_knn promises: the k nearest *other* rows.
TrueNeighbours(v, k) ==
  [r \in Rows(v) |-> SubSeq(Ranked(v, r, Rows(v) \ {r}), 1, k)]

\* The first k columns of every row of a result.
SliceLast(rows, k) ==  \* mutant: the last columns
  [r \in DOMAIN rows |-> SubSeq(rows[r], Len(rows[r]) - k + 1, Len(rows[r]))]
Slice(rows, k) == [r \in DOMAIN rows |-> SubSeq(rows[r], 1, k)]

AllFinite(v) == \A r \in Rows(v) : v.kind[r] # "nonfinite"

\* Where a search for at least one neighbour does not panic. A NaN enters the
\* buffer at its first slot and the next value drops it, so that a row with
\* nothing but NaN leaves slots unfilled; two rows need a single slot.
Searchable(v) == AllFinite(v) \/ v.n = 2

\* Where the f32 similarities order the other rows as the distances do.
OrderFaithful(v) ==
  \A r \in Rows(v) : \A i, j \in Rows(v) \ {r} :
    v.dist[r][i] < v.dist[r][j] <=> v.sim[r][i] > v.sim[r][j]
=============================================================================
