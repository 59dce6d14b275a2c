------------------------ MODULE HubInspectionProofs ------------------------
(***************************************************************************)
(* Hub reports against the evaluator's caches: an inspector is one of the  *)
(* evaluator's callers, and what its reports list depends on the vectors,  *)
(* its arguments and the width of the cache that answered, and on nothing  *)
(* any other caller did.                                                   *)
(***************************************************************************)
EXTENDS HubInspection, EvaluatorProofs

-----------------------------------------------------------------------------
(* Sums. The sum of f over the subsets of S, one chosen member at a time.  *)

First(s) == CHOOSE x \in s : TRUE

Sums(g, f, U) ==
  g = [s \in U |-> IF s = {} THEN 0 ELSE f[First(s)] + g[s \ {First(s)}]]

Small(S, n) == {s \in SUBSET S : Cardinality(s) <= n}

LEMMA WithoutFirst ==
  ASSUME NEW S, IsFiniteSet(S), NEW s \in SUBSET S, s # {}
  PROVE  /\ First(s) \in s /\ s \ {First(s)} \in SUBSET S
         /\ Cardinality(s) \in Nat \ {0} /\ Cardinality(s \ {First(s)}) = Cardinality(s) - 1
<1>1. First(s) \in s
  BY DEF First
<1>2. IsFiniteSet(s)
  BY FS_Subset
<1>3. Cardinality(s) \in Nat /\ Cardinality(s) # 0
  BY <1>2, FS_CardinalityType, FS_EmptySet
<1>4. Cardinality(s \ {First(s)}) = Cardinality(s) - 1
  BY <1>1, <1>2, FS_RemoveElement
<1>5. QED
  BY <1>1, <1>3, <1>4

\* What holds of the empty set, and of a set if it does of the rest without the
\* chosen member, holds of every subset of a finite set.
LEMMA SubsetInduction ==
  ASSUME NEW S, IsFiniteSet(S), NEW T, {} \in T,
         \A s \in SUBSET S : s # {} /\ s \ {First(s)} \in T => s \in T
  PROVE  S \in T
<1> DEFINE N == {n \in Nat : \A s \in SUBSET S : Cardinality(s) = n => s \in T}
<1>1. 0 \in N
  <2> SUFFICES ASSUME NEW s \in SUBSET S, Cardinality(s) = 0 PROVE s \in T
    OBVIOUS
  <2>1. s = {}
    BY WithoutFirst
  <2>2. QED
    BY <2>1
<1>2. ASSUME NEW n \in Nat, n \in N PROVE n + 1 \in N
  <2> SUFFICES ASSUME NEW s \in SUBSET S, Cardinality(s) = n + 1 PROVE s \in T
    OBVIOUS
  <2>1. s # {}
    BY FS_EmptySet
  <2>2. s \ {First(s)} \in SUBSET S /\ Cardinality(s \ {First(s)}) = n
    BY <2>1, WithoutFirst
  <2>3. QED
    BY <1>2, <2>1, <2>2
<1>3. Nat \subseteq N
  <2> HIDE DEF N
  <2>1. QED
    BY <1>1, <1>2, NatInductionSet
<1>4. QED
  BY <1>3, FS_CardinalityType

LEMMA SumsExist ==
  ASSUME NEW f, NEW S, IsFiniteSet(S)
  PROVE  \E g : Sums(g, f, SUBSET S)
<1> DEFINE T == {n \in Nat : \E g : Sums(g, f, Small(S, n))}
<1>0. \A s \in SUBSET S : Cardinality(s) \in Nat
  BY FS_Subset, FS_CardinalityType
<1>1. 0 \in T
  <2> DEFINE g == [s \in Small(S, 0) |-> 0]
  <2>1. ASSUME NEW s \in Small(S, 0) PROVE s = {}
    <3>1. s \in SUBSET S /\ Cardinality(s) \in Nat /\ Cardinality(s) <= 0
      BY <1>0 DEF Small
    <3>2. s # {} => Cardinality(s) \in Nat \ {0}
      BY <3>1, WithoutFirst
    <3>3. QED
      BY <3>1, <3>2
  <2>2. g = [s \in Small(S, 0) |-> IF s = {} THEN 0 ELSE f[First(s)] + g[s \ {First(s)}]]
    BY <2>1
  <2>3. QED
    BY <2>2 DEF Sums
<1>2. ASSUME NEW n \in Nat, n \in T PROVE n + 1 \in T
  <2>1. PICK g : Sums(g, f, Small(S, n))
    BY <1>2
  <2> DEFINE h == [s \in Small(S, n + 1) |->
                     IF s = {} THEN 0 ELSE f[First(s)] + g[s \ {First(s)}]]
  <2>2. Small(S, n) \subseteq Small(S, n + 1)
    BY <1>0 DEF Small
  <2>3. \A s \in Small(S, n) : g[s] = h[s]
    BY <2>1, <2>2 DEF Sums
  <2>4. ASSUME NEW s \in Small(S, n + 1), s # {} PROVE s \ {First(s)} \in Small(S, n)
    BY <2>4, WithoutFirst DEF Small
  <2>5. h = [s \in Small(S, n + 1) |-> IF s = {} THEN 0 ELSE f[First(s)] + h[s \ {First(s)}]]
    BY <2>3, <2>4
  <2>6. Sums(h, f, Small(S, n + 1))
    BY <2>5 DEF Sums
  <2>7. QED
    BY <2>6
<1>3. Nat \subseteq T
  <2> HIDE DEF T
  <2>1. QED
    BY <1>1, <1>2, NatInductionSet
<1>4. Small(S, Cardinality(S)) = SUBSET S
  BY FS_Subset DEF Small
<1>5. Cardinality(S) \in T
  BY <1>3, FS_CardinalityType
<1>6. QED
  BY <1>4, <1>5

LEMMA SumIsSums ==
  ASSUME NEW f, NEW S, IsFiniteSet(S)
  PROVE  \E g : Sums(g, f, SUBSET S) /\ SumFunctionOnSet(f, S) = g[S]
<1> DEFINE P(g) == g = [s \in SUBSET S |-> IF s = {} THEN 0
                         ELSE f[CHOOSE x \in s : TRUE] + g[s \ {CHOOSE x \in s : TRUE}]]
<1>1. \E g : P(g)
  <2>1. PICK g : Sums(g, f, SUBSET S)
    BY SumsExist
  <2>2. P(g)
    BY <2>1 DEF Sums, First
  <2>3. QED
    BY <2>2
<1>2. SumFunctionOnSet(f, S) = (CHOOSE g : P(g))[S]
  BY DEF SumFunctionOnSet, FoldFunctionOnSet, MapThenFoldSet
<1>3. P(CHOOSE g : P(g))
  <2> HIDE DEF P
  <2>1. QED
    BY <1>1
<1>4. QED
  BY <1>2, <1>3 DEF Sums, First

\* A sum of natural numbers is one, and positive if all the terms are.
LEMMA SumOfNaturals ==
  ASSUME NEW S, IsFiniteSet(S), NEW f, \A x \in S : f[x] \in Nat
  PROVE  /\ SumFunctionOnSet(f, S) \in Nat
         /\ S # {} /\ (\A x \in S : f[x] > 0) => SumFunctionOnSet(f, S) > 0
<1>1. PICK g : Sums(g, f, SUBSET S) /\ SumFunctionOnSet(f, S) = g[S]
  BY SumIsSums
<1> DEFINE T == {s \in SUBSET S :
                   g[s] \in Nat /\ (s # {} /\ (\A x \in S : f[x] > 0) => g[s] > 0)}
<1>2. {} \in T
  BY <1>1 DEF Sums
<1>3. ASSUME NEW s \in SUBSET S, s # {}, s \ {First(s)} \in T PROVE s \in T
  <2>1. First(s) \in S
    BY <1>3, WithoutFirst
  <2>2. g[s] = f[First(s)] + g[s \ {First(s)}]
    BY <1>1, <1>3 DEF Sums
  <2>3. g[s \ {First(s)}] \in Nat /\ f[First(s)] \in Nat
    BY <1>3, <2>1
  <2>4. QED
    BY <2>1, <2>2, <2>3
<1>4. S \in T
  <2> HIDE DEF T
  <2>1. QED
    BY <1>2, <1>3, SubsetInduction
<1>5. QED
  BY <1>1, <1>4

\* Terms that are 0 or 1 count the members where they are 1.
LEMMA SumOfFlags ==
  ASSUME NEW S, IsFiniteSet(S), NEW f, \A x \in S : f[x] \in {0, 1}
  PROVE  SumFunctionOnSet(f, S) = Cardinality({x \in S : f[x] = 1})
<1>1. PICK g : Sums(g, f, SUBSET S) /\ SumFunctionOnSet(f, S) = g[S]
  BY SumIsSums
<1> DEFINE Ones(s) == {x \in s : f[x] = 1}
           T == {s \in SUBSET S : g[s] = Cardinality(Ones(s))}
<1>2. {} \in T
  <2>1. Ones({}) = {}
    OBVIOUS
  <2>2. QED
    BY <1>1, <2>1, FS_EmptySet DEF Sums
<1>3. ASSUME NEW s \in SUBSET S, s # {}, s \ {First(s)} \in T PROVE s \in T
  <2> DEFINE x == First(s)
             rest == s \ {First(s)}
  <2>1. x \in s /\ x \in S /\ rest \in SUBSET S
    BY <1>3, WithoutFirst
  <2>2. g[s] = f[x] + g[rest]
    BY <1>1, <1>3 DEF Sums
  <2>3. g[rest] = Cardinality(Ones(rest))
    BY <1>3
  <2>4. Ones(rest) \in SUBSET S
    BY <2>1
  <2>5. IsFiniteSet(Ones(rest)) /\ Cardinality(Ones(rest)) \in Nat
    BY <2>4, FS_Subset, FS_CardinalityType
  <2>6. CASE f[x] = 0
    <3>1. Ones(s) = Ones(rest)
      BY <2>6
    <3>2. Cardinality(Ones(s)) = Cardinality(Ones(rest))
      BY <3>1
    <3>3. QED
      BY <2>2, <2>3, <2>5, <2>6, <3>2
  <2>7. CASE f[x] = 1
    <3>1. Ones(s) = Ones(rest) \cup {x} /\ x \notin Ones(rest)
      BY <2>1, <2>7
    <3>2. Cardinality(Ones(s)) = Cardinality(Ones(rest)) + 1
      <4> HIDE DEF Ones, x
      <4>1. QED
        BY <2>5, <3>1, FS_AddElement
    <3>3. QED
      BY <2>2, <2>3, <2>5, <2>7, <3>2
  <2>8. QED
    BY <2>1, <2>6, <2>7
<1>4. S \in T
  <2> HIDE DEF T
  <2>1. QED
    BY <1>2, <1>3, SubsetInduction
<1>5. QED
  BY <1>1, <1>4

\* Terms in proportion have sums in proportion.
LEMMA SumInProportion ==
  ASSUME NEW S, IsFiniteSet(S), NEW f, \A x \in S : f[x] \in Nat, NEW c \in Nat,
         NEW h, \A x \in S : h[x] = c * f[x]
  PROVE  SumFunctionOnSet(h, S) = c * SumFunctionOnSet(f, S)
<1>1. PICK g : Sums(g, f, SUBSET S) /\ SumFunctionOnSet(f, S) = g[S]
  BY SumIsSums
<1>2. PICK e : Sums(e, h, SUBSET S) /\ SumFunctionOnSet(h, S) = e[S]
  BY SumIsSums
<1> DEFINE T == {s \in SUBSET S : g[s] \in Nat /\ e[s] = c * g[s]}
<1>3. {} \in T
  BY <1>1, <1>2 DEF Sums
<1>4. ASSUME NEW s \in SUBSET S, s # {}, s \ {First(s)} \in T PROVE s \in T
  <2> DEFINE x == First(s)
             rest == s \ {First(s)}
  <2>1. x \in S
    BY <1>4, WithoutFirst
  <2>2. g[s] = f[x] + g[rest] /\ e[s] = h[x] + e[rest]
    BY <1>1, <1>2, <1>4 DEF Sums
  <2>3. f[x] \in Nat /\ h[x] = c * f[x] /\ g[rest] \in Nat /\ e[rest] = c * g[rest]
    BY <1>4, <2>1
  <2> HIDE DEF x, rest
  <2>4. c * (f[x] + g[rest]) = c * f[x] + c * g[rest] /\ f[x] + g[rest] \in Nat
    BY <2>3
  <2>5. QED
    BY <2>2, <2>3, <2>4
<1>5. S \in T
  <2> HIDE DEF T
  <2>1. QED
    BY <1>3, <1>4, SubsetInduction
<1>6. QED
  BY <1>1, <1>2, <1>5

\* A sum of sums, and a sum whose terms are bounded.
LEMMA SumOfPairs ==
  ASSUME NEW S, IsFiniteSet(S), NEW f, NEW h, \A x \in S : f[x] \in Nat /\ h[x] \in Nat,
         NEW both, \A x \in S : both[x] = f[x] + h[x]
  PROVE  SumFunctionOnSet(both, S) = SumFunctionOnSet(f, S) + SumFunctionOnSet(h, S)
<1>1. PICK g : Sums(g, f, SUBSET S) /\ SumFunctionOnSet(f, S) = g[S]
  BY SumIsSums
<1>2. PICK e : Sums(e, h, SUBSET S) /\ SumFunctionOnSet(h, S) = e[S]
  BY SumIsSums
<1>3. PICK b : Sums(b, both, SUBSET S) /\ SumFunctionOnSet(both, S) = b[S]
  BY SumIsSums
<1> DEFINE T == {s \in SUBSET S : g[s] \in Nat /\ e[s] \in Nat /\ b[s] = g[s] + e[s]}
<1>4. {} \in T
  BY <1>1, <1>2, <1>3 DEF Sums
<1>5. ASSUME NEW s \in SUBSET S, s # {}, s \ {First(s)} \in T PROVE s \in T
  <2> DEFINE x == First(s)
             rest == s \ {First(s)}
  <2>1. x \in S
    BY <1>5, WithoutFirst
  <2>2. g[s] = f[x] + g[rest] /\ e[s] = h[x] + e[rest] /\ b[s] = both[x] + b[rest]
    BY <1>1, <1>2, <1>3, <1>5 DEF Sums
  <2>3. /\ f[x] \in Nat /\ h[x] \in Nat /\ both[x] = f[x] + h[x]
        /\ g[rest] \in Nat /\ e[rest] \in Nat /\ b[rest] = g[rest] + e[rest]
    BY <1>5, <2>1
  <2> HIDE DEF x, rest
  <2>4. QED
    BY <2>2, <2>3
<1>6. S \in T
  <2> HIDE DEF T
  <2>1. QED
    BY <1>4, <1>5, SubsetInduction
<1>7. QED
  BY <1>1, <1>2, <1>3, <1>6

LEMMA SumAtMost ==
  ASSUME NEW S, IsFiniteSet(S), NEW f, NEW top \in Nat, \A x \in S : f[x] \in 0..top
  PROVE  SumFunctionOnSet(f, S) <= Cardinality(S) * top
<1>1. PICK g : Sums(g, f, SUBSET S) /\ SumFunctionOnSet(f, S) = g[S]
  BY SumIsSums
<1> DEFINE T == {s \in SUBSET S : g[s] \in Nat /\ g[s] <= Cardinality(s) * top}
<1>2. {} \in T
  BY <1>1, FS_EmptySet DEF Sums
<1>3. ASSUME NEW s \in SUBSET S, s # {}, s \ {First(s)} \in T PROVE s \in T
  <2> DEFINE x == First(s)
             rest == s \ {First(s)}
  <2>1. /\ x \in S /\ Cardinality(s) \in Nat \ {0}
        /\ Cardinality(rest) = Cardinality(s) - 1
    BY <1>3, WithoutFirst
  <2>2. g[s] = f[x] + g[rest]
    BY <1>1, <1>3 DEF Sums
  <2>3. f[x] \in 0..top /\ g[rest] \in Nat /\ g[rest] <= Cardinality(rest) * top
    BY <1>3, <2>1
  <2> HIDE DEF x, rest
  <2>4. Cardinality(s) * top = (Cardinality(s) - 1) * top + top
    BY <2>1
  <2>5. Cardinality(s) * top \in Nat /\ (Cardinality(s) - 1) * top \in Nat
    BY <2>1
  <2>6. QED
    BY <2>1, <2>2, <2>3, <2>4, <2>5
<1>4. S \in T
  <2> HIDE DEF T
  <2>1. QED
    BY <1>2, <1>3, SubsetInduction
<1>5. QED
  BY <1>1, <1>4

\* Without a NaN among the terms, Total is the sum.
LEMMA TotalOfNaturals ==
  ASSUME NEW S, NEW f, DOMAIN f = S, \A x \in S : f[x] \in Nat
  PROVE  Total(f) = SumFunctionOnSet(f, S)
<1>1. NaN \notin Range(f)
  BY DEF Range, NaN
<1>2. QED
  BY <1>1 DEF Total, SumFunction

-----------------------------------------------------------------------------
(* Occurrences. In neighbour lists of k different rows each, a row occurs  *)
(* as many times as there are rows that cite it.                           *)

Neighbourly(v, rows, k) ==
  /\ DOMAIN rows = Rows(v)
  /\ \A r \in Rows(v) :
       /\ DOMAIN rows[r] = 1..k
       /\ \A c, d \in 1..k : rows[r][c] = rows[r][d] => c = d

LEMMA CitersAreRows ==
  ASSUME NEW v, v.n \in Nat, NEW rows, NEW k, Neighbourly(v, rows, k), NEW j
  PROVE  /\ Citers(rows, j) \in SUBSET Rows(v) /\ IsFiniteSet(Citers(rows, j))
         /\ Cardinality(Citers(rows, j)) \in 0..v.n
<1>1. Citers(rows, j) \in SUBSET Rows(v)
  BY DEF Citers, Neighbourly
<1>2. /\ IsFiniteSet(Citers(rows, j))
      /\ Cardinality(Citers(rows, j)) <= Cardinality(Rows(v))
  BY <1>1, RowsAreFinite, FS_Subset
<1>3. QED
  BY <1>1, <1>2, RowsAreFinite, FS_CardinalityType

LEMMA OccursOncePerCiter ==
  ASSUME NEW v, v.n \in Nat, NEW rows, NEW k, Neighbourly(v, rows, k), NEW j
  PROVE  Occurrences(v, rows, j) = Cardinality(Citers(rows, j))
<1> DEFINE S == Rows(v)
           At(r) == {c \in DOMAIN rows[r] : rows[r][c] = j}
           f == [r \in S |-> Quantify(DOMAIN rows[r], LAMBDA c : rows[r][c] = j)]
<1>1. Occurrences(v, rows, j) = Total(f)
  BY DEF Occurrences, SumOver
<1>2. \A r \in S : f[r] = Cardinality(At(r))
  BY DEF Quantify
<1>3. ASSUME NEW r \in S
      PROVE  /\ r \in Citers(rows, j) => Cardinality(At(r)) = 1
             /\ r \notin Citers(rows, j) => Cardinality(At(r)) = 0
  <2>1. CASE r \in Citers(rows, j)
    <3>1. PICK c \in DOMAIN rows[r] : rows[r][c] = j
      BY <2>1 DEF Citers
    <3>2. At(r) = {c}
      BY <3>1 DEF Neighbourly
    <3>3. QED
      BY <2>1, <3>2, FS_Singleton
  <2>2. CASE r \notin Citers(rows, j)
    <3>1. At(r) = {}
      BY <2>2 DEF Citers, Neighbourly
    <3>2. QED
      BY <2>2, <3>1, FS_EmptySet
  <2>3. QED
    BY <2>1, <2>2
<1>4. DOMAIN f = S /\ IsFiniteSet(S)
  BY RowsAreFinite
<1>5. Citers(rows, j) \in SUBSET S
  BY CitersAreRows
<1> HIDE DEF At, f, S
<1>6. /\ \A r \in S : f[r] \in {0, 1}
      /\ \A r \in S : f[r] = 1 <=> r \in Citers(rows, j)
  BY <1>2, <1>3
<1>7. Total(f) = SumFunctionOnSet(f, S)
  BY <1>4, <1>6, TotalOfNaturals
<1>8. {r \in S : f[r] = 1} = Citers(rows, j)
  BY <1>5, <1>6
<1>9. QED
  BY <1>1, <1>4, <1>6, <1>7, <1>8, SumOfFlags

-----------------------------------------------------------------------------
(* The hubs, strongest first.                                              *)

Counted(v, rows) == [j \in Rows(v) |-> Occurrences(v, rows, j)]

ByStrength(v, rows) ==
  {ab \in Rows(v) \X Rows(v) :
     \/ Counted(v, rows)[ab[1]] > Counted(v, rows)[ab[2]]
     \/ Counted(v, rows)[ab[1]] = Counted(v, rows)[ab[2]] /\ ab[1] < ab[2]}

\* All the rows, the strongest hub first.
HubOrder(v, rows) ==
  [p \in 1..v.n |-> CHOOSE j \in Rows(v) : RankIn(ByStrength(v, rows), Rows(v), j) = p - 1]

LEMMA CountsAreNaturals ==
  ASSUME NEW v, v.n \in Nat, NEW rows, NEW k, Neighbourly(v, rows, k), NEW j \in Rows(v)
  PROVE  Counted(v, rows)[j] = Cardinality(Citers(rows, j)) /\ Counted(v, rows)[j] \in Nat
BY OccursOncePerCiter, CitersAreRows DEF Counted

LEMMA StrengthOrders ==
  ASSUME NEW v, v.n \in Nat, NEW rows, NEW k, Neighbourly(v, rows, k)
  PROVE  TotalOrder(ByStrength(v, rows), Rows(v))
<1> DEFINE S == Rows(v)
           occ == Counted(v, rows)
           L == ByStrength(v, rows)
<1>1. \A j \in S : j \in Int /\ occ[j] \in Int
  BY CountsAreNaturals DEF Rows
<1>2. \A a, b \in S : <<a, b>> \in L <=> (occ[a] > occ[b] \/ (occ[a] = occ[b] /\ a < b))
  BY DEF ByStrength
<1> HIDE DEF S, occ, L
<1>3. \A a \in S : <<a, a>> \notin L
  BY <1>1, <1>2
<1>4. \A a, b, c \in S : <<a, b>> \in L /\ <<b, c>> \in L => <<a, c>> \in L
  BY <1>1, <1>2
<1>5. \A a, b \in S : a # b => <<a, b>> \in L \/ <<b, a>> \in L
  BY <1>1, <1>2
<1>6. QED
  BY <1>3, <1>4, <1>5 DEF TotalOrder, S, L

LEMMA HubsInOrder ==
  ASSUME NEW v, v.n \in Nat, NEW rows, NEW k, Neighbourly(v, rows, k)
  PROVE  InOrder(HubOrder(v, rows), ByStrength(v, rows), Rows(v))
<1> DEFINE S == Rows(v)
           L == ByStrength(v, rows)
           P(p, j) == RankIn(L, S, j) = p - 1
<1>1. IsFiniteSet(S) /\ Cardinality(S) = v.n /\ TotalOrder(L, S)
  BY RowsAreFinite, StrengthOrders
<1> HIDE DEF S, L
<1>2. ASSUME NEW p \in 1..v.n
      PROVE  /\ (CHOOSE j \in S : P(p, j)) \in S
             /\ P(p, CHOOSE j \in S : P(p, j))
  <2>1. RankTaken(L, S, p - 1)
    BY <1>1, RanksAreTaken
  <2>2. \E j \in S : P(p, j)
    BY <2>1 DEF RankTaken
  <2> HIDE DEF P
  <2>3. QED
    BY <2>2
<1>3. HubOrder(v, rows) = [p \in 1..v.n |-> CHOOSE j \in S : P(p, j)]
  BY DEF HubOrder, S, L
<1>4. QED
  BY <1>1, <1>2, <1>3 DEF InOrder, S, L

\* identify_hubs lists the first of them.
LEMMA HubsListed ==
  ASSUME NEW v, v.n \in Nat, NEW rows, NEW k, Neighbourly(v, rows, k), NEW topN \in Nat
  PROVE  /\ Min({topN, v.n}) = IF topN <= v.n THEN topN ELSE v.n
         /\ DOMAIN IdentifyHubs(v, rows, topN) = 1..Min({topN, v.n})
         /\ \A p \in 1..Min({topN, v.n}) :
              /\ p \in 1..v.n /\ HubOrder(v, rows)[p] \in Rows(v)
              /\ IdentifyHubs(v, rows, topN)[p][1] = HubOrder(v, rows)[p]
              /\ IdentifyHubs(v, rows, topN)[p][2] = Counted(v, rows)[HubOrder(v, rows)[p]]
<1> DEFINE m == Min({topN, v.n})
           S == Rows(v)
           occ == Counted(v, rows)
           L == ByStrength(v, rows)
           Stronger(a, b) == occ[a] > occ[b] \/ (occ[a] = occ[b] /\ a < b)
           Rank(j) == 1 + Quantify(S, LAMBDA i : Stronger(i, j))
           hub(p) == CHOOSE j \in S : Rank(j) = p
           s == HubOrder(v, rows)
<1>1. m = IF topN <= v.n THEN topN ELSE v.n
  BY MinOfTwo
<1>2. IdentifyHubs(v, rows, topN) = [p \in 1..m |-> <<hub(p), occ[hub(p)]>>]
  BY DEF IdentifyHubs, Counted
<1>3. ASSUME NEW p \in 1..v.n PROVE hub(p) = s[p]
  <2>1. ASSUME NEW j \in S PROVE Rank(j) = p <=> RankIn(L, S, j) = p - 1
    <3>1. {i \in S : Stronger(i, j)} = Before(L, S, j)
      BY DEF Before, ByStrength
    <3>2. Rank(j) = 1 + RankIn(L, S, j)
      BY <3>1 DEF Quantify, RankIn
    <3>3. RankIn(L, S, j) \in Nat
      <4>1. Before(L, S, j) \in SUBSET S
        BY DEF Before
      <4>2. QED
        BY <4>1, RowsAreFinite, FS_Subset, FS_CardinalityType DEF RankIn
    <3> HIDE DEF Rank
    <3>4. QED
      BY <3>2, <3>3
  <2> HIDE DEF Rank
  <2>2. s[p] = CHOOSE j \in S : RankIn(L, S, j) = p - 1
    BY DEF HubOrder
  <2>3. (CHOOSE j \in S : Rank(j) = p) = (CHOOSE j \in S : RankIn(L, S, j) = p - 1)
    BY <2>1
  <2>4. QED
    BY <2>2, <2>3
<1>4. \A p \in 1..v.n : s[p] \in S
  BY HubsInOrder, RowsAreFinite DEF InOrder
<1> HIDE DEF hub, m, s, occ
<1>5. \A p \in 1..m : p \in 1..v.n
  BY <1>1
<1>6. ASSUME NEW p \in 1..m PROVE IdentifyHubs(v, rows, topN)[p] = <<s[p], occ[s[p]]>>
  BY <1>2, <1>3, <1>5
<1>7. DOMAIN IdentifyHubs(v, rows, topN) = 1..m
  BY <1>2
<1>8. \A p \in 1..m :
        /\ IdentifyHubs(v, rows, topN)[p][1] = s[p]
        /\ IdentifyHubs(v, rows, topN)[p][2] = occ[s[p]]
  BY <1>6
<1>9. QED
  BY <1>1, <1>4, <1>5, <1>7, <1>8 DEF m, s, occ

AllArguments(v) == Inspections(v) \cup {[a EXCEPT !.topN = ExampleTop] : a \in Inspections(v)}

\* The neighbour lists of k columns that a cache of `width` columns serves.
Lists(v, width, k) == Slice(Search(v, width, 1), k)

\* A cache of that width can answer: its search did not panic.
Serves(v, width, k) == width \in k..(v.n - 1) /\ ~SearchPanics(v, width)

\* The hubs of a search of the vectors at some width.
HubsOfSearch(v, width, a) ==
  HubEntries(IdentifyHubs(v, Lists(v, width, a.k), a.topN), a.ids)

FromSearch(report) ==
  /\ report.args \in AllArguments(vectors)
  /\ Serves(vectors, report.width, report.args.k)
  /\ report.hubs = HubsOfSearch(vectors, report.width, report.args)

CitersOfSearch(v, width, k, hubs) ==
  [p \in DOMAIN hubs |-> Citers(Lists(v, width, k), hubs[p].index)]

\* The second half of a report comes from a search too, if it was asked for.
Complete(report) ==
  IF report.args.labels = None
  THEN report.citers = None
  ELSE /\ Serves(vectors, report.knnWidth, report.args.k)
       /\ report.citers =
            CitersOfSearch(vectors, report.knnWidth, report.args.k, report.hubs)
       /\ \A p \in DOMAIN report.hubs : \A r \in report.citers[p] :
            Covers(report.args.labels, r)
       /\ report.pathology =
            LikelyPathology(report.hubs, report.args.labels,
                            Lists(vectors, report.knnWidth, report.args.k))

\* The inspection in progress: its arguments are legal, the call it waits for is
\* the evaluator's, and the hubs it knows already come from a search.
InProgress ==
  /\ inspection.stage \in {"idle", "hubs", "labels", "knn"}
  /\ inspection.stage # "idle" =>
       /\ inspection.args \in AllArguments(vectors)
       /\ inspection.purpose = "example" => inspection.args.topN = ExampleTop
  /\ inspection.stage = "hubs" =>
       call.todo = HubsCall(inspection.args) /\ call.results = <<>>
  /\ inspection.stage = "knn" =>
       call.todo = KnnCall(inspection.args) /\ call.results = <<>>
  /\ inspection.stage \in {"labels", "knn"} =>
       /\ inspection.args.labels # None
       /\ inspection.report = Report(inspection.report.hubs, inspection.report.width)
       /\ FromSearch(inspection.report)

KeptFromSearch == \A report \in Kept : FromSearch(report) /\ Complete(report)

\* The provider asks for three hubs.
ExampleIsShort == example # NoReport => example.args.topN = ExampleTop

Reported == KeptFromSearch /\ ExampleIsShort

HInv == AInv /\ InProgress /\ Reported

LEMMA CallsAreRequests ==
  ASSUME NEW v \in Datasets, NEW a \in AllArguments(v)
  PROVE  HubsCall(a) \in Requests(v) /\ KnnCall(a) \in Requests(v)
<1>1. CASE a \in Inspections(v)
  BY <1>1, InspectionsAssumption
<1>2. ASSUME NEW b \in Inspections(v), a = [b EXCEPT !.topN = ExampleTop]
      PROVE  HubsCall(a) \in Requests(v) /\ KnnCall(a) \in Requests(v)
  <2>1. b = [k |-> b.k, topN |-> b.topN, b |-> b.b, ids |-> b.ids, labels |-> b.labels]
    BY InspectionsAssumption
  <2>2. a.k = b.k /\ a.b = b.b
    BY <1>2, <2>1
  <2>3. KnnCall(a) = KnnCall(b)
    BY <2>2 DEF KnnCall
  <2>4. QED
    BY <1>2, <2>3, InspectionsAssumption
<1>3. QED
  BY <1>1, <1>2 DEF AllArguments

-----------------------------------------------------------------------------
(* What legal arguments and the lists of a search are like.                *)

LEMMA LegalArguments ==
  ASSUME NEW v \in Datasets, NEW a \in AllArguments(v)
  PROVE  /\ VectorsOK(v) /\ v.n \in Nat /\ a.k \in Nat /\ a.topN \in Nat
         /\ \E b \in Inspections(v) : a.labels = b.labels
         /\ a.labels = None \/ a.labels \in Seq(Range(a.labels))
<1>1. VectorsOK(v) /\ v.n \in Nat
  BY InputsAssumption DEF VectorsOK
<1>2. a.k \in Nat
  <2> DEFINE request == HubsCall(a)
  <2>1. request \in Requests(v)
    BY CallsAreRequests
  <2>2. 1 \in DOMAIN request /\ request[1].k = a.k
    BY DEF HubsCall
  <2> HIDE DEF request
  <2>3. QED
    BY <2>1, <2>2, InputsAssumption DEF StepOK
<1>3. CASE a \in Inspections(v)
  BY <1>1, <1>2, <1>3, InspectionsAssumption
<1>4. ASSUME NEW b \in Inspections(v), a = [b EXCEPT !.topN = ExampleTop]
      PROVE  a.topN = ExampleTop /\ a.labels = b.labels
  <2>1. b = [k |-> b.k, topN |-> b.topN, b |-> b.b, ids |-> b.ids, labels |-> b.labels]
    BY InspectionsAssumption
  <2>2. QED
    BY <1>4, <2>1
<1>5. CASE a \notin Inspections(v)
  <2>1. PICK b \in Inspections(v) : a = [b EXCEPT !.topN = ExampleTop]
    BY <1>5 DEF AllArguments
  <2>2. a.topN \in Nat /\ a.labels = b.labels
    BY <1>4, <2>1 DEF ExampleTop
  <2>3. QED
    BY <1>1, <1>2, <2>2, InspectionsAssumption
<1>6. QED
  BY <1>3, <1>5

LEMMA ServesSomeone ==
  ASSUME NEW v, VectorsOK(v), NEW k \in Nat, NEW width, Serves(v, width, k), k > 0
  PROVE  width \in 1..(v.n - 1) /\ k \in 1..width /\ k \in 1..(v.n - 1) /\ Searchable(v)
<1>1. v.n \in Nat
  BY DEF VectorsOK
<1>2. width \in 1..(v.n - 1) /\ k \in 1..width /\ k \in 1..(v.n - 1)
  BY <1>1 DEF Serves
<1>3. QED
  BY <1>2, PanicsWhereNotSearchable DEF Serves

LEMMA ListsAreNeighbourly ==
  ASSUME NEW v, VectorsOK(v), NEW k \in Nat, NEW width, Serves(v, width, k)
  PROVE  Neighbourly(v, Lists(v, width, k), k)
<1> DEFINE rows == Search(v, width, 1)
<1>1. DOMAIN rows = Rows(v)
  BY DEF Search
<1>2. ASSUME NEW r \in Rows(v)
      PROVE  /\ DOMAIN SubSeq(rows[r], 1, k) = 1..k
             /\ \A c, d \in 1..k : SubSeq(rows[r], 1, k)[c] = SubSeq(rows[r], 1, k)[d] => c = d
  <2>1. CASE k = 0
    BY <2>1
  <2>2. CASE k > 0
    <3>1. width \in 1..(v.n - 1) /\ k \in 1..width /\ Searchable(v)
      BY <2>2, ServesSomeone
    <3>2. \A c, d \in 1..width : rows[r][c] = rows[r][d] => c = d
      BY <3>1, ListsAreDistinct
    <3> HIDE DEF rows
    <3>3. \A c \in 1..k : SubSeq(rows[r], 1, k)[c] = rows[r][c] /\ c \in 1..width
      BY <3>1
    <3>4. DOMAIN SubSeq(rows[r], 1, k) = 1..k
      BY <3>1
    <3>5. QED
      BY <3>2, <3>3, <3>4
  <2>3. QED
    BY <2>1, <2>2
<1> HIDE DEF rows
<1>3. DOMAIN Slice(rows, k) = Rows(v) /\ \A r \in Rows(v) : Slice(rows, k)[r] = SubSeq(rows[r], 1, k)
  BY <1>1 DEF Slice
<1>4. QED
  BY <1>2, <1>3 DEF Neighbourly, Lists, rows

\* Where the similarities are fine enough, the width does not matter.
LEMMA ListsAgree ==
  ASSUME NEW v, VectorsOK(v), NEW k \in Nat, NEW w1, Serves(v, w1, k), NEW w2, Serves(v, w2, k),
         w1 = w2 \/ OrderFaithful(v)
  PROVE  Lists(v, w1, k) = Lists(v, w2, k)
<1>1. CASE w1 = w2
  BY <1>1
<1>2. CASE OrderFaithful(v) /\ k > 0
  <2>1. ASSUME NEW w, Serves(v, w, k)
        PROVE  Lists(v, w, k) = TrueNeighbours(v, k)
    <3>1. w \in 1..(v.n - 1) /\ k \in 1..w /\ w \in Nat /\ Searchable(v)
      BY <1>2, <2>1, ServesSomeone
    <3>2. Search(v, w, 1) = TrueNeighbours(v, w)
      BY <1>2, <3>1, SearchExact
    <3>3. QED
      BY <3>1, <3>2, SliceOfTrue DEF Lists
  <2>2. QED
    BY <2>1
<1>3. CASE k = 0
  <2>1. ASSUME NEW w PROVE Lists(v, w, k) = [r \in Rows(v) |-> <<>>]
    <3> DEFINE rows == Search(v, w, 1)
    <3>1. DOMAIN rows = Rows(v)
      BY DEF Search
    <3> HIDE DEF rows
    <3>2. \A r \in Rows(v) : SubSeq(rows[r], 1, k) = <<>>
      BY <1>3
    <3>3. Slice(rows, k) = [r \in Rows(v) |-> <<>>]
      BY <3>1, <3>2 DEF Slice
    <3>4. QED
      BY <3>3 DEF Lists, rows
  <2>2. QED
    BY <2>1
<1>4. QED
  BY <1>1, <1>2, <1>3

-----------------------------------------------------------------------------
(* The entropy of the citers' categories, and the sums over the hubs.      *)

Categories(labels, S) == {labels[r] : r \in S}
InCategory(labels, S, c) == {r \in S : labels[r] = c}

\* x points of each of the categories D.
Spread(D, x) == [d \in D |-> x]

\* What EntropyAssumption says of the labels of legal arguments.
LEMMA EntropyOfLabels ==
  ASSUME NEW v \in Datasets, NEW a \in AllArguments(v), a.labels # None,
         Cardinality(Range(a.labels)) > 1, NEW x \in 1..v.n
  PROVE  /\ \A c \in Range(a.labels) :
              Entropy(Spread({c}, x), Cardinality(Range(a.labels))) = 0
         /\ Entropy(Spread(Range(a.labels), x), Cardinality(Range(a.labels))) = 100
<1> DEFINE all == Range(a.labels)
<1>1. PICK b \in Inspections(v) : a.labels = b.labels
  BY LegalArguments
<1>2. {b.labels[r] : r \in DOMAIN b.labels} = all
  BY <1>1 DEF Range
<1>3. \A y \in 1..v.n :
        /\ \A c \in all : Entropy([d \in {c} |-> y], Cardinality(all)) = 0
        /\ Entropy([d \in all |-> y], Cardinality(all)) = 100
  <2> DEFINE found == {b.labels[r] : r \in DOMAIN b.labels}
  <2>1. b.labels # None /\ Cardinality(found) > 1 =>
          \A y \in 1..v.n :
            /\ \A c \in found : Entropy([d \in {c} |-> y], Cardinality(found)) = 0
            /\ Entropy([d \in found |-> y], Cardinality(found)) = 100
    BY EntropyAssumption
  <2>2. b.labels # None /\ Cardinality(all) > 1
    BY <1>1
  <2>3. found = all
    BY <1>2
  <2> HIDE DEF all, found
  <2>4. QED
    BY <2>1, <2>2, <2>3
<1>4. QED
  BY <1>3 DEF Spread

LEMMA LabelsAreFinite ==
  ASSUME NEW v \in Datasets, NEW a \in AllArguments(v), a.labels # None
  PROVE  Cardinality(Range(a.labels)) \in Nat
<1> DEFINE labels == a.labels
<1>1. labels \in Seq(Range(labels))
  BY LegalArguments
<1>2. DOMAIN labels = 1..Len(labels) /\ Len(labels) \in Nat
  BY <1>1
<1>3. IsFiniteSet(DOMAIN labels)
  BY <1>2, FS_Interval
<1>4. labels \in Surjection(DOMAIN labels, Range(labels))
  <2>1. labels \in [DOMAIN labels -> Range(labels)]
    BY <1>1
  <2>2. QED
    BY <2>1 DEF Surjection, Range
<1>5. QED
  BY <1>3, <1>4, FS_Surjection, FS_CardinalityType

LEMMA CitersHaveLabels ==
  ASSUME NEW v \in Datasets, NEW a \in AllArguments(v), a.labels # None,
         NEW S \in SUBSET Rows(v), \A r \in S : Covers(a.labels, r)
  PROVE  Categories(a.labels, S) \subseteq Range(a.labels)
<1>1. a.labels \in Seq(Range(a.labels)) /\ v.n \in Nat
  BY LegalArguments
<1>2. ASSUME NEW r \in S PROVE a.labels[r] \in Range(a.labels)
  <2>1. r \in 1..Len(a.labels)
    BY <1>1 DEF Covers, Rows
  <2>2. QED
    BY <1>1, <2>1
<1>3. QED
  BY <1>2 DEF Categories

LEMMA SizeOfPart ==
  ASSUME NEW v, v.n \in Nat, NEW S \in SUBSET Rows(v), S # {}
  PROVE  Cardinality(S) \in 1..v.n
<1>1. IsFiniteSet(S) /\ Cardinality(S) <= v.n
  BY RowsAreFinite, FS_Subset
<1>2. Cardinality(S) \in Nat /\ Cardinality(S) # 0
  BY <1>1, FS_CardinalityType, FS_EmptySet
<1>3. QED
  BY <1>1, <1>2

\* Citers of a single category have none.
LEMMA EntropyOfOne ==
  ASSUME NEW v \in Datasets, NEW a \in AllArguments(v), a.labels # None,
         NEW S \in SUBSET Rows(v), S # {}, \A r \in S : Covers(a.labels, r),
         ~(Cardinality(Categories(a.labels, S)) > 1), NEW j
  PROVE  HubEntropy(a.labels, S, j) = 0
<1> DEFINE labels == a.labels
           all == Range(labels)
           x == Cardinality(S)
<1>1. CASE Cardinality(all) <= 1
  BY <1>1 DEF HubEntropy
<1>2. CASE ~(Cardinality(all) <= 1)
  <2>1. v.n \in Nat /\ x \in 1..v.n /\ IsFiniteSet(S)
    BY LegalArguments, SizeOfPart, RowsAreFinite, FS_Subset
  <2>2. PICK r \in S : TRUE
    OBVIOUS
  <2> DEFINE c == labels[r]
             of == Categories(labels, S)
  <2>3. of = {c}
    <3>1. IsFiniteSet(of)
      <4> DEFINE label == [s \in S |-> labels[s]]
      <4>1. label \in Surjection(S, of)
        BY DEF Surjection, Categories
      <4>2. QED
        BY <2>1, <4>1, FS_Surjection
    <3>2. c \in of
      BY DEF Categories
    <3> HIDE DEF of
    <3>3. Cardinality(of) \in Nat /\ Cardinality(of) # 0
      BY <3>1, <3>2, FS_CardinalityType, FS_EmptySet
    <3>4. Cardinality(of) = 1
      BY <3>3 DEF of
    <3>5. QED
      BY <3>1, <3>2, <3>4, FS_Singleton
  <2>4. {s \in S : labels[s] = c} = S
    BY <2>3 DEF Categories
  <2>5. Counts(labels, S, j) = Spread({c}, x)
    <3>1. Counts(labels, S, j) = [d \in {c} |-> Quantify(S, LAMBDA s : labels[s] = d)]
      BY <2>3 DEF Counts, Categories
    <3>2. \A d \in {c} : Quantify(S, LAMBDA s : labels[s] = d) = x
      BY <2>4 DEF Quantify
    <3>3. QED
      BY <3>1, <3>2 DEF Spread
  <2>6. c \in all
    BY <2>3, CitersHaveLabels
  <2>7. Entropy(Spread({c}, x), Cardinality(all)) = 0
    <3>1. Cardinality(all) > 1
      BY <1>2, LabelsAreFinite
    <3>2. QED
      BY <2>1, <2>6, <3>1, EntropyOfLabels
  <2> HIDE DEF c, x
  <2>8. HubEntropy(labels, S, j) = Entropy(Spread({c}, x), Cardinality(all))
    BY <1>2, <2>5 DEF HubEntropy
  <2>9. QED
    BY <1>2, <2>7, <2>8
<1>3. QED
  BY <1>1, <1>2

\* Citers spread evenly over all the categories have the whole.
LEMMA EntropyOfEven ==
  ASSUME NEW v \in Datasets, NEW a \in AllArguments(v), a.labels # None,
         NEW S \in SUBSET Rows(v), S # {}, \A r \in S : Covers(a.labels, r),
         Cardinality(Range(a.labels)) > 1, NEW j,
         \A c, d \in Range(a.labels) :
           Cardinality(InCategory(a.labels, S, c)) = Cardinality(InCategory(a.labels, S, d))
  PROVE  HubEntropy(a.labels, S, j) = 100
<1> DEFINE labels == a.labels
           all == Range(labels)
<1>1. v.n \in Nat /\ Categories(labels, S) \subseteq all
  BY LegalArguments, CitersHaveLabels
<1>2. PICK r \in S : TRUE
  OBVIOUS
<1> DEFINE x == Cardinality(InCategory(labels, S, labels[r]))
<1>3. labels[r] \in all
  BY <1>1 DEF Categories
<1>4. \A c \in all : Cardinality(InCategory(labels, S, c)) = x
  BY <1>3
<1>5. \A c : InCategory(labels, S, c) \in SUBSET Rows(v)
  BY DEF InCategory
<1>6. x \in 1..v.n
  <2>1. InCategory(labels, S, labels[r]) # {}
    BY DEF InCategory
  <2>2. QED
    BY <1>1, <1>5, <2>1, SizeOfPart
<1> HIDE DEF x
<1>7. \A c \in all : InCategory(labels, S, c) # {}
  BY <1>4, <1>6, FS_EmptySet
<1>8. Categories(labels, S) = all
  BY <1>1, <1>7 DEF Categories, InCategory
<1>9. Counts(labels, S, j) = Spread(all, x)
  <2>1. Counts(labels, S, j) = [d \in all |-> Quantify(S, LAMBDA s : labels[s] = d)]
    BY <1>8 DEF Counts, Categories
  <2>2. \A d \in all : Quantify(S, LAMBDA s : labels[s] = d) = x
    BY <1>4 DEF Quantify, InCategory
  <2>3. QED
    BY <2>1, <2>2 DEF Spread
<1>10. Entropy(Spread(all, x), Cardinality(all)) = 100
  BY <1>6, EntropyOfLabels
<1>11. ~(Cardinality(all) <= 1)
  BY LabelsAreFinite
<1>12. HubEntropy(labels, S, j) = Entropy(Spread(all, x), Cardinality(all))
  BY <1>9, <1>11 DEF HubEntropy
<1>13. QED
  BY <1>10, <1>12

MixedPathology(hubs, labels, rows) ==
  LET Cited(p) == Citers(rows, hubs[p].index)
  IN  /\ LikelyPathology(hubs, labels, rows) =>
           \E p \in DOMAIN hubs : Cardinality(Categories(labels, Cited(p))) > 1
      /\ /\ \E p \in DOMAIN hubs : Cited(p) # {}
         /\ \A p \in DOMAIN hubs : \A c, d \in Range(labels) :
              Cardinality(InCategory(labels, Cited(p), c))
                = Cardinality(InCategory(labels, Cited(p), d))
         /\ Cardinality(Range(labels)) > 1
         => LikelyPathology(hubs, labels, rows)

\* The weighted mean over the hubs is compared with the threshold by sums.
LEMMA PathologyBySums ==
  ASSUME NEW v \in Datasets, NEW a \in AllArguments(v), a.labels # None,
         NEW rows, NEW k, Neighbourly(v, rows, k), NEW hubs, IsFiniteSet(DOMAIN hubs),
         \A p \in DOMAIN hubs : \A r \in Citers(rows, hubs[p].index) : Covers(a.labels, r)
  PROVE  MixedPathology(hubs, a.labels, rows)
<1> DEFINE labels == a.labels
           Cited(p) == Citers(rows, hubs[p].index)
           cited == {p \in DOMAIN hubs : Cited(p) # {}}
           w == [p \in cited |-> Cardinality(Cited(p))]
           t == [p \in cited |-> Cardinality(Cited(p)) * HubEntropy(labels, Cited(p), hubs[p].index)]
           W == SumFunctionOnSet(w, cited)
           Flag == LikelyPathology(hubs, labels, rows)
<1>1. v.n \in Nat /\ IsFiniteSet(cited)
  <2>1. cited \in SUBSET DOMAIN hubs
    OBVIOUS
  <2> HIDE DEF cited
  <2>2. QED
    BY <2>1, LegalArguments, FS_Subset
<1>2. \A p : Cited(p) \in SUBSET Rows(v)
  BY <1>1, CitersAreRows
<1>3. Flag <=> Total(t) > 50 * Total(w)
  BY DEF LikelyPathology, SumOver, Threshold
<1>4. DOMAIN w = cited /\ DOMAIN t = cited
  OBVIOUS
<1>5. \A p \in cited : w[p] \in Nat \ {0}
  BY <1>1, <1>2, SizeOfPart
<1>6. \A p \in cited : t[p] = w[p] * HubEntropy(labels, Cited(p), hubs[p].index)
  OBVIOUS
<1>7. \A p \in cited : p \in DOMAIN hubs /\ Cited(p) # {}
  OBVIOUS
<1>8. ASSUME NEW p \in DOMAIN hubs, NEW r \in Cited(p) PROVE Covers(labels, r)
  OBVIOUS
<1>9. (\E p \in DOMAIN hubs : Cited(p) # {}) => cited # {}
  OBVIOUS
<1> HIDE DEF Cited, cited, w, t, Flag
<1>10. Total(w) = W /\ W \in Nat /\ (cited # {} => W > 0)
  BY <1>1, <1>4, <1>5, TotalOfNaturals, SumOfNaturals
<1> HIDE DEF W
<1>11. ASSUME NEW c \in Nat,
              \A p \in cited : HubEntropy(labels, Cited(p), hubs[p].index) = c
       PROVE  Total(t) = c * W
  <2>1. \A p \in cited : t[p] = c * w[p] /\ t[p] \in Nat
    BY <1>5, <1>6, <1>11
  <2>2. Total(t) = SumFunctionOnSet(t, cited)
    BY <1>4, <2>1, TotalOfNaturals
  <2>3. SumFunctionOnSet(t, cited) = c * SumFunctionOnSet(w, cited)
    BY <1>1, <1>5, <2>1, SumInProportion
  <2>4. QED
    BY <2>2, <2>3 DEF W
<1>12. ASSUME Flag
       PROVE  \E p \in DOMAIN hubs : Cardinality(Categories(labels, Cited(p))) > 1
  <2> SUFFICES ASSUME \A p \in DOMAIN hubs : ~(Cardinality(Categories(labels, Cited(p))) > 1)
               PROVE  FALSE
    OBVIOUS
  <2>1. \A p \in cited : HubEntropy(labels, Cited(p), hubs[p].index) = 0
    BY <1>2, <1>7, <1>8, EntropyOfOne
  <2>2. Total(t) = 0 * W
    BY <1>11, <2>1
  <2>3. QED
    BY <1>3, <1>10, <1>12, <2>2
<1>13. ASSUME \E p \in DOMAIN hubs : Cited(p) # {},
              \A p \in DOMAIN hubs : \A c, d \in Range(labels) :
                Cardinality(InCategory(labels, Cited(p), c))
                  = Cardinality(InCategory(labels, Cited(p), d)),
              Cardinality(Range(labels)) > 1
       PROVE  Flag
  <2>1. \A p \in cited : HubEntropy(labels, Cited(p), hubs[p].index) = 100
    BY <1>2, <1>7, <1>8, <1>13, EntropyOfEven
  <2>2. Total(t) = 100 * W
    BY <1>11, <2>1
  <2>3. QED
    BY <1>3, <1>9, <1>10, <1>13, <2>2
<1>14. QED
  BY <1>12, <1>13 DEF MixedPathology, Cited, Flag

-----------------------------------------------------------------------------
(* The inspector's steps are steps of the evaluator.                       *)

LEMMA StepsAreEvaluatorSteps ==
  ASSUME HInv, [HubNext]_allVars
  PROVE  [Next]_vars
<1>0. vectors \in Datasets
  BY DEF HInv, AInv, IInv, QueueOK
<1>1. ASSUME NEW a \in Inspections(vectors), Inspect(a, "client") \/ AskExample(a)
      PROVE  Next
  <2>1. \E b \in AllArguments(vectors) : Begin(HubsCall(b))
    BY <1>1 DEF Inspect, AskExample, AllArguments
  <2>2. QED
    BY <2>1, <1>0, CallsAreRequests DEF Next
<1>2. CASE HubsAnswered \/ KnnAnswered
  BY <1>2 DEF HubsAnswered, KnnAnswered, Next
<1>3. CASE AskKnn
  <2>1. inspection.args \in AllArguments(vectors)
    BY <1>3 DEF AskKnn, HInv, InProgress
  <2>2. QED
    BY <1>3, <2>1, <1>0, CallsAreRequests DEF AskKnn, Next
<1>4. CASE KnnRefused
  BY <1>4 DEF KnnRefused
<1>5. CASE OtherCall
  BY <1>5 DEF OtherCall, Next
<1>6. CASE UNCHANGED allVars
  BY <1>6 DEF allVars
<1>7. QED
  BY <1>1, <1>2, <1>3, <1>4, <1>5, <1>6 DEF HubNext

LEMMA CacheStaysCoherent ==
  ASSUME HInv, [HubNext]_allVars
  PROVE  AInv'
BY StepsAreEvaluatorSteps, NextAInv DEF HInv

LEMMA VectorsStay ==
  ASSUME [Next]_vars
  PROVE  UNCHANGED vectors
<1>1. CASE Step
  BY <1>1, StepShape DEF Deliver, Fail
<1>2. QED
  BY <1>1 DEF Next, Begin, vars

-----------------------------------------------------------------------------
(* The answer to either of the inspector's two calls.                      *)

LEMMA OneStepAnswer ==
  ASSUME AInv, NEW s, call.todo = <<s>>, call.results = <<>>, s.metric \in KnnMetrics,
         Step, reply'.error = "none"
  PROVE  /\ UNCHANGED vectors
         /\ Serves(vectors, knn'.k, s.k)
         /\ FromLists(vectors, s, Search(vectors, knn'.k, 1), reply'.results[1])
<1>1. s = Head(call.todo) /\ Len(call.todo) = 1 /\ call.todo # <<>>
  OBVIOUS
<1>2. s \in AllSteps
  BY <1>1, HeadIsStep DEF AInv, IInv
<1>3. UNCHANGED vectors
  BY StepShape DEF Deliver, Fail
<1>4. ~Passes(s) /\ ~Fails(s)
  BY DEF Passes, Fails, Fail, Reply
<1>5. Computes(s)
  BY <1>1, <1>2, <1>4, StepEnds DEF AInv
<1>6. PICK result : Deliver(result) /\ FromLists(vectors, s, knn'.rows, result)
  BY <1>5 DEF Computes
<1>7. reply'.results[1] = result
  BY <1>1, <1>6 DEF Deliver, Reply
<1>8. /\ knn'.k \in s.k..(vectors.n - 1) /\ ~SearchPanics(vectors, knn'.k)
      /\ knn'.rows = Search(vectors, knn'.k, 1)
  BY <1>2, <1>3, <1>5, ReadyLists DEF AInv, Computes
<1>9. QED
  BY <1>3, <1>6, <1>7, <1>8 DEF Serves

LEMMA HubsAnswer ==
  ASSUME AInv, NEW a, call.todo = HubsCall(a), call.results = <<>>,
         Step, reply'.error = "none"
  PROVE  /\ Serves(vectors, knn'.k, a.k)
         /\ reply'.results[1] = IdentifyHubs(vectors, Lists(vectors, knn'.k, a.k), a.topN)
<1> DEFINE s == [metric |-> "hubs", k |-> a.k, b |-> a.b, arg |-> a.topN]
<1>1. call.todo = <<s>>
  BY DEF HubsCall
<1>2. s.metric = "hubs" /\ s.k = a.k /\ s.arg = a.topN
  OBVIOUS
<1> HIDE DEF s
<1>3. QED
  BY <1>1, <1>2, OneStepAnswer DEF FromLists, KnnMetrics, Lists

LEMMA KnnAnswer ==
  ASSUME AInv, NEW a, call.todo = KnnCall(a), call.results = <<>>,
         Step, reply'.error = "none"
  PROVE  /\ Serves(vectors, knn'.k, a.k)
         /\ reply'.results[1] = Lists(vectors, knn'.k, a.k)
<1> DEFINE s == [metric |-> "get_knn", k |-> a.k, b |-> a.b, arg |-> 0]
<1>1. call.todo = <<s>>
  BY DEF KnnCall
<1>2. s.metric = "get_knn" /\ s.k = a.k
  OBVIOUS
<1> HIDE DEF s
<1>3. QED
  BY <1>1, <1>2, OneStepAnswer DEF FromLists, KnnMetrics, Lists

-----------------------------------------------------------------------------
(* Reports reach the client or the provider only as they came from a search. *)

LEMMA ReturnKeeps ==
  ASSUME Reported, UNCHANGED vectors, NEW report, FromSearch(report), Complete(report),
         inspection.purpose = "example" => report.args.topN = ExampleTop, Return(report)
  PROVE  Reported' /\ inspection'.stage = "idle"
<1>1. \A r : FromSearch(r) /\ Complete(r) => (FromSearch(r) /\ Complete(r))'
  BY DEF FromSearch, Complete
<1>2. Kept' \subseteq Kept \cup {report}
  BY DEF Return, Kept
<1>3. KeptFromSearch' /\ inspection'.stage = "idle"
  BY <1>1, <1>2 DEF Reported, KeptFromSearch, Return, NoInspection
<1>4. ExampleIsShort'
  BY DEF Reported, ExampleIsShort, Return
<1>5. QED
  BY <1>3, <1>4 DEF Reported

LEMMA QuietKeeps ==
  ASSUME Reported, UNCHANGED <<vectors, previous, current, example>>
  PROVE  Reported'
BY DEF Reported, KeptFromSearch, ExampleIsShort, FromSearch, Complete, Kept

LEMMA InitHInv == HubInit => HInv
<1> SUFFICES ASSUME HubInit PROVE HInv
  OBVIOUS
<1>1. AInv
  BY InitAInv DEF HubInit
<1>2. InProgress
  BY DEF HubInit, InProgress, NoInspection
<1>3. Reported
  BY DEF HubInit, Reported, KeptFromSearch, ExampleIsShort, Kept, NoReport
<1>4. QED
  BY <1>1, <1>2, <1>3 DEF HInv

LEMMA BeginCall ==
  ASSUME NEW request, Begin(request)
  PROVE  call'.todo = request /\ call'.results = <<>>
BY DEF Begin, NoCall

LEMMA RaiseKeeps ==
  ASSUME Reported, UNCHANGED vectors, Raise
  PROVE  InProgress' /\ Reported'
<1>1. InProgress'
  BY DEF Raise, NoInspection, InProgress
<1>2. QED
  BY <1>1, QuietKeeps DEF Raise

LEMMA InspectKeeps ==
  ASSUME HInv, UNCHANGED vectors, NEW a \in AllArguments(vectors), NEW purpose,
         purpose = "example" => a.topN = ExampleTop, Inspect(a, purpose)
  PROVE  InProgress' /\ Reported'
<1>1. inspection' = [stage |-> "hubs", args |-> a, purpose |-> purpose]
  BY DEF Inspect
<1>2. call'.todo = HubsCall(a) /\ call'.results = <<>>
  BY BeginCall DEF Inspect
<1>3. InProgress'
  BY <1>1, <1>2 DEF InProgress
<1>4. Reported'
  BY QuietKeeps DEF Inspect, HInv
<1>5. QED
  BY <1>3, <1>4

LEMMA HubsAnsweredKeeps ==
  ASSUME HInv, UNCHANGED vectors, HubsAnswered
  PROVE  InProgress' /\ Reported'
<1> DEFINE a == inspection.args
           report == Report(HubEntries(reply'.results[1], a.ids), knn'.k)
<1>1. CASE Raise
  BY <1>1, RaiseKeeps DEF HInv
<1>2. CASE ~Raise
  <2>1. /\ reply'.error = "none" /\ Step
        /\ IF a.labels = None
           THEN Return(report)
           ELSE /\ inspection' = [stage |-> "labels", args |-> a,
                                  purpose |-> inspection.purpose, report |-> report]
                /\ UNCHANGED <<previous, current, example>>
    BY <1>2 DEF HubsAnswered
  <2>2. /\ a \in AllArguments(vectors) /\ call.todo = HubsCall(a) /\ call.results = <<>>
        /\ inspection.purpose = "example" => a.topN = ExampleTop
    BY DEF HubsAnswered, HInv, InProgress
  <2>3. /\ Serves(vectors, knn'.k, a.k)
        /\ reply'.results[1] = IdentifyHubs(vectors, Lists(vectors, knn'.k, a.k), a.topN)
    BY <2>1, <2>2, HubsAnswer DEF HInv
  <2>4. /\ report.args = a /\ report.width = knn'.k /\ report.citers = None
        /\ report.hubs = HubEntries(reply'.results[1], a.ids)
    BY DEF Report
  <2>5. FromSearch(report)
    BY <2>2, <2>3, <2>4 DEF FromSearch, HubsOfSearch
  <2>6. report = Report(report.hubs, report.width)
    BY <2>4 DEF Report
  <2> HIDE DEF report
  <2>7. CASE a.labels = None
    <3>1. Complete(report)
      BY <2>4, <2>7 DEF Complete
    <3>2. Reported' /\ inspection'.stage = "idle"
      BY <2>1, <2>2, <2>4, <2>5, <2>7, <3>1, ReturnKeeps DEF HInv
    <3>3. QED
      BY <3>2 DEF InProgress
  <2>8. CASE a.labels # None
    <3>1. /\ inspection'.stage = "labels" /\ inspection'.args = a
          /\ inspection'.purpose = inspection.purpose /\ inspection'.report = report
          /\ UNCHANGED <<previous, current, example>>
      BY <2>1, <2>8
    <3>2. Reported'
      BY <3>1, QuietKeeps DEF HInv
    <3>3. (inspection.report = Report(inspection.report.hubs, inspection.report.width))'
      BY <2>6, <3>1 DEF Report
    <3>4. FromSearch(inspection.report)'
      BY <2>5, <3>1 DEF FromSearch
    <3>5. InProgress'
      BY <2>2, <2>8, <3>1, <3>3, <3>4 DEF InProgress
    <3>6. QED
      BY <3>2, <3>5
  <2>9. QED
    BY <2>7, <2>8
<1>3. QED
  BY <1>1, <1>2

LEMMA KnnAnsweredKeeps ==
  ASSUME HInv, UNCHANGED vectors, KnnAnswered
  PROVE  InProgress' /\ Reported'
<1> DEFINE a == inspection.args
           hubs == inspection.report.hubs
           rows == reply'.results[1]
           citers == [p \in DOMAIN hubs |-> Citers(rows, hubs[p].index)]
           flag == LikelyPathology(hubs, a.labels, rows)
           report == [inspection.report EXCEPT
                        !.citers = citers, !.knnWidth = knn'.k, !.pathology = flag]
<1>1. CASE Raise
  BY <1>1, RaiseKeeps DEF HInv
<1>2. CASE ~Raise
  <2>1. /\ reply'.error = "none" /\ Step /\ Return(report)
        /\ \A p \in DOMAIN hubs : \A r \in Citers(rows, hubs[p].index) : Covers(a.labels, r)
    BY <1>2 DEF KnnAnswered
  <2>2. /\ call.todo = KnnCall(a) /\ call.results = <<>> /\ a.labels # None
        /\ inspection.purpose = "example" => a.topN = ExampleTop
        /\ inspection.report = Report(hubs, inspection.report.width)
        /\ FromSearch(inspection.report)
    BY DEF KnnAnswered, HInv, InProgress
  <2>3. Serves(vectors, knn'.k, a.k) /\ rows = Lists(vectors, knn'.k, a.k)
    BY <2>1, <2>2, KnnAnswer DEF HInv
  <2> HIDE DEF citers, flag
  <2>4. /\ report.args = a /\ report.width = inspection.report.width
        /\ report.hubs = hubs /\ report.citers = citers
        /\ report.knnWidth = knn'.k /\ report.pathology = flag
        /\ inspection.report.args = a
    BY <2>2 DEF Report
  <2> HIDE DEF report
  <2>5. FromSearch(report)
    BY <2>2, <2>4 DEF FromSearch
  <2>6. citers = CitersOfSearch(vectors, knn'.k, a.k, hubs)
    BY <2>3 DEF citers, CitersOfSearch
  <2>7. \A p \in DOMAIN hubs : \A r \in citers[p] : Covers(a.labels, r)
    BY <2>1 DEF citers
  <2>8. flag = LikelyPathology(hubs, a.labels, Lists(vectors, knn'.k, a.k))
    BY <2>3 DEF flag
  <2>9. Complete(report)
    BY <2>2, <2>3, <2>4, <2>6, <2>7, <2>8 DEF Complete
  <2>10. Reported' /\ inspection'.stage = "idle"
    BY <2>1, <2>2, <2>4, <2>5, <2>9, ReturnKeeps DEF HInv
  <2>11. QED
    BY <2>10 DEF InProgress
<1>3. QED
  BY <1>1, <1>2

LEMMA HubNextInv ==
  ASSUME HInv, [HubNext]_allVars
  PROVE  HInv'
<1>0. AInv' /\ UNCHANGED vectors
  BY CacheStaysCoherent, StepsAreEvaluatorSteps, VectorsStay
<1> SUFFICES InProgress' /\ Reported'
  BY <1>0 DEF HInv
<1>1. ASSUME NEW a \in Inspections(vectors), Inspect(a, "client")
      PROVE  InProgress' /\ Reported'
  BY <1>0, <1>1, InspectKeeps DEF AllArguments
<1>2. ASSUME NEW a \in Inspections(vectors), AskExample(a)
      PROVE  InProgress' /\ Reported'
  <2> DEFINE short == [a EXCEPT !.topN = ExampleTop]
  <2>1. vectors \in Datasets
    BY DEF HInv, AInv, IInv, QueueOK
  <2>2. a = [k |-> a.k, topN |-> a.topN, b |-> a.b, ids |-> a.ids, labels |-> a.labels]
    BY <2>1, InspectionsAssumption
  <2>3. short.topN = ExampleTop /\ short \in AllArguments(vectors)
    BY <2>2 DEF AllArguments
  <2>4. Inspect(short, "example")
    BY <1>2 DEF AskExample
  <2> HIDE DEF short
  <2>5. QED
    BY <1>0, <2>3, <2>4, InspectKeeps
<1>3. CASE AskKnn
  <2> DEFINE old == inspection
  <2>1. old.stage = "labels" /\ inspection' = [old EXCEPT !.stage = "knn"]
        /\ UNCHANGED <<previous, current, example>>
    BY <1>3 DEF AskKnn
  <2>2. call'.todo = KnnCall(inspection.args) /\ call'.results = <<>>
    BY <1>3, BeginCall DEF AskKnn
  <2>3. /\ inspection'.stage \in {"labels", "knn"} /\ inspection'.args = inspection.args
        /\ inspection'.purpose = inspection.purpose
        /\ inspection'.report = inspection.report
    BY <2>1
  <2>4. FromSearch(inspection.report)'
    BY <1>0, <2>1, <2>3 DEF HInv, InProgress, FromSearch
  <2>5. (inspection.report = Report(inspection.report.hubs, inspection.report.width))'
    BY <2>1, <2>3 DEF HInv, InProgress, Report
  <2>6. InProgress'
    BY <1>0, <2>1, <2>2, <2>3, <2>4, <2>5 DEF InProgress, HInv
  <2>7. QED
    BY <2>6, <1>0, <2>1, QuietKeeps DEF HInv
<1>4. CASE KnnRefused
  BY <1>0, <1>4, RaiseKeeps DEF KnnRefused, HInv
<1>5. CASE OtherCall \/ UNCHANGED allVars
  <2>1. UNCHANGED hubVars
    BY <1>5 DEF OtherCall, allVars
  <2>2. Reported'
    BY <2>1, <1>0, QuietKeeps DEF hubVars, HInv
  <2>3. inspection.stage \in {"idle", "labels"} \/ UNCHANGED call
    BY <1>5 DEF OtherCall, allVars, vars
  <2>4. InProgress'
    BY <2>1, <2>3, <1>0 DEF InProgress, HInv, hubVars, FromSearch, Report
  <2>5. QED
    BY <2>2, <2>4
<1>6. QED
  BY <1>0, <1>1, <1>2, <1>3, <1>4, <1>5, HubsAnsweredKeeps, KnnAnsweredKeeps DEF HubNext

-----------------------------------------------------------------------------
(* The hubs of a report.                                                   *)

LEMMA HubsOfReport ==
  ASSUME NEW v \in Datasets, NEW a \in AllArguments(v), NEW width, Serves(v, width, a.k)
  PROVE  LET rows == Lists(v, width, a.k)
             hubs == HubsOfSearch(v, width, a)
             m == Min({a.topN, v.n})
         IN  /\ DOMAIN hubs = 1..m /\ Len(hubs) = m /\ m \in Nat
             /\ m = IF a.topN <= v.n THEN a.topN ELSE v.n
             /\ \A p \in 1..m :
                  /\ p \in 1..v.n
                  /\ hubs[p].index = HubOrder(v, rows)[p] /\ hubs[p].index \in Rows(v)
                  /\ hubs[p].id = IdOf(a.ids, hubs[p].index)
                  /\ hubs[p].count = Counted(v, rows)[hubs[p].index]
                  /\ hubs[p].count = Cardinality(Citers(rows, hubs[p].index))
<1> DEFINE rows == Lists(v, width, a.k)
           found == IdentifyHubs(v, rows, a.topN)
           hubs == HubEntries(found, a.ids)
           m == Min({a.topN, v.n})
           s == HubOrder(v, rows)
           occ == Counted(v, rows)
<1>1. v.n \in Nat /\ a.topN \in Nat /\ Neighbourly(v, rows, a.k)
  BY LegalArguments, ListsAreNeighbourly
<1>2. /\ m = IF a.topN <= v.n THEN a.topN ELSE v.n
      /\ DOMAIN found = 1..m
      /\ \A p \in 1..m : /\ p \in 1..v.n /\ s[p] \in Rows(v)
                         /\ found[p][1] = s[p] /\ found[p][2] = occ[s[p]]
  <2> HIDE DEF rows
  <2>1. QED
    BY <1>1, HubsListed
<1>3. \A j \in Rows(v) : occ[j] = Cardinality(Citers(rows, j))
  <2> HIDE DEF rows
  <2>1. QED
    BY <1>1, CountsAreNaturals
<1>4. m \in Nat
  BY <1>1, <1>2
<1> HIDE DEF rows, found, m, s, occ
<1>5. hubs = [p \in 1..m |-> [index |-> found[p][1], id |-> IdOf(a.ids, found[p][1]),
                              count |-> found[p][2]]]
  BY <1>2 DEF HubEntries
<1>6. DOMAIN hubs = 1..m /\ Len(hubs) = m
  BY <1>4, <1>5
<1>7. \A p \in 1..m : /\ hubs[p].index = found[p][1]
                      /\ hubs[p].id = IdOf(a.ids, found[p][1])
                      /\ hubs[p].count = found[p][2]
  BY <1>5
<1> HIDE DEF hubs
<1>8. \A p \in 1..m : /\ p \in 1..v.n
                      /\ hubs[p].index = s[p] /\ hubs[p].index \in Rows(v)
                      /\ hubs[p].id = IdOf(a.ids, hubs[p].index)
                      /\ hubs[p].count = occ[hubs[p].index]
                      /\ hubs[p].count = Cardinality(Citers(rows, hubs[p].index))
  BY <1>2, <1>3, <1>7
<1>9. HubsOfSearch(v, width, a) = hubs
  BY DEF HubsOfSearch, hubs, found, rows
<1>10. QED
  BY <1>2, <1>4, <1>6, <1>8, <1>9 DEF rows, m, s, occ

LEMMA StrongestFirst ==
  ASSUME NEW v, v.n \in Nat, NEW rows, NEW k, Neighbourly(v, rows, k),
         NEW p \in 1..v.n, NEW q \in 1..v.n, p < q
  PROVE  LET i == HubOrder(v, rows)[p]
             j == HubOrder(v, rows)[q]
         IN  \/ Counted(v, rows)[i] > Counted(v, rows)[j]
             \/ Counted(v, rows)[i] = Counted(v, rows)[j] /\ i < j
<1> DEFINE s == HubOrder(v, rows)
           L == ByStrength(v, rows)
<1>1. /\ IsFiniteSet(Rows(v)) /\ Cardinality(Rows(v)) = v.n
      /\ TotalOrder(L, Rows(v)) /\ InOrder(s, L, Rows(v))
  BY RowsAreFinite, StrengthOrders, HubsInOrder
<1> HIDE DEF s, L
<1>2. <<s[p], s[q]>> \in L
  BY <1>1, OrderedDistinct
<1>3. QED
  BY <1>2 DEF ByStrength, s, L

LEMMA KeptReport ==
  ASSUME HInv, NEW report \in Kept
  PROVE  /\ FromSearch(report) /\ Complete(report)
         /\ vectors \in Datasets /\ VectorsOK(vectors) /\ vectors.n \in Nat
         /\ report.args \in AllArguments(vectors)
         /\ report.args.k \in Nat /\ report.args.topN \in Nat
         /\ Serves(vectors, report.width, report.args.k)
         /\ report.hubs = HubsOfSearch(vectors, report.width, report.args)
<1>1. FromSearch(report) /\ Complete(report) /\ vectors \in Datasets
  BY DEF HInv, Reported, KeptFromSearch, AInv, IInv, QueueOK
<1>2. QED
  BY <1>1, LegalArguments DEF FromSearch

-----------------------------------------------------------------------------
(***************************************************************************)
(* inspect_hubs and its provider need no privilege: with them, the         *)
(* evaluator behaves as it does for its other callers, and every theorem   *)
(* about it holds.                                                         *)
(***************************************************************************)
THEOREM InspectorIsACaller == HubSpec => Spec
<1>1. HubInit => Init
  BY DEF HubInit
<1>2. HInv /\ [HubNext]_allVars => [Next]_vars
  BY StepsAreEvaluatorSteps
<1>3. HInv /\ [HubNext]_allVars => HInv'
  BY HubNextInv
<1>4. QED
  BY InitHInv, <1>1, <1>2, <1>3, PTL DEF HubSpec, Spec

(***************************************************************************)
(* The hubs of every report kept are those of one search of the vectors,   *)
(* at the width the cache had: calls of others, in between and before,     *)
(* failed ones included, leave no other trace in it.                       *)
(***************************************************************************)
THEOREM ReportsComeFromSearch == HubSpec => []KeptFromSearch
<1>1. HInv /\ [HubNext]_allVars => HInv'
  BY HubNextInv
<1>2. HInv => KeptFromSearch
  BY DEF HInv, Reported
<1>3. QED
  BY InitHInv, <1>1, <1>2, PTL DEF HubSpec

(***************************************************************************)
(* A report lists as many hubs as asked for or there are, each row once,   *)
(* under the id the caller gave that row, strongest first.                 *)
(***************************************************************************)
THEOREM HubsAreRight == HubSpec => []HubTypeOK
<1>1. HInv /\ [HubNext]_allVars => HInv'
  BY HubNextInv
<1>2. HInv => HubTypeOK
  <2> SUFFICES ASSUME HInv, NEW report \in Kept
               PROVE  LET hubs == report.hubs
                      IN  /\ Len(hubs) = Min({report.args.topN, vectors.n})
                          /\ \A p \in DOMAIN hubs :
                               /\ hubs[p].index \in Rows(vectors)
                               /\ hubs[p].id = IdOf(report.args.ids, hubs[p].index)
                          /\ \A p, q \in DOMAIN hubs : p < q =>
                               \/ hubs[p].count > hubs[q].count
                               \/ hubs[p].count = hubs[q].count /\ hubs[p].index < hubs[q].index
    BY DEF HubTypeOK, HInv, InProgress
  <2> DEFINE v == vectors
             a == report.args
             hubs == report.hubs
             rows == Lists(v, report.width, a.k)
             m == Min({a.topN, v.n})
  <2>1. /\ v \in Datasets /\ a \in AllArguments(v) /\ Serves(v, report.width, a.k)
        /\ hubs = HubsOfSearch(v, report.width, a)
        /\ VectorsOK(v) /\ v.n \in Nat /\ a.k \in Nat
    BY KeptReport
  <2>2. Neighbourly(v, rows, a.k)
    BY <2>1, ListsAreNeighbourly
  <2> HIDE DEF v, a, hubs
  <2>3. /\ DOMAIN hubs = 1..m /\ Len(hubs) = m
        /\ \A p \in 1..m :
             /\ p \in 1..v.n
             /\ hubs[p].index = HubOrder(v, rows)[p] /\ hubs[p].index \in Rows(v)
             /\ hubs[p].id = IdOf(a.ids, hubs[p].index)
             /\ hubs[p].count = Counted(v, rows)[hubs[p].index]
    BY <2>1, HubsOfReport
  <2> HIDE DEF m, rows
  <2>4. ASSUME NEW p \in 1..m, NEW q \in 1..m, p < q
        PROVE  \/ hubs[p].count > hubs[q].count
               \/ hubs[p].count = hubs[q].count /\ hubs[p].index < hubs[q].index
    <3>1. p \in 1..v.n /\ q \in 1..v.n
      BY <2>3
    <3>2. LET i == HubOrder(v, rows)[p]
              j == HubOrder(v, rows)[q]
          IN  \/ Counted(v, rows)[i] > Counted(v, rows)[j]
              \/ Counted(v, rows)[i] = Counted(v, rows)[j] /\ i < j
      BY <2>1, <2>2, <2>4, <3>1, StrongestFirst
    <3>3. QED
      BY <2>3, <3>2
  <2>5. QED
    BY <2>3, <2>4 DEF v, a, hubs, m
<1>3. QED
  BY InitHInv, <1>1, <1>2, PTL DEF HubSpec

(***************************************************************************)
(* The hubs and the categories of one report come from two calls, with any *)
(* other caller in between: if both were answered from the same lists, a   *)
(* hub has as many citers in the dispersion as occurrences in the list.    *)
(***************************************************************************)
THEOREM HalvesAgree == HubSpec => []CitersAreCounted
<1>1. HInv /\ [HubNext]_allVars => HInv'
  BY HubNextInv
<1>2. HInv => CitersAreCounted
  <2> SUFFICES ASSUME HInv, NEW report \in Kept
               PROVE  /\ report.args.labels # None => report.citers # None
                      /\ report.citers # None /\ SameLists(report.width, report.knnWidth) =>
                           \A p \in DOMAIN report.hubs :
                             Cardinality(report.citers[p]) = report.hubs[p].count
    BY DEF CitersAreCounted
  <2> DEFINE v == vectors
             a == report.args
             hubs == report.hubs
             rows == Lists(v, report.width, a.k)
             later == Lists(v, report.knnWidth, a.k)
             m == Min({a.topN, v.n})
  <2>1. /\ v \in Datasets /\ a \in AllArguments(v) /\ Serves(v, report.width, a.k)
        /\ hubs = HubsOfSearch(v, report.width, a) /\ Complete(report)
        /\ VectorsOK(v) /\ v.n \in Nat /\ a.k \in Nat /\ a.topN \in Nat
    BY KeptReport
  <2>2. CASE a.labels = None
    BY <2>1, <2>2 DEF Complete
  <2>3. CASE a.labels # None
    <3>1. /\ Serves(v, report.knnWidth, a.k)
          /\ report.citers = [p \in DOMAIN hubs |-> Citers(later, hubs[p].index)]
      BY <2>1, <2>3 DEF Complete, CitersOfSearch
    <3>2. Neighbourly(v, later, a.k)
      BY <2>1, <3>1, ListsAreNeighbourly
    <3>3. SameLists(report.width, report.knnWidth) => rows = later
      BY <2>1, <3>1, ListsAgree DEF SameLists
    <3> HIDE DEF v, a, hubs
    <3>4. /\ DOMAIN hubs = 1..m /\ m \in 0..v.n
          /\ \A p \in 1..m : hubs[p].count = Cardinality(Citers(rows, hubs[p].index))
      <4> HIDE DEF m
      <4>1. /\ DOMAIN hubs = 1..m /\ m = IF a.topN <= v.n THEN a.topN ELSE v.n
            /\ \A p \in 1..m : hubs[p].count = Cardinality(Citers(rows, hubs[p].index))
        BY <2>1, HubsOfReport DEF m
      <4>2. QED
        BY <2>1, <4>1
    <3> HIDE DEF m, rows, later
    <3>5. report.citers # None
      <4>1. report.citers \in [1..m -> SUBSET Rows(v)]
        BY <2>1, <3>1, <3>2, <3>4, CitersAreRows
      <4>2. QED
        BY <2>1, <3>4, <4>1, NoneAssumption
    <3>6. SameLists(report.width, report.knnWidth) =>
            \A p \in DOMAIN hubs : Cardinality(report.citers[p]) = hubs[p].count
      BY <3>1, <3>3, <3>4
    <3>7. QED
      BY <3>5, <3>6 DEF hubs
  <2>4. QED
    BY <2>2, <2>3
<1>3. QED
  BY InitHInv, <1>1, <1>2, PTL DEF HubSpec

\* Of two reports from the same lists at one k and with one id_array, the one
\* that asked for no more hubs lists no hub the other does not.
LEMMA FewerHubs ==
  ASSUME HInv, NEW fewer \in Kept, NEW more \in Kept,
         fewer.args.k = more.args.k, fewer.args.ids = more.args.ids,
         SameLists(fewer.width, more.width), fewer.args.topN <= more.args.topN
  PROVE  HubIds(fewer) \subseteq HubIds(more)
<1> DEFINE v == vectors
           a == fewer.args
           b == more.args
           rows == Lists(v, fewer.width, a.k)
           same == Lists(v, more.width, b.k)
           m == Min({a.topN, v.n})
           n == Min({b.topN, v.n})
           few == fewer.hubs
           many == more.hubs
<1>1. /\ v \in Datasets /\ VectorsOK(v) /\ v.n \in Nat
      /\ a \in AllArguments(v) /\ Serves(v, fewer.width, a.k) /\ a.k \in Nat
      /\ few = HubsOfSearch(v, fewer.width, a) /\ a.topN \in Nat
      /\ b \in AllArguments(v) /\ Serves(v, more.width, b.k) /\ b.topN \in Nat
      /\ many = HubsOfSearch(v, more.width, b)
  BY KeptReport
<1>2. rows = same
  BY <1>1, ListsAgree DEF SameLists
<1> HIDE DEF v, few, many
<1>3. /\ DOMAIN few = 1..m /\ m = IF a.topN <= v.n THEN a.topN ELSE v.n
      /\ \A p \in 1..m : /\ few[p].index = HubOrder(v, rows)[p]
                         /\ few[p].id = IdOf(a.ids, few[p].index)
  BY <1>1, HubsOfReport
<1>4. /\ DOMAIN many = 1..n /\ n = IF b.topN <= v.n THEN b.topN ELSE v.n
      /\ \A p \in 1..n : /\ many[p].index = HubOrder(v, same)[p]
                         /\ many[p].id = IdOf(b.ids, many[p].index)
  BY <1>1, HubsOfReport
<1> HIDE DEF rows, same, m, n
<1>5. \A p \in 1..m : p \in 1..n /\ few[p].id = many[p].id
  <2>1. m <= n /\ m \in Nat /\ n \in Nat
    BY <1>1, <1>3, <1>4
  <2>2. \A p \in 1..m : p \in 1..n
    BY <2>1
  <2>3. QED
    BY <1>2, <1>3, <1>4, <2>2
<1>6. QED
  BY <1>3, <1>4, <1>5 DEF HubIds, few, many

(***************************************************************************)
(* A NEW hub is not made up, nor a resolved one, whatever else was asked   *)
(* of the evaluator around two inspections at one k and with one id_array: *)
(* a hub is in one report and not in the other only where the other lists  *)
(* fewer hubs or was answered from other lists.                            *)
(***************************************************************************)
THEOREM SnapshotsAgree == HubSpec => []RepeatsAgree
<1>1. HInv /\ [HubNext]_allVars => HInv'
  BY HubNextInv
<1>2. HInv => RepeatsAgree
  <2> SUFFICES ASSUME HInv, previous \in Kept, current \in Kept,
                      previous.args.k = current.args.k, previous.args.ids = current.args.ids,
                      SameLists(previous.width, current.width)
               PROVE  /\ current.args.topN <= previous.args.topN =>
                           NewHubs(previous, current) = {}
                      /\ current.args.topN >= previous.args.topN =>
                           ResolvedHubs(previous, current) = {}
    BY DEF RepeatsAgree
  <2>1. SameLists(current.width, previous.width)
    BY DEF SameLists
  <2>2. ASSUME current.args.topN <= previous.args.topN
        PROVE  NewHubs(previous, current) = {}
    BY <2>1, <2>2, FewerHubs DEF NewHubs
  <2>3. ASSUME current.args.topN >= previous.args.topN
        PROVE  ResolvedHubs(previous, current) = {}
    <3>1. previous.args.topN <= current.args.topN
      BY <2>3, KeptReport
    <3>2. QED
      BY <3>1, FewerHubs DEF ResolvedHubs
  <2>4. QED
    BY <2>2, <2>3
<1>3. QED
  BY InitHInv, <1>1, <1>2, PTL DEF HubSpec

\* The first hub has the most occurrences.
LEMMA FirstIsMaximum ==
  ASSUME NEW v, v.n \in Nat \ {0}, NEW rows, NEW k, Neighbourly(v, rows, k)
  PROVE  Hubness(v, rows)[1] = Counted(v, rows)[HubOrder(v, rows)[1]]
<1> DEFINE S == Rows(v)
           L == ByStrength(v, rows)
           occ == Counted(v, rows)
           first == HubOrder(v, rows)[1]
           all == {occ[j] : j \in S}
           P(x) == \A y \in all : x >= y
<1>1. Hubness(v, rows)[1] = Max(all)
  BY DEF Hubness, Counted
<1>2. /\ IsFiniteSet(S) /\ Cardinality(S) = v.n /\ InOrder(HubOrder(v, rows), L, S)
  BY RowsAreFinite, HubsInOrder
<1>3. first \in S /\ RankIn(L, S, first) = 0
  <2> HIDE DEF S, L
  <2>1. QED
    BY <1>2 DEF InOrder
<1>4. Before(L, S, first) = {}
  <2>1. Before(L, S, first) \in SUBSET S
    BY DEF Before
  <2> HIDE DEF S, L, first
  <2>2. QED
    BY <1>2, <1>3, <2>1, FS_Subset, FS_EmptySet DEF RankIn
<1>5. \A j \in S : occ[j] \in Nat
  BY CountsAreNaturals
<1>6. ASSUME NEW j \in S PROVE occ[j] <= occ[first]
  <2>1. ~(occ[j] > occ[first])
    BY <1>3, <1>4 DEF Before, ByStrength
  <2>2. QED
    BY <1>3, <1>5, <2>1
<1>7. occ[first] \in all /\ P(occ[first])
  BY <1>3, <1>5, <1>6
<1>8. Max(all) = occ[first]
  <2>1. Max(all) = CHOOSE x \in all : P(x)
    BY DEF Max
  <2>2. \A x \in all : P(x) => x = occ[first]
    <3> SUFFICES ASSUME NEW x \in all, P(x) PROVE x = occ[first]
      OBVIOUS
    <3>1. x \in Nat /\ occ[first] \in Nat
      BY <1>3, <1>5
    <3>2. x >= occ[first] /\ occ[first] >= x
      BY <1>7
    <3>3. QED
      BY <3>1, <3>2
  <2> HIDE DEF P, all, first, occ
  <2>3. QED
    BY <1>7, <2>1, <2>2
<1>9. QED
  BY <1>1, <1>8

(***************************************************************************)
(* The example quoted beside hubness_max may be older than the metric;     *)
(* from the same lists, its count is the metric's value all the same.      *)
(***************************************************************************)
THEOREM ExampleFits == HubSpec => []ExampleIsTheMaximum
<1>1. HInv /\ [HubNext]_allVars => HInv'
  BY HubNextInv
<1>2. HInv => ExampleIsTheMaximum
  <2> SUFFICES ASSUME HInv, NEW i \in DOMAIN reply.results, example # NoReport,
                      reply.request[i].metric = "hubness",
                      reply.request[i].k = example.args.k,
                      \A j \in DOMAIN reply.request :
                        j > i => reply.request[j].k <= reply.request[i].k,
                      SameLists(example.width, knn.k)
               PROVE  reply.results[i][1] = example.hubs[1].count
    BY DEF ExampleIsTheMaximum
  <2> DEFINE v == vectors
             a == example.args
             hubs == example.hubs
             rows == Lists(v, example.width, a.k)
             m == Min({a.topN, v.n})
  <2>1. example \in Kept /\ a.topN = 3
    BY DEF Kept, HInv, Reported, ExampleIsShort, ExampleTop
  <2>2. /\ v \in Datasets /\ VectorsOK(v) /\ v.n \in Nat \ {0}
        /\ a \in AllArguments(v) /\ Serves(v, example.width, a.k) /\ a.k \in Nat
        /\ hubs = HubsOfSearch(v, example.width, a)
    BY <2>1, KeptReport DEF HInv, AInv, IInv, TypeOK
  <2>3. reply.results # <<>>
    OBVIOUS
  <2>4. PICK d \in Nat : \E W \in [1..d -> Int] : SearchedAt(d, W)
    BY <2>3, RepliesAreSearched DEF Searched, HInv
  <2>5. PICK W \in [1..d -> Int] : SearchedAt(d, W)
    BY <2>4
  <2>6. /\ Serves(v, W[i], a.k) /\ i \in 1..d
        /\ reply.results[i] = Hubness(v, Lists(v, W[i], a.k))
    BY <2>5 DEF SearchedAt, Widths, FromLists, KnnMetrics, Serves, Lists
  <2>7. W[i] = knn.k
    <3>1. d \in i..d /\ W[d] = knn.k
      BY <2>5, <2>6 DEF SearchedAt
    <3>2. \A j \in i..d : reply.request[j].k <= reply.request[i].k
      <4> SUFFICES ASSUME NEW j \in i..d PROVE reply.request[j].k <= reply.request[i].k
        OBVIOUS
      <4>1. j \in DOMAIN reply.request /\ (j = i \/ j > i)
        BY <2>5, <2>6 DEF SearchedAt
      <4>2. reply.request[i].k \in Int
        BY <2>2
      <4>3. QED
        BY <4>1, <4>2
    <3>3. W[d] = W[i]
      BY <2>5, <2>6, <3>1, <3>2 DEF SearchedAt, Widths, KnnMetrics
    <3>4. QED
      BY <3>1, <3>3
  <2>8. Lists(v, W[i], a.k) = rows
    <3>1. W[i] = example.width \/ OrderFaithful(v)
      BY <2>7 DEF SameLists
    <3>2. Serves(v, W[i], a.k) /\ Serves(v, example.width, a.k) /\ VectorsOK(v) /\ a.k \in Nat
      BY <2>2, <2>6
    <3> HIDE DEF v, a
    <3>3. QED
      BY <3>1, <3>2, ListsAgree
  <2>9. Neighbourly(v, rows, a.k)
    BY <2>2, ListsAreNeighbourly
  <2> HIDE DEF v, a, hubs
  <2>10. /\ m = IF a.topN <= v.n THEN a.topN ELSE v.n
         /\ \A p \in 1..m : /\ hubs[p].index = HubOrder(v, rows)[p]
                            /\ hubs[p].count = Counted(v, rows)[hubs[p].index]
    <3>1. /\ v \in Datasets /\ a \in AllArguments(v) /\ Serves(v, example.width, a.k)
          /\ hubs = HubsOfSearch(v, example.width, a)
      BY <2>2
    <3>2. QED
      BY <3>1, HubsOfReport
  <2> HIDE DEF m, rows
  <2>11. hubs[1].count = Counted(v, rows)[HubOrder(v, rows)[1]]
    <3>1. 1 \in 1..m
      BY <2>1, <2>2, <2>10
    <3>2. QED
      BY <2>10, <3>1
  <2>12. reply.results[i][1] = Counted(v, rows)[HubOrder(v, rows)[1]]
    BY <2>2, <2>6, <2>8, <2>9, FirstIsMaximum
  <2>13. QED
    BY <2>11, <2>12 DEF hubs
<1>3. QED
  BY InitHInv, <1>1, <1>2, PTL DEF HubSpec

(***************************************************************************)
(* likely_pathology is about the points that cite the hubs: it is raised   *)
(* only when some hub is cited from two categories, and always when every  *)
(* cited hub is cited from two in equal parts.                             *)
(***************************************************************************)
THEOREM PathologyIsSound == HubSpec => []PathologyIsMixed
<1>1. HInv /\ [HubNext]_allVars => HInv'
  BY HubNextInv
<1>2. HInv => PathologyIsMixed
  <2> SUFFICES ASSUME HInv, NEW report \in Kept, report.citers # None
               PROVE  LET labels == report.args.labels
                          Cited(p) == {labels[r] : r \in report.citers[p]}
                          Evenly(p) == \A c, d \in Range(labels) :
                            Quantify(report.citers[p], LAMBDA r : labels[r] = c)
                              = Quantify(report.citers[p], LAMBDA r : labels[r] = d)
                      IN  /\ report.pathology =>
                               \E p \in DOMAIN report.hubs : Cardinality(Cited(p)) > 1
                          /\ /\ \E p \in DOMAIN report.hubs : report.citers[p] # {}
                             /\ \A p \in DOMAIN report.hubs : Evenly(p)
                             /\ Cardinality(Range(labels)) > 1
                             => report.pathology
    BY DEF PathologyIsMixed
  <2> DEFINE v == vectors
             a == report.args
             hubs == report.hubs
             rows == Lists(v, report.knnWidth, a.k)
  <2>1. /\ v \in Datasets /\ a \in AllArguments(v) /\ Serves(v, report.width, a.k)
        /\ hubs = HubsOfSearch(v, report.width, a) /\ Complete(report)
        /\ VectorsOK(v) /\ v.n \in Nat /\ a.k \in Nat /\ a.topN \in Nat
    BY KeptReport
  <2>2. /\ a.labels # None /\ Serves(v, report.knnWidth, a.k)
        /\ report.citers = [p \in DOMAIN hubs |-> Citers(rows, hubs[p].index)]
        /\ \A p \in DOMAIN hubs : \A r \in report.citers[p] : Covers(a.labels, r)
        /\ report.pathology = LikelyPathology(hubs, a.labels, rows)
    BY <2>1 DEF Complete, CitersOfSearch
  <2>3. Neighbourly(v, rows, a.k)
    BY <2>1, <2>2, ListsAreNeighbourly
  <2> HIDE DEF v, a, hubs, rows
  <2>4. IsFiniteSet(DOMAIN hubs)
    <3>1. DOMAIN hubs = 1..Min({a.topN, v.n}) /\ Min({a.topN, v.n}) \in Nat
      BY <2>1, HubsOfReport
    <3>2. QED
      BY <3>1, FS_Interval
  <2>5. \A p \in DOMAIN hubs : report.citers[p] = Citers(rows, hubs[p].index)
    BY <2>2
  <2>6. /\ report.pathology =>
             \E p \in DOMAIN hubs : Cardinality(Categories(a.labels, report.citers[p])) > 1
        /\ /\ \E p \in DOMAIN hubs : report.citers[p] # {}
           /\ \A p \in DOMAIN hubs : \A c, d \in Range(a.labels) :
                Cardinality(InCategory(a.labels, report.citers[p], c))
                  = Cardinality(InCategory(a.labels, report.citers[p], d))
           /\ Cardinality(Range(a.labels)) > 1
           => report.pathology
    <3> DEFINE Cited(p) == Citers(rows, hubs[p].index)
    <3>1. \A p \in DOMAIN hubs : \A r \in Citers(rows, hubs[p].index) : Covers(a.labels, r)
      BY <2>2, <2>5
    <3>2. MixedPathology(hubs, a.labels, rows)
      BY <2>1, <2>2, <2>3, <2>4, <3>1, PathologyBySums
    <3>3. \A p \in DOMAIN hubs : report.citers[p] = Cited(p)
      BY <2>5
    <3>4. QED
      BY <2>2, <3>2, <3>3 DEF MixedPathology, Cited
  <2>7. QED
    BY <2>6 DEF hubs, a, Categories, InCategory, Quantify
<1>3. QED
  BY InitHInv, <1>1, <1>2, PTL DEF HubSpec

\* Two inspections with the same arguments that found the cache equally wide.
SameWidthSameHubs ==
  \A before, after \in Kept :
    /\ before.args = after.args
    /\ before.width = after.width
    => NewHubs(before, after) = {} /\ ResolvedHubs(before, after) = {}

(***************************************************************************)
(* compare_hub_snapshots reports no NEW and no resolved hub of two         *)
(* inspections with the same arguments and an equally wide cache.          *)
(***************************************************************************)
THEOREM NoHubsMadeUp == HubSpec => []SameWidthSameHubs
<1>1. HInv /\ [HubNext]_allVars => HInv'
  BY HubNextInv
<1>2. HInv => SameWidthSameHubs
  <2> SUFFICES ASSUME HInv, NEW before \in Kept, NEW after \in Kept,
                      before.args = after.args, before.width = after.width
               PROVE  NewHubs(before, after) = {} /\ ResolvedHubs(before, after) = {}
    BY DEF SameWidthSameHubs
  <2>1. before.hubs = after.hubs
    BY DEF HInv, Reported, KeptFromSearch, FromSearch
  <2>2. HubIds(before) = HubIds(after)
    BY <2>1 DEF HubIds
  <2>3. QED
    BY <2>2 DEF NewHubs, ResolvedHubs
<1>3. QED
  BY InitHInv, <1>1, <1>2, PTL DEF HubSpec
-----------------------------------------------------------------------------
(* Every row cites k others, so that the occurrences of all the rows are   *)
(* n times k, and the strongest hub occurs at least k times.               *)

CitesOthers(v, rows, k) ==
  Neighbourly(v, rows, k) /\ \A r \in Rows(v) : \A c \in 1..k : rows[r][c] \in OtherRows(v, r)

\* The occurrences of every row in the lists of the rows of T.
CountedIn(v, rows, T) == [j \in Rows(v) |-> Cardinality(Citers(rows, j) \cap T)]

LEMMA CitesEachOnce ==
  ASSUME NEW v, v.n \in Nat, NEW rows, NEW k \in Nat, CitesOthers(v, rows, k), NEW r \in Rows(v)
  PROVE  Cardinality({j \in Rows(v) : r \in Citers(rows, j)}) = k
<1> DEFINE cited == {j \in Rows(v) : r \in Citers(rows, j)}
           list == [c \in 1..k |-> rows[r][c]]
<1>1. DOMAIN rows = Rows(v) /\ DOMAIN rows[r] = 1..k
  BY DEF CitesOthers, Neighbourly
<1>2. \A j : r \in Citers(rows, j) <=> \E c \in 1..k : rows[r][c] = j
  BY <1>1 DEF Citers
<1>3. \A c \in 1..k : list[c] = rows[r][c] /\ list[c] \in cited
  BY <1>2 DEF CitesOthers, OtherRows
<1>4. \A c, d \in 1..k : list[c] = list[d] => c = d
  BY <1>3 DEF CitesOthers, Neighbourly
<1>5. \A j \in cited : \E c \in 1..k : list[c] = j
  BY <1>2, <1>3
<1>6. list \in [1..k -> cited]
  BY <1>3
<1> HIDE DEF cited, list
<1>7. list \in Bijection(1..k, cited)
  <2>1. DOMAIN list = 1..k
    BY <1>6
  <2>2. IsInjective(list)
    BY <1>4, <2>1 DEF IsInjective
  <2>3. QED
    BY <1>5, <1>6, <2>2 DEF Bijection, Injection, Surjection
<1>8. IsFiniteSet(1..k) /\ Cardinality(1..k) = k
  BY FS_Interval
<1>9. ExistsBijection(1..k, cited)
  BY <1>7 DEF ExistsBijection
<1>10. Cardinality(cited) = k
  BY <1>8, <1>9, FS_Bijection
<1>11. QED
  BY <1>10 DEF cited

LEMMA CountsOfOneMore ==
  ASSUME NEW v, v.n \in Nat, NEW rows, NEW k \in Nat, CitesOthers(v, rows, k),
         NEW T \in SUBSET Rows(v), T # {}
  PROVE  SumFunctionOnSet(CountedIn(v, rows, T), Rows(v)) =
           SumFunctionOnSet(CountedIn(v, rows, T \ {First(T)}), Rows(v)) + k
<1> DEFINE S == Rows(v)
           r == First(T)
           rest == T \ {r}
           cites == [j \in S |-> IF r \in Citers(rows, j) THEN 1 ELSE 0]
           before == CountedIn(v, rows, rest)
           after == CountedIn(v, rows, T)
<1>1. IsFiniteSet(S)
  BY RowsAreFinite
<1>2. r \in T /\ r \in S
  BY <1>1, WithoutFirst
<1>3. ASSUME NEW j \in S
      PROVE  /\ before[j] \in Nat /\ cites[j] \in {0, 1}
             /\ after[j] = before[j] + cites[j]
  <2> DEFINE A == Citers(rows, j) \cap rest
             B == Citers(rows, j) \cap T
  <2>1. A \in SUBSET S
    BY <1>2
  <2>2. IsFiniteSet(A) /\ Cardinality(A) \in Nat
    BY <1>1, <2>1, FS_Subset, FS_CardinalityType
  <2>3. r \notin A
    OBVIOUS
  <2>4. CASE r \in Citers(rows, j)
    <3>1. B = A \cup {r}
      BY <1>2, <2>4
    <3> HIDE DEF A, B, r, rest
    <3>2. Cardinality(B) = Cardinality(A) + 1
      BY <2>2, <2>3, <3>1, FS_AddElement
    <3>3. cites[j] = 1
      BY <2>4
    <3>4. QED
      BY <2>2, <3>2, <3>3 DEF CountedIn, A, B
  <2>5. CASE r \notin Citers(rows, j)
    <3>1. B = A
      BY <2>5
    <3> HIDE DEF r, rest
    <3>2. cites[j] = 0
      BY <2>5
    <3>3. before[j] = Cardinality(A) /\ after[j] = Cardinality(B)
      BY DEF CountedIn
    <3> HIDE DEF A, B, before, after, cites
    <3>4. QED
      BY <2>2, <3>1, <3>2, <3>3
  <2>6. QED
    BY <2>4, <2>5
<1>4. Cardinality({j \in S : r \in Citers(rows, j)}) = k
  <2> HIDE DEF r
  <2>1. QED
    BY <1>2, CitesEachOnce
<1>5. {j \in S : cites[j] = 1} = {j \in S : r \in Citers(rows, j)}
  <2> HIDE DEF r
  <2>1. QED
    OBVIOUS
<1> HIDE DEF S, r, rest, cites, before, after
<1>6. \A j \in S : before[j] \in Nat /\ cites[j] \in Nat /\ after[j] = before[j] + cites[j]
  BY <1>3
<1>7. SumFunctionOnSet(cites, S) = k
  BY <1>1, <1>3, <1>4, <1>5, SumOfFlags
<1>8. SumFunctionOnSet(after, S) = SumFunctionOnSet(before, S) + SumFunctionOnSet(cites, S)
  BY <1>1, <1>6, SumOfPairs
<1>9. QED
  BY <1>7, <1>8 DEF S, r, rest, before, after

LEMMA CountsAddUp ==
  ASSUME NEW v, v.n \in Nat, NEW rows, NEW k \in Nat, CitesOthers(v, rows, k)
  PROVE  SumFunctionOnSet(Counted(v, rows), Rows(v)) = v.n * k
<1> DEFINE S == Rows(v)
           sum(T) == SumFunctionOnSet(CountedIn(v, rows, T), S)
           Good == {T \in SUBSET S : sum(T) = Cardinality(T) * k}
<1>1. IsFiniteSet(S) /\ Cardinality(S) = v.n
  BY RowsAreFinite
<1>2. {} \in Good
  <2>1. \A j \in S : CountedIn(v, rows, {})[j] = 0
    <3>1. \A j \in S : Citers(rows, j) \cap {} = {}
      OBVIOUS
    <3>2. QED
      BY <3>1, FS_EmptySet DEF CountedIn
  <2>2. {j \in S : CountedIn(v, rows, {})[j] = 1} = {}
    BY <2>1
  <2>3. sum({}) = 0
    BY <1>1, <2>1, <2>2, SumOfFlags, FS_EmptySet
  <2>4. QED
    BY <2>3, FS_EmptySet
<1>3. ASSUME NEW T \in SUBSET S, T # {}, T \ {First(T)} \in Good PROVE T \in Good
  <2>1. sum(T) = sum(T \ {First(T)}) + k
    BY <1>3, CountsOfOneMore
  <2>2. /\ Cardinality(T) \in Nat \ {0}
        /\ Cardinality(T \ {First(T)}) = Cardinality(T) - 1
    BY <1>1, <1>3, WithoutFirst
  <2>3. sum(T \ {First(T)}) = Cardinality(T \ {First(T)}) * k
    BY <1>3
  <2> HIDE DEF sum
  <2>4. (Cardinality(T) - 1) * k + k = Cardinality(T) * k
    BY <2>2
  <2>5. sum(T) = Cardinality(T) * k
    BY <2>1, <2>2, <2>3, <2>4
  <2>6. QED
    BY <2>5
<1>4. S \in Good
  <2> HIDE DEF Good
  <2>1. QED
    BY <1>1, <1>2, <1>3, SubsetInduction
<1>5. CountedIn(v, rows, S) = Counted(v, rows)
  <2>1. \A j \in S : Citers(rows, j) \cap S = Citers(rows, j)
    BY CitersAreRows DEF CitesOthers
  <2>2. \A j \in S : Counted(v, rows)[j] = Cardinality(Citers(rows, j))
    BY CountsAreNaturals DEF CitesOthers
  <2>3. QED
    BY <2>1, <2>2 DEF CountedIn, Counted
<1>6. QED
  BY <1>1, <1>4, <1>5

\* Nobody cites itself.
LEMMA CountsBelowRows ==
  ASSUME NEW v, v.n \in Nat, NEW rows, NEW k \in Nat, CitesOthers(v, rows, k), NEW j \in Rows(v)
  PROVE  Counted(v, rows)[j] \in 0..(v.n - 1)
<1>1. j \notin Citers(rows, j)
  BY DEF CitesOthers, Neighbourly, Citers, OtherRows
<1>2. Citers(rows, j) \in SUBSET OtherRows(v, j)
  BY <1>1, CitersAreRows DEF CitesOthers, OtherRows
<1>3. IsFiniteSet(OtherRows(v, j)) /\ Cardinality(OtherRows(v, j)) = v.n - 1
  BY RowsAreFinite, FS_RemoveElement DEF OtherRows
<1>4. Cardinality(Citers(rows, j)) <= v.n - 1 /\ Cardinality(Citers(rows, j)) \in Nat
  BY <1>2, <1>3, FS_Subset, FS_CardinalityType
<1>5. QED
  BY <1>4, CountsAreNaturals DEF CitesOthers

LEMMA RowTimesNext ==
  ASSUME NEW n \in Nat, NEW m \in Nat
  PROVE  n * (m + 1) = n * m + n
OBVIOUS

LEMMA StrongestIsAboveMean ==
  ASSUME NEW v, v.n \in Nat \ {0}, NEW rows, NEW k \in Nat, CitesOthers(v, rows, k)
  PROVE  Counted(v, rows)[HubOrder(v, rows)[1]] >= k
<1> DEFINE s == HubOrder(v, rows)
           occ == Counted(v, rows)
           top == occ[s[1]]
<1>1. /\ IsFiniteSet(Rows(v)) /\ Cardinality(Rows(v)) = v.n
      /\ Neighbourly(v, rows, k)
  BY RowsAreFinite DEF CitesOthers
<1>2. \A j \in Rows(v) : occ[j] \in Nat
  BY <1>1, CountsAreNaturals
<1>3. InOrder(s, ByStrength(v, rows), Rows(v))
  BY <1>1, HubsInOrder
<1> HIDE DEF s, occ
<1>4. \A p \in 1..v.n : s[p] \in Rows(v)
  BY <1>1, <1>3 DEF InOrder
<1>5. 1 \in 1..v.n /\ top \in Nat
  BY <1>2, <1>4
<1>6. ASSUME NEW p \in 1..v.n, p # 1 PROVE occ[s[p]] <= top
  <2>1. 1 < p
    BY <1>6
  <2>2. \/ occ[s[1]] > occ[s[p]]
        \/ occ[s[1]] = occ[s[p]] /\ s[1] < s[p]
    BY <1>1, <1>5, <2>1, StrongestFirst DEF s, occ
  <2>3. QED
    BY <1>2, <1>4, <1>5, <2>2
<1>7. ASSUME NEW j \in Rows(v) PROVE occ[j] \in 0..top
  <2> DEFINE L == ByStrength(v, rows)
             p == RankIn(L, Rows(v), j) + 1
  <2>1. TotalOrder(L, Rows(v))
    BY <1>1, StrengthOrders
  <2> HIDE DEF L
  <2>2. p \in 1..v.n /\ RankIn(L, Rows(v), j) = p - 1
    BY <1>1, <2>1, RanksRise
  <2> HIDE DEF p
  <2>3. s[p] \in Rows(v) /\ RankIn(L, Rows(v), s[p]) = p - 1
    BY <1>1, <1>3, <2>2 DEF InOrder, L
  <2>4. s[p] = j
    <3>1. p \in 1..Cardinality(Rows(v))
      BY <1>1, <2>2
    <3>2. RankIn(L, Rows(v), s[p]) = RankIn(L, Rows(v), j)
      BY <2>2, <2>3
    <3>3. QED
      BY <1>1, <2>1, <2>3, <3>1, <3>2, RanksAreTaken
  <2>5. QED
    BY <1>2, <1>5, <1>6, <2>2, <2>4
<1>8. SumFunctionOnSet(occ, Rows(v)) = v.n * k
  BY CountsAddUp DEF occ
<1>9. SumFunctionOnSet(occ, Rows(v)) <= v.n * top
  BY <1>1, <1>5, <1>7, SumAtMost
<1> HIDE DEF top
<1>10. v.n * k <= v.n * top
  BY <1>8, <1>9
<1>11. ~(top < k)
  <2> SUFFICES ASSUME top < k PROVE FALSE
    OBVIOUS
  <2>1. top + 1 <= k /\ v.n \in Nat \ {0}
    BY <1>5
  <2>2. v.n * (top + 1) <= v.n * k
    BY <1>5, <2>1
  <2>3. v.n * (top + 1) = v.n * top + v.n
    BY <1>5, <2>1, RowTimesNext
  <2>4. v.n * top \in Nat /\ v.n * k \in Nat
    BY <1>5
  <2>5. QED
    BY <1>10, <2>2, <2>3, <2>4
<1>12. QED
  BY <1>5, <1>11 DEF top, occ, s

LEMMA ListsCiteOthers ==
  ASSUME NEW v, VectorsOK(v), NEW k \in Nat, NEW width, Serves(v, width, k)
  PROVE  CitesOthers(v, Lists(v, width, k), k)
<1> DEFINE rows == Search(v, width, 1)
<1>1. DOMAIN rows = Rows(v)
  BY DEF Search
<1>2. ASSUME NEW r \in Rows(v), NEW c \in 1..k
      PROVE  Lists(v, width, k)[r][c] \in OtherRows(v, r)
  <2>1. width \in 1..(v.n - 1) /\ k \in 1..width /\ Searchable(v)
    BY <1>2, ServesSomeone
  <2>2. rows[r] \in [1..width -> OtherRows(v, r)]
    BY <2>1, ListsAreDistinct
  <2> HIDE DEF rows
  <2>3. SubSeq(rows[r], 1, k)[c] = rows[r][c] /\ c \in 1..width
    BY <2>1
  <2>4. Lists(v, width, k)[r] = SubSeq(rows[r], 1, k)
    BY <1>1 DEF Lists, Slice, rows
  <2>5. QED
    BY <2>2, <2>3, <2>4
<1>3. QED
  BY <1>2, ListsAreNeighbourly DEF CitesOthers

HubsAboveMean ==
  \A report \in Kept :
    /\ 1 \in DOMAIN report.hubs => report.hubs[1].count >= report.args.k
    /\ \A p \in DOMAIN report.hubs : report.hubs[p].count < vectors.n

(***************************************************************************)
(* The strongest hub of a report occurs at least as often as the mean row, *)
(* which occurs k times, and no hub is its own neighbour: none can occur   *)
(* as often as there are rows.                                             *)
(***************************************************************************)
THEOREM HubsStandOut == HubSpec => []HubsAboveMean
<1>1. HInv /\ [HubNext]_allVars => HInv'
  BY HubNextInv
<1>2. HInv => HubsAboveMean
  <2> SUFFICES ASSUME HInv, NEW report \in Kept
               PROVE  /\ 1 \in DOMAIN report.hubs => report.hubs[1].count >= report.args.k
                      /\ \A p \in DOMAIN report.hubs : report.hubs[p].count < vectors.n
    BY DEF HubsAboveMean
  <2> DEFINE v == vectors
             a == report.args
             hubs == report.hubs
             rows == Lists(v, report.width, a.k)
             m == Min({a.topN, v.n})
  <2>1. /\ v \in Datasets /\ a \in AllArguments(v) /\ Serves(v, report.width, a.k)
        /\ hubs = HubsOfSearch(v, report.width, a)
        /\ VectorsOK(v) /\ v.n \in Nat /\ a.k \in Nat
    BY KeptReport
  <2>2. CitesOthers(v, rows, a.k)
    BY <2>1, ListsCiteOthers
  <2> HIDE DEF v, a, hubs
  <2>3. /\ DOMAIN hubs = 1..m /\ Len(hubs) = m /\ m \in Nat
        /\ \A p \in 1..m :
             /\ p \in 1..v.n
             /\ hubs[p].index = HubOrder(v, rows)[p] /\ hubs[p].index \in Rows(v)
             /\ hubs[p].count = Counted(v, rows)[hubs[p].index]
    BY <2>1, HubsOfReport
  <2> HIDE DEF m, rows
  <2>4. ASSUME NEW p \in 1..m PROVE hubs[p].count < v.n
    <3>1. Counted(v, rows)[hubs[p].index] \in 0..(v.n - 1)
      BY <2>1, <2>2, <2>3, CountsBelowRows
    <3>2. QED
      BY <2>1, <2>3, <3>1
  <2>5. ASSUME 1 \in 1..m PROVE hubs[1].count >= a.k
    <3>1. 1 \in 1..m /\ 1 \in 1..v.n
      BY <2>3, <2>5
    <3>2. Counted(v, rows)[HubOrder(v, rows)[1]] >= a.k
      BY <2>1, <2>2, <3>1, StrongestIsAboveMean
    <3>3. QED
      BY <2>3, <3>1, <3>2
  <2>6. QED
    BY <2>3, <2>4, <2>5 DEF v, a, hubs
<1>3. QED
  BY InitHInv, <1>1, <1>2, PTL DEF HubSpec
=============================================================================
