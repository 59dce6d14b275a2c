-------------------------- MODULE KnnSearchProofs --------------------------
(***************************************************************************)
(* What the k-NN search computes, for any vectors: the candidates of a row *)
(* are the most similar other rows, the ranking is by distance, and where  *)
(* the similarities order the rows as the distances do the search is       *)
(* exact. Induction runs on sets of numbers: a set that holds 0 and with   *)
(* every number the next one holds them all.                               *)
(***************************************************************************)
EXTENDS KnnSearch, FiniteSetTheorems, TLAPS

LEMMA NatInductionSet ==
  ASSUME NEW T, 0 \in T, \A n \in Nat : n \in T => n + 1 \in T
  PROVE  Nat \subseteq T
<1> DEFINE B == Nat \ T
<1> SUFFICES ASSUME B # {} PROVE FALSE
  OBVIOUS
<1>1. \E x \in B : \A y \in B : ~ (<<y, x>> \in OpToRel(<, Nat))
  <2>1. B \subseteq Nat
    OBVIOUS
  <2> HIDE DEF B
  <2>2. QED
    BY <2>1, NatLessThanWellFounded, WFMin
<1>2. PICK x \in B : \A y \in B : ~ (y < x)
  BY <1>1 DEF OpToRel
<1>3. x \in Nat /\ x # 0 /\ x - 1 \in Nat
  OBVIOUS
<1>4. x - 1 \in T
  BY <1>2, <1>3
<1>5. QED
  BY <1>3, <1>4

\* A bounded set of numbers that is not empty has a maximum.
LEMMA MaxOfBounded ==
  ASSUME NEW n \in Nat, NEW S \in SUBSET (0..n), S # {}
  PROVE  Max(S) \in S /\ \A y \in S : y <= Max(S)
<1> DEFINE P(m) == \A U \in SUBSET (0..m) : U # {} => \E x \in U : \A y \in U : x >= y
           T == {m \in Nat : P(m)}
<1>1. P(0)
  <2> SUFFICES ASSUME NEW U \in SUBSET (0..0), U # {}
               PROVE  \E x \in U : \A y \in U : x >= y
    OBVIOUS
  <2>1. PICK x \in U : TRUE
    OBVIOUS
  <2>2. x = 0 /\ \A y \in U : y = 0
    OBVIOUS
  <2>3. QED
    BY <2>1, <2>2
<1>2. ASSUME NEW m \in Nat, P(m) PROVE P(m + 1)
  <2> SUFFICES ASSUME NEW U \in SUBSET (0..(m + 1)), U # {}
               PROVE  \E x \in U : \A y \in U : x >= y
    OBVIOUS
  <2>1. CASE m + 1 \in U
    BY <2>1
  <2>2. CASE m + 1 \notin U
    <3>1. U \in SUBSET (0..m)
      BY <2>2
    <3>2. QED
      BY <1>2, <3>1
  <2>3. QED
    BY <2>1, <2>2
<1>3. 0 \in T /\ \A m \in Nat : m \in T => m + 1 \in T
  BY <1>1, <1>2
<1> HIDE DEF T
<1>4. Nat \subseteq T
  BY <1>3, NatInductionSet
<1>5. P(n)
  BY <1>4 DEF T
<1>6. \E x \in S : \A y \in S : x >= y
  BY <1>5
<1>7. QED
  BY <1>6 DEF Max

-----------------------------------------------------------------------------
(* The recursion of TopK.                                                  *)

\* g[m] is the buffer after the rows 1..m.
Buffers(g, sims, n, self, size) ==
  g = [m \in 0..n |-> IF m = 0 THEN [p \in 1..size |-> Slot]
                      ELSE IF m = self THEN g[m - 1]
                      ELSE InsertTopK(g[m - 1], sims[m], m)]

LEMMA BuffersExist ==
  ASSUME NEW sims, NEW n \in Nat, NEW self, NEW size
  PROVE  \E g : Buffers(g, sims, n, self, size)
<1> DEFINE P(m) == \E g : Buffers(g, sims, m, self, size)
           T == {m \in Nat : P(m)}
<1>1. P(0)
  <2> DEFINE g == [m \in 0..0 |-> [p \in 1..size |-> Slot]]
  <2>1. Buffers(g, sims, 0, self, size)
    BY DEF Buffers
  <2>2. QED
    BY <2>1
<1>2. ASSUME NEW m \in Nat, P(m) PROVE P(m + 1)
  <2>1. PICK g : Buffers(g, sims, m, self, size)
    BY <1>2
  <2> DEFINE next == IF m + 1 = self THEN g[m] ELSE InsertTopK(g[m], sims[m + 1], m + 1)
             h == [i \in 0..(m + 1) |-> IF i = m + 1 THEN next ELSE g[i]]
             f == [i \in 0..(m + 1) |->
                     IF i = 0 THEN [p \in 1..size |-> Slot]
                     ELSE IF i = self THEN h[i - 1]
                     ELSE InsertTopK(h[i - 1], sims[i], i)]
  <2>2. ASSUME NEW i \in 0..(m + 1) PROVE h[i] = f[i]
    <3>1. CASE i = m + 1
      <4>1. i # 0 /\ i - 1 \in 0..m /\ h[i - 1] = g[m]
        BY <3>1
      <4>2. QED
        BY <3>1, <4>1
    <3>2. CASE i # m + 1
      <4>1. i \in 0..m /\ h[i] = g[i]
        BY <3>2
      <4>2. g[i] = IF i = 0 THEN [p \in 1..size |-> Slot]
                   ELSE IF i = self THEN g[i - 1]
                   ELSE InsertTopK(g[i - 1], sims[i], i)
        BY <2>1, <4>1 DEF Buffers
      <4>3. i # 0 => h[i - 1] = g[i - 1]
        BY <4>1
      <4>4. QED
        BY <4>1, <4>2, <4>3
    <3>3. QED
      BY <3>1, <3>2
  <2>3. h = f
    BY <2>2
  <2>4. Buffers(h, sims, m + 1, self, size)
    BY <2>3 DEF Buffers
  <2> HIDE DEF h
  <2>5. QED
    BY <2>4
<1>3. 0 \in T /\ \A m \in Nat : m \in T => m + 1 \in T
  BY <1>1, <1>2
<1> HIDE DEF T
<1>4. Nat \subseteq T
  BY <1>3, NatInductionSet
<1>5. QED
  BY <1>4 DEF T

LEMMA TopKBuffers ==
  ASSUME NEW sims, NEW n \in Nat, NEW self, NEW size
  PROVE  \E g : Buffers(g, sims, n, self, size) /\ TopK(sims, n, self, size) = g[n]
<1> DEFINE g == CHOOSE g : Buffers(g, sims, n, self, size)
<1>1. Buffers(g, sims, n, self, size)
  BY BuffersExist
<1>2. TopK(sims, n, self, size) = g[n]
  BY DEF TopK, Buffers
<1>3. QED
  BY <1>1, <1>2

-----------------------------------------------------------------------------
(* The buffer holds the best rows seen.                                    *)

\* Row a is kept before row b: a greater similarity, or the smaller index.
Better(sims, a, b) == sims[a] > sims[b] \/ (sims[a] = sims[b] /\ a < b)

Entry == [sim : Nat, idx : Nat]

\* The buffer after the rows of E: worst first, free slots in front, and a row
\* that is not in it is worse than all that are.
Keeps(buffer, sims, E, size) ==
  /\ buffer \in [1..size -> Entry]
  /\ \A p \in 1..size :
       buffer[p] = Slot \/ (buffer[p].idx \in E /\ buffer[p].sim = sims[buffer[p].idx])
  /\ \A p, q \in 1..size : p < q /\ buffer[p] # Slot =>
       buffer[q] # Slot /\ Better(sims, buffer[q].idx, buffer[p].idx)
  /\ \A e \in E : \/ \E p \in 1..size : buffer[p].idx = e
                  \/ buffer[1] # Slot /\ Better(sims, buffer[1].idx, e)

\* What an insertion does, slot by slot: the slots 2 .. up + 1, which are below
\* the new entry, move down by one, and it goes in above them.
Inserted(after, buffer, new, size) ==
  \E up \in 0..(size - 1) :
    /\ \A q \in 1..up : buffer[q + 1].sim < new.sim
    /\ up < size - 1 => buffer[up + 2].sim >= new.sim
    /\ after \in [1..size -> Entry]
    /\ \A q \in 1..size : after[q] = IF q <= up THEN buffer[q + 1]
                                   ELSE IF q = up + 1 THEN new ELSE buffer[q]

LEMMA InsertionSlots ==
  ASSUME NEW size \in Nat \ {0}, NEW buffer \in [1..size -> Entry], NEW val \in Nat, NEW idx \in Nat,
         ~AtMost(val, buffer[1].sim)
  PROVE  Inserted(InsertTopK(buffer, val, idx), buffer, [sim |-> val, idx |-> idx], size)
<1> DEFINE rest == Tail(buffer)
           risen == {p \in 0..Len(rest) : \A q \in 1..p : Above(val, rest[q].sim)}
           new == [sim |-> val, idx |-> idx]
<1>0. buffer \in Seq(Entry) /\ Len(buffer) = size
  OBVIOUS
<1>1. /\ rest \in Seq(Entry) /\ Len(rest) = size - 1
      /\ \A q \in 1..(size - 1) : rest[q] = buffer[q + 1]
  BY <1>0
<1>2. new \in Entry /\ new.sim = val
  BY DEF Entry
<1>3. ASSUME NEW q \in 1..(size - 1) PROVE Above(val, rest[q].sim) <=> rest[q].sim < val
  <2>1. rest[q] \in Entry
    BY <1>1
  <2>2. rest[q].sim \in Nat
    BY <2>1 DEF Entry
  <2> HIDE DEF rest
  <2>3. QED
    BY <2>2 DEF Above, NaN
<1>4. risen \in SUBSET (0..(size - 1)) /\ 0 \in risen
  BY <1>1
<1> HIDE DEF rest, new
<1>5. PICK up \in risen : up = Max(risen) /\ \A y \in risen : y <= up
  <2> HIDE DEF risen
  <2>1. size - 1 \in Nat /\ risen # {}
    BY <1>4
  <2>2. Max(risen) \in risen /\ \A y \in risen : y <= Max(risen)
    BY <1>4, <2>1, MaxOfBounded
  <2>3. QED
    BY <2>2
<1>6. up \in 0..(size - 1) /\ \A q \in 1..up : Above(val, rest[q].sim)
  BY <1>4, <1>5
<1>7. ASSUME NEW q \in 1..up PROVE buffer[q + 1].sim < val
  <2>1. q \in 1..(size - 1)
    BY <1>6
  <2>2. rest[q].sim < val
    BY <1>3, <1>6, <2>1
  <2>3. QED
    BY <1>1, <2>1, <2>2
<1>8. ASSUME up < size - 1 PROVE buffer[up + 2].sim >= val
  <2>1. up + 1 \in 1..(size - 1) /\ rest[up + 1] = buffer[up + 2]
    BY <1>1, <1>6, <1>8
  <2>2. ~Above(val, rest[up + 1].sim)
    <3>1. SUFFICES ASSUME Above(val, rest[up + 1].sim) PROVE FALSE
      OBVIOUS
    <3>2. \A q \in 1..(up + 1) : Above(val, rest[q].sim)
      BY <1>6, <3>1
    <3>3. up + 1 \in risen
      BY <1>1, <2>1, <3>2
    <3>4. QED
      BY <1>5, <1>6, <3>3
  <2>3. rest[up + 1].sim \in Nat
    BY <1>1, <2>1 DEF Entry
  <2>4. QED
    BY <1>3, <2>1, <2>2, <2>3
<1>9. InsertTopK(buffer, val, idx) = InsertAt(rest, up + 1, new)
  BY <1>5 DEF InsertTopK, rest, new
<1> DEFINE left == SubSeq(rest, 1, up)
           right == SubSeq(rest, up + 1, size - 1)
<1>10. InsertAt(rest, up + 1, new) = (left \o <<new>>) \o right
  BY <1>1, <1>6 DEF InsertAt
<1>11. /\ left \in Seq(Entry) /\ Len(left) = up
       /\ \A q \in 1..up : left[q] = rest[q]
  BY <1>1, <1>6
<1>12. /\ right \in Seq(Entry) /\ Len(right) = size - 1 - up
       /\ \A q \in 1..(size - 1 - up) : right[q] = rest[up + q]
  BY <1>1, <1>6
<1> HIDE DEF left, right
<1> DEFINE head == left \o <<new>>
           whole == head \o right
<1>13. /\ head \in Seq(Entry) /\ Len(head) = up + 1
       /\ \A q \in 1..(up + 1) : head[q] = IF q <= up THEN left[q] ELSE new
  BY <1>2, <1>6, <1>11
<1> HIDE DEF head
<1>14. /\ whole \in [1..size -> Entry]
       /\ \A q \in 1..size : whole[q] = IF q <= up + 1 THEN head[q] ELSE right[q - (up + 1)]
  <2>1. whole \in Seq(Entry)
    BY <1>12, <1>13
  <2>2. Len(whole) = size
    <3>0. head \in Seq(Entry) /\ right \in Seq(Entry)
      BY <1>12, <1>13
    <3>1. Len(whole) = Len(head) + Len(right)
      BY <3>0
    <3>2. QED
      BY <1>6, <1>12, <1>13, <3>1
  <2>3. \A q \in 1..size : whole[q] = IF q <= up + 1 THEN head[q] ELSE right[q - (up + 1)]
    BY <1>6, <1>12, <1>13
  <2> HIDE DEF whole
  <2>4. whole \in [1..size -> Entry]
    BY <2>1, <2>2
  <2>5. QED
    BY <2>3, <2>4
<1> HIDE DEF whole
<1>15. ASSUME NEW q \in 1..size
       PROVE  whole[q] = IF q <= up THEN buffer[q + 1] ELSE IF q = up + 1 THEN new ELSE buffer[q]
  <2>1. CASE q <= up
    <3>1. q \in 1..up /\ q \in 1..(up + 1) /\ q \in 1..(size - 1)
      BY <1>6, <2>1
    <3>2. whole[q] = left[q]
      BY <1>6, <1>13, <1>14, <2>1, <3>1
    <3>3. QED
      BY <1>1, <1>11, <2>1, <3>1, <3>2
  <2>2. CASE q = up + 1
    BY <1>6, <1>13, <1>14, <2>2
  <2>3. CASE q > up + 1
    <3>1. q - (up + 1) \in 1..(size - 1 - up) /\ up + (q - (up + 1)) = q - 1
      BY <1>6, <2>3
    <3>2. right[q - (up + 1)] = rest[q - 1]
      BY <1>12, <3>1
    <3>3. q - 1 \in 1..(size - 1) /\ rest[q - 1] = buffer[q]
      BY <1>1, <1>6, <2>3
    <3>4. QED
      BY <1>6, <1>14, <2>3, <3>2, <3>3
  <2>4. QED
    BY <1>6, <2>1, <2>2, <2>3
<1>16. whole = InsertTopK(buffer, val, idx)
  BY <1>9, <1>10 DEF whole, head
<1>17. Inserted(whole, buffer, new, size)
  BY <1>2, <1>6, <1>7, <1>8, <1>14, <1>15 DEF Inserted
<1>18. QED
  BY <1>16, <1>17 DEF new

LEMMA KeepsNothing ==
  ASSUME NEW sims, NEW size
  PROVE  Keeps([p \in 1..size |-> Slot], sims, {}, size)
<1>1. Slot \in Entry
  BY DEF Slot, Entry, NegInf, NoIndex
<1>2. QED
  BY <1>1 DEF Keeps

\* An insertion keeps the best of the rows seen so far and the new one, which
\* comes after all of them.
LEMMA KeepsBest ==
  ASSUME NEW size \in Nat \ {0}, NEW E \in SUBSET (Nat \ {0}), NEW m \in Nat \ {0},
         \A e \in E : e < m, NEW sims, \A e \in E \cup {m} : sims[e] \in Nat \ {NegInf},
         NEW buffer, Keeps(buffer, sims, E, size)
  PROVE  Keeps(InsertTopK(buffer, sims[m], m), sims, E \cup {m}, size)
<1>0. /\ buffer \in [1..size -> Entry] /\ 1 \in 1..size
      /\ \A p \in 1..size : buffer[p] = Slot \/ (buffer[p].idx \in E /\ buffer[p].sim = sims[buffer[p].idx])
      /\ \A p, q \in 1..size : p < q /\ buffer[p] # Slot =>
           buffer[q] # Slot /\ Better(sims, buffer[q].idx, buffer[p].idx)
      /\ \A e \in E : \/ \E p \in 1..size : buffer[p].idx = e
                      \/ buffer[1] # Slot /\ Better(sims, buffer[1].idx, e)
  BY DEF Keeps
<1>00. sims[m] \in Nat /\ sims[m] > 0 /\ Slot.sim = 0 /\ Slot.idx = 0
  BY DEF Slot, NegInf, NoIndex
<1>01. \A e \in E \cup {m} : e \in Nat /\ sims[e] \in Nat
  OBVIOUS
<1>1. CASE AtMost(sims[m], buffer[1].sim)
  <2>1. InsertTopK(buffer, sims[m], m) = buffer
    BY <1>1 DEF InsertTopK
  <2>2. sims[m] <= buffer[1].sim
    BY <1>1 DEF AtMost
  <2>3. buffer[1] # Slot
    BY <2>2, <1>00
  <2>4. buffer[1].idx \in E /\ buffer[1].sim = sims[buffer[1].idx]
    BY <2>3, <1>0
  <2>5. Better(sims, buffer[1].idx, m)
    <3>1. sims[buffer[1].idx] \in Nat /\ buffer[1].idx < m
      BY <2>4, <1>01
    <3>2. QED
      BY <2>2, <2>4, <3>1, <1>00 DEF Better
  <2>6. QED
    BY <1>0, <2>1, <2>3, <2>5 DEF Keeps
<1>2. CASE ~AtMost(sims[m], buffer[1].sim)
  <2> DEFINE after == InsertTopK(buffer, sims[m], m)
             new == [sim |-> sims[m], idx |-> m]
  <2>0. new.sim = sims[m] /\ new.idx = m
    OBVIOUS
  <2>1. PICK up \in 0..(size - 1) :
          /\ \A q \in 1..up : buffer[q + 1].sim < sims[m]
          /\ up < size - 1 => buffer[up + 2].sim >= sims[m]
          /\ after \in [1..size -> Entry]
          /\ \A q \in 1..size : after[q] = IF q <= up THEN buffer[q + 1]
                                         ELSE IF q = up + 1 THEN new ELSE buffer[q]
    <3>1. sims[m] \in Nat /\ m \in Nat /\ buffer \in [1..size -> Entry]
      BY <1>0, <1>00
    <3>2. Inserted(after, buffer, new, size)
      BY <1>2, <3>1, InsertionSlots
    <3> HIDE DEF after, new
    <3>3. QED
      BY <2>0, <3>2 DEF Inserted
  <2> HIDE DEF after
  <2>2. new.sim = sims[m] /\ new.idx = m /\ new # Slot
    BY <1>00, <2>0
  <2> HIDE DEF new
  <2>3. buffer[1].sim < sims[m]
    BY <1>0, <1>2, <1>00 DEF AtMost, NaN, Entry
  <2>4. ASSUME NEW q \in 1..size, q <= up + 1 PROVE buffer[q].sim < sims[m]
    <3>1. CASE q = 1
      BY <2>3, <3>1
    <3>2. CASE q # 1
      <4>1. q - 1 \in 1..up /\ (q - 1) + 1 = q
        BY <2>1, <2>4, <3>2
      <4>2. QED
        BY <2>1, <4>1
    <3>3. QED
      BY <3>1, <3>2
  <2>5. ASSUME NEW q \in 1..size, q > up + 1
        PROVE  buffer[q] # Slot /\ buffer[q].sim >= sims[m] /\ Better(sims, buffer[q].idx, m)
    <3>1. up < size - 1 /\ up + 2 \in 1..size /\ buffer[up + 2].sim >= sims[m]
      BY <2>1, <2>5
    <3>2. buffer[up + 2] # Slot
      BY <1>00, <3>1
    <3>3. buffer[up + 2].idx \in E /\ buffer[up + 2].sim = sims[buffer[up + 2].idx]
      BY <1>0, <3>1, <3>2
    <3>4. CASE q = up + 2
      <4>1. buffer[q].idx < m /\ sims[buffer[q].idx] \in Nat
        BY <3>3, <3>4, <1>01
      <4>2. sims[buffer[q].idx] >= sims[m]
        BY <3>1, <3>3, <3>4
      <4>3. Better(sims, buffer[q].idx, m)
        BY <4>1, <4>2, <1>00 DEF Better
      <4>4. QED
        BY <3>1, <3>2, <3>4, <4>3
    <3>5. CASE q # up + 2
      <4>1. q > up + 2
        BY <2>1, <2>5, <3>5
      <4>2. buffer[q] # Slot /\ Better(sims, buffer[q].idx, buffer[up + 2].idx)
        BY <1>0, <3>1, <3>2, <4>1
      <4>3. buffer[q].idx \in E /\ buffer[q].sim = sims[buffer[q].idx]
        BY <1>0, <4>2
      <4>4. /\ buffer[q].idx < m /\ sims[buffer[q].idx] \in Nat
            /\ sims[buffer[up + 2].idx] \in Nat
        BY <3>3, <4>3, <1>01
      <4>5. sims[buffer[q].idx] >= sims[buffer[up + 2].idx]
        BY <4>2, <4>4 DEF Better
      <4>6. sims[buffer[q].idx] >= sims[m]
        BY <3>1, <3>3, <4>4, <4>5, <1>00
      <4>7. Better(sims, buffer[q].idx, m)
        BY <4>4, <4>6, <1>00 DEF Better
      <4>8. QED
        BY <4>2, <4>3, <4>6, <4>7
    <3>6. QED
      BY <3>4, <3>5
  <2>6. ASSUME NEW p \in 1..size
        PROVE  after[p] = Slot \/ (after[p].idx \in E \cup {m} /\ after[p].sim = sims[after[p].idx])
    <3>1. CASE p <= up
      <4>1. p + 1 \in 1..size /\ after[p] = buffer[p + 1]
        BY <2>1, <3>1
      <4>2. QED
        BY <4>1, <1>0
    <3>2. CASE p = up + 1
      BY <2>1, <2>2, <3>2
    <3>3. CASE p > up + 1
      BY <2>1, <3>3, <1>0
    <3>4. QED
      BY <2>1, <3>1, <3>2, <3>3
  <2>7. ASSUME NEW p \in 1..size, NEW q \in 1..size, p < q, after[p] # Slot
        PROVE  after[q] # Slot /\ Better(sims, after[q].idx, after[p].idx)
    <3>1. CASE q <= up
      <4>1. p + 1 \in 1..size /\ q + 1 \in 1..size /\ p + 1 < q + 1
            /\ after[p] = buffer[p + 1] /\ after[q] = buffer[q + 1]
        BY <2>1, <2>7, <3>1
      <4>2. QED
        BY <4>1, <2>7, <1>0
    <3>2. CASE q = up + 1
      <4>1. p + 1 \in 1..size /\ p + 1 <= up + 1 /\ after[p] = buffer[p + 1] /\ after[q] = new
        BY <2>1, <2>7, <3>2
      <4>2. buffer[p + 1].sim < sims[m]
        BY <2>4, <4>1
      <4>3. buffer[p + 1].idx \in E /\ buffer[p + 1].sim = sims[buffer[p + 1].idx]
        BY <4>1, <2>7, <1>0
      <4>4. QED
        BY <4>1, <4>2, <4>3, <2>2, <1>00 DEF Better
    <3>3. CASE q > up + 1 /\ p = up + 1
      <4>1. after[p] = new /\ after[q] = buffer[q]
        BY <2>1, <3>3
      <4>2. QED
        BY <2>2, <2>5, <3>3, <4>1
    <3>4. CASE q > up + 1 /\ p <= up
      <4>1. p + 1 \in 1..size /\ p + 1 < q /\ after[p] = buffer[p + 1] /\ after[q] = buffer[q]
        BY <2>1, <2>7, <3>4
      <4>2. QED
        BY <4>1, <2>7, <1>0
    <3>5. CASE q > up + 1 /\ p > up + 1
      <4>1. after[p] = buffer[p] /\ after[q] = buffer[q]
        BY <2>1, <3>5
      <4>2. QED
        BY <4>1, <2>7, <1>0
    <3>6. QED
      BY <2>1, <3>1, <3>2, <3>3, <3>4, <3>5
  <2>8. after[1] # Slot \/ buffer[1] = Slot
    <3>1. CASE up = 0
      BY <2>1, <2>2, <3>1, <1>0
    <3>2. CASE up # 0
      <4>1. 2 \in 1..size /\ after[1] = buffer[2]
        BY <2>1, <3>2, <1>0
      <4>2. QED
        BY <4>1, <1>0
    <3>3. QED
      BY <3>1, <3>2
  <2>9. ASSUME buffer[1] # Slot PROVE Better(sims, after[1].idx, buffer[1].idx)
    <3>0. buffer[1].idx \in E /\ buffer[1].sim = sims[buffer[1].idx]
      BY <2>9, <1>0
    <3>1. CASE up = 0
      <4>1. after[1] = new
        BY <2>1, <3>1, <1>0
      <4>2. QED
        BY <2>2, <2>3, <3>0, <4>1, <1>00 DEF Better
    <3>2. CASE up # 0
      <4>1. 2 \in 1..size /\ after[1] = buffer[2]
        BY <2>1, <3>2, <1>0
      <4>2. QED
        BY <4>1, <2>9, <1>0
    <3>3. QED
      BY <3>1, <3>2
  <2>10. ASSUME NEW e \in E \cup {m}
         PROVE  (\E p \in 1..size : after[p].idx = e) \/ (after[1] # Slot /\ Better(sims, after[1].idx, e))
    <3>1. CASE e = m
      <4>1. up + 1 \in 1..size /\ after[up + 1].idx = m
        BY <2>1, <2>2
      <4>2. QED
        BY <3>1, <4>1
    <3>2. ASSUME NEW p \in 2..size, buffer[p].idx = e PROVE \E q \in 1..size : after[q].idx = e
      <4>1. CASE p <= up + 1
        <5>1. p - 1 \in 1..size /\ (p - 1) + 1 = p /\ p - 1 <= up
          BY <2>1, <4>1
        <5>2. after[p - 1] = buffer[p]
          BY <2>1, <5>1
        <5>3. QED
          BY <3>2, <5>1, <5>2
      <4>2. CASE p > up + 1
        BY <2>1, <3>2, <4>2
      <4>3. QED
        BY <2>1, <4>1, <4>2
    <3>3. CASE e \in E /\ buffer[1] # Slot /\ (buffer[1].idx = e \/ Better(sims, buffer[1].idx, e))
      <4>1. after[1] # Slot /\ Better(sims, after[1].idx, buffer[1].idx)
        BY <2>8, <2>9, <3>3
      <4>2. buffer[1].idx \in E /\ after[1].idx \in E \cup {m}
        BY <1>0, <2>6, <3>3, <4>1
      <4>3. Better(sims, after[1].idx, e)
        <5>1. /\ e \in Nat /\ after[1].idx \in Nat /\ buffer[1].idx \in Nat
              /\ sims[e] \in Nat /\ sims[after[1].idx] \in Nat /\ sims[buffer[1].idx] \in Nat
          BY <3>3, <4>2, <1>01
        <5>2. QED
          BY <3>3, <4>1, <5>1 DEF Better
      <4>4. QED
        BY <4>1, <4>3
    <3>4. CASE e \in E /\ buffer[1] = Slot
      <4>1. PICK p \in 1..size : buffer[p].idx = e
        BY <1>0, <3>4
      <4>2. p # 1
        BY <3>4, <4>1, <1>00
      <4>3. QED
        BY <3>2, <4>1, <4>2
    <3>5. CASE e \in E /\ buffer[1] # Slot /\ ~(buffer[1].idx = e \/ Better(sims, buffer[1].idx, e))
      <4>1. PICK p \in 1..size : buffer[p].idx = e
        BY <1>0, <3>5
      <4>2. p # 1
        BY <3>5, <4>1
      <4>3. QED
        BY <3>2, <4>1, <4>2
    <3>6. QED
      BY <3>1, <3>3, <3>4, <3>5
  <2>11. QED
    BY <2>1, <2>6, <2>7, <2>10 DEF Keeps, after
<1>3. QED
  BY <1>1, <1>2

LEMMA TopKKeeps ==
  ASSUME NEW n \in Nat, NEW self \in Nat, NEW size \in Nat \ {0}, NEW sims,
         \A j \in (1..n) \ {self} : sims[j] \in Nat \ {NegInf}
  PROVE  Keeps(TopK(sims, n, self, size), sims, (1..n) \ {self}, size)
<1>1. PICK g : Buffers(g, sims, n, self, size) /\ TopK(sims, n, self, size) = g[n]
  BY TopKBuffers
<1> DEFINE T == {m \in Nat : m <= n => Keeps(g[m], sims, (1..m) \ {self}, size)}
<1>2. 0 \in T
  <2>1. g[0] = [p \in 1..size |-> Slot] /\ (1..0) \ {self} = {}
    BY <1>1 DEF Buffers
  <2>2. QED
    BY <2>1, KeepsNothing
<1>3. ASSUME NEW m \in Nat, m \in T PROVE m + 1 \in T
  <2> SUFFICES ASSUME m + 1 <= n PROVE Keeps(g[m + 1], sims, (1..(m + 1)) \ {self}, size)
    OBVIOUS
  <2> DEFINE E == (1..m) \ {self}
  <2>1. Keeps(g[m], sims, E, size)
    BY <1>3
  <2>2. g[m + 1] = IF m + 1 = self THEN g[m] ELSE InsertTopK(g[m], sims[m + 1], m + 1)
    BY <1>1 DEF Buffers
  <2>3. CASE m + 1 = self
    <3>1. (1..(m + 1)) \ {self} = E
      BY <2>3
    <3>2. QED
      BY <2>1, <2>2, <2>3, <3>1
  <2>4. CASE m + 1 # self
    <3>1. (1..(m + 1)) \ {self} = E \cup {m + 1}
      BY <2>4
    <3>2. \A e \in E \cup {m + 1} : sims[e] \in Nat \ {NegInf}
      BY <3>1
    <3>3. E \in SUBSET (Nat \ {0}) /\ m + 1 \in Nat \ {0} /\ \A e \in E : e < m + 1
      OBVIOUS
    <3> HIDE DEF E
    <3>4. Keeps(InsertTopK(g[m], sims[m + 1], m + 1), sims, E \cup {m + 1}, size)
      BY <2>1, <3>2, <3>3, KeepsBest
    <3>5. QED
      BY <2>2, <2>4, <3>1, <3>4
  <2>5. QED
    BY <2>3, <2>4
<1> HIDE DEF T
<1>4. n \in T
  BY <1>2, <1>3, NatInductionSet
<1>5. QED
  BY <1>1, <1>4 DEF T

-----------------------------------------------------------------------------
(* NaN in the buffer.                                                      *)

AnyEntry == [sim : Int, idx : Nat]

\* A value that is not above any of the other slots replaces the first one: a
\* NaN, or any value where there is no other slot.
LEMMA InsertionInFront ==
  ASSUME NEW size \in Nat \ {0}, NEW buffer \in [1..size -> AnyEntry],
         NEW val \in Int, NEW idx \in Nat, ~AtMost(val, buffer[1].sim),
         \A q \in 2..size : ~Above(val, buffer[q].sim)
  PROVE  InsertTopK(buffer, val, idx) =
           [q \in 1..size |-> IF q = 1 THEN [sim |-> val, idx |-> idx] ELSE buffer[q]]
<1> DEFINE rest == Tail(buffer)
           new == [sim |-> val, idx |-> idx]
           risen == {p \in 0..Len(rest) : \A q \in 1..p : Above(val, rest[q].sim)}
<1>1. buffer \in Seq(AnyEntry) /\ Len(buffer) = size
  OBVIOUS
<1>2. /\ rest \in Seq(AnyEntry) /\ Len(rest) = size - 1
      /\ \A q \in 1..(size - 1) : rest[q] = buffer[q + 1]
  BY <1>1
<1>3. new \in AnyEntry
  BY DEF AnyEntry
<1>4. risen = {0}
  <2>1. 0 \in risen
    BY <1>2
  <2>2. ASSUME NEW p \in risen, p # 0 PROVE FALSE
    <3>1. 1 \in 1..p /\ 2 \in 2..size /\ 1 \in 1..(size - 1)
      BY <1>2, <2>2
    <3>2. Above(val, rest[1].sim) /\ rest[1] = buffer[2]
      BY <1>2, <3>1
    <3>3. QED
      BY <3>1, <3>2
  <2>3. QED
    BY <2>1, <2>2
<1>5. InsertTopK(buffer, val, idx) = InsertAt(rest, Max(risen) + 1, new)
  BY DEF InsertTopK
<1> HIDE DEF risen, rest, new
<1>6. Max(risen) = 0
  <2>1. risen \in SUBSET (0..0) /\ risen # {}
    BY <1>4
  <2>2. Max(risen) \in risen
    BY <2>1, MaxOfBounded
  <2>3. QED
    BY <1>4, <2>2
<1>7. InsertAt(rest, 1, new) = (SubSeq(rest, 1, 0) \o <<new>>) \o SubSeq(rest, 1, size - 1)
  BY <1>2 DEF InsertAt
<1>8. SubSeq(rest, 1, 0) = <<>> /\ SubSeq(rest, 1, size - 1) = rest
  BY <1>2
<1>9. InsertTopK(buffer, val, idx) = <<new>> \o rest
  BY <1>3, <1>5, <1>6, <1>7, <1>8
<1> DEFINE whole == <<new>> \o rest
<1>10. /\ whole \in Seq(AnyEntry) /\ Len(whole) = size
       /\ \A q \in 1..size : whole[q] = IF q = 1 THEN new ELSE rest[q - 1]
  BY <1>2, <1>3
<1> HIDE DEF whole
<1>11. \A q \in 1..size : whole[q] = IF q = 1 THEN new ELSE buffer[q]
  <2> SUFFICES ASSUME NEW q \in 1..size, q # 1 PROVE whole[q] = buffer[q]
    BY <1>10
  <2>1. q - 1 \in 1..(size - 1) /\ (q - 1) + 1 = q
    OBVIOUS
  <2>2. QED
    BY <1>2, <1>10, <2>1
<1>12. whole = [q \in 1..size |-> IF q = 1 THEN new ELSE buffer[q]]
  BY <1>10, <1>11
<1>13. QED
  BY <1>9, <1>12 DEF whole, new

\* A row with nothing but NaN fills the first slot at most.
LEMMA TopKOfNaN ==
  ASSUME NEW n \in Nat, NEW self \in Nat, NEW size \in Nat, size > 1, NEW sims,
         \A j \in (1..n) \ {self} : sims[j] = NaN
  PROVE  /\ DOMAIN TopK(sims, n, self, size) = 1..size
         /\ TopK(sims, n, self, size)[size].idx = NoIndex
<1>1. PICK g : Buffers(g, sims, n, self, size) /\ TopK(sims, n, self, size) = g[n]
  BY TopKBuffers
<1> DEFINE Free(buffer) == buffer \in [1..size -> AnyEntry] /\ \A q \in 2..size : buffer[q] = Slot
           T == {m \in Nat : m <= n => Free(g[m])}
<1>2. Slot \in AnyEntry /\ NaN \in Int
  BY DEF Slot, NegInf, NoIndex, NaN, AnyEntry
<1>3. 0 \in T
  <2>1. g[0] = [p \in 1..size |-> Slot]
    BY <1>1 DEF Buffers
  <2>2. QED
    BY <1>2, <2>1
<1>4. ASSUME NEW m \in Nat, m \in T PROVE m + 1 \in T
  <2> SUFFICES ASSUME m + 1 <= n PROVE Free(g[m + 1])
    OBVIOUS
  <2>1. Free(g[m])
    BY <1>4
  <2>2. g[m + 1] = IF m + 1 = self THEN g[m] ELSE InsertTopK(g[m], sims[m + 1], m + 1)
    BY <1>1 DEF Buffers
  <2>3. CASE m + 1 = self
    BY <2>1, <2>2, <2>3
  <2>4. CASE m + 1 # self
    <3> DEFINE new == [sim |-> NaN, idx |-> m + 1]
    <3>1. sims[m + 1] = NaN
      BY <2>4
    <3>2. /\ size \in Nat \ {0} /\ g[m] \in [1..size -> AnyEntry]
           /\ NaN \in Int /\ m + 1 \in Nat
      BY <1>2, <2>1
    <3> DEFINE buffer == g[m]
    <3>3. InsertTopK(buffer, NaN, m + 1) = [q \in 1..size |-> IF q = 1 THEN new ELSE buffer[q]]
      <4> HIDE DEF buffer
      <4>1. size \in Nat \ {0} /\ buffer \in [1..size -> AnyEntry] /\ NaN \in Int /\ m + 1 \in Nat
        BY <3>2 DEF buffer
      <4>2. ~AtMost(NaN, buffer[1].sim) /\ \A q \in 2..size : ~Above(NaN, buffer[q].sim)
        BY DEF AtMost, Above
      <4>3. QED
        BY ONLY <4>1, <4>2, InsertionInFront
    <3>4. g[m + 1] = [q \in 1..size |-> IF q = 1 THEN new ELSE g[m][q]]
      BY <2>2, <2>4, <3>1, <3>3
    <3>5. new \in AnyEntry
      BY <1>2 DEF AnyEntry
    <3> HIDE DEF new
    <3>6. QED
      BY <2>1, <3>4, <3>5
  <2>5. QED
    BY <2>3, <2>4
<1> HIDE DEF T
<1>5. n \in T
  BY <1>3, <1>4, NatInductionSet
<1>6. Free(g[n])
  BY <1>5 DEF T
<1>7. size \in 2..size /\ g[n][size] = Slot
  BY <1>6
<1>8. QED
  BY <1>1, <1>6, <1>7 DEF Slot

-----------------------------------------------------------------------------
(* The set of rows in the buffer.                                          *)

InBuffer(buffer) == {buffer[p].idx : p \in DOMAIN buffer}

\* C is the best part of E.
Best(sims, C, E) ==
  C \subseteq E /\ \A a \in C : \A e \in E \ C : Better(sims, a, e)

LEMMA SlotsFill ==
  ASSUME NEW size \in Nat \ {0}, NEW E \in SUBSET (Nat \ {0}), IsFiniteSet(E),
         Cardinality(E) >= size, NEW sims, \A e \in E : sims[e] \in Nat,
         NEW buffer, Keeps(buffer, sims, E, size)
  PROVE  \A p \in 1..size : buffer[p] # Slot /\ buffer[p].idx \in E
<1> DEFINE T == 2..size
           f == [p \in T |-> buffer[p].idx]
           R == {f[p] : p \in T}
<1>1. 1 \in 1..size /\ \A p \in T : p \in 1..size /\ 1 < p
  OBVIOUS
<1>2. buffer[1] # Slot
  <2> SUFFICES ASSUME buffer[1] = Slot PROVE FALSE
    OBVIOUS
  <2>1. E \subseteq R
    <3> SUFFICES ASSUME NEW e \in E PROVE e \in R
      OBVIOUS
    <3>1. PICK p \in 1..size : buffer[p].idx = e
      BY DEF Keeps
    <3>2. p # 1
      BY <3>1 DEF Slot, NoIndex
    <3>3. QED
      BY <3>1, <3>2
  <2>2. f \in Surjection(T, R)
    BY DEF Surjection
  <2>3. IsFiniteSet(T) /\ Cardinality(T) = size - 1
    BY FS_Interval
  <2> HIDE DEF f, R, T
  <2>4. IsFiniteSet(R) /\ Cardinality(R) <= Cardinality(T)
    BY <2>2, <2>3, FS_Surjection
  <2>5. Cardinality(E) <= Cardinality(R)
    BY <2>1, <2>4, FS_Subset
  <2>6. Cardinality(E) \in Nat /\ Cardinality(R) \in Nat
    BY <2>4, FS_CardinalityType
  <2>7. QED
    BY <2>3, <2>4, <2>5, <2>6
<1>3. ASSUME NEW p \in 1..size PROVE buffer[p] # Slot
  <2>1. p = 1 \/ 1 < p
    OBVIOUS
  <2>2. QED
    BY <1>1, <1>2, <2>1 DEF Keeps
<1>4. QED
  BY <1>3 DEF Keeps

LEMMA BufferIsBest ==
  ASSUME NEW size \in Nat \ {0}, NEW E \in SUBSET (Nat \ {0}), IsFiniteSet(E),
         Cardinality(E) >= size, NEW sims, \A e \in E : sims[e] \in Nat,
         NEW buffer, Keeps(buffer, sims, E, size)
  PROVE  /\ Best(sims, InBuffer(buffer), E)
         /\ Cardinality(InBuffer(buffer)) = size
<1> DEFINE C == InBuffer(buffer)
           f == [p \in 1..size |-> buffer[p].idx]
<1>1. \A p \in 1..size : buffer[p] # Slot /\ buffer[p].idx \in E
  BY SlotsFill
<1>2. DOMAIN buffer = 1..size
  BY DEF Keeps
<1>3. C \subseteq E
  BY <1>1, <1>2 DEF InBuffer
<1>4. \A p, q \in 1..size : p < q => Better(sims, buffer[q].idx, buffer[p].idx)
  BY <1>1 DEF Keeps
<1>5. ASSUME NEW a \in C, NEW e \in E \ C PROVE Better(sims, a, e)
  <2>1. PICK p \in 1..size : buffer[p].idx = a
    BY <1>2 DEF InBuffer
  <2>2. 1 \in 1..size /\ (p = 1 \/ 1 < p)
    OBVIOUS
  <2>3. Better(sims, buffer[1].idx, e)
    BY <1>2 DEF Keeps, InBuffer
  <2>4. p # 1 => Better(sims, a, buffer[1].idx)
    BY <1>4, <2>1, <2>2
  <2> DEFINE b == buffer[1].idx
  <2>5. b \in Nat /\ a \in Nat /\ e \in Nat /\ sims[a] \in Nat /\ sims[b] \in Nat /\ sims[e] \in Nat
    BY <1>1, <1>3, <2>2
  <2> HIDE DEF b
  <2>6. Better(sims, b, e) /\ (a = b \/ Better(sims, a, b))
    BY <2>1, <2>3, <2>4 DEF b
  <2>7. QED
    BY <2>5, <2>6 DEF Better
<1>6. f \in Bijection(1..size, C)
  <2>1. f \in Surjection(1..size, C)
    BY <1>2 DEF Surjection, InBuffer
  <2>2. ASSUME NEW p \in 1..size, NEW q \in 1..size, f[p] = f[q], p < q PROVE FALSE
    <3>1. Better(sims, f[q], f[p])
      BY <1>4, <2>2
    <3>2. f[p] \in Nat /\ sims[f[p]] \in Nat
      BY <1>1
    <3>3. QED
      BY <2>2, <3>1, <3>2 DEF Better
  <2>3. ASSUME NEW p \in 1..size, NEW q \in 1..size, f[p] = f[q] PROVE p = q
    <3>1. p < q \/ q < p \/ p = q
      OBVIOUS
    <3> HIDE DEF f
    <3>2. QED
      BY <2>2, <2>3, <3>1
  <2>4. QED
    BY <2>1, <2>3 DEF Injection, Surjection, Bijection, IsInjective
<1>7. Cardinality(C) = size
  <2>1. ExistsBijection(1..size, C)
    BY <1>6 DEF ExistsBijection
  <2> HIDE DEF f, C
  <2>2. QED
    BY <2>1, FS_CountingElements
<1>8. QED
  BY <1>3, <1>5, <1>7 DEF Best

-----------------------------------------------------------------------------
(* The candidates of a row.                                                *)

LEMMA MaxOfTwo ==
  ASSUME NEW a \in Int, NEW b \in Int
  PROVE  Max({a, b}) = IF a >= b THEN a ELSE b
<1> DEFINE S == {a, b}
           P(x) == \A y \in S : x >= y
           m == IF a >= b THEN a ELSE b
<1>1. m \in S /\ P(m)
  OBVIOUS
<1>2. \A x \in S : P(x) => x = m
  OBVIOUS
<1>3. Max(S) = CHOOSE x \in S : P(x)
  BY DEF Max
<1> HIDE DEF S, P, m
<1>4. Max(S) = m
  BY <1>1, <1>2, <1>3
<1>5. QED
  BY <1>4 DEF S, m

LEMMA MinOfTwo ==
  ASSUME NEW a \in Int, NEW b \in Int
  PROVE  Min({a, b}) = IF a <= b THEN a ELSE b
<1> DEFINE S == {a, b}
           P(x) == \A y \in S : x <= y
           m == IF a <= b THEN a ELSE b
<1>1. m \in S /\ P(m)
  OBVIOUS
<1>2. \A x \in S : P(x) => x = m
  OBVIOUS
<1>3. Min(S) = CHOOSE x \in S : P(x)
  BY DEF Min
<1> HIDE DEF S, P, m
<1>4. Min(S) = m
  BY <1>1, <1>2, <1>3
<1>5. QED
  BY <1>4 DEF S, m

\* There is a candidate for every neighbour asked for, none too many for the
\* other rows, and no fewer for more neighbours.
LEMMA CandidateCounts ==
  ASSUME NEW n \in Nat, NEW k \in 1..(n - 1)
  PROVE  /\ CandidateCount(n, k) \in k..(n - 1)
         /\ n > 2 => CandidateCount(n, k) > 1
         /\ \A w \in k..(n - 1) : CandidateCount(n, k) <= CandidateCount(n, w)
<1>1. ASSUME NEW j \in 1..(n - 1)
      PROVE  CandidateCount(n, j) = IF 2 * j <= n - 1 THEN 2 * j ELSE n - 1
  <2> DEFINE m == Min({2 * j, n - 1})
  <2>1. m = IF 2 * j <= n - 1 THEN 2 * j ELSE n - 1
    BY MinOfTwo
  <2>2. CandidateCount(n, j) = Max({m, j})
    BY DEF CandidateCount
  <2> HIDE DEF m
  <2>3. m \in Int /\ m >= j
    BY <2>1
  <2>4. Max({m, j}) = m
    BY <2>3, MaxOfTwo
  <2>5. QED
    BY <2>1, <2>2, <2>4
<1>2. CandidateCount(n, k) = IF 2 * k <= n - 1 THEN 2 * k ELSE n - 1
  BY <1>1
<1>3. ASSUME NEW w \in k..(n - 1) PROVE CandidateCount(n, k) <= CandidateCount(n, w)
  <2>1. CandidateCount(n, w) = IF 2 * w <= n - 1 THEN 2 * w ELSE n - 1
    BY <1>1
  <2>2. QED
    BY <1>2, <2>1
<1>4. QED
  BY <1>2, <1>3

\* Finite vectors have positive similarities and distances.
LEMMA FiniteNumbers ==
  ASSUME NEW v, VectorsOK(v), AllFinite(v), NEW r \in Rows(v), NEW j \in Rows(v)
  PROVE  v.sim[r][j] \in Nat \ {NegInf} /\ v.dist[r][j] \in Nat
<1>1. "nonfinite" \notin {v.kind[r], v.kind[j]}
  BY DEF AllFinite
<1>2. QED
  BY <1>1 DEF VectorsOK

LEMMA RowsAreFinite ==
  ASSUME NEW v, v.n \in Nat
  PROVE  IsFiniteSet(Rows(v)) /\ Cardinality(Rows(v)) = v.n
BY FS_Interval DEF Rows

OtherRows(v, r) == Rows(v) \ {r}

LEMMA OthersCount ==
  ASSUME NEW v, v.n \in Nat, NEW r \in Rows(v)
  PROVE  /\ OtherRows(v, r) \in SUBSET (Nat \ {0})
         /\ IsFiniteSet(OtherRows(v, r)) /\ Cardinality(OtherRows(v, r)) = v.n - 1
<1>1. IsFiniteSet(Rows(v)) /\ Cardinality(Rows(v)) = v.n
  BY RowsAreFinite
<1>2. OtherRows(v, r) \in SUBSET (Nat \ {0})
  BY DEF Rows, OtherRows
<1>3. QED
  BY <1>1, <1>2, FS_RemoveElement DEF OtherRows

\* The candidates are the most similar other rows, as many as there should be.
LEMMA CandidatesAreBest ==
  ASSUME NEW v, VectorsOK(v), AllFinite(v), NEW r \in Rows(v), NEW k \in 1..(v.n - 1)
  PROVE  /\ Best(v.sim[r], Candidates(v, r, r, k), OtherRows(v, r))
         /\ Cardinality(Candidates(v, r, r, k)) = CandidateCount(v.n, k)
<1> DEFINE size == CandidateCount(v.n, k)
           E == OtherRows(v, r)
           sims == v.sim[r]
           buffer == TopK(sims, v.n, r, size)
<1>1. v.n \in Nat /\ r \in Nat
  BY DEF VectorsOK, Rows
<1>2. size \in k..(v.n - 1)
  BY <1>1, CandidateCounts
<1>3. size \in Nat \ {0} /\ v.n - 1 >= size
  BY <1>1, <1>2
<1>4. E \in SUBSET (Nat \ {0}) /\ IsFiniteSet(E) /\ Cardinality(E) = v.n - 1
  BY <1>1, OthersCount
<1>5. \A e \in E : sims[e] \in Nat \ {NegInf}
  BY FiniteNumbers DEF OtherRows
<1>6. E = (1..v.n) \ {r}
  BY DEF OtherRows, Rows
<1>7. Candidates(v, r, r, k) = InBuffer(buffer)
  BY DEF Candidates, InBuffer
<1> HIDE DEF size, E, sims
<1>8. Keeps(buffer, sims, E, size)
  BY <1>1, <1>3, <1>5, <1>6, TopKKeeps
<1> HIDE DEF buffer
<1>9. Best(sims, InBuffer(buffer), E) /\ Cardinality(InBuffer(buffer)) = size
  BY <1>3, <1>4, <1>5, <1>8, BufferIsBest
<1>10. QED
  BY <1>7, <1>9 DEF size, E, sims

\* Of two rows the one is the other's candidate, NaN or not: its value is put
\* into the only slot.
LEMMA CandidateOfTwo ==
  ASSUME NEW v, VectorsOK(v), v.n = 2, NEW r \in Rows(v)
  PROVE  Candidates(v, r, r, 1) = OtherRows(v, r)
<1> DEFINE o == 3 - r
           sims == v.sim[r]
           S == TopK(sims, 2, r, 1)
<1>1. r \in {1, 2} /\ o \in {1, 2} /\ o # r /\ OtherRows(v, r) = {o} /\ 1 \in 1..2 /\ 2 \in 1..2
  BY DEF Rows, OtherRows
<1>2. sims[o] \in Int /\ ~AtMost(sims[o], NegInf)
  <2>1. o \in Rows(v)
    BY <1>1 DEF Rows
  <2>2. sims[o] = NaN \/ sims[o] \in Nat \ {NegInf}
    BY <2>1 DEF VectorsOK
  <2> HIDE DEF sims, o
  <2>3. QED
    BY <2>2 DEF AtMost, NaN, NegInf
<1>3. CandidateCount(2, 1) = 1
  <2>1. CandidateCount(2, 1) \in 1..1
    BY CandidateCounts
  <2>2. QED
    BY <2>1
<1>4. PICK g : Buffers(g, sims, 2, r, 1) /\ S = g[2]
  BY <1>1, TopKBuffers
<1> DEFINE empty == [p \in 1..1 |-> Slot]
           full == [p \in 1..1 |-> [sim |-> sims[o], idx |-> o]]
<1>5. InsertTopK(empty, sims[o], o) = full
  <2>1. empty \in [1..1 -> AnyEntry] /\ empty[1].sim = NegInf
    BY DEF Slot, AnyEntry, NegInf, NoIndex
  <2>2. \A q \in 2..1 : ~Above(sims[o], empty[q].sim)
    OBVIOUS
  <2>3. o \in Nat
    BY <1>1
  <2> DEFINE val == sims[o]
             new == [q \in 1..1 |-> IF q = 1 THEN [sim |-> val, idx |-> o] ELSE empty[q]]
  <2>4. InsertTopK(empty, val, o) = new
    <3> DEFINE one == 1
    <3>1. /\ one \in Nat \ {0} /\ val \in Int /\ o \in Nat
          /\ empty \in [1..one -> AnyEntry]
          /\ ~AtMost(val, empty[1].sim) /\ \A q \in 2..one : ~Above(val, empty[q].sim)
      BY <1>2, <2>1, <2>2, <2>3
    <3> HIDE DEF one, val, o, empty
    <3>2. InsertTopK(empty, val, o) =
            [q \in 1..one |-> IF q = 1 THEN [sim |-> val, idx |-> o] ELSE empty[q]]
      BY ONLY <3>1, InsertionInFront
    <3>3. QED
      BY <3>2 DEF one
  <2>5. new = full
    OBVIOUS
  <2>6. QED
    BY <2>4, <2>5
<1>6. /\ g[0] = empty
      /\ g[1] = IF 1 = r THEN g[0] ELSE InsertTopK(g[0], sims[1], 1)
      /\ g[2] = IF 2 = r THEN g[1] ELSE InsertTopK(g[1], sims[2], 2)
  <2>1. 0 \in 0..2 /\ 1 \in 0..2 /\ 2 \in 0..2 /\ 1 - 1 = 0 /\ 2 - 1 = 1
    OBVIOUS
  <2>2. QED
    BY <1>4, <2>1 DEF Buffers
<1>7. g[2] = full
  <2>1. CASE r = 1
    BY <1>5, <1>6, <2>1
  <2>2. CASE r = 2
    BY <1>5, <1>6, <2>2
  <2>3. QED
    BY <1>1, <2>1, <2>2
<1>8. {full[p].idx : p \in DOMAIN full} = {o}
  OBVIOUS
<1>9. Candidates(v, r, r, 1) = {S[p].idx : p \in DOMAIN S}
  BY <1>3 DEF Candidates
<1>10. QED
  BY <1>1, <1>4, <1>7, <1>8, <1>9

-----------------------------------------------------------------------------
(* Ranking. An order is the set of the pairs whose first comes before.     *)

TotalOrder(L, S) ==
  /\ \A a \in S : <<a, a>> \notin L
  /\ \A a, b, c \in S : <<a, b>> \in L /\ <<b, c>> \in L => <<a, c>> \in L
  /\ \A a, b \in S : a # b => <<a, b>> \in L \/ <<b, a>> \in L

Before(L, S, j) == {m \in S : <<m, j>> \in L}
RankIn(L, S, j) == Cardinality(Before(L, S, j))
RankTaken(L, S, rank) == \E j \in S : RankIn(L, S, j) = rank

LEMMA RanksRise ==
  ASSUME NEW S, IsFiniteSet(S), NEW L, TotalOrder(L, S)
  PROVE  /\ \A a \in S : RankIn(L, S, a) \in 0..(Cardinality(S) - 1)
         /\ \A a, b \in S : <<a, b>> \in L => RankIn(L, S, a) < RankIn(L, S, b)
<1>1. \A j : Before(L, S, j) \in SUBSET S
  BY DEF Before
<1>2. \A j : IsFiniteSet(Before(L, S, j)) /\ RankIn(L, S, j) \in Nat
  BY <1>1, FS_Subset, FS_CardinalityType DEF RankIn
<1>3. Cardinality(S) \in Nat
  BY FS_CardinalityType
<1>4. ASSUME NEW a \in S PROVE RankIn(L, S, a) \in 0..(Cardinality(S) - 1)
  <2>1. Before(L, S, a) # S
    BY DEF Before, TotalOrder
  <2>2. RankIn(L, S, a) <= Cardinality(S) /\ RankIn(L, S, a) # Cardinality(S)
    BY <1>1, <2>1, FS_Subset DEF RankIn
  <2>3. QED
    BY <1>2, <1>3, <2>2
<1>5. ASSUME NEW a \in S, NEW b \in S, <<a, b>> \in L
      PROVE  RankIn(L, S, a) < RankIn(L, S, b)
  <2>1. Before(L, S, a) \in SUBSET Before(L, S, b)
    BY <1>5 DEF Before, TotalOrder
  <2>2. a \in Before(L, S, b) /\ a \notin Before(L, S, a)
    BY <1>5 DEF Before, TotalOrder
  <2>3. RankIn(L, S, a) <= RankIn(L, S, b) /\ RankIn(L, S, a) # RankIn(L, S, b)
    BY <1>2, <2>1, <2>2, FS_Subset DEF RankIn
  <2>4. QED
    BY <1>2, <2>3
<1>6. QED
  BY <1>4, <1>5

\* Every rank is one member's.
LEMMA RanksAreTaken ==
  ASSUME NEW S, IsFiniteSet(S), NEW L, TotalOrder(L, S), NEW p \in 1..Cardinality(S)
  PROVE  /\ RankTaken(L, S, p - 1)
         /\ \A i, j \in S : RankIn(L, S, i) = RankIn(L, S, j) => i = j
<1> DEFINE n == Cardinality(S)
           f == [j \in S |-> RankIn(L, S, j)]
           T == 0..(n - 1)
<1>1. n \in Nat
  BY FS_CardinalityType
<1>2. \A a \in S : RankIn(L, S, a) \in T
  BY RanksRise
<1>3. ASSUME NEW i \in S, NEW j \in S, RankIn(L, S, i) = RankIn(L, S, j) PROVE i = j
  <2>1. ~(RankIn(L, S, i) < RankIn(L, S, j)) /\ ~(RankIn(L, S, j) < RankIn(L, S, i))
    BY <1>2, <1>3
  <2>2. <<i, j>> \notin L /\ <<j, i>> \notin L
    BY <2>1, RanksRise
  <2>3. QED
    BY <2>2 DEF TotalOrder
<1>4. f \in Injection(S, T)
  BY <1>2, <1>3 DEF Injection, IsInjective
<1>5. IsFiniteSet(T) /\ Cardinality(T) = n
  <2>1. n - 1 \in Int /\ n - 1 - 0 + 1 = n /\ (0 > n - 1 => n = 0)
    BY <1>1
  <2>2. QED
    BY <1>1, <2>1, FS_Interval
<1> HIDE DEF f, T
<1>6. f \in Surjection(S, T)
  BY <1>4, <1>5, FS_Injection
<1>7. p - 1 \in T
  BY <1>1 DEF T
<1>8. \E j \in S : f[j] = p - 1
  BY <1>6, <1>7 DEF Surjection
<1>9. QED
  BY <1>3, <1>8 DEF f, RankTaken

\* A part that comes before all the rest ranks its members as the whole does.
LEMMA RanksOfPart ==
  ASSUME NEW S, NEW C \in SUBSET S, NEW L, TotalOrder(L, S),
         \A a \in C : \A e \in S \ C : <<a, e>> \in L, NEW j \in C
  PROVE  Before(L, C, j) = Before(L, S, j)
BY DEF Before, TotalOrder

\* The members of S from the first to the last.
InOrder(s, L, S) ==
  /\ s \in [1..Cardinality(S) -> S]
  /\ \A p \in 1..Cardinality(S) : RankIn(L, S, s[p]) = p - 1

LEMMA OrderedPart ==
  ASSUME NEW S, IsFiniteSet(S), NEW C \in SUBSET S, NEW L, TotalOrder(L, S),
         \A a \in C : \A e \in S \ C : <<a, e>> \in L,
         NEW s, InOrder(s, L, S), NEW t, InOrder(t, L, C), NEW p \in 1..Cardinality(C)
  PROVE  p \in 1..Cardinality(S) /\ t[p] = s[p]
<1>1. IsFiniteSet(C) /\ Cardinality(C) <= Cardinality(S)
      /\ Cardinality(C) \in Nat /\ Cardinality(S) \in Nat
  BY FS_Subset, FS_CardinalityType
<1>2. p \in 1..Cardinality(S)
  BY <1>1
<1>3. t[p] \in C /\ RankIn(L, C, t[p]) = p - 1
  BY DEF InOrder
<1>4. RankIn(L, S, t[p]) = p - 1
  BY <1>3, RanksOfPart DEF RankIn
<1>5. s[p] \in S /\ RankIn(L, S, s[p]) = p - 1
  BY <1>2 DEF InOrder
<1>6. t[p] = s[p]
  BY <1>2, <1>3, <1>4, <1>5, RanksAreTaken
<1>7. QED
  BY <1>2, <1>6

\* In order, every member comes at one position and positions follow the order.
LEMMA OrderedDistinct ==
  ASSUME NEW S, IsFiniteSet(S), NEW L, TotalOrder(L, S), NEW s, InOrder(s, L, S),
         NEW p \in 1..Cardinality(S), NEW q \in 1..Cardinality(S), p < q
  PROVE  <<s[p], s[q]>> \in L
<1>1. /\ s[p] \in S /\ RankIn(L, S, s[p]) = p - 1
      /\ s[q] \in S /\ RankIn(L, S, s[q]) = q - 1
  BY DEF InOrder
<1>2. ~(RankIn(L, S, s[q]) < RankIn(L, S, s[p])) /\ s[p] # s[q]
  <2>1. Cardinality(S) \in Nat
    BY FS_CardinalityType
  <2>2. p \in Int /\ q \in Int
    OBVIOUS
  <2>3. QED
    BY <1>1, <2>2
<1>3. QED
  BY <1>1, <1>2, RanksRise DEF TotalOrder

-----------------------------------------------------------------------------
(* The neighbours of a row.                                                *)

ByDistance(v, r, S) == {ab \in S \X S : Closer(v, r, ab[1], ab[2])}

LEMMA DistancesOrder ==
  ASSUME NEW v, NEW r, NEW S \in SUBSET Int, \A j \in S : v.dist[r][j] \in Int
  PROVE  TotalOrder(ByDistance(v, r, S), S)
<1> DEFINE L == ByDistance(v, r, S)
<1>0. \A a, b \in S : <<a, b>> \in L <=> Closer(v, r, a, b)
  BY DEF ByDistance
<1>1. ASSUME NEW a \in S PROVE ~Closer(v, r, a, a)
  <2>1. a \in Int /\ v.dist[r][a] \in Int
    OBVIOUS
  <2>2. QED
    BY <2>1 DEF Closer
<1>2. ASSUME NEW a \in S, NEW b \in S, NEW c \in S, Closer(v, r, a, b), Closer(v, r, b, c)
      PROVE  Closer(v, r, a, c)
  BY <1>2 DEF Closer
<1>3. ASSUME NEW a \in S, NEW b \in S, a # b
      PROVE  Closer(v, r, a, b) \/ Closer(v, r, b, a)
  <2>1. a \in Int /\ b \in Int /\ v.dist[r][a] \in Int /\ v.dist[r][b] \in Int
    OBVIOUS
  <2>2. QED
    BY <1>3, <2>1 DEF Closer
<1> HIDE DEF L
<1>4. QED
  BY <1>0, <1>1, <1>2, <1>3 DEF TotalOrder, L

LEMMA RankedInOrder ==
  ASSUME NEW v, NEW r, NEW T \in SUBSET Int, \A j \in T : v.dist[r][j] \in Int,
         NEW S \in SUBSET T, IsFiniteSet(S)
  PROVE  InOrder(Ranked(v, r, S), ByDistance(v, r, T), S)
<1> DEFINE L == ByDistance(v, r, T)
<1>1. TotalOrder(L, S)
  <2>1. TotalOrder(L, T)
    BY DistancesOrder
  <2>2. QED
    BY <2>1 DEF TotalOrder
<1>2. \A j \in S : RankIn(L, S, j) = Cardinality({m \in S : Closer(v, r, m, j)})
  <2> SUFFICES ASSUME NEW j \in S
               PROVE  Before(L, S, j) = {m \in S : Closer(v, r, m, j)}
    BY DEF RankIn
  <2>1. QED
    BY DEF Before, ByDistance
<1> HIDE DEF L
<1>3. ASSUME NEW p \in 1..Cardinality(S)
      PROVE  Ranked(v, r, S)[p] \in S /\ RankIn(L, S, Ranked(v, r, S)[p]) = p - 1
  <2>1. Ranked(v, r, S)[p] =
          CHOOSE j \in S : Cardinality({m \in S : Closer(v, r, m, j)}) = p - 1
    BY DEF Ranked
  <2>2. \E j \in S : RankIn(L, S, j) = p - 1
    <3>1. RankTaken(L, S, p - 1)
      BY <1>1, RanksAreTaken
    <3>2. QED
      BY <3>1 DEF RankTaken
  <2>3. \E j \in S : Cardinality({m \in S : Closer(v, r, m, j)}) = p - 1
    BY <1>2, <2>2
  <2>4. Ranked(v, r, S)[p] \in S
        /\ Cardinality({m \in S : Closer(v, r, m, Ranked(v, r, S)[p])}) = p - 1
    BY <2>1, <2>3
  <2>5. QED
    BY <1>2, <2>4
<1>4. Ranked(v, r, S) \in [1..Cardinality(S) -> S]
  <2> DEFINE At(p) == CHOOSE j \in S : Cardinality({m \in S : Closer(v, r, m, j)}) = p - 1
             s == [p \in 1..Cardinality(S) |-> At(p)]
  <2>1. Ranked(v, r, S) = s
    BY DEF Ranked
  <2>2. \A p \in 1..Cardinality(S) : s[p] \in S
    BY <1>3, <2>1
  <2> HIDE DEF At
  <2>3. s \in [1..Cardinality(S) -> S]
    BY <2>2
  <2>4. QED
    BY <2>1, <2>3
<1>5. QED
  BY <1>3, <1>4 DEF InOrder, L

-----------------------------------------------------------------------------
(* The lists a search returns.                                             *)

\* Block arithmetic: the row a block recomputes from its own number and the
\* offset within it is the row the result is written to.
LEMMA GlobalRowIsRow ==
  ASSUME NEW r \in Nat \ {0}, NEW b \in Nat \ {0}
  PROVE  GlobalRow(r, b) = r
<1>1. r - 1 = b * ((r - 1) \div b) + ((r - 1) % b)
  OBVIOUS
<1>2. QED
  BY <1>1 DEF GlobalRow

(***************************************************************************)
(* "Results do not depend on it": a search returns the same neighbours for *)
(* every batch_size (knn.rs blocked_topk_cosine, documented for every      *)
(* compute_* method of the bindings).                                      *)
(***************************************************************************)
THEOREM BatchIndependence ==
  ASSUME NEW v, v.n \in Nat, NEW k, NEW b \in Nat \ {0}
  PROVE  Search(v, k, b) = Search(v, k, 1)
<1>1. \A r \in Rows(v) : GlobalRow(r, b) = r /\ GlobalRow(r, 1) = r
  BY GlobalRowIsRow DEF Rows
<1>2. QED
  BY <1>1 DEF Search

LEMMA DistancesAreNumbers ==
  ASSUME NEW v, VectorsOK(v), NEW r \in Rows(v), NEW j \in Rows(v)
  PROVE  v.dist[r][j] \in Int
BY DEF VectorsOK, NaN

\* Enough candidates, all of them other rows.
LEMMA CandidatesSuffice ==
  ASSUME NEW v, VectorsOK(v), Searchable(v), NEW r \in Rows(v), NEW k \in 1..(v.n - 1)
  PROVE  /\ Candidates(v, r, r, k) \in SUBSET OtherRows(v, r)
         /\ IsFiniteSet(Candidates(v, r, r, k))
         /\ k <= Cardinality(Candidates(v, r, r, k)) /\ Cardinality(Candidates(v, r, r, k)) \in Nat
<1> DEFINE C == Candidates(v, r, r, k)
<1>1. v.n \in Nat /\ IsFiniteSet(OtherRows(v, r)) /\ Cardinality(OtherRows(v, r)) = v.n - 1
  BY OthersCount DEF VectorsOK
<1>2. CASE AllFinite(v)
  <2>1. C \subseteq OtherRows(v, r) /\ Cardinality(C) = CandidateCount(v.n, k)
    BY <1>2, CandidatesAreBest DEF Best
  <2>2. CandidateCount(v.n, k) \in k..(v.n - 1)
    BY <1>1, CandidateCounts
  <2> HIDE DEF C
  <2>3. IsFiniteSet(C)
    BY <1>1, <2>1, FS_Subset
  <2>4. k <= Cardinality(C) /\ Cardinality(C) \in Nat
    BY <2>1, <2>2
  <2>5. QED
    BY <2>1, <2>3, <2>4 DEF C
<1>3. CASE ~AllFinite(v)
  <2>1. v.n = 2 /\ k = 1
    BY <1>3 DEF Searchable
  <2>2. C = OtherRows(v, r)
    BY <2>1, CandidateOfTwo
  <2>3. QED
    BY <1>1, <2>1, <2>2
<1>4. QED
  BY <1>2, <1>3

\* Row r's list: its candidates from the closest on, as far as position k.
LEMMA SearchList ==
  ASSUME NEW v, VectorsOK(v), Searchable(v), NEW r \in Rows(v), NEW k \in 1..(v.n - 1)
  PROVE  /\ InOrder(Ranked(v, r, Candidates(v, r, r, k)), ByDistance(v, r, OtherRows(v, r)),
                    Candidates(v, r, r, k))
         /\ TotalOrder(ByDistance(v, r, OtherRows(v, r)), OtherRows(v, r))
         /\ DOMAIN Search(v, k, 1)[r] = 1..k
         /\ \A c \in 1..k : Search(v, k, 1)[r][c] = Ranked(v, r, Candidates(v, r, r, k))[c]
<1> DEFINE C == Candidates(v, r, r, k)
           E == OtherRows(v, r)
           s == Ranked(v, r, C)
<1>1. v.n \in Nat /\ r \in Nat \ {0}
  BY DEF VectorsOK, Rows
<1>2. E \in SUBSET Int /\ \A j \in E : v.dist[r][j] \in Int
  BY DistancesAreNumbers DEF OtherRows, Rows
<1>3. C \in SUBSET E /\ IsFiniteSet(C)
  BY CandidatesSuffice
<1>4. Search(v, k, 1)[r] = SubSeq(s, 1, k)
  BY <1>1, GlobalRowIsRow DEF Search
<1> HIDE DEF C, E
<1>5. InOrder(s, ByDistance(v, r, E), C)
  BY <1>2, <1>3, RankedInOrder
<1>6. TotalOrder(ByDistance(v, r, E), E)
  BY <1>2, DistancesOrder
<1> HIDE DEF s
<1>7. DOMAIN SubSeq(s, 1, k) = 1..k /\ \A c \in 1..k : SubSeq(s, 1, k)[c] = s[c]
  <2>1. k \in Nat /\ SubSeq(s, 1, k) = [c \in 1..((1 + k) - 1) |-> s[(c + 1) - 1]]
    OBVIOUS
  <2>2. (1 + k) - 1 = k /\ \A c \in 1..k : (c + 1) - 1 = c
    BY <2>1
  <2>3. QED
    BY <2>1, <2>2
<1>8. QED
  BY <1>4, <1>5, <1>6, <1>7 DEF C, E, s

\* A list names other rows, each once.
LEMMA ListsAreDistinct ==
  ASSUME NEW v, VectorsOK(v), Searchable(v), NEW r \in Rows(v), NEW k \in 1..(v.n - 1)
  PROVE  /\ Search(v, k, 1)[r] \in [1..k -> OtherRows(v, r)]
         /\ \A c, d \in 1..k : Search(v, k, 1)[r][c] = Search(v, k, 1)[r][d] => c = d
<1> DEFINE C == Candidates(v, r, r, k)
           L == ByDistance(v, r, OtherRows(v, r))
           s == Ranked(v, r, C)
           list == Search(v, k, 1)[r]
<1>1. C \in SUBSET OtherRows(v, r) /\ IsFiniteSet(C) /\ k <= Cardinality(C) /\ Cardinality(C) \in Nat
  BY CandidatesSuffice
<1>2. /\ InOrder(s, L, C) /\ TotalOrder(L, OtherRows(v, r))
      /\ DOMAIN list = 1..k /\ \A c \in 1..k : list[c] = s[c]
  BY SearchList
<1>3. TotalOrder(L, C)
  BY <1>1, <1>2 DEF TotalOrder
<1>4. list = [c \in 1..k |-> list[c]]
  BY <1>2 DEF Search
<1> HIDE DEF C, L, s, list
<1>5. \A c \in 1..k : c \in 1..Cardinality(C)
  BY <1>1
<1>6. \A c \in 1..k : list[c] \in C
  BY <1>2, <1>5 DEF InOrder
<1>7. list \in [1..k -> OtherRows(v, r)]
  BY <1>1, <1>4, <1>6
<1>8. ASSUME NEW c \in 1..k, NEW d \in 1..k, list[c] = list[d], c < d PROVE FALSE
  <2>1. <<s[c], s[d]>> \in L
    BY <1>1, <1>2, <1>3, <1>5, <1>8, OrderedDistinct
  <2>2. s[c] = s[d] /\ s[c] \in C
    BY <1>2, <1>6, <1>8
  <2>3. QED
    BY <1>3, <2>1, <2>2 DEF TotalOrder
<1>9. ASSUME NEW c \in 1..k, NEW d \in 1..k, list[c] = list[d] PROVE c = d
  <2>1. c < d \/ d < c \/ c = d
    OBVIOUS
  <2>2. QED
    BY <1>8, <1>9, <2>1
<1>10. QED
  BY <1>7, <1>9 DEF list

-----------------------------------------------------------------------------
(***************************************************************************)
(* The index arithmetic of the search is safe exactly where it can be      *)
(* searched: a search for 1..n-1 neighbours runs into an index no row has  *)
(* if three or more vectors are not all finite, and in no other case.      *)
(***************************************************************************)
THEOREM PanicsWhereNotSearchable ==
  ASSUME NEW v, VectorsOK(v), NEW k \in 1..(v.n - 1)
  PROVE  SearchPanics(v, k) <=> ~Searchable(v)
<1>0. v.n \in Nat /\ k # 0
  BY DEF VectorsOK
<1>1. ASSUME Searchable(v), NEW r \in Rows(v) PROVE NoIndex \notin Candidates(v, r, r, k)
  <2>1. Candidates(v, r, r, k) \subseteq OtherRows(v, r)
    BY <1>1, CandidatesSuffice
  <2>2. NoIndex \notin OtherRows(v, r)
    BY DEF OtherRows, Rows, NoIndex
  <2>3. QED
    BY <2>1, <2>2
<1>2. ASSUME ~Searchable(v) PROVE \E r \in Rows(v) : NoIndex \in Candidates(v, r, r, k)
  <2>1. PICK r \in Rows(v) : v.kind[r] = "nonfinite"
    BY <1>2 DEF Searchable, AllFinite
  <2> DEFINE size == CandidateCount(v.n, k)
             sims == v.sim[r]
             buffer == TopK(sims, v.n, r, size)
  <2>2. v.n > 2
    <3>1. v.n # 2 /\ k \in 1..(v.n - 1)
      BY <1>2 DEF Searchable
    <3>2. QED
      BY <1>0, <3>1
  <2>3. size \in Nat /\ size > 1
    BY <1>0, <2>2, CandidateCounts
  <2>4. \A j \in (1..v.n) \ {r} : sims[j] = NaN
    BY <2>1 DEF VectorsOK, Rows
  <2>5. r \in Nat
    BY DEF Rows
  <2>6. Candidates(v, r, r, k) = InBuffer(buffer)
    BY DEF Candidates, InBuffer
  <2> HIDE DEF size, sims
  <2>7. DOMAIN buffer = 1..size /\ buffer[size].idx = NoIndex
    BY <1>0, <2>3, <2>4, <2>5, TopKOfNaN
  <2>8. NoIndex \in InBuffer(buffer)
    BY <2>3, <2>7 DEF InBuffer
  <2>9. QED
    BY <2>6, <2>8
<1>3. QED
  BY <1>0, <1>1, <1>2 DEF SearchPanics

(***************************************************************************)
(* knn.rs promises an exact search. Where the similarities order the rows  *)
(* as the distances do, every list holds the true nearest neighbours,      *)
(* although only the most similar rows were ranked by distance.            *)
(***************************************************************************)
THEOREM SearchExact ==
  ASSUME NEW v, VectorsOK(v), Searchable(v), OrderFaithful(v), NEW k \in 1..(v.n - 1)
  PROVE  Search(v, k, 1) = TrueNeighbours(v, k)
<1> SUFFICES ASSUME NEW r \in Rows(v)
             PROVE  Search(v, k, 1)[r] = TrueNeighbours(v, k)[r]
  <2>1. Search(v, k, 1) = [r \in Rows(v) |-> Search(v, k, 1)[r]]
    BY DEF Search
  <2>2. TrueNeighbours(v, k) = [r \in Rows(v) |-> TrueNeighbours(v, k)[r]]
    BY DEF TrueNeighbours
  <2> DEFINE s == Search(v, k, 1)
             t == TrueNeighbours(v, k)
  <2> HIDE DEF s, t
  <2>3. s = [r \in Rows(v) |-> s[r]] /\ t = [r \in Rows(v) |-> t[r]]
    BY <2>1, <2>2 DEF s, t
  <2>4. \A r \in Rows(v) : s[r] = t[r]
    BY DEF s, t
  <2>5. s = t
    BY <2>3, <2>4
  <2>6. QED
    BY <2>5 DEF s, t
<1> DEFINE C == Candidates(v, r, r, k)
           E == OtherRows(v, r)
           L == ByDistance(v, r, E)
           s == Ranked(v, r, E)
           t == Ranked(v, r, C)
<1>1. v.n \in Nat /\ IsFiniteSet(E) /\ Cardinality(E) = v.n - 1
  BY OthersCount DEF VectorsOK
<1>2. C \in SUBSET E /\ IsFiniteSet(C) /\ k <= Cardinality(C) /\ Cardinality(C) \in Nat
  BY CandidatesSuffice
<1>3. InOrder(t, L, C) /\ TotalOrder(L, E)
      /\ DOMAIN Search(v, k, 1)[r] = 1..k /\ \A c \in 1..k : Search(v, k, 1)[r][c] = t[c]
  BY SearchList
<1>4. InOrder(s, L, E)
  <2>1. E \in SUBSET Int /\ \A j \in E : v.dist[r][j] \in Int
    BY DistancesAreNumbers DEF OtherRows, Rows
  <2> HIDE DEF E
  <2>2. QED
    BY <1>1, <2>1, RankedInOrder
<1>5. ASSUME NEW a \in C, NEW e \in E \ C PROVE <<a, e>> \in L
  <2>1. a \in E /\ a \in Nat /\ e \in Nat /\ a \in Rows(v) /\ e \in Rows(v)
    BY <1>2 DEF OtherRows, Rows
  <2>2. CASE AllFinite(v)
    <3>1. Better(v.sim[r], a, e)
      BY <2>2, CandidatesAreBest DEF Best
    <3>2. /\ v.sim[r][a] \in Nat /\ v.sim[r][e] \in Nat
          /\ v.dist[r][a] \in Nat /\ v.dist[r][e] \in Nat
      BY <2>1, <2>2, FiniteNumbers
    <3>3. /\ v.dist[r][a] < v.dist[r][e] <=> v.sim[r][a] > v.sim[r][e]
          /\ v.dist[r][e] < v.dist[r][a] <=> v.sim[r][e] > v.sim[r][a]
      BY <2>1 DEF OrderFaithful, OtherRows
    <3>4. Closer(v, r, a, e)
      BY <2>1, <3>1, <3>2, <3>3 DEF Better, Closer
    <3>5. QED
      BY <2>1, <3>4 DEF ByDistance
  <2>3. CASE ~AllFinite(v)
    <3>1. v.n = 2 /\ k = 1
      BY <2>3 DEF Searchable
    <3>2. C = E
      BY <3>1, CandidateOfTwo
    <3>3. QED
      BY <3>2
  <2>4. QED
    BY <2>2, <2>3
<1>6. TrueNeighbours(v, k)[r] = SubSeq(s, 1, k)
  BY DEF TrueNeighbours, OtherRows
<1> DEFINE found == Search(v, k, 1)[r]
<1>7. found = [c \in 1..k |-> found[c]]
  BY <1>3 DEF Search
<1>8. SubSeq(s, 1, k) = [c \in 1..k |-> s[c]]
  <2> HIDE DEF s
  <2>1. k \in Nat /\ SubSeq(s, 1, k) = [c \in 1..((1 + k) - 1) |-> s[(c + 1) - 1]]
    OBVIOUS
  <2>2. (1 + k) - 1 = k /\ \A c \in 1..k : (c + 1) - 1 = c
    BY <2>1
  <2>3. QED
    BY <2>1, <2>2
<1> HIDE DEF C, E, L, s, t, found
<1>9. ASSUME NEW c \in 1..k PROVE t[c] = s[c]
  <2>1. c \in 1..Cardinality(C)
    BY <1>2
  <2>2. QED
    BY <1>1, <1>2, <1>3, <1>4, <1>5, <2>1, OrderedPart
<1>10. \A c \in 1..k : found[c] = s[c]
  BY <1>3, <1>9 DEF found
<1>11. found = SubSeq(s, 1, k)
  BY <1>7, <1>8, <1>10
<1>12. QED
  BY <1>6, <1>11 DEF found

\* More candidates are the same ones and others.
LEMMA BestGrows ==
  ASSUME NEW E, IsFiniteSet(E), NEW sims, \A e \in E : e \in Nat /\ sims[e] \in Nat,
         NEW C, Best(sims, C, E), NEW D, Best(sims, D, E), Cardinality(C) <= Cardinality(D)
  PROVE  C \subseteq D
<1> SUFFICES ASSUME NEW a \in C, a \notin D PROVE FALSE
  OBVIOUS
<1>1. C \in SUBSET E /\ D \in SUBSET E /\ IsFiniteSet(C) /\ IsFiniteSet(D)
  BY FS_Subset DEF Best
<1>2. \E b \in D : b \notin C
  <2> SUFFICES ASSUME D \in SUBSET C PROVE FALSE
    OBVIOUS
  <2>1. Cardinality(D) <= Cardinality(C) /\ (Cardinality(C) = Cardinality(D) => C = D)
    BY <1>1, FS_Subset
  <2>2. Cardinality(D) \in Nat /\ Cardinality(C) \in Nat
    BY <1>1, FS_CardinalityType
  <2>3. QED
    BY <2>1, <2>2
<1>3. PICK b \in D : b \notin C
  BY <1>2
<1>4. Better(sims, a, b) /\ Better(sims, b, a)
  BY <1>1, <1>3 DEF Best
<1>5. a \in Nat /\ b \in Nat /\ sims[a] \in Nat /\ sims[b] \in Nat
  BY <1>1, <1>3
<1>6. QED
  BY <1>4, <1>5 DEF Better

(***************************************************************************)
(* Serving a small k from a wide search is never worse than searching for  *)
(* it: every neighbour is at most as far, whatever the f32 similarities    *)
(* left out of either set of candidates.                                   *)
(***************************************************************************)
THEOREM WiderNoFarther ==
  ASSUME NEW v, VectorsOK(v), Searchable(v), NEW k \in 1..(v.n - 1), NEW w \in k..(v.n - 1),
         NEW r \in Rows(v), NEW c \in 1..k
  PROVE  v.dist[r][Search(v, w, 1)[r][c]] <= v.dist[r][Search(v, k, 1)[r][c]]
<1> DEFINE E == OtherRows(v, r)
           L == ByDistance(v, r, E)
           C == Candidates(v, r, r, k)
           D == Candidates(v, r, r, w)
           s == Ranked(v, r, C)
           t == Ranked(v, r, D)
           x == s[c]
           y == t[c]
<1>0. v.n \in Nat /\ w \in 1..(v.n - 1) /\ c \in 1..w
  BY DEF VectorsOK
<1>1. /\ E \in SUBSET Nat /\ IsFiniteSet(E) /\ Cardinality(E) = v.n - 1
      /\ \A j \in E : v.dist[r][j] \in Int
  <2>1. E \in SUBSET (Nat \ {0}) /\ IsFiniteSet(E) /\ Cardinality(E) = v.n - 1
    BY <1>0, OthersCount
  <2>2. QED
    BY <2>1, DistancesAreNumbers DEF OtherRows
<1>2. /\ C \in SUBSET E /\ IsFiniteSet(C) /\ k <= Cardinality(C) /\ Cardinality(C) \in Nat
      /\ D \in SUBSET E /\ IsFiniteSet(D) /\ w <= Cardinality(D) /\ Cardinality(D) \in Nat
  BY <1>0, CandidatesSuffice
<1>3. /\ InOrder(s, L, C) /\ InOrder(t, L, D) /\ TotalOrder(L, E)
      /\ Search(v, k, 1)[r][c] = x /\ Search(v, w, 1)[r][c] = y
  BY <1>0, SearchList
<1>4. C \subseteq D
  <2>1. CASE AllFinite(v)
    <3>1. /\ Best(v.sim[r], C, E) /\ Cardinality(C) = CandidateCount(v.n, k)
          /\ Best(v.sim[r], D, E) /\ Cardinality(D) = CandidateCount(v.n, w)
      BY <1>0, <2>1, CandidatesAreBest
    <3>2. CandidateCount(v.n, k) <= CandidateCount(v.n, w)
      BY <1>0, CandidateCounts
    <3>3. \A e \in E : e \in Nat /\ v.sim[r][e] \in Nat
      BY <1>1, <2>1, FiniteNumbers DEF OtherRows
    <3> HIDE DEF C, D, E
    <3>4. Cardinality(C) <= Cardinality(D)
      BY <3>1, <3>2
    <3>5. IsFiniteSet(E)
      BY <1>1
    <3>6. QED
      BY <3>1, <3>3, <3>4, <3>5, BestGrows
  <2>2. CASE ~AllFinite(v)
    <3>1. v.n = 2 /\ k = 1 /\ w = 1
      BY <1>0, <2>2 DEF Searchable
    <3>2. QED
      BY <3>1
  <2>3. QED
    BY <2>1, <2>2
<1> HIDE DEF C, D, s, t
<1>5. x \in C /\ y \in D /\ RankIn(L, C, x) = c - 1 /\ RankIn(L, D, y) = c - 1
  <2>1. c \in 1..Cardinality(C) /\ c \in 1..Cardinality(D)
    BY <1>0, <1>2
  <2>2. QED
    BY <1>3, <2>1 DEF InOrder
<1>6. x \in E /\ y \in E /\ v.dist[r][x] \in Int /\ v.dist[r][y] \in Int
  BY <1>1, <1>2, <1>5
<1>7. ASSUME v.dist[r][x] < v.dist[r][y] PROVE FALSE
  <2>1. <<x, y>> \in L
    BY <1>6, <1>7 DEF ByDistance, Closer
  <2> HIDE DEF E, L, x, y
  <2> DEFINE A == Before(L, C, x) \cup {x}
  <2>2. A \in SUBSET Before(L, D, y)
    <3>1. \A m \in Before(L, C, x) : m \in E /\ <<m, x>> \in L /\ m \in D
      BY <1>2, <1>4 DEF Before
    <3>2. ASSUME NEW m \in Before(L, C, x) PROVE <<m, y>> \in L
      <4>1. m \in E /\ x \in E /\ y \in E /\ <<m, x>> \in L
        BY <1>6, <3>1
      <4>2. TotalOrder(L, E)
        BY <1>3
      <4>3. QED
        BY ONLY <2>1, <4>1, <4>2 DEF TotalOrder
    <3>3. QED
      BY <1>4, <1>5, <2>1, <3>1, <3>2 DEF Before
  <2>3. x \notin Before(L, C, x)
    BY <1>3, <1>6 DEF Before, TotalOrder
  <2>4. Before(L, C, x) \in SUBSET C /\ Before(L, D, y) \in SUBSET D
    BY DEF Before
  <2>5. IsFiniteSet(Before(L, C, x)) /\ IsFiniteSet(Before(L, D, y))
    BY <1>2, <2>4, FS_Subset
  <2>6. Cardinality(A) = (c - 1) + 1
    BY <1>5, <2>3, <2>5, FS_AddElement DEF RankIn
  <2>7. Cardinality(A) <= Cardinality(Before(L, D, y))
    BY <2>2, <2>5, FS_Subset
  <2>8. QED
    BY <1>5, <2>6, <2>7 DEF RankIn
<1>8. QED
  BY <1>3, <1>6, <1>7
=============================================================================
