-------------------------- MODULE BatchSizeProofs --------------------------
(***************************************************************************)
(* Proofs for BatchSize: the saturating arithmetic loses nothing that a    *)
(* threshold below Limit could tell, and the automatic batch size keeps to *)
(* the budget of the blocks.                                               *)
(***************************************************************************)
EXTENDS BatchSize, TLAPS

-----------------------------------------------------------------------------
(* Saturation.                                                             *)

\* Products of naturals are monotone.
LEMMA ProductMonotone ==
  ASSUME NEW a \in Nat, NEW b \in Nat, NEW c \in Nat, a <= b
  PROVE  /\ a * c \in Nat /\ b * c \in Nat
         /\ a * c <= b * c
<1>1. /\ b - a \in Nat
      /\ \A x, y \in Nat : x * y \in Nat
  BY SMT
<1>2. b * c = a * c + (b - a) * c
  BY SMT
<1>3. (b - a) * c \in Nat /\ a * c \in Nat /\ b * c \in Nat
  BY <1>1
<1> QED  BY <1>2, <1>3, SMT

LEMMA NatProduct == \A x, y \in Nat : x * y \in Nat
BY SMT

LEMMA SatBasics ==
  ASSUME NEW x \in Nat
  PROVE  /\ Sat(x) \in 0..Limit /\ Sat(x) \in Nat /\ Sat(x) <= x
         /\ x <= Limit => Sat(x) = x
         /\ Sat(x) < Limit => Sat(x) = x
         /\ x > Limit => Sat(x) = Limit
BY ConstantsAssumption DEF Sat, Lesser

\* Saturating the first factor early changes no saturated product.
LEMMA MulAbsorbs ==
  ASSUME NEW a \in Nat, NEW b \in Nat
  PROVE  Sat(Sat(a) * b) = Sat(a * b)
<1>1. CASE a <= Limit
  BY <1>1, SatBasics
<1>2. CASE a > Limit /\ b = 0
  BY <1>2, SatBasics, ConstantsAssumption
<1>3. CASE a > Limit /\ b > 0
  <2>1. Sat(a) = Limit
    BY <1>3, SatBasics
  <2>2. 1 * Limit <= b * Limit /\ b * Limit \in Nat
    BY <1>3, ProductMonotone, ConstantsAssumption
  <2>3. 1 * a <= b * a /\ b * a \in Nat
    BY <1>3, ProductMonotone
  <2>4. Limit * b = b * Limit /\ a * b = b * a
    BY ConstantsAssumption
  <2> QED  BY <1>3, <2>1, <2>2, <2>3, <2>4, ConstantsAssumption DEF Sat, Lesser
<1> QED  BY <1>1, <1>2, <1>3, ConstantsAssumption

\* Saturating the terms early changes no saturated sum.
LEMMA PlusAbsorbs ==
  ASSUME NEW a \in Nat, NEW b \in Nat
  PROVE  Plus(Sat(a), Sat(b)) = Sat(a + b)
BY ConstantsAssumption DEF Plus, Sat, Lesser

-----------------------------------------------------------------------------
(* The estimate.                                                           *)

LEMMA LesserNat ==
  ASSUME NEW a \in Nat, NEW b \in Nat
  PROVE  Lesser(a, b) \in Nat /\ Lesser(a, b) <= a /\ Lesser(a, b) <= b
BY DEF Lesser

TrueVectorBytes(n, d) == VectorCopies * n * d * BytesPerF32

LEMMA VectorBytesExact ==
  ASSUME NEW n \in Nat, NEW d \in Nat
  PROVE  /\ TrueVectorBytes(n, d) \in Nat
         /\ VectorBytes(n, d) = Sat(TrueVectorBytes(n, d))
<1>1. /\ VectorCopies * n \in Nat
      /\ VectorCopies * n * d \in Nat
      /\ BytesPerF32 \in Nat /\ VectorCopies * n * d * BytesPerF32 \in Nat
  <2>1. VectorCopies * n \in Nat
    BY NatProduct, ConstantsAssumption
  <2>2. VectorCopies * n * d \in Nat
    BY <2>1, NatProduct
  <2> QED  BY <2>1, <2>2, NatProduct, ConstantsAssumption
<1>2. VectorBytes(n, d) = Sat(Sat(Sat(VectorCopies * n) * d) * BytesPerF32)
  BY DEF VectorBytes, Mul
<1>3. Sat(Sat(VectorCopies * n) * d) = Sat(VectorCopies * n * d)
  BY <1>1, MulAbsorbs
<1>4. Sat(Sat(VectorCopies * n * d) * BytesPerF32)
        = Sat(VectorCopies * n * d * BytesPerF32)
  BY <1>1, MulAbsorbs
<1> QED  BY <1>1, <1>2, <1>3, <1>4 DEF TrueVectorBytes

LEMMA BlockBytesExact ==
  ASSUME NEW n \in 0..Limit, NEW b \in Nat \ {0}, NEW t \in Nat \ {0}
  PROVE  /\ TrueBlockBytes(n, b, t) \in Nat
         /\ BlockBytes(n, b, t) = Sat(TrueBlockBytes(n, b, t))
<1> DEFINE rows == Lesser(t * b, n)
<1>1. t * b \in Nat /\ n \in Nat /\ BytesPerF32 \in Nat
  BY NatProduct, ConstantsAssumption
<1>2. Greater(t, 1) = t /\ Greater(b, 1) = b
  BY DEF Greater
<1>3. Lesser(Sat(t * b), n) = rows
  BY <1>1, ConstantsAssumption DEF Sat, Lesser
<1>4. rows \in Nat
  BY <1>1, LesserNat
<1>5. rows * n \in Nat
  BY <1>1, <1>4, NatProduct
<1>6. rows * n * BytesPerF32 \in Nat
  BY <1>1, <1>5, NatProduct
<1>7. BlockBytes(n, b, t) = Sat(Sat(rows * n) * BytesPerF32)
  BY <1>2, <1>3 DEF BlockBytes, Mul
<1>8. Sat(Sat(rows * n) * BytesPerF32) = Sat(rows * n * BytesPerF32)
  BY <1>1, <1>5, MulAbsorbs
<1> QED  BY <1>6, <1>7, <1>8 DEF TrueBlockBytes

\* The estimate is the exact number of bytes, saturated once.
LEMMA EstimateExact ==
  ASSUME NEW n \in 0..Limit, NEW d \in Nat, NEW b \in Nat \ {0}, NEW t \in Nat \ {0}
  PROVE  /\ TrueBytes(n, d, b, t) \in Nat
         /\ Estimate(n, d, b, t) = Sat(TrueBytes(n, d, b, t))
         /\ Estimate(n, d, b, t) \in Nat
<1>1. n \in Nat
  BY ConstantsAssumption
<1>2. /\ TrueVectorBytes(n, d) \in Nat
      /\ VectorBytes(n, d) = Sat(TrueVectorBytes(n, d))
  BY <1>1, VectorBytesExact
<1>3. /\ TrueBlockBytes(n, b, t) \in Nat
      /\ BlockBytes(n, b, t) = Sat(TrueBlockBytes(n, b, t))
  BY BlockBytesExact
<1>4. TrueBytes(n, d, b, t) = TrueVectorBytes(n, d) + TrueBlockBytes(n, b, t)
  BY DEF TrueBytes, TrueVectorBytes
<1>5. Plus(Sat(TrueVectorBytes(n, d)), Sat(TrueBlockBytes(n, b, t)))
        = Sat(TrueVectorBytes(n, d) + TrueBlockBytes(n, b, t))
  BY <1>2, <1>3, PlusAbsorbs
<1>6. Sat(TrueVectorBytes(n, d) + TrueBlockBytes(n, b, t)) \in Nat
  BY <1>2, <1>3, SatBasics
<1> QED  BY <1>2, <1>3, <1>4, <1>5, <1>6 DEF Estimate

\* A larger batch never needs less memory.
LEMMA EstimateMonotone ==
  ASSUME NEW n \in 0..Limit, NEW d \in Nat, NEW t \in Nat \ {0},
         NEW a \in Nat \ {0}, NEW b \in Nat \ {0}, a <= b
  PROVE  Estimate(n, d, a, t) <= Estimate(n, d, b, t)
<1>1. n \in Nat /\ BytesPerF32 \in Nat
  BY ConstantsAssumption
<1>2. a * t <= b * t /\ a * t \in Nat /\ b * t \in Nat /\ a * t = t * a /\ b * t = t * b
  BY ProductMonotone
<1>3. /\ Lesser(t * a, n) <= Lesser(t * b, n)
      /\ Lesser(t * a, n) \in Nat /\ Lesser(t * b, n) \in Nat
  BY <1>1, <1>2 DEF Lesser
<1>4. /\ Lesser(t * a, n) * n <= Lesser(t * b, n) * n
      /\ Lesser(t * a, n) * n \in Nat /\ Lesser(t * b, n) * n \in Nat
  BY <1>1, <1>3, ProductMonotone
<1>5. TrueBlockBytes(n, a, t) <= TrueBlockBytes(n, b, t)
  BY <1>1, <1>4, ProductMonotone DEF TrueBlockBytes
<1>6. /\ TrueBytes(n, d, a, t) \in Nat
      /\ Estimate(n, d, a, t) = Sat(TrueBytes(n, d, a, t))
  BY EstimateExact
<1>7. /\ TrueBytes(n, d, b, t) \in Nat
      /\ Estimate(n, d, b, t) = Sat(TrueBytes(n, d, b, t))
  BY EstimateExact
<1>8. TrueVectorBytes(n, d) \in Nat
  BY <1>1, VectorBytesExact
<1>9. TrueBlockBytes(n, a, t) \in Nat /\ TrueBlockBytes(n, b, t) \in Nat
  BY BlockBytesExact
<1>10. TrueBytes(n, d, a, t) <= TrueBytes(n, d, b, t)
  BY <1>5, <1>8, <1>9 DEF TrueBytes, TrueVectorBytes
<1> QED  BY <1>6, <1>7, <1>10, ConstantsAssumption DEF Sat, Lesser

-----------------------------------------------------------------------------
(* The automatic batch size.                                               *)

RowBytes(n, t) == Mul(Mul(Greater(n, 1), BytesPerF32), Greater(t, 1))

\* One row of every worker, saturated: at least one byte.
LEMMA RowBytesExact ==
  ASSUME NEW n \in 1..Limit, NEW t \in Nat \ {0}
  PROVE  /\ n * BytesPerF32 * t \in Nat \ {0}
         /\ RowBytes(n, t) = Sat(n * BytesPerF32 * t)
         /\ RowBytes(n, t) \in Nat \ {0}
<1>1. n \in Nat \ {0} /\ BytesPerF32 \in Nat \ {0} /\ t \in Nat /\ Limit \in Nat \ {0}
  BY ConstantsAssumption
<1>2. \A x, y \in Nat \ {0} : x * y \in Nat \ {0}
  BY SMT
<1>3. n * BytesPerF32 \in Nat \ {0}
  BY <1>1, <1>2
<1>4. n * BytesPerF32 * t \in Nat \ {0}
  BY <1>1, <1>2, <1>3
<1>5. Greater(n, 1) = n /\ Greater(t, 1) = t
  BY <1>1 DEF Greater
<1>6. RowBytes(n, t) = Sat(Sat(n * BytesPerF32) * t)
  BY <1>5 DEF RowBytes, Mul
<1>7. Sat(Sat(n * BytesPerF32) * t) = Sat(n * BytesPerF32 * t)
  BY <1>1, <1>3, MulAbsorbs
<1> QED  BY <1>1, <1>4, <1>6, <1>7 DEF Sat, Lesser

\* Division.
LEMMA QuotientBounds ==
  ASSUME NEW x \in Nat, NEW y \in Nat \ {0}
  PROVE  /\ x \div y \in Nat
         /\ (x \div y) * y <= x
         /\ x < ((x \div y) + 1) * y
BY SMT

LEMMA AutoBatchBounds ==
  ASSUME NEW n \in 1..Limit, NEW t \in Nat \ {0}
  PROVE  /\ AutoBatch(n, t) \in 1..Limit
         /\ AutoBatch(n, t) <= MaxBatch /\ AutoBatch(n, t) <= n
         /\ AutoBatch(n, t) > MinBatch => AutoBatch(n, t) <= Budget \div RowBytes(n, t)
         /\ \/ AutoBatch(n, t) \in {MaxBatch, n}
            \/ AutoBatch(n, t) >= Budget \div RowBytes(n, t)
<1>1. Budget \div RowBytes(n, t) \in Nat
  BY RowBytesExact, QuotientBounds, ConstantsAssumption
<1>2. AutoBatch(n, t)
        = Lesser(Clamp(Budget \div RowBytes(n, t), MinBatch, MaxBatch), Greater(n, 1))
  BY DEF AutoBatch, RowBytes
<1> QED  BY <1>1, <1>2, ConstantsAssumption DEF Clamp, Lesser, Greater

\* Above the minimum, the blocks of the automatic batch keep to the budget.
LEMMA AutoWithinBudget ==
  ASSUME NEW n \in 1..Limit, NEW t \in Nat \ {0}, AutoBatch(n, t) > MinBatch
  PROVE  TrueBlockBytes(n, AutoBatch(n, t), t) <= Budget
<1> DEFINE b == AutoBatch(n, t)
           q == Budget \div RowBytes(n, t)
           r == n * BytesPerF32 * t
<1>1. b \in Nat \ {0} /\ b > 1 /\ b <= q
  <2>1. b \in 1..Limit /\ b > MinBatch
    BY AutoBatchBounds
  <2>2. b <= q
    BY AutoBatchBounds
  <2> HIDE DEF b, q
  <2> QED  BY <2>1, <2>2, ConstantsAssumption
<1>2. r \in Nat \ {0} /\ RowBytes(n, t) = Sat(r) /\ RowBytes(n, t) \in Nat \ {0}
  BY RowBytesExact
<1>3. q \in Nat /\ q * RowBytes(n, t) <= Budget
  BY <1>2, QuotientBounds, ConstantsAssumption
<1>4. b * RowBytes(n, t) <= q * RowBytes(n, t) /\ b * RowBytes(n, t) \in Nat
  <2> HIDE DEF b, q
  <2> QED  BY <1>1, <1>2, <1>3, ProductMonotone
<1>5. 2 * RowBytes(n, t) <= b * RowBytes(n, t)
  <2> HIDE DEF b, q
  <2> QED  BY <1>1, <1>2, ProductMonotone
<1>6. RowBytes(n, t) < Limit
  <2> HIDE DEF b, q, r
  <2>1. q * RowBytes(n, t) \in Nat
    BY <1>2, <1>3, NatProduct
  <2> QED  BY <1>2, <1>3, <1>4, <1>5, <2>1, ConstantsAssumption
<1>7. RowBytes(n, t) = r
  <2> HIDE DEF r
  <2> QED  BY <1>2, <1>6, SatBasics
<1>8. b * r <= Budget
  <2>1. q * RowBytes(n, t) \in Nat
    BY <1>2, <1>3, NatProduct
  <2> HIDE DEF b, q, r
  <2> QED  BY <1>3, <1>4, <1>7, <2>1, ConstantsAssumption
<1>9. TrueBlockBytes(n, b, t) <= t * b * n * BytesPerF32
  <2> HIDE DEF b
  <2>1. t * b \in Nat /\ n \in Nat /\ BytesPerF32 \in Nat
    BY <1>1, NatProduct, ConstantsAssumption
  <2>2. Lesser(t * b, n) \in Nat /\ Lesser(t * b, n) <= t * b
    BY <2>1, LesserNat
  <2>3. /\ Lesser(t * b, n) * n <= t * b * n
        /\ Lesser(t * b, n) * n \in Nat /\ t * b * n \in Nat
    BY <2>1, <2>2, ProductMonotone
  <2> QED  BY <2>1, <2>3, ProductMonotone DEF TrueBlockBytes
<1>10. t * b * n * BytesPerF32 = b * r
  <2>1. n \in Nat /\ BytesPerF32 \in Nat /\ t \in Nat
    BY ConstantsAssumption
  <2> HIDE DEF b
  <2> QED  BY <1>1, <2>1, SMT
<1>11. b * r \in Nat /\ TrueBlockBytes(n, b, t) \in Nat
  <2>1. TrueBlockBytes(n, b, t) \in Nat
    BY <1>1, BlockBytesExact
  <2> HIDE DEF b, r
  <2> QED  BY <1>1, <1>2, <2>1, NatProduct
<1> QED
  <2> HIDE DEF b, r
  <2>1. TrueBlockBytes(n, b, t) <= Budget
    BY <1>8, <1>9, <1>10, <1>11, ConstantsAssumption
  <2> QED  BY <2>1 DEF b

\* One row more would not keep to it, unless the maximum stopped the batch.
LEMMA AutoIsLargest ==
  ASSUME NEW n \in 1..Limit, NEW t \in Nat \ {0},
         AutoBatch(n, t) \notin {MaxBatch, n}
  PROVE  (AutoBatch(n, t) + 1) * n * BytesPerF32 * t > Budget
<1> DEFINE b == AutoBatch(n, t)
           q == Budget \div RowBytes(n, t)
           r == n * BytesPerF32 * t
<1>1. b \in Nat /\ b >= q
  <2>1. b \in 1..Limit
    BY AutoBatchBounds
  <2>2. b >= q
    BY AutoBatchBounds
  <2> HIDE DEF b, q
  <2> QED  BY <2>1, <2>2, ConstantsAssumption
<1>2. /\ r \in Nat \ {0} /\ RowBytes(n, t) \in Nat \ {0}
      /\ RowBytes(n, t) <= r
  <2>1. r \in Nat \ {0} /\ RowBytes(n, t) = Sat(r) /\ RowBytes(n, t) \in Nat \ {0}
    BY RowBytesExact
  <2> HIDE DEF r
  <2> QED  BY <2>1, SatBasics
<1>3. q \in Nat /\ Budget < (q + 1) * RowBytes(n, t)
  BY <1>2, QuotientBounds, ConstantsAssumption
<1>4. (q + 1) * RowBytes(n, t) <= (b + 1) * RowBytes(n, t)
  <2> HIDE DEF b, q
  <2>1. q + 1 \in Nat /\ b + 1 \in Nat /\ q + 1 <= b + 1 /\ RowBytes(n, t) \in Nat
    BY <1>1, <1>2, <1>3
  <2> QED  BY <2>1, ProductMonotone
<1>5. (b + 1) * RowBytes(n, t) <= (b + 1) * r
  <2> HIDE DEF b, r
  <2>1. b + 1 \in Nat /\ RowBytes(n, t) \in Nat /\ r \in Nat
    BY <1>1, <1>2
  <2>2. RowBytes(n, t) * (b + 1) <= r * (b + 1)
    BY <1>2, <2>1, ProductMonotone
  <2> QED  BY <2>1, <2>2
<1>6. /\ (q + 1) * RowBytes(n, t) \in Nat /\ (b + 1) * RowBytes(n, t) \in Nat
      /\ (b + 1) * r \in Nat
  <2> HIDE DEF b, q, r
  <2> QED  BY <1>1, <1>2, <1>3, NatProduct
<1>7. (b + 1) * n * BytesPerF32 * t = (b + 1) * r
  <2>1. n \in Nat /\ BytesPerF32 \in Nat /\ t \in Nat
    BY ConstantsAssumption
  <2> HIDE DEF b
  <2> QED  BY <1>1, <2>1, SMT
<1>8. Budget < (b + 1) * r
  <2> HIDE DEF b, q, r
  <2> QED  BY <1>3, <1>4, <1>5, <1>6, ConstantsAssumption
<1> QED
  <2>1. (b + 1) * n * BytesPerF32 * t > Budget
    <3> HIDE DEF b, r
    <3> QED  BY <1>6, <1>7, <1>8, ConstantsAssumption
  <2> QED  BY <2>1 DEF b

-----------------------------------------------------------------------------
(* The invariant: once resolved, the batch and the advice are those of the *)
(* call.                                                                   *)

Chosen(c) == IF c.requested = Automatic THEN AutoBatch(c.n, c.threads) ELSE c.requested

IInv ==
  /\ TypeOK
  /\ outcome \in {"none", "refused"} => advice = "none"
  /\ outcome = "refused" => call.requested = 0
  /\ outcome \in {"none", "refused", "resolved", "raised"}
  /\ outcome \in {"resolved", "raised"} =>
       call.requested # 0 /\ batch = Chosen(call) /\ advice = Advice(call, batch)

LEMMA ArgumentTypes ==
  ASSUME NEW c \in Arguments
  PROVE  /\ c.n \in 1..Limit /\ c.n \in 0..Limit /\ c.n \in Nat /\ c.dim \in Nat
         /\ c.requested \in (0..Limit) \cup {Automatic}
         /\ c.threads \in Nat \ {0}
         /\ c.threshold \in Nat /\ c.threshold <= Limit
<1>1. /\ c.n \in Sizes /\ c.dim \in DimSizes
      /\ c.requested \in Batches \cup {Automatic}
      /\ c.threads \in Threads /\ c.threshold \in Thresholds
  BY DEF Arguments
<1>2. /\ c.n \in 1..Limit /\ c.dim \in 0..Limit
      /\ c.requested \in (0..Limit) \cup {Automatic}
      /\ c.threads \in 1..Limit /\ c.threshold \in 0..Limit
  BY <1>1, InputsAssumption
<1> QED  BY <1>2, ConstantsAssumption

LEMMA ChosenBatch ==
  ASSUME NEW c \in Arguments, c.requested # 0
  PROVE  Chosen(c) \in 1..Limit
<1>1. CASE c.requested = Automatic
  BY <1>1, ArgumentTypes, AutoBatchBounds DEF Chosen
<1>2. CASE c.requested # Automatic
  BY <1>2, ArgumentTypes, ConstantsAssumption DEF Chosen
<1> QED  BY <1>1, <1>2

LEMMA InitIInv == Init => IInv
BY ConstantsAssumption DEF Init, IInv, TypeOK

LEMMA NextIInv == IInv /\ [Next]_vars => IInv'
<1> SUFFICES ASSUME IInv, [Next]_vars PROVE IInv'
  OBVIOUS
<1>1. CASE Refuse
  BY <1>1 DEF IInv, TypeOK, Refuse
<1>2. CASE Resolve
  <2>1. /\ call \in Arguments /\ call' = call /\ call.requested # 0
        /\ batch' = Chosen(call) /\ advice' = Advice(call, batch')
        /\ outcome' \in {"resolved", "raised"}
    BY <1>2 DEF IInv, TypeOK, Resolve, Chosen
  <2>2. batch' \in 1..Limit
    BY <2>1, ChosenBatch
  <2>3. advice' \in {"none", "automatic", "lower", "smaller"}
    BY <2>1 DEF Advice
  <2>4. TypeOK'
    BY <2>1, <2>2, <2>3, ConstantsAssumption DEF TypeOK
  <2> QED  BY <2>1, <2>4 DEF IInv
<1>3. CASE UNCHANGED vars
  BY <1>3 DEF IInv, TypeOK, vars
<1> QED  BY <1>1, <1>2, <1>3 DEF Next

LEMMA Inductive == Spec => []IInv
BY InitIInv, NextIInv, PTL DEF Spec

-----------------------------------------------------------------------------

\* The batch size of a search that starts lies between 1 and usize::MAX, and
\* every other variable has its type (resolve_batch_size).
THEOREM TypeCorrect == Spec => []TypeOK
<1>1. IInv => TypeOK
  BY DEF IInv
<1> QED  BY <1>1, Inductive, PTL

\* An estimate that fits a threshold below the largest number of bytes is exact.
LEMMA FittingIsExact ==
  ASSUME NEW c \in Arguments, NEW b \in Nat \ {0}, c.threshold < Limit,
         Estimate(c.n, c.dim, b, c.threads) <= c.threshold
  PROVE  TrueBytes(c.n, c.dim, b, c.threads) <= c.threshold
<1>1. /\ TrueBytes(c.n, c.dim, b, c.threads) \in Nat
      /\ Estimate(c.n, c.dim, b, c.threads) = Sat(TrueBytes(c.n, c.dim, b, c.threads))
  BY ArgumentTypes, EstimateExact
<1> QED  BY <1>1, ArgumentTypes, SatBasics, ConstantsAssumption

\* A search that starts without a warning fits the threshold in exact
\* arithmetic, for any sizes: no saturation of u64 hides an excess.
THEOREM NothingHidden == Spec => []SilentMeansFits
<1>1. IInv => SilentMeansFits
  <2> SUFFICES ASSUME IInv, outcome = "resolved", advice = "none", call.threshold < Limit
               PROVE  TrueBytes(call.n, call.dim, batch, call.threads) <= call.threshold
    BY DEF SilentMeansFits
  <2>1. call \in Arguments /\ batch \in Nat \ {0} /\ advice = Advice(call, batch)
    BY ConstantsAssumption DEF IInv, TypeOK
  <2>2. Estimate(call.n, call.dim, batch, call.threads) <= call.threshold
    BY <2>1 DEF Advice
  <2> QED  BY <2>1, <2>2, FittingIsExact
<1> QED  BY <1>1, Inductive, PTL

\* The batch size memory_warning proposes is smaller than the caller's and fits.
THEOREM AdviceHelps == Spec => []LowerAdviceHelps
<1>1. IInv => LowerAdviceHelps
  <2> SUFFICES ASSUME IInv, advice = "lower" PROVE LowerAdviceHelps
    BY DEF LowerAdviceHelps
  <2> DEFINE auto == AutoBatch(call.n, call.threads)
  <2>1. /\ call \in Arguments
        /\ call.requested # 0 /\ batch = Chosen(call) /\ advice = Advice(call, batch)
    BY DEF IInv, TypeOK
  <2>2. /\ call.requested # Automatic
        /\ ~(Estimate(call.n, call.dim, batch, call.threads) <= call.threshold)
        /\ Estimate(call.n, call.dim, auto, call.threads) <= call.threshold
    BY <2>1 DEF Advice
  <2>3. auto \in Nat \ {0} /\ call.requested \in Nat \ {0} /\ batch = call.requested
    <3>1. auto \in 1..Limit
      BY <2>1, ArgumentTypes, AutoBatchBounds
    <3>2. batch = call.requested /\ batch \in 1..Limit
      BY <2>1, <2>2, ChosenBatch DEF Chosen
    <3> HIDE DEF auto
    <3> QED  BY <3>1, <3>2, ConstantsAssumption
  <2>4. auto < call.requested
    <3> SUFFICES ASSUME call.requested <= auto PROVE FALSE
      BY <2>3
    <3>1. Estimate(call.n, call.dim, call.requested, call.threads)
            <= Estimate(call.n, call.dim, auto, call.threads)
      <4> HIDE DEF auto
      <4> QED  BY <2>1, <2>3, ArgumentTypes, EstimateMonotone
    <3>2. /\ Estimate(call.n, call.dim, call.requested, call.threads) \in Nat
          /\ Estimate(call.n, call.dim, auto, call.threads) \in Nat
      <4> HIDE DEF auto
      <4>1. \A b \in Nat \ {0} :
               Estimate(call.n, call.dim, b, call.threads) \in Nat
        BY <2>1, ArgumentTypes, EstimateExact
      <4> QED  BY <2>3, <4>1
    <3> HIDE DEF auto
    <3> QED  BY <2>1, <2>2, <2>3, <3>1, <3>2, ArgumentTypes
  <2>5. call.threshold < Limit =>
          TrueBytes(call.n, call.dim, auto, call.threads) <= call.threshold
    <3> HIDE DEF auto
    <3> QED  BY <2>1, <2>2, <2>3, FittingIsExact
  <2> QED  BY <2>4, <2>5 DEF LowerAdviceHelps
<1> QED  BY <1>1, Inductive, PTL

\* memory_warning tells the caller to analyse less only when the vectors are to
\* blame, or no smaller batch exists.
THEOREM SmallerJustified == Spec => []SmallerAdviceJustified
<1>1. IInv => SmallerAdviceJustified
  <2> SUFFICES ASSUME IInv, advice = "smaller",
                      AutoBatch(call.n, call.threads) > MinBatch
               PROVE  VectorBytes(call.n, call.dim) + Budget > call.threshold
    <3>1. IInv => AutoBatch(call.n, call.threads) \in Nat
      BY ArgumentTypes, AutoBatchBounds, ConstantsAssumption DEF IInv, TypeOK
    <3> QED  BY <3>1, ConstantsAssumption DEF SmallerAdviceJustified
  <2> DEFINE auto == AutoBatch(call.n, call.threads)
  <2>1. /\ call \in Arguments
        /\ ~(Estimate(call.n, call.dim, auto, call.threads) <= call.threshold)
    BY DEF IInv, TypeOK, Advice
  <2>2. TrueBlockBytes(call.n, auto, call.threads) <= Budget
    BY <2>1, ArgumentTypes, AutoWithinBudget
  <2>3. auto \in Nat \ {0}
    <3>1. auto \in 1..Limit
      BY <2>1, ArgumentTypes, AutoBatchBounds
    <3> HIDE DEF auto
    <3> QED  BY <3>1, ConstantsAssumption
  <2> HIDE DEF auto
  <2>4. /\ TrueBlockBytes(call.n, auto, call.threads) \in Nat
        /\ BlockBytes(call.n, auto, call.threads)
             = Sat(TrueBlockBytes(call.n, auto, call.threads))
    BY <2>1, <2>3, ArgumentTypes, BlockBytesExact
  <2>5. BlockBytes(call.n, auto, call.threads) \in Nat
        /\ BlockBytes(call.n, auto, call.threads) <= Budget
    BY <2>2, <2>4, SatBasics, ConstantsAssumption
  <2>6. VectorBytes(call.n, call.dim) \in Nat
    <3>1. /\ TrueVectorBytes(call.n, call.dim) \in Nat
          /\ VectorBytes(call.n, call.dim) = Sat(TrueVectorBytes(call.n, call.dim))
      BY <2>1, ArgumentTypes, VectorBytesExact
    <3> QED  BY <3>1, SatBasics
  <2>7. Estimate(call.n, call.dim, auto, call.threads)
          <= VectorBytes(call.n, call.dim) + BlockBytes(call.n, auto, call.threads)
    BY <2>5, <2>6, ConstantsAssumption DEF Estimate, Plus, Sat, Lesser
  <2>8. Estimate(call.n, call.dim, auto, call.threads) \in Nat
    BY <2>5, <2>6, SatBasics DEF Estimate, Plus
  <2> QED  BY <2>1, <2>5, <2>6, <2>7, <2>8, ArgumentTypes, ConstantsAssumption
<1> QED  BY <1>1, Inductive, PTL

\* Each advice of memory_warning is the one that helps.
THEOREM AdviceSound == Spec => []AdviceIsSound
BY AdviceHelps, SmallerJustified, PTL DEF AdviceIsSound

\* The automatic batch size is the largest whose blocks keep to the budget, up
\* to the maximum and the number of vectors (auto_batch_size).
THEOREM AutoLargest == Spec => []AutoIsLargestWithinBudget
<1>1. IInv => AutoIsLargestWithinBudget
  <2> SUFFICES ASSUME IInv, outcome # "none", call.requested = Automatic
               PROVE  AutoIsLargestWithinBudget
    BY DEF AutoIsLargestWithinBudget
  <2>1. /\ call \in Arguments /\ batch = AutoBatch(call.n, call.threads)
    BY DEF IInv, TypeOK, Chosen, Automatic
  <2>2. batch <= MaxBatch /\ batch <= call.n
    BY <2>1, ArgumentTypes, AutoBatchBounds
  <2>3. batch > MinBatch => TrueBlockBytes(call.n, batch, call.threads) <= Budget
    BY <2>1, ArgumentTypes, AutoWithinBudget
  <2>4. batch \notin {MaxBatch, call.n} =>
          (batch + 1) * call.n * BytesPerF32 * call.threads > Budget
    BY <2>1, ArgumentTypes, AutoIsLargest
  <2> QED  BY <2>2, <2>3, <2>4 DEF AutoIsLargestWithinBudget
<1> QED  BY <1>1, Inductive, PTL
=============================================================================
