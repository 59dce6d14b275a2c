----------------------------- MODULE BatchSize -----------------------------
(***************************************************************************)
(* rust/core/src/resources.rs and resolve_batch_size of the bindings: the  *)
(* memory a k-NN search is estimated to need, the batch size chosen when   *)
(* the caller names none, and the warning raised before the search. The    *)
(* arithmetic is that of u64: sums and products saturate at Limit.         *)
(***************************************************************************)
EXTENDS Integers

CONSTANTS
  MinBatch,      \* MIN_BATCH_SIZE
  MaxBatch,      \* MAX_BATCH_SIZE
  Budget,        \* BLOCK_BUDGET_BYTES
  BytesPerF32,
  VectorCopies,  \* VECTOR_COPIES
  Limit,         \* u64::MAX, and usize::MAX on the machines supported
  Sizes,         \* numbers of vectors
  DimSizes,      \* dimensions
  Batches,       \* values of batch_size a caller may name
  Threads,       \* numbers of worker threads
  Thresholds     \* VECHEALTH_MEMORY_WARNING_GB, in bytes

Automatic == -1  \* batch_size=None

ASSUME ConstantsAssumption ==
  /\ MinBatch \in Nat \ {0} /\ MaxBatch \in Nat /\ MinBatch <= MaxBatch
  /\ BytesPerF32 \in Nat \ {0} /\ VectorCopies \in Nat \ {0}
  /\ Limit \in Nat /\ Budget \in Nat /\ Budget <= Limit
  /\ MaxBatch <= Limit /\ VectorCopies <= Limit

ASSUME InputsAssumption ==
  /\ Sizes \subseteq 1..Limit /\ DimSizes \subseteq 0..Limit
  /\ Batches \subseteq 0..Limit /\ Threads \subseteq 1..Limit
  /\ Thresholds \subseteq 0..Limit

VARIABLES
  call,          \* the arguments, the worker threads and the threshold read
  batch,         \* the batch size the search runs with
  advice,        \* what the warning says: "none", "automatic", "lower", "smaller"
  outcome        \* "none", "resolved", "refused" or "raised"

vars == <<call, batch, advice, outcome>>

-----------------------------------------------------------------------------
(* Saturating arithmetic.                                                  *)

Lesser(a, b) == IF a <= b THEN a ELSE b
Greater(a, b) == IF a <= b THEN b ELSE a

SatWrapping(x) == x % (Limit + 1)  \* mutant: wrapping_mul, wrapping_add
Sat(x) == Lesser(x, Limit)

Mul(a, b) == Sat(a * b)
Plus(a, b) == Sat(a + b)

BlockBytes(n, b, t) ==
  Mul(Mul(Lesser(Mul(Greater(t, 1), Greater(b, 1)), n), n), BytesPerF32)

VectorBytes(n, d) == Mul(Mul(Mul(VectorCopies, n), d), BytesPerF32)

Estimate(n, d, b, t) == Plus(VectorBytes(n, d), BlockBytes(n, b, t))

Clamp(x, low, high) == Greater(low, Lesser(x, high))

AutoBatchPerProcess(n, t) ==  \* mutant: the threads are not counted
  Lesser(Clamp(Budget \div Mul(Greater(n, 1), BytesPerF32), MinBatch, MaxBatch),
         Greater(n, 1))
AutoBatch(n, t) ==
  Lesser(Clamp(Budget \div Mul(Mul(Greater(n, 1), BytesPerF32), Greater(t, 1)),
               MinBatch, MaxBatch),
         Greater(n, 1))

-----------------------------------------------------------------------------
(* memory_warning and resolve_batch_size.                                  *)

AdviceReversed(c, b) ==  \* mutant: the branches of the advice are swapped
  IF Estimate(c.n, c.dim, b, c.threads) <= c.threshold THEN "none"
  ELSE IF c.requested = Automatic THEN "automatic"
  ELSE IF Estimate(c.n, c.dim, AutoBatch(c.n, c.threads), c.threads) <= c.threshold
  THEN "smaller" ELSE "lower"
Advice(c, b) ==
  IF Estimate(c.n, c.dim, b, c.threads) <= c.threshold THEN "none"
  ELSE IF c.requested = Automatic THEN "automatic"
  ELSE IF Estimate(c.n, c.dim, AutoBatch(c.n, c.threads), c.threads) <= c.threshold
  THEN "lower" ELSE "smaller"

Arguments ==
  [n : Sizes, dim : DimSizes, requested : Batches \cup {Automatic},
   threads : Threads, threshold : Thresholds]

Init ==
  /\ call \in Arguments
  /\ batch = 0
  /\ advice = "none"
  /\ outcome = "none"

Refuse ==
  /\ outcome = "none"
  /\ call.requested = 0
  /\ outcome' = "refused"
  /\ UNCHANGED <<call, batch, advice>>

ResolveUnchecked ==  \* mutant: batch_size = 0 is let through
  /\ outcome = "none"
  /\ batch' = IF call.requested = Automatic THEN AutoBatch(call.n, call.threads)
                                            ELSE call.requested
  /\ advice' = Advice(call, batch')
  /\ \/ outcome' = "resolved"
     \/ advice' # "none" /\ outcome' = "raised"
  /\ UNCHANGED call

\* The warning filters may make the warning an error.
Resolve ==
  /\ outcome = "none"
  /\ call.requested # 0
  /\ batch' = IF call.requested = Automatic THEN AutoBatch(call.n, call.threads)
                                            ELSE call.requested
  /\ advice' = Advice(call, batch')
  /\ \/ outcome' = "resolved"
     \/ advice' # "none" /\ outcome' = "raised"
  /\ UNCHANGED call

Next == Refuse \/ Resolve

Spec == Init /\ [][Next]_vars

-----------------------------------------------------------------------------
(* Properties.                                                             *)

\* Types; no search starts with batch_size = 0, which resolve_batch_size refuses
\* and for which there are no blocks.
TypeOK ==
  /\ call \in Arguments
  /\ batch \in 0..Limit
  /\ outcome = "resolved" => batch > 0
  /\ advice \in {"none", "automatic", "lower", "smaller"}

\* The same bytes in exact arithmetic.
TrueBlockBytes(n, b, t) == Lesser(t * b, n) * n * BytesPerF32
TrueBytes(n, d, b, t) == VectorCopies * n * d * BytesPerF32 + TrueBlockBytes(n, b, t)

\* No overflow hides an excess: a search that starts without a warning fits the
\* threshold, however large its arguments, unless the threshold is itself the
\* largest number of bytes there is.
SilentMeansFits ==
  outcome = "resolved" /\ advice = "none" /\ call.threshold < Limit =>
    TrueBytes(call.n, call.dim, batch, call.threads) <= call.threshold

\* "Lower batch_size" is said only where it helps: the batch it names is smaller
\* than the caller's and fits the threshold.
LowerAdviceHelps ==
  advice = "lower" =>
    LET auto == AutoBatch(call.n, call.threads)
    IN  /\ auto < call.requested
        /\ call.threshold < Limit =>
             TrueBytes(call.n, call.dim, auto, call.threads) <= call.threshold

\* "Analyse a smaller collection" is said only where the blocks of the automatic
\* batch are not to blame: the vectors leave less of the threshold than the
\* budget the blocks keep to, or no smaller batch would have been chosen.
SmallerAdviceJustified ==
  advice = "smaller" =>
    \/ AutoBatch(call.n, call.threads) <= MinBatch
    \/ VectorBytes(call.n, call.dim) + Budget > call.threshold

\* What memory_warning advises helps, and what it advises against would not have.
AdviceIsSound == LowerAdviceHelps /\ SmallerAdviceJustified

\* The automatic batch is "as large as the block budget allows": above the
\* minimum its blocks keep to the budget, and one row more would not, unless the
\* maximum or the number of vectors stops it first.
AutoIsLargestWithinBudget ==
  outcome # "none" /\ call.requested = Automatic =>
    /\ batch <= MaxBatch /\ batch <= call.n
    /\ batch > MinBatch => TrueBlockBytes(call.n, batch, call.threads) <= Budget
    /\ \/ batch \in {MaxBatch, call.n}
       \/ (batch + 1) * call.n * BytesPerF32 * call.threads > Budget
=============================================================================
