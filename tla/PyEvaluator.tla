---------------------------- MODULE PyEvaluator ----------------------------
(***************************************************************************)
(* One Python VecHealthEvaluator object shared by several threads          *)
(* (rust/bindings/src/lib.rs). Every compute_* method but                  *)
(* compute_anisotropy borrows the object mutably for the whole call,       *)
(* releases the GIL while its metrics run and takes it back to return.     *)
(* PyO3 checks the borrow at run time and refuses a conflicting call with  *)
(* a RuntimeError. Of the Rust evaluator only what threads could tear apart  *)
(* is kept: whether the vectors are normalised and how many columns the    *)
(* k-NN cache has (Evaluator has the rest).                                *)
(***************************************************************************)
EXTENDS Integers, Sequences, FiniteSets

CONSTANTS
  Threads,       \* Python threads holding a reference to the object
  N,             \* the number of vectors
  Calls,         \* mutable calls: the sequence of k their metrics ask get_knn for
  NoThread       \* the GIL is free

ASSUME ThreadsAssumption == NoThread \notin Threads /\ IsFiniteSet(Threads)
ASSUME SizeAssumption == N \in Nat \ {0}
\* k = 0 never fills the cache of an evaluator with several vectors: a search
\* for it panics (Evaluator has that case).
ASSUME CallsAssumption == \A ks \in Calls : ks \in Seq(Nat \ {0})

VARIABLES
  gil,           \* the thread that holds the GIL, or NoThread
  borrow,        \* PyO3's borrow flag: -1 one mutable, m > 0 m shared borrows
  pc,            \* where each thread is
  todo,          \* per thread, the k still to ask for in its mutable call
  outcome,       \* per thread, how its last call ended
  normalized,    \* the evaluator's vectors are normalised
  cacheK         \* columns of its k-NN cache, 0 without one

vars == <<gil, borrow, pc, todo, outcome, normalized, cacheK>>
objectVars == <<borrow, normalized, cacheK>>

\* In a mutable call: resolving the batch size and copying or hashing arguments
\* under the GIL, then get_knn without it, then returning under it.
Preparing == {"resolve", "prepare"}
Searching == {"decide", "normalize", "search", "slice"}
Mutable == Preparing \cup Searching \cup {"return"}
\* In compute_anisotropy.
Shared == {"anisotropy", "return_shared"}
\* Python runs in these states: bytecode of the caller, of a warnings filter,
\* of a finalizer; the interpreter may switch threads there. In "prepare" it is
\* Rust that runs, and no other thread gets the GIL until it is through.
PythonRuns == {"python", "resolve", "return", "return_shared"}

Init ==
  /\ gil = NoThread
  /\ borrow = 0
  /\ pc = [t \in Threads |-> "python"]
  /\ todo = [t \in Threads |-> <<>>]
  /\ outcome = [t \in Threads |-> "none"]
  /\ normalized = FALSE
  /\ cacheK = 0

Goto(t, l) == pc' = [pc EXCEPT ![t] = l]
Ends(t, o) == outcome' = [outcome EXCEPT ![t] = o]

-----------------------------------------------------------------------------
(* The interpreter.                                                        *)

TakeGil(t) ==
  /\ gil = NoThread
  /\ pc[t] \in PythonRuns
  /\ gil' = t
  /\ UNCHANGED <<objectVars, pc, todo, outcome>>

YieldGil(t) ==
  /\ gil = t
  /\ pc[t] \in PythonRuns
  /\ gil' = NoThread
  /\ UNCHANGED <<objectVars, pc, todo, outcome>>

-----------------------------------------------------------------------------
(* Entering a method: PyO3 takes the borrow the receiver asks for.         *)

\* &mut self: get_knn, identify_hubs, compute_hubness ... compute_report.
CallUnchecked(t, ks) ==  \* mutant: no borrow check on entry
  /\ gil = t
  /\ pc[t] = "python"
  /\ borrow' = -1
  /\ Goto(t, "resolve")
  /\ todo' = [todo EXCEPT ![t] = ks]
  /\ Ends(t, "none")
  /\ UNCHANGED <<gil, normalized, cacheK>>

CallMutable(t, ks) ==
  /\ gil = t
  /\ pc[t] = "python"
  /\ borrow = 0
  /\ borrow' = -1
  /\ Goto(t, "resolve")
  /\ todo' = [todo EXCEPT ![t] = ks]
  /\ Ends(t, "none")
  /\ UNCHANGED <<gil, normalized, cacheK>>

RefuseMutable(t) ==
  /\ gil = t
  /\ pc[t] = "python"
  /\ borrow # 0
  /\ Ends(t, "AlreadyBorrowed")
  /\ UNCHANGED <<gil, objectVars, pc, todo>>

\* &self: compute_anisotropy, which releases the GIL at once.
CallAnisotropy(t) ==
  /\ gil = t
  /\ pc[t] = "python"
  /\ borrow >= 0
  /\ borrow' = borrow + 1
  /\ Goto(t, "anisotropy")
  /\ gil' = NoThread
  /\ Ends(t, "none")
  /\ UNCHANGED <<todo, normalized, cacheK>>

\* &self: n_vectors, dim and __repr__ borrow and return in one go.
ReadGetter(t) ==
  /\ gil = t
  /\ pc[t] = "python"
  /\ borrow >= 0
  /\ Ends(t, "ok")
  /\ UNCHANGED <<gil, objectVars, pc, todo>>

RefuseShared(t) ==
  /\ gil = t
  /\ pc[t] = "python"
  /\ borrow < 0
  /\ Ends(t, "AlreadyMutablyBorrowed")
  /\ UNCHANGED <<gil, objectVars, pc, todo>>

-----------------------------------------------------------------------------
(* With the GIL and the borrow: resolve_batch_size and the arguments.      *)

\* batch_size = 0, or a MemoryUsageWarning that the filters make an error.
RejectArguments(t) ==
  /\ gil = t
  /\ pc[t] = "resolve"
  /\ borrow' = 0
  /\ Goto(t, "python")
  /\ todo' = [todo EXCEPT ![t] = <<>>]
  /\ Ends(t, "ValueError")
  /\ UNCHANGED <<gil, normalized, cacheK>>

\* Work in Rust before the GIL is released: a call with queries copies them, and
\* compute_report hashes every float of the vectors (fingerprint_vectors).
Prepare(t) ==
  /\ gil = t
  /\ pc[t] = "resolve"
  /\ Goto(t, "prepare")
  /\ UNCHANGED <<gil, objectVars, todo, outcome>>

\* py.allow_threads, after that work or, in the other calls, at once.
ReleaseGil(t) ==
  /\ gil = t
  /\ pc[t] \in Preparing
  /\ gil' = NoThread
  /\ Goto(t, "decide")
  /\ UNCHANGED <<objectVars, todo, outcome>>

-----------------------------------------------------------------------------
(* get_knn for the next k of the call, in the steps it reads and writes    *)
(* the evaluator.                                                          *)

Finish(t, o) ==
  /\ Goto(t, "return")
  /\ todo' = [todo EXCEPT ![t] = <<>>]
  /\ Ends(t, o)
  /\ UNCHANGED <<gil, objectVars>>

NoStepsLeft(t) ==
  /\ pc[t] = "decide"
  /\ todo[t] = <<>>
  /\ Finish(t, "ok")

TooLarge(t) ==
  /\ pc[t] = "decide"
  /\ todo[t] # <<>>
  /\ Head(todo[t]) >= N
  /\ Finish(t, "KTooLarge")

DecideInclusive(t) ==  \* mutant: k = n passes the guard
  /\ pc[t] = "decide"
  /\ todo[t] # <<>>
  /\ Head(todo[t]) <= N
  /\ Goto(t, IF cacheK = 0 \/ cacheK < Head(todo[t]) THEN "normalize" ELSE "slice")
  /\ UNCHANGED <<gil, objectVars, todo, outcome>>

Decide(t) ==
  /\ pc[t] = "decide"
  /\ todo[t] # <<>>
  /\ Head(todo[t]) < N
  /\ Goto(t, IF cacheK = 0 \/ cacheK < Head(todo[t]) THEN "normalize" ELSE "slice")
  /\ UNCHANGED <<gil, objectVars, todo, outcome>>

Normalize(t) ==
  /\ pc[t] = "normalize"
  /\ normalized' = TRUE
  /\ Goto(t, "search")
  /\ UNCHANGED <<gil, borrow, cacheK, todo, outcome>>

CannotNormalize(t) ==
  /\ pc[t] = "normalize"
  /\ ~normalized
  /\ Finish(t, "AllVectorsDegenerate")

StoreSearch(t) ==
  /\ pc[t] = "search"
  /\ cacheK' = Head(todo[t])
  /\ Goto(t, "slice")
  /\ UNCHANGED <<gil, borrow, normalized, todo, outcome>>

\* The search panics (non-finite vectors, k = 0): PyO3 turns it into a
\* PanicException and the borrow ends like any other.
SearchPanics(t) ==
  /\ pc[t] = "search"
  /\ Finish(t, "Panic")

\* The metric reads the first k columns of the cache.
UseSliceAgain(t) ==  \* mutant: the metric is not taken off the list
  /\ pc[t] = "slice"
  /\ Goto(t, "decide")
  /\ UNCHANGED <<gil, objectVars, todo, outcome>>

UseSlice(t) ==
  /\ pc[t] = "slice"
  /\ todo' = [todo EXCEPT ![t] = Tail(@)]
  /\ Goto(t, "decide")
  /\ UNCHANGED <<gil, objectVars, outcome>>

AnisotropyDone(t) ==
  /\ pc[t] = "anisotropy"
  /\ Goto(t, "return_shared")
  /\ Ends(t, "ok")
  /\ UNCHANGED <<gil, objectVars, todo>>

-----------------------------------------------------------------------------
(* Back under the GIL the result is converted and the borrow given up.     *)

ReturnMutable(t) ==
  /\ gil = t
  /\ pc[t] = "return"
  /\ borrow' = 0
  /\ Goto(t, "python")
  /\ UNCHANGED <<gil, normalized, cacheK, todo, outcome>>

ReturnSharedReset(t) ==  \* mutant: the flag cleared instead of decremented
  /\ gil = t
  /\ pc[t] = "return_shared"
  /\ borrow' = 0
  /\ Goto(t, "python")
  /\ UNCHANGED <<gil, normalized, cacheK, todo, outcome>>

ReturnShared(t) ==
  /\ gil = t
  /\ pc[t] = "return_shared"
  /\ borrow' = borrow - 1
  /\ Goto(t, "python")
  /\ UNCHANGED <<gil, normalized, cacheK, todo, outcome>>

-----------------------------------------------------------------------------
Enter(t) ==
  \/ \E ks \in Calls : CallMutable(t, ks)
  \/ RefuseMutable(t)
  \/ CallAnisotropy(t)
  \/ ReadGetter(t)
  \/ RefuseShared(t)

\* What a thread inside a call does without waiting for anything.
Compute(t) ==
  \/ NoStepsLeft(t) \/ TooLarge(t) \/ Decide(t)
  \/ Normalize(t) \/ CannotNormalize(t)
  \/ StoreSearch(t) \/ SearchPanics(t) \/ UseSlice(t)
  \/ AnisotropyDone(t)

\* What it does in a call with the GIL.
Proceed(t) ==
  \/ RejectArguments(t) \/ Prepare(t) \/ ReleaseGil(t)
  \/ ReturnMutable(t) \/ ReturnShared(t)

Next ==
  \E t \in Threads :
    TakeGil(t) \/ YieldGil(t) \/ Enter(t) \/ Compute(t) \/ Proceed(t)

Spec == Init /\ [][Next]_vars

\* Rust code runs to completion. The interpreter makes a thread running Python
\* give up the GIL again and again (its switch interval), a waiting thread gets
\* it again and again, and a thread that keeps getting it advances.
Fairness ==
  \A t \in Threads :
    /\ WF_vars(Compute(t))
    /\ WF_vars(YieldGil(t))
    /\ SF_vars(TakeGil(t))
    /\ SF_vars(Proceed(t))

FairSpec == Spec /\ Fairness

-----------------------------------------------------------------------------
(* Properties.                                                             *)

\* Types; the shared cache never has n columns or more.
TypeOK ==
  /\ gil \in Threads \cup {NoThread}
  /\ borrow \in Int
  /\ pc \in [Threads -> Mutable \cup Shared \cup {"python"}]
  /\ todo \in [Threads -> Seq(Nat \ {0})]
  /\ normalized \in BOOLEAN
  /\ cacheK \in 0..(N - 1)

Writers == {t \in Threads : pc[t] \in Mutable}
Readers == {t \in Threads : pc[t] \in Shared}

\* The borrow flag counts the calls in progress on every path in and out of a
\* method (returns, errors, panics): a mutable call is alone, even while it has
\* released the GIL, and an idle object is never left borrowed.
BorrowTracksCalls ==
  \/ borrow = -1 /\ Readers = {} /\ \E t \in Threads : Writers = {t}
  \/ borrow >= 0 /\ Writers = {} /\ borrow = Cardinality(Readers)

\* What get_knn decided before the search still holds when it uses the cache,
\* with no lock but the borrow: a search widens the cache, and the slice a
\* metric reads is inside it.
DecisionsStayValid ==
  \A t \in Threads :
    /\ pc[t] \in {"normalize", "search", "slice"} =>
         todo[t] # <<>> /\ Head(todo[t]) < N
    /\ pc[t] \in {"normalize", "search"} => cacheK < Head(todo[t])
    /\ pc[t] = "search" => normalized
    /\ pc[t] = "slice" => normalized /\ Head(todo[t]) <= cacheK

\* Concurrent calls never narrow the shared k-NN cache.
CacheNeverNarrows == [][cacheK' >= cacheK]_vars

\* Every accepted call returns or raises, whatever the other threads do.
CallsReturn ==
  \A t \in Threads : pc[t] # "python" ~> pc[t] = "python"
=============================================================================
