-------------------------- MODULE PyEvaluatorProofs --------------------------
(***************************************************************************)
(* Proofs about PyEvaluator for any number of threads, any number of       *)
(* vectors and any calls. PyO3's borrow flag is the lock of the object:    *)
(* BorrowTracksCalls makes a thread in a mutable call the only one, and    *)
(* from there what it decided about the cache stays true until it is done. *)
(***************************************************************************)
EXTENDS PyEvaluator, FiniteSetTheorems, TLAPS

\* A call that finds enough columns skips ensure_normalized: that is right
\* because a cache was only ever filled from normalised vectors.
CacheIsNormalized == cacheK # 0 => normalized

IInv ==
  /\ TypeOK
  /\ BorrowTracksCalls
  /\ DecisionsStayValid
  /\ CacheIsNormalized

-----------------------------------------------------------------------------
(* The borrow flag as a lock.                                              *)

\* A thread in a mutable call is the only one in any call.
LEMMA WriterIsAlone ==
  ASSUME TypeOK, BorrowTracksCalls,
         NEW t \in Threads, pc[t] \in Mutable
  PROVE  /\ borrow = -1
         /\ Writers = {t}
         /\ Readers = {}
         /\ \A u \in Threads \ {t} : pc[u] = "python"
<1>1. t \in Writers
  BY DEF Writers
<1>2. borrow = -1 /\ Readers = {} /\ \E u \in Threads : Writers = {u}
  BY <1>1 DEF BorrowTracksCalls
<1>3. Writers = {t}
  BY <1>1, <1>2
<1>4. ASSUME NEW u \in Threads \ {t} PROVE pc[u] = "python"
  BY <1>2, <1>3 DEF Writers, Readers, TypeOK
<1> QED
  BY <1>2, <1>3, <1>4

\* A step of one thread that stays in a mutable call, in a shared call or in
\* the caller leaves the borrow as it should be.
LEMMA SameSide ==
  ASSUME BorrowTracksCalls, borrow' = borrow,
         \A u \in Threads : /\ pc[u] \in Mutable <=> pc'[u] \in Mutable
                            /\ pc[u] \in Shared <=> pc'[u] \in Shared
  PROVE  BorrowTracksCalls'
<1>1. Writers' = Writers /\ Readers' = Readers
  BY DEF Writers, Readers
<1> QED
  BY <1>1 DEF BorrowTracksCalls

-----------------------------------------------------------------------------
(* Type correctness.                                                       *)

\* The places a thread can be in.
Places == Mutable \cup Shared \cup {"python"}

LEMMA PlacesAre ==
  /\ Mutable = {"resolve", "prepare", "decide", "normalize", "search", "slice", "return"}
  /\ Shared = {"anisotropy", "return_shared"}
BY DEF Mutable, Preparing, Searching, Shared

LEMMA TypeInit == Init => TypeOK
<1> SUFFICES ASSUME Init PROVE TypeOK
  OBVIOUS
<1>1. todo \in [Threads -> Seq(Nat \ {0})]
  <2>1. <<>> \in Seq(Nat \ {0})
    OBVIOUS
  <2> QED
    BY <2>1 DEF Init
<1>2. pc \in [Threads -> Places]
  BY DEF Init, Places
<1>3. gil \in Threads \cup {NoThread} /\ borrow \in Int
  BY DEF Init
<1>5. normalized \in BOOLEAN
  BY DEF Init
<1>4. cacheK \in 0..(N - 1)
  BY SizeAssumption DEF Init
<1> QED
  BY <1>1, <1>2, <1>3, <1>4, <1>5 DEF TypeOK, Places

LEMMA TypeNext ==
  ASSUME TypeOK, DecisionsStayValid, NEW t \in Threads,
         \/ TakeGil(t) \/ YieldGil(t) \/ Enter(t) \/ Compute(t) \/ Proceed(t)
  PROVE  TypeOK'
<1> USE PlacesAre
<1>1. CASE TakeGil(t) \/ YieldGil(t)
  BY <1>1 DEF TakeGil, YieldGil, TypeOK, objectVars
<1>2. ASSUME NEW ks \in Calls, CallMutable(t, ks) PROVE TypeOK'
  <2>1. ks \in Seq(Nat \ {0})
    BY CallsAssumption
  <2> QED
    BY <1>2, <2>1 DEF CallMutable, Goto, Ends, TypeOK
<1>3. CASE RefuseMutable(t) \/ ReadGetter(t) \/ RefuseShared(t)
  BY <1>3 DEF RefuseMutable, ReadGetter, RefuseShared, Ends, objectVars, TypeOK
<1>4. CASE CallAnisotropy(t)
  BY <1>4 DEF CallAnisotropy, Goto, Ends, TypeOK
<1>5. CASE NoStepsLeft(t) \/ TooLarge(t) \/ CannotNormalize(t) \/ SearchPanics(t)
  <2>1. <<>> \in Seq(Nat \ {0})
    OBVIOUS
  <2>2. ASSUME NEW o, Finish(t, o) PROVE TypeOK'
    BY <2>1, <2>2 DEF Finish, Goto, Ends, objectVars, TypeOK
  <2> QED
    BY <1>5, <2>2 DEF NoStepsLeft, TooLarge, CannotNormalize, SearchPanics
<1>6. CASE Decide(t)
  BY <1>6 DEF Decide, Goto, objectVars, TypeOK
<1>7. CASE Normalize(t)
  BY <1>7 DEF Normalize, Goto, TypeOK
<1>8. CASE StoreSearch(t)
  <2>1. Head(todo[t]) \in 0..(N - 1)
    BY <1>8, SizeAssumption DEF StoreSearch, DecisionsStayValid, TypeOK
  <2> QED
    BY <1>8, <2>1 DEF StoreSearch, Goto, TypeOK
<1>9. CASE UseSlice(t)
  <2>1. Tail(todo[t]) \in Seq(Nat \ {0})
    BY <1>9 DEF UseSlice, DecisionsStayValid, TypeOK
  <2> QED
    BY <1>9, <2>1 DEF UseSlice, Goto, objectVars, TypeOK
<1>10. CASE AnisotropyDone(t)
  BY <1>10 DEF AnisotropyDone, Goto, Ends, objectVars, TypeOK
<1>11. CASE RejectArguments(t)
  <2>1. <<>> \in Seq(Nat \ {0})
    OBVIOUS
  <2> QED
    BY <1>11, <2>1 DEF RejectArguments, Goto, Ends, TypeOK
<1>12. CASE Prepare(t) \/ ReleaseGil(t)
  BY <1>12 DEF Prepare, ReleaseGil, Goto, objectVars, TypeOK
<1>13. CASE ReturnMutable(t)
  BY <1>13 DEF ReturnMutable, Goto, TypeOK
<1>14. CASE ReturnShared(t)
  BY <1>14 DEF ReturnShared, Goto, TypeOK
<1> QED
  BY <1>1, <1>2, <1>3, <1>4, <1>5, <1>6, <1>7, <1>8, <1>9, <1>10, <1>11, <1>12, <1>13, <1>14
  DEF Enter, Compute, Proceed
-----------------------------------------------------------------------------
(* The borrow flag counts the calls.                                       *)

LEMMA ReadersFinite ==
  /\ IsFiniteSet(Readers)
  /\ Cardinality(Readers) \in Nat
  /\ Cardinality(Readers) = 0 <=> Readers = {}
<1>1. Readers \subseteq Threads
  BY DEF Readers
<1>2. IsFiniteSet(Readers)
  BY <1>1, ThreadsAssumption, FS_Subset
<1> QED
  BY <1>2, FS_CardinalityType, FS_EmptySet

LEMMA BorrowNext ==
  ASSUME TypeOK, BorrowTracksCalls, NEW t \in Threads,
         \/ TakeGil(t) \/ YieldGil(t) \/ Enter(t) \/ Compute(t) \/ Proceed(t)
  PROVE  BorrowTracksCalls'
<1> USE PlacesAre
<1>1. CASE \/ TakeGil(t) \/ YieldGil(t)
           \/ RefuseMutable(t) \/ ReadGetter(t) \/ RefuseShared(t)
  <2>1. UNCHANGED <<pc, borrow>>
    BY <1>1 DEF TakeGil, YieldGil, RefuseMutable, ReadGetter, RefuseShared, objectVars
  <2> QED
    BY <2>1 DEF BorrowTracksCalls, Writers, Readers
<1>2. ASSUME NEW ks \in Calls, CallMutable(t, ks) PROVE BorrowTracksCalls'
  <2>1. borrow = 0 /\ borrow' = -1 /\ pc' = [pc EXCEPT ![t] = "resolve"]
    BY <1>2 DEF CallMutable, Goto
  <2>2. Writers = {} /\ Readers = {}
    BY <2>1, ReadersFinite DEF BorrowTracksCalls
  <2>3. Writers' = {t} /\ Readers' = {}
    BY <2>1, <2>2 DEF Writers, Readers, TypeOK
  <2> QED
    BY <2>1, <2>3 DEF BorrowTracksCalls
<1>3. CASE CallAnisotropy(t)
  <2>1. /\ pc[t] = "python" /\ borrow >= 0 /\ borrow' = borrow + 1
        /\ pc' = [pc EXCEPT ![t] = "anisotropy"]
    BY <1>3 DEF CallAnisotropy, Goto
  <2>2. Writers = {} /\ borrow = Cardinality(Readers)
    BY <2>1 DEF BorrowTracksCalls
  <2>3. Writers' = {} /\ Readers' = Readers \cup {t} /\ t \notin Readers
    BY <2>1, <2>2 DEF Writers, Readers, TypeOK
  <2>4. Cardinality(Readers') = Cardinality(Readers) + 1
    BY <2>3, ReadersFinite, FS_AddElement
  <2> QED
    BY <2>1, <2>2, <2>3, <2>4, ReadersFinite DEF BorrowTracksCalls
<1>4. CASE Prepare(t) \/ ReleaseGil(t)
  <2>1. CASE Prepare(t)
    BY <2>1, SameSide DEF Prepare, Goto, objectVars, TypeOK
  <2>2. CASE ReleaseGil(t)
    BY <2>2, SameSide DEF ReleaseGil, Preparing, Goto, objectVars, TypeOK
  <2> QED
    BY <1>4, <2>1, <2>2
<1>5. CASE Compute(t) /\ ~AnisotropyDone(t)
  <2>1. ASSUME NEW o, Finish(t, o), pc[t] \in Mutable PROVE BorrowTracksCalls'
    BY <2>1, SameSide DEF Finish, Goto, objectVars, TypeOK
  <2>2. CASE NoStepsLeft(t) \/ TooLarge(t) \/ CannotNormalize(t) \/ SearchPanics(t)
    BY <2>1, <2>2 DEF NoStepsLeft, TooLarge, CannotNormalize, SearchPanics
  <2>3. CASE Decide(t)
    <3>1. \E l \in {"normalize", "slice"} :
             pc[t] = "decide" /\ pc' = [pc EXCEPT ![t] = l] /\ borrow' = borrow
      BY <2>3 DEF Decide, Goto, objectVars
    <3> QED
      BY <3>1, SameSide DEF TypeOK
  <2>4. CASE Normalize(t)
    BY <2>4, SameSide DEF Normalize, Goto, TypeOK
  <2>5. CASE StoreSearch(t)
    BY <2>5, SameSide DEF StoreSearch, Goto, TypeOK
  <2>6. CASE UseSlice(t)
    BY <2>6, SameSide DEF UseSlice, Goto, objectVars, TypeOK
  <2> QED
    BY <1>5, <2>2, <2>3, <2>4, <2>5, <2>6 DEF Compute
<1>6. CASE AnisotropyDone(t)
  BY <1>6, SameSide DEF AnisotropyDone, Goto, objectVars, TypeOK
<1>7. CASE RejectArguments(t) \/ ReturnMutable(t)
  <2>1. pc[t] \in Mutable /\ borrow' = 0 /\ pc' = [pc EXCEPT ![t] = "python"]
    BY <1>7 DEF RejectArguments, ReturnMutable, Goto
  <2>2. Writers' = {} /\ Readers' = {}
    BY <2>1, WriterIsAlone DEF Writers, Readers, TypeOK
  <2>3. Cardinality(Readers') = 0
    BY <2>2, FS_EmptySet
  <2> QED
    BY <2>1, <2>2, <2>3 DEF BorrowTracksCalls
<1>8. CASE ReturnShared(t)
  <2>1. /\ pc[t] = "return_shared" /\ borrow' = borrow - 1
        /\ pc' = [pc EXCEPT ![t] = "python"]
    BY <1>8 DEF ReturnShared, Goto
  <2>2. t \in Readers /\ Readers' = Readers \ {t} /\ Writers' = Writers
    BY <2>1 DEF Writers, Readers, TypeOK
  <2>3. Writers = {} /\ borrow = Cardinality(Readers)
    BY <2>2 DEF BorrowTracksCalls
  <2>4. Cardinality(Readers') = Cardinality(Readers) - 1
    BY <2>2, ReadersFinite, FS_RemoveElement
  <2>5. Cardinality(Readers) > 0
    BY <2>2, ReadersFinite
  <2> QED
    BY <2>1, <2>2, <2>3, <2>4, <2>5, ReadersFinite DEF BorrowTracksCalls
<1> QED
  BY <1>1, <1>2, <1>3, <1>4, <1>5, <1>6, <1>7, <1>8 DEF Enter, Proceed

-----------------------------------------------------------------------------
(* What a call decided about the cache stays true until the call is done.  *)

LEMMA DecisionsNext ==
  ASSUME TypeOK, BorrowTracksCalls, DecisionsStayValid, CacheIsNormalized,
         NEW t \in Threads,
         \/ TakeGil(t) \/ YieldGil(t) \/ Enter(t) \/ Compute(t) \/ Proceed(t)
  PROVE  DecisionsStayValid'
<1> USE PlacesAre
<1> DEFINE Valid(u) ==
      /\ pc[u] \in {"normalize", "search", "slice"} =>
           todo[u] # <<>> /\ Head(todo[u]) < N
      /\ pc[u] \in {"normalize", "search"} => cacheK < Head(todo[u])
      /\ pc[u] = "search" => normalized
      /\ pc[u] = "slice" => normalized /\ Head(todo[u]) <= cacheK
<1>1. ASSUME NEW u \in Threads \ {t} PROVE Valid(u)'
  <2>1. UNCHANGED <<pc[u], todo[u]>>
    BY DEF TakeGil, YieldGil, Enter, Compute, Proceed, CallMutable, RefuseMutable,
           CallAnisotropy, ReadGetter, RefuseShared, NoStepsLeft, TooLarge, Decide,
           Normalize, CannotNormalize, StoreSearch, SearchPanics, UseSlice,
           AnisotropyDone, RejectArguments, Prepare, ReleaseGil, ReturnMutable, ReturnShared,
           Finish, Goto, Ends, objectVars, TypeOK
  <2>2. CASE pc[t] \in Mutable
    <3>1. pc[u] = "python"
      BY <2>2, WriterIsAlone
    <3> QED
      BY <2>1, <3>1
  <2>3. CASE pc[t] \notin Mutable
    <3>1. UNCHANGED <<normalized, cacheK>>
      BY <2>3
      DEF TakeGil, YieldGil, Enter, Compute, Proceed, CallMutable, RefuseMutable,
          CallAnisotropy, ReadGetter, RefuseShared, NoStepsLeft, TooLarge, Decide,
          Normalize, CannotNormalize, StoreSearch, SearchPanics, UseSlice,
          AnisotropyDone, RejectArguments, Prepare, ReleaseGil, ReturnMutable, ReturnShared,
          Finish, objectVars
    <3> QED
      BY <2>1, <3>1 DEF DecisionsStayValid
  <2> QED
    BY <2>2, <2>3
<1>2. Valid(t)'
  <2>1. CASE pc'[t] \notin {"normalize", "search", "slice"}
    BY <2>1
  <2>2. CASE TakeGil(t) \/ YieldGil(t)
    BY <2>2 DEF TakeGil, YieldGil, objectVars, DecisionsStayValid
  <2>3. CASE Enter(t)
    BY <2>1, <2>3 DEF Enter, CallMutable, RefuseMutable, CallAnisotropy, ReadGetter,
       RefuseShared, Goto, objectVars, TypeOK
  <2>4. CASE Decide(t)
    <3>1. Head(todo[t]) \in Nat \ {0} /\ cacheK \in Int
      BY <2>4, SizeAssumption DEF Decide, TypeOK
    <3> QED
      BY <2>4, <3>1 DEF Decide, Goto, objectVars, TypeOK, CacheIsNormalized
  <2>5. CASE Normalize(t)
    BY <2>5 DEF Normalize, Goto, TypeOK, DecisionsStayValid
  <2>6. CASE StoreSearch(t)
    BY <2>6 DEF StoreSearch, Goto, TypeOK, DecisionsStayValid
  <2>7. CASE Proceed(t) \/ NoStepsLeft(t) \/ TooLarge(t) \/ CannotNormalize(t)
             \/ SearchPanics(t) \/ UseSlice(t) \/ AnisotropyDone(t)
    BY <2>1, <2>7 DEF Proceed, RejectArguments, Prepare, ReleaseGil, ReturnMutable, ReturnShared,
       NoStepsLeft, TooLarge, CannotNormalize, SearchPanics, UseSlice, AnisotropyDone,
       Finish, Goto, TypeOK
  <2> QED
    BY <2>2, <2>3, <2>4, <2>5, <2>6, <2>7 DEF Compute
<1> QED
  BY <1>1, <1>2 DEF DecisionsStayValid
LEMMA CacheNext ==
  ASSUME TypeOK, DecisionsStayValid, CacheIsNormalized, NEW t \in Threads,
         \/ TakeGil(t) \/ YieldGil(t) \/ Enter(t) \/ Compute(t) \/ Proceed(t)
  PROVE  CacheIsNormalized' /\ cacheK' >= cacheK
<1> USE DEF CacheIsNormalized
<1>1. CASE StoreSearch(t)
  BY <1>1, SizeAssumption DEF StoreSearch, DecisionsStayValid, TypeOK
<1>2. CASE Normalize(t)
  BY <1>2 DEF Normalize, TypeOK
<1>3. CASE ~StoreSearch(t) /\ ~Normalize(t)
  <2>1. UNCHANGED <<normalized, cacheK>>
    BY <1>3
    DEF TakeGil, YieldGil, Enter, Compute, Proceed, CallMutable, RefuseMutable,
        CallAnisotropy, ReadGetter, RefuseShared, NoStepsLeft, TooLarge, Decide,
        CannotNormalize, SearchPanics, UseSlice, AnisotropyDone, RejectArguments,
        Prepare, ReleaseGil, ReturnMutable, ReturnShared, Finish, objectVars
  <2> QED
    BY <2>1 DEF TypeOK
<1> QED
  BY <1>1, <1>2, <1>3

-----------------------------------------------------------------------------
(* The theorems.                                                           *)

LEMMA InitIInv == Init => IInv
<1> SUFFICES ASSUME Init PROVE IInv
  OBVIOUS
<1> USE PlacesAre
<1>1. TypeOK
  BY TypeInit
<1>2. Writers = {} /\ Readers = {}
  BY DEF Init, Writers, Readers
<1>3. Cardinality(Readers) = 0
  BY <1>2, FS_EmptySet
<1>4. BorrowTracksCalls
  BY <1>2, <1>3 DEF Init, BorrowTracksCalls
<1>5. DecisionsStayValid /\ CacheIsNormalized
  BY DEF Init, DecisionsStayValid, CacheIsNormalized
<1> QED
  BY <1>1, <1>4, <1>5 DEF IInv

LEMMA NextIInv == IInv /\ [Next]_vars => IInv' /\ cacheK' >= cacheK
<1> SUFFICES ASSUME IInv, [Next]_vars PROVE IInv' /\ cacheK' >= cacheK
  OBVIOUS
<1>1. CASE Next
  <2>1. PICK t \in Threads :
          TakeGil(t) \/ YieldGil(t) \/ Enter(t) \/ Compute(t) \/ Proceed(t)
    BY <1>1 DEF Next
  <2>2. TypeOK'
    BY <2>1, TypeNext DEF IInv
  <2>3. BorrowTracksCalls'
    BY <2>1, BorrowNext DEF IInv
  <2>4. DecisionsStayValid'
    BY <2>1, DecisionsNext DEF IInv
  <2>5. CacheIsNormalized' /\ cacheK' >= cacheK
    BY <2>1, CacheNext DEF IInv
  <2> QED
    BY <2>2, <2>3, <2>4, <2>5 DEF IInv
<1>2. CASE UNCHANGED vars
  <2>1. cacheK \in Int
    BY SizeAssumption DEF IInv, TypeOK
  <2>2. TypeOK'
    BY <1>2 DEF vars, IInv, TypeOK
  <2>3. BorrowTracksCalls'
    BY <1>2 DEF vars, IInv, BorrowTracksCalls, Writers, Readers
  <2>4. DecisionsStayValid' /\ CacheIsNormalized' /\ cacheK' >= cacheK
    BY <1>2, <2>1 DEF vars, IInv, DecisionsStayValid, CacheIsNormalized
  <2> QED
    BY <2>2, <2>3, <2>4 DEF IInv
<1> QED
  BY <1>1, <1>2

\* The threads, the borrow flag and the caches keep their types.
THEOREM TypeCorrect == Spec => []TypeOK
<1>1. IInv => TypeOK
  BY DEF IInv
<1> QED
  BY <1>1, InitIInv, NextIInv, PTL DEF Spec

\* PyO3's borrow flag counts the calls in progress exactly, on every path out
\* of a method: however many threads share the object, a mutable call is alone
\* with it, and when no call is in progress the object is free.
THEOREM BorrowExact == Spec => []BorrowTracksCalls
<1>1. IInv => BorrowTracksCalls
  BY DEF IInv
<1> QED
  BY <1>1, InitIInv, NextIInv, PTL DEF Spec

\* With the GIL released, what get_knn read of the caches before its search
\* still holds after it, and the columns a metric takes are there.
THEOREM NoStaleDecision == Spec => []DecisionsStayValid
<1>1. IInv => DecisionsStayValid
  BY DEF IInv
<1> QED
  BY <1>1, InitIInv, NextIInv, PTL DEF Spec

\* The shared k-NN cache only grows, for any number of concurrent callers.
THEOREM SharedCacheMonotone == Spec => CacheNeverNarrows
<1>1. IInv /\ [Next]_vars => [cacheK' >= cacheK]_vars
  BY NextIInv
<1> QED
  BY <1>1, InitIInv, NextIInv, PTL DEF Spec, CacheNeverNarrows
=============================================================================
