-------------------------- MODULE EvaluatorProofs --------------------------
(***************************************************************************)
(* Safety of the evaluator, for any sets of vectors and requests: what its *)
(* caches hold, what its replies were computed from, when it panics, and   *)
(* that with its caches it implements MetricOracle, which has none.        *)
(***************************************************************************)
EXTENDS Evaluator, KnnSearchProofs

-----------------------------------------------------------------------------
AllRequests == UNION {Requests(v) : v \in Datasets}
AllSteps == UNION {{request[i] : i \in DOMAIN request} : request \in AllRequests}

\* The vectors are legal, and what is left to run is a tail of a legal request.
QueueOK ==
  /\ vectors \in Datasets
  /\ call \in [request : Seq(AllSteps), todo : Seq(AllSteps),
               results : {call.results}, searches : Nat]

IInv == TypeOK /\ CacheIsSearch /\ QueueOK

LEMMA StepsOK == \A s \in AllSteps : StepOK(s)
<1> SUFFICES ASSUME NEW s \in AllSteps PROVE StepOK(s)
  OBVIOUS
<1>1. PICK request \in AllRequests : \E i \in DOMAIN request : s = request[i]
  BY DEF AllSteps
<1>2. PICK v \in Datasets : request \in Requests(v)
  BY DEF AllRequests
<1>3. QED
  BY <1>1, <1>2, InputsAssumption

LEMMA RequestsAreSequences ==
  ASSUME NEW v \in Datasets, NEW request \in Requests(v)
  PROVE  request \in Seq(AllSteps)
<1>1. {request[i] : i \in DOMAIN request} \subseteq AllSteps
  BY DEF AllSteps, AllRequests
<1>2. request \in Seq({request[i] : i \in DOMAIN request})
  BY InputsAssumption
<1>3. QED
  BY <1>1, <1>2

LEMMA InitInv == Init => IInv
<1> SUFFICES ASSUME Init PROVE IInv
  OBVIOUS
<1>1. vectors.n \in Nat \ {0}
  BY InputsAssumption DEF Init, VectorsOK
<1>2. TypeOK
  BY <1>1 DEF TypeOK, Init, NoCall
<1>3. CacheIsSearch
  BY DEF CacheIsSearch, Init
<1>4. QueueOK
  BY DEF QueueOK, Init, NoCall
<1>5. QED
  BY <1>2, <1>3, <1>4 DEF IInv

-----------------------------------------------------------------------------
(* The queue of steps.                                                     *)

LEMMA NoCallQueue ==
  ASSUME QueueOK, call' = NoCall, UNCHANGED vectors
  PROVE  QueueOK' /\ call'.searches \in Nat
BY DEF QueueOK, NoCall

LEMMA DeliverQueue ==
  ASSUME QueueOK, call.todo # <<>>, NEW result, Deliver(result)
  PROVE  QueueOK' /\ call'.searches \in Nat
<1>1. CASE Len(call.todo) = 1
  BY <1>1, NoCallQueue DEF Deliver
<1>2. CASE Len(call.todo) # 1
  <2>1. Tail(call.todo) \in Seq(AllSteps)
    BY DEF QueueOK
  <2> DEFINE n == call.searches + (IF knn' = knn THEN 0 ELSE 1)
             results == Append(call.results, result)
  <2>2. n \in Nat
    BY DEF QueueOK
  <2>3. call' = [call EXCEPT !.todo = Tail(@), !.results = results,
                             !.searches = n]
    BY <1>2 DEF Deliver
  <2>4. call' \in [request : Seq(AllSteps), todo : Seq(AllSteps),
                   results : {call'.results}, searches : Nat]
    BY <2>1, <2>2, <2>3 DEF QueueOK
  <2>5. UNCHANGED vectors
    BY DEF Deliver
  <2>6. QED
    BY <2>4, <2>5 DEF QueueOK
<1>3. QED
  BY <1>1, <1>2

LEMMA FailQueue ==
  ASSUME QueueOK, NEW error, Fail(error)
  PROVE  QueueOK' /\ call'.searches \in Nat
BY NoCallQueue DEF Fail

-----------------------------------------------------------------------------
(* The caches.                                                             *)

CachesKept == UNCHANGED knn /\ (normalized' = normalized \/ normalized' = TRUE)

LEMMA KnnStepCaches ==
  ASSUME IInv, UNCHANGED vectors, NEW s \in AllSteps, KnnReady(s) \/ CachesKept
  PROVE  /\ CacheIsSearch'
         /\ normalized' \in BOOLEAN
         /\ knn' = NoCache \/ knn' \in [k : 0..(vectors.n - 1), rows : {knn'.rows}]
         /\ knn # NoCache => knn' # NoCache /\ knn'.k >= knn.k
<1>1. CASE CachesKept \/ Cached(s)
  <2>1. knn' = knn /\ (normalized' = normalized \/ normalized' = TRUE)
    BY <1>1 DEF CachesKept, Cached
  <2>2. CacheIsSearch'
    BY <2>1 DEF IInv, CacheIsSearch
  <2>3. normalized' \in BOOLEAN
    BY <2>1 DEF IInv, TypeOK
  <2>4. knn' = NoCache \/ knn' \in [k : 0..(vectors.n - 1), rows : {knn'.rows}]
    BY <2>1 DEF IInv, TypeOK
  <2>5. knn # NoCache => knn'.k >= knn.k
    BY <2>1 DEF IInv, TypeOK
  <2>6. QED
    BY <2>1, <2>2, <2>3, <2>4, <2>5
<1>2. CASE Recomputed(s)
  <2>1. s.k \in Nat /\ s.b \in Nat \ {0}
    BY StepsOK DEF StepOK
  <2>2. knn' = [k |-> s.k, rows |-> Search(vectors, s.k, 1)]
    BY <1>2, <2>1, BatchIndependence DEF Recomputed, IInv, TypeOK
  <2>3. knn'.k = s.k /\ knn'.rows = Search(vectors, s.k, 1)
    BY <2>2
  <2>4. 0 <= s.k /\ s.k < vectors.n /\ vectors.n \in Nat
    BY <1>2, <2>1 DEF Recomputed, IInv, TypeOK
  <2>5. normalized' = TRUE
    BY <1>2 DEF Recomputed, EnsureNormalized
  <2>6. knn' # NoCache
    BY <2>1, <2>3 DEF NoCache
  <2>7. knn # NoCache => knn.k < s.k /\ knn.k \in Nat
    BY <1>2 DEF Recomputed, NeedSearch, IInv, TypeOK
  <2>8. CacheIsSearch'
    BY <2>3, <2>4, <2>5 DEF CacheIsSearch
  <2>9. knn' \in [k : 0..(vectors.n - 1), rows : {knn'.rows}]
    BY <2>1, <2>2, <2>4
  <2>10. QED
    BY <2>1, <2>3, <2>5, <2>6, <2>7, <2>8, <2>9
<1>3. QED
  BY <1>1, <1>2 DEF KnnReady

-----------------------------------------------------------------------------
(* Every step, by metric.                                                  *)

\* A metric step reaches the caches through get_knn alone, or only normalises,
\* or leaves them; and it ends in Deliver or in Fail.
LEMMA StepShape ==
  ASSUME NEW s, Step, s = Head(call.todo)
  PROVE  /\ call.todo # <<>>
         /\ KnnReady(s) \/ CachesKept
         /\ (\E result : Deliver(result)) \/ (\E error : Fail(error))
<1> USE DEF Running
<1>0. call.todo # <<>>
  BY DEF Step
<1>1. CASE GetKnn(s)
  BY <1>0, <1>1 DEF GetKnn
<1>2. CASE ComputeHubness(s)
  BY <1>0, <1>2 DEF ComputeHubness
<1>3. CASE IdentifyHubsStep(s)
  BY <1>0, <1>3 DEF IdentifyHubsStep
<1>4. CASE ComputeDispersion(s)
  BY <1>0, <1>4 DEF ComputeDispersion
<1>5. CASE ComputeOutliers(s)
  BY <1>0, <1>5 DEF ComputeOutliers
<1>6. CASE ComputeDuplicates(s)
  BY <1>0, <1>6 DEF ComputeDuplicates
<1>7. CASE ComputeIntrinsicDim(s)
  BY <1>0, <1>7 DEF ComputeIntrinsicDim
<1>8. CASE ComputeSnc(s)
  BY <1>0, <1>8 DEF ComputeSnc
<1>9. CASE ComputeAnisotropy(s)
  BY <1>0, <1>9 DEF ComputeAnisotropy, CachesKept
<1>10. CASE KnnMetricFails(s)
  BY <1>0, <1>10 DEF KnnMetricFails, CachesKept, KTooLarge, CannotNormalize,
                     SearchAborts, EnsureNormalized
<1>11. CASE QmasRefused(s)
  BY <1>0, <1>11 DEF QmasRefused, CachesKept
<1>12. CASE ComputeQmas(s)
  BY <1>0, <1>12 DEF ComputeQmas, CachesKept, EnsureNormalized
<1>13. QED
  BY <1>1, <1>2, <1>3, <1>4, <1>5, <1>6, <1>7, <1>8, <1>9, <1>10, <1>11, <1>12
     DEF Step

LEMMA HeadIsStep ==
  ASSUME QueueOK, call.todo # <<>>
  PROVE  Head(call.todo) \in AllSteps
BY DEF QueueOK

LEMMA NextInv ==
  ASSUME IInv, [Next]_vars
  PROVE  IInv' /\ (knn # NoCache => knn' # NoCache /\ knn'.k >= knn.k)
<1>1. CASE Step
  <2> DEFINE s == Head(call.todo)
  <2>1. /\ call.todo # <<>>
        /\ KnnReady(s) \/ CachesKept
        /\ (\E result : Deliver(result)) \/ (\E error : Fail(error))
    BY <1>1, StepShape
  <2>2. s \in AllSteps
    BY <2>1, HeadIsStep DEF IInv
  <2>3. UNCHANGED vectors
    BY <2>1 DEF Deliver, Fail
  <2>4. QueueOK' /\ call'.searches \in Nat
    BY <2>1, DeliverQueue, FailQueue DEF IInv
  <2>5. /\ CacheIsSearch'
        /\ normalized' \in BOOLEAN
        /\ knn' = NoCache \/ knn' \in [k : 0..(vectors.n - 1), rows : {knn'.rows}]
        /\ knn # NoCache => knn' # NoCache /\ knn'.k >= knn.k
    BY <2>1, <2>2, <2>3, KnnStepCaches
  <2>6. TypeOK'
    BY <2>3, <2>4, <2>5 DEF IInv, TypeOK
  <2>7. QED
    BY <2>4, <2>5, <2>6 DEF IInv
<1>2. ASSUME NEW request \in Requests(vectors), Begin(request)
      PROVE  IInv' /\ (knn # NoCache => knn' # NoCache /\ knn'.k >= knn.k)
  <2>1. request \in Seq(AllSteps)
    BY RequestsAreSequences DEF IInv, QueueOK
  <2>2. QueueOK' /\ call'.searches \in Nat
    BY <1>2, <2>1 DEF Begin, QueueOK, NoCall, IInv
  <2>3. UNCHANGED <<vectors, normalized, knn>>
    BY <1>2 DEF Begin
  <2>4. CacheIsSearch'
    BY <2>3 DEF IInv, CacheIsSearch
  <2>5. TypeOK'
    BY <2>2, <2>3 DEF IInv, TypeOK
  <2>6. knn # NoCache => knn' # NoCache /\ knn'.k >= knn.k
    BY <2>3 DEF IInv, TypeOK
  <2>7. QED
    BY <2>2, <2>4, <2>5, <2>6 DEF IInv
<1>3. CASE UNCHANGED vars
  <2>1. TypeOK' /\ CacheIsSearch' /\ QueueOK'
    BY <1>3 DEF vars, IInv, TypeOK, CacheIsSearch, QueueOK
  <2>2. knn # NoCache => knn' # NoCache /\ knn'.k >= knn.k
    BY <1>3 DEF vars, IInv, TypeOK
  <2>3. QED
    BY <2>1, <2>2 DEF IInv
<1>4. QED
  BY <1>1, <1>2, <1>3 DEF Next

-----------------------------------------------------------------------------
(* The variables keep their types.                                         *)
THEOREM TypeCorrect == Spec => []TypeOK
<1>1. IInv /\ [Next]_vars => IInv'
  BY NextInv
<1>2. IInv => TypeOK
  BY DEF IInv
<1>3. QED
  BY InitInv, <1>1, <1>2, PTL DEF Spec

(***************************************************************************)
(* The k-NN cache is always the complete result of one search of the       *)
(* evaluator's vectors, whatever calls, errors and panics came before.     *)
(***************************************************************************)
THEOREM CacheCoherent == Spec => []CacheIsSearch
<1>1. IInv /\ [Next]_vars => IInv'
  BY NextInv
<1>2. IInv => CacheIsSearch
  BY DEF IInv
<1>3. QED
  BY InitInv, <1>1, <1>2, PTL DEF Spec

(***************************************************************************)
(* No step drops or narrows the k-NN cache.                                *)
(***************************************************************************)
THEOREM CacheMonotone == Spec => CacheNeverNarrows
<1>1. IInv /\ [Next]_vars => IInv'
  BY NextInv
<1>2. IInv /\ [Next]_vars => [knn # NoCache => knn' # NoCache /\ knn'.k >= knn.k]_vars
  BY NextInv
<1>3. QED
  BY InitInv, <1>1, <1>2, PTL DEF Spec, CacheNeverNarrows

-----------------------------------------------------------------------------
(* The place in the call.                                                  *)

\* Steps of the call in progress that have succeeded.
Done == Len(call.request) - Len(call.todo)

\* What is left is the rest of the request, and there is one result for every
\* step before; there is no reply yet.
Place ==
  IF call.todo = <<>>
  THEN call = NoCall
  ELSE /\ call.request \in Requests(vectors)
       /\ Done \in Nat
       /\ \A i \in 1..Len(call.todo) : call.todo[i] = call.request[Done + i]
       /\ call.results = [i \in 1..Done |-> call.results[i]]
       /\ reply = Nothing

LEMMA NextStep ==
  ASSUME QueueOK, Place, call.todo # <<>>
  PROVE  /\ call.request \in Seq(AllSteps) /\ call.todo \in Seq(AllSteps)
         /\ Done \in Nat /\ Done + 1 \in 1..Len(call.request)
         /\ Len(call.todo) \in Nat \ {0}
         /\ Head(call.todo) = call.request[Done + 1]
<1>1. call.request \in Seq(AllSteps) /\ call.todo \in Seq(AllSteps)
  BY DEF QueueOK
<1>2. Done \in Nat /\ \A i \in 1..Len(call.todo) : call.todo[i] = call.request[Done + i]
  BY DEF Place
<1>3. Len(call.todo) \in Nat \ {0} /\ Head(call.todo) = call.todo[1]
  BY <1>1
<1>4. Done + 1 \in 1..Len(call.request)
  <2> DEFINE whole == Len(call.request)
             left == Len(call.todo)
  <2>1. whole \in Nat /\ left \in Nat \ {0} /\ whole - left \in Nat
    BY <1>1, <1>2, <1>3 DEF Done
  <2> HIDE DEF whole, left
  <2>2. whole - left + 1 \in 1..whole
    BY <2>1
  <2>3. QED
    BY <2>2 DEF whole, left, Done
<1>5. QED
  BY <1>1, <1>2, <1>3, <1>4

LEMMA AppendResult ==
  ASSUME NEW d \in Nat, NEW old, old = [i \in 1..d |-> old[i]], NEW result
  PROVE  Append(old, result) = [i \in 1..(d + 1) |-> IF i = d + 1 THEN result ELSE old[i]]
<1> DEFINE f == [i \in 1..d |-> old[i]]
<1>1. Append(f, result) = [i \in 1..(d + 1) |-> IF i = d + 1 THEN result ELSE old[i]]
  OBVIOUS
<1> HIDE DEF f
<1>2. old = f
  BY DEF f
<1>3. QED
  BY <1>1, <1>2

\* A result that is not the last of its call.
LEMMA DeliverPlace ==
  ASSUME QueueOK, Place, call.todo # <<>>, Len(call.todo) # 1, NEW result, Deliver(result)
  PROVE  /\ Place' /\ call'.todo # <<>> /\ Done' = Done + 1
         /\ call'.request = call.request /\ UNCHANGED <<vectors, reply>>
         /\ call'.results = [i \in 1..(Done + 1) |->
                               IF i = Done + 1 THEN result ELSE call.results[i]]
<1> DEFINE todo == call.todo
           results == [i \in 1..(Done + 1) |-> IF i = Done + 1 THEN result ELSE call.results[i]]
<1>1. /\ call.request \in Seq(AllSteps) /\ todo \in Seq(AllSteps)
      /\ Done \in Nat /\ Len(todo) \in Nat \ {0} /\ Len(todo) # 1
  BY NextStep
<1>2. /\ call.request \in Requests(vectors) /\ reply = Nothing
      /\ \A i \in 1..Len(todo) : todo[i] = call.request[Done + i]
      /\ call.results = [i \in 1..Done |-> call.results[i]]
  BY DEF Place
<1>3. /\ call'.request = call.request /\ call'.todo = Tail(todo)
      /\ call'.results = Append(call.results, result) /\ UNCHANGED <<vectors, reply>>
  BY DEF Deliver, QueueOK
<1>4. Append(call.results, result) = results
  BY <1>1, <1>2, AppendResult
<1> HIDE DEF todo, results
<1>5. /\ Len(Tail(todo)) = Len(todo) - 1
      /\ \A i \in 1..(Len(todo) - 1) : Tail(todo)[i] = todo[i + 1]
  BY <1>1
<1>6. Tail(todo) # <<>>
  <2>1. Len(todo) - 1 # 0
    BY <1>1
  <2>2. Len(<<>>) = 0
    OBVIOUS
  <2>3. QED
    BY <1>5, <2>1, <2>2, Zenon
<1>7. Done' = Done + 1
  <2> DEFINE whole == Len(call.request)
             left == Len(todo)
  <2>1. whole \in Nat /\ left \in Nat
    BY <1>1
  <2>2. Done' = whole - (left - 1)
    BY <1>3, <1>5 DEF Done
  <2> HIDE DEF whole, left
  <2>3. whole - (left - 1) = (whole - left) + 1
    BY <2>1
  <2>4. QED
    BY <2>2, <2>3 DEF Done, whole, left, todo
<1>8. \A i \in 1..Len(call'.todo) : call'.todo[i] = call.request[Done' + i]
  <2> TAKE i \in 1..Len(call'.todo)
  <2>1. i + 1 \in 1..Len(todo) /\ i \in 1..(Len(todo) - 1) /\ Done' + i = Done + (i + 1)
    BY <1>1, <1>3, <1>5, <1>7
  <2>2. QED
    BY <1>2, <1>3, <1>5, <2>1
<1>9. call'.results = results
  BY <1>3, <1>4
<1>10. results = [i \in 1..(Done + 1) |-> results[i]]
  BY DEF results
<1>11. Place'
  BY <1>1, <1>2, <1>3, <1>6, <1>7, <1>8, <1>9, <1>10 DEF Place
<1>12. QED
  BY <1>3, <1>6, <1>7, <1>9, <1>11 DEF results

-----------------------------------------------------------------------------
(* What a step computes, and from which lists.                             *)

\* The results of the metrics that the neighbour lists `rows` decide.
FromLists(v, s, rows, result) ==
  /\ s.metric = "get_knn" => result = Slice(rows, s.k)
  /\ s.metric = "hubness" => result = Hubness(v, Slice(rows, s.k))
  /\ s.metric = "hubs" => result = IdentifyHubs(v, Slice(rows, s.k), s.arg)
  /\ s.metric = "dispersion" =>
       s.k > 0 /\ result[1] = Total(Nearest(v, Slice(rows, 1)))
  /\ s.metric = "duplicates" => result[2] = Total(Nearest(v, Slice(rows, 1)))

\* The three ways a step ends.
Computes(s) ==
  /\ s.metric \in KnnMetrics /\ KnnReady(s)
  /\ \E result : Deliver(result) /\ FromLists(vectors, s, knn'.rows, result)

Passes(s) ==
  /\ s.metric \notin KnnMetrics
  /\ UNCHANGED knn
  /\ \E result : Deliver(result)

Fails(s) ==
  \E error :
    /\ Fail(error) /\ error # "none"
    /\ error = "Panic" =>
         \/ s.k = 0
         \/ s.k < vectors.n /\ SearchPanics(vectors, s.k)
         \/ /\ s.metric = "qmas" /\ s.k <= vectors.n
            /\ QmasPanics(vectors, s.arg, s.k)

\* The cached search did not panic.
Found == knn # NoCache => ~SearchPanics(vectors, knn.k)

\* get_knn returned: lists of a search of at least s.k columns, the ones that
\* were there if they were wide enough.
LEMMA ReadyLists ==
  ASSUME IInv, Found, UNCHANGED vectors, NEW s \in AllSteps, KnnReady(s)
  PROVE  /\ knn' # NoCache /\ knn'.k \in s.k..(vectors.n - 1)
         /\ knn'.rows = Search(vectors, knn'.k, 1)
         /\ ~SearchPanics(vectors, knn'.k)
         /\ knn # NoCache /\ s.k <= knn.k => knn' = knn
<1>0. s.k \in Nat /\ s.b \in Nat \ {0} /\ vectors.n \in Nat
  BY StepsOK DEF StepOK, IInv, TypeOK
<1>1. CASE Cached(s)
  <2>1. knn' = knn /\ knn # NoCache /\ ~(knn.k < s.k)
    BY <1>1 DEF Cached, NeedSearch
  <2>2. knn.k \in 0..(vectors.n - 1)
    BY <2>1 DEF IInv, TypeOK
  <2>3. knn.k \in s.k..(vectors.n - 1)
    BY <1>0, <2>1, <2>2
  <2>4. QED
    BY <2>1, <2>3 DEF IInv, CacheIsSearch, Found
<1>2. CASE Recomputed(s)
  <2>1. /\ s.k < vectors.n /\ ~SearchPanics(vectors, s.k)
        /\ knn' = [k |-> s.k, rows |-> Search(vectors, s.k, s.b)]
        /\ knn = NoCache \/ knn.k < s.k
    BY <1>2 DEF Recomputed, NeedSearch
  <2>2. knn' = [k |-> s.k, rows |-> Search(vectors, s.k, 1)]
    BY <1>0, <2>1, BatchIndependence
  <2>3. knn'.k = s.k /\ knn'.rows = Search(vectors, s.k, 1)
    BY <2>2
  <2>4. knn' # NoCache
    BY <1>0, <2>3 DEF NoCache
  <2>5. knn'.k \in s.k..(vectors.n - 1)
    BY <1>0, <2>1, <2>3
  <2>6. ~(knn # NoCache /\ s.k <= knn.k)
    <3>1. knn # NoCache => knn.k \in 0..(vectors.n - 1)
      BY DEF IInv, TypeOK
    <3>2. QED
      BY <1>0, <2>1, <3>1
  <2>7. QED
    BY <2>1, <2>3, <2>4, <2>5, <2>6
<1>3. QED
  BY <1>1, <1>2 DEF KnnReady

\* The first column does not depend on how many are read with it.
LEMMA NearestColumn ==
  ASSUME NEW v, NEW w, NEW k \in Nat \ {0}
  PROVE  Nearest(v, Slice(Search(v, w, 1), k)) = Nearest(v, Slice(Search(v, w, 1), 1))
<1> DEFINE rows == Search(v, w, 1)
<1>1. DOMAIN rows = Rows(v)
  BY DEF Search
<1> HIDE DEF rows
<1>2. ASSUME NEW r \in Rows(v) PROVE Slice(rows, k)[r][1] = Slice(rows, 1)[r][1]
  BY <1>1 DEF Slice
<1>3. QED
  BY <1>2 DEF Nearest, DistAt, rows

LEMMA StepEnds ==
  ASSUME IInv, Found, Step, NEW s \in AllSteps, s = Head(call.todo)
  PROVE  Computes(s) \/ Passes(s) \/ Fails(s)
<1> USE DEF Running
<1>0. s.k \in Nat
  BY StepsOK DEF StepOK
<1>1. UNCHANGED vectors
  BY StepShape DEF Deliver, Fail
<1>2. KnnReady(s) => knn'.rows = Search(vectors, knn'.k, 1)
  BY <1>1, ReadyLists
<1> DEFINE rows == knn'.rows
<1>3. ASSUME s.metric \in KnnMetrics, KnnReady(s), NEW result, Deliver(result),
             FromLists(vectors, s, rows, result)
      PROVE  Computes(s)
  BY <1>3 DEF Computes
<1>4. CASE GetKnn(s)
  <2>1. FromLists(vectors, s, rows, Slice(rows, s.k))
    BY <1>4 DEF GetKnn, FromLists
  <2>2. QED
    BY <1>4, <1>3, <2>1 DEF GetKnn, KnnMetrics
<1>5. CASE ComputeHubness(s)
  <2>1. FromLists(vectors, s, rows, Hubness(vectors, Slice(rows, s.k)))
    BY <1>5 DEF ComputeHubness, FromLists
  <2>2. QED
    BY <1>5, <1>3, <2>1 DEF ComputeHubness, KnnMetrics
<1>6. CASE IdentifyHubsStep(s)
  <2>1. FromLists(vectors, s, rows, IdentifyHubs(vectors, Slice(rows, s.k), s.arg))
    BY <1>6 DEF IdentifyHubsStep, FromLists
  <2>2. QED
    BY <1>6, <1>3, <2>1 DEF IdentifyHubsStep, KnnMetrics
<1>7. CASE ComputeDispersion(s)
  <2>1. CASE s.k = 0
    <3>1. Fail("Panic")
      BY <1>7, <2>1 DEF ComputeDispersion
    <3>2. QED
      BY <2>1, <3>1 DEF Fails
  <2>2. CASE s.k # 0
    <3> DEFINE result == Dispersion(vectors, Slice(rows, s.k), s.k)
    <3>1. s.metric = "dispersion" /\ KnnReady(s) /\ Deliver(result)
      BY <1>7, <2>2 DEF ComputeDispersion
    <3>2. result[1] = Total(Nearest(vectors, Slice(rows, s.k)))
      BY DEF Dispersion
    <3>3. s.k \in Nat \ {0}
      BY <1>0, <2>2
    <3>4. Nearest(vectors, Slice(rows, s.k)) = Nearest(vectors, Slice(rows, 1))
      BY <1>2, <3>1, <3>3, NearestColumn
    <3> HIDE DEF result, rows
    <3>5. FromLists(vectors, s, rows, result)
      BY <3>1, <3>2, <3>3, <3>4 DEF FromLists
    <3>6. QED
      BY <1>3, <3>1, <3>5 DEF KnnMetrics
  <2>3. QED
    BY <2>1, <2>2
<1>8. CASE ComputeOutliers(s)
  <2> DEFINE result == Outliers(vectors, Slice(rows, 1), s.arg,
                                IF s.arg = Adaptive THEN call.results[1][1] ELSE 0)
  <2>1. s.metric = "outliers" /\ KnnReady(s) /\ Deliver(result)
    BY <1>8 DEF ComputeOutliers
  <2> HIDE DEF result
  <2>2. FromLists(vectors, s, rows, result)
    BY <2>1 DEF FromLists
  <2>3. QED
    BY <1>3, <2>1, <2>2 DEF KnnMetrics
<1>9. CASE ComputeDuplicates(s)
  <2> DEFINE result == Duplicates(vectors, Slice(rows, 1), s.arg)
  <2>1. s.metric = "duplicates" /\ KnnReady(s) /\ Deliver(result)
    BY <1>9 DEF ComputeDuplicates
  <2>2. result[2] = Total(Nearest(vectors, Slice(rows, 1)))
    BY DEF Duplicates
  <2> HIDE DEF result
  <2>3. FromLists(vectors, s, rows, result)
    BY <2>1, <2>2 DEF FromLists
  <2>4. QED
    BY <1>3, <2>1, <2>3 DEF KnnMetrics
<1>10. CASE ComputeIntrinsicDim(s)
  <2>1. s.metric = "intrinsic_dim" /\ KnnReady(s) /\ \E result : Deliver(result)
    BY <1>10 DEF ComputeIntrinsicDim
  <2>2. \A result : FromLists(vectors, s, rows, result)
    BY <2>1 DEF FromLists
  <2>3. QED
    BY <1>3, <2>1, <2>2 DEF KnnMetrics
<1>11. CASE ComputeSnc(s)
  <2>1. s.metric = "snc" /\ KnnReady(s) /\ \E result : Deliver(result)
    BY <1>11 DEF ComputeSnc
  <2>2. \A result : FromLists(vectors, s, rows, result)
    BY <2>1 DEF FromLists
  <2>3. QED
    BY <1>3, <2>1, <2>2 DEF KnnMetrics
<1>12. CASE ComputeAnisotropy(s)
  BY <1>12 DEF ComputeAnisotropy, Passes, KnnMetrics
<1>13. CASE KnnMetricFails(s)
  <2>1. CASE Fail("KTooLarge") \/ Fail("AllVectorsDegenerate")
    BY <2>1 DEF Fails
  <2>2. CASE SearchAborts(s) /\ Fail("Panic")
    BY <2>2 DEF Fails, SearchAborts
  <2>3. QED
    BY <1>13, <2>1, <2>2 DEF KnnMetricFails
<1>14. CASE QmasRefused(s)
  <2>1. CASE QmasArguments(s) # "none" /\ Fail(QmasArguments(s))
    <3>1. QmasArguments(s) # "Panic"
      BY DEF QmasArguments
    <3>2. QED
      BY <2>1, <3>1 DEF Fails
  <2>2. CASE Fail("AllVectorsDegenerate")
    BY <2>2 DEF Fails
  <2>3. QED
    BY <1>14, <2>1, <2>2 DEF QmasRefused
<1>15. CASE ComputeQmas(s)
  <2>1. CASE QmasPanics(vectors, s.arg, s.k)
    <3>1. ~(s.k > vectors.n)
      BY <1>15 DEF ComputeQmas, QmasArguments
    <3>2. s.k <= vectors.n
      BY <1>0, <3>1 DEF IInv, TypeOK
    <3>3. QED
      BY <1>15, <2>1, <3>2 DEF ComputeQmas, Fails
  <2>2. CASE ~QmasPanics(vectors, s.arg, s.k)
    BY <1>15, <2>2 DEF ComputeQmas, Passes, KnnMetrics
  <2>3. QED
    BY <2>1, <2>2
<1>16. QED
  BY <1>4, <1>5, <1>6, <1>7, <1>8, <1>9, <1>10, <1>11, <1>12, <1>13, <1>14, <1>15 DEF Step

-----------------------------------------------------------------------------
(* Every result of a call comes from one search, and results in a row that *)
(* ask for no more neighbours than the first of them come from the same.   *)

\* W[i] is the number of columns of the cache after the step i.
Widths(v, W, request, results, d) ==
  \A i \in 1..d : request[i].metric \in KnnMetrics =>
    /\ W[i] \in request[i].k..(v.n - 1)
    /\ ~SearchPanics(v, W[i])
    /\ FromLists(v, request[i], Search(v, W[i], 1), results[i])
    /\ \A j \in i..d : (\A m \in i..j : request[m].k <= request[i].k) => W[j] = W[i]

\* The results of the first d steps, when the cache has `width` columns.
Answered(v, width, request, results, d) ==
  /\ d <= Len(request)
  /\ DOMAIN results = 1..d
  /\ \E W \in [1..d -> Int] :
       Widths(v, W, request, results, d) /\ (d > 0 => W[d] = width)

LEMMA AnsweredNothing ==
  ASSUME NEW v, NEW width, NEW request, Len(request) \in Nat, NEW results, DOMAIN results = 1..0
  PROVE  Answered(v, width, request, results, 0)
<1> DEFINE W == [i \in 1..0 |-> 0]
<1>1. W \in [1..0 -> Int] /\ Widths(v, W, request, results, 0)
  BY DEF Widths
<1> HIDE DEF W
<1>2. ~(0 > 0) /\ 0 <= Len(request)
  OBVIOUS
<1>3. QED
  BY <1>1, <1>2, Zenon DEF Answered

LEMMA AnsweredGrows ==
  ASSUME IInv, Found, UNCHANGED vectors, NEW request \in Seq(AllSteps), NEW results, NEW d \in Nat,
         d + 1 \in 1..Len(request), Answered(vectors, knn.k, request, results, d), NEW result,
         \/ /\ request[d + 1].metric \in KnnMetrics /\ KnnReady(request[d + 1])
            /\ FromLists(vectors, request[d + 1], knn'.rows, result)
         \/ request[d + 1].metric \notin KnnMetrics /\ UNCHANGED knn
  PROVE  Answered(vectors, knn'.k, request,
                  [i \in 1..(d + 1) |-> IF i = d + 1 THEN result ELSE results[i]], d + 1)
<1> DEFINE s == request[d + 1]
           more == [i \in 1..(d + 1) |-> IF i = d + 1 THEN result ELSE results[i]]
<1>1. PICK W \in [1..d -> Int] :
        Widths(vectors, W, request, results, d) /\ (d > 0 => W[d] = knn.k)
  BY DEF Answered
<1>2. s \in AllSteps /\ vectors.n \in Nat /\ \A i \in 1..(d + 1) : request[i].k \in Nat
  <2>1. \A i \in 1..(d + 1) : request[i] \in AllSteps
    OBVIOUS
  <2>2. QED
    BY <2>1, StepsOK DEF StepOK, IInv, TypeOK
<1>3. s.metric \in KnnMetrics =>
        /\ knn' # NoCache /\ knn'.k \in s.k..(vectors.n - 1)
        /\ knn'.rows = Search(vectors, knn'.k, 1)
        /\ ~SearchPanics(vectors, knn'.k)
        /\ knn # NoCache /\ s.k <= knn.k => knn' = knn
        /\ FromLists(vectors, s, knn'.rows, result)
  BY <1>2, ReadyLists
<1>4. s.metric \notin KnnMetrics => knn' = knn
  OBVIOUS
<1>5. knn'.k \in Int
  <2>1. knn.k \in Int
    BY DEF IInv, TypeOK, NoCache
  <2>2. QED
    BY <1>2, <1>3, <1>4, <2>1
<1> DEFINE width == knn'.k
           X == [i \in 1..(d + 1) |-> IF i = d + 1 THEN width ELSE W[i]]
<1>6. X \in [1..(d + 1) -> Int]
  BY <1>5
<1>7. ASSUME NEW i \in 1..(d + 1), request[i].metric \in KnnMetrics
      PROVE  /\ X[i] \in request[i].k..(vectors.n - 1)
             /\ ~SearchPanics(vectors, X[i])
             /\ FromLists(vectors, request[i], Search(vectors, X[i], 1), more[i])
  <2>1. CASE i = d + 1
    BY <1>3, <1>7, <2>1
  <2>2. CASE i # d + 1
    <3>1. i \in 1..d /\ X[i] = W[i] /\ more[i] = results[i]
      BY <2>2
    <3>2. QED
      BY <1>1, <1>7, <3>1 DEF Widths
  <2>3. QED
    BY <2>1, <2>2
<1>8. ASSUME NEW i \in 1..(d + 1), request[i].metric \in KnnMetrics, NEW j \in i..(d + 1),
             \A m \in i..j : request[m].k <= request[i].k
      PROVE  X[j] = X[i]
  <2>1. CASE j # d + 1
    <3>1. i \in 1..d /\ j \in i..d /\ X[i] = W[i] /\ X[j] = W[j]
      BY <2>1
    <3>2. QED
      BY <1>1, <1>8, <3>1 DEF Widths
  <2>2. CASE j = d + 1 /\ i # d + 1
    <3>1. i \in 1..d /\ d \in i..d /\ d > 0 /\ X[i] = W[i] /\ X[j] = width
          /\ d + 1 \in i..j /\ \A m \in i..d : m \in i..j
      BY <2>2
    <3>2. W[d] = W[i] /\ W[i] \in request[i].k..(vectors.n - 1) /\ W[d] = knn.k
      BY <1>1, <1>8, <3>1 DEF Widths
    <3>3. s.k <= knn.k /\ knn.k \in Nat
      <4>1. s.k <= request[i].k
        BY <1>8, <3>1
      <4>2. request[i].k \in Nat /\ s.k \in Nat
        BY <1>2, <3>1
      <4>3. knn.k \in request[i].k..(vectors.n - 1)
        BY <3>2
      <4> HIDE DEF s
      <4>4. QED
        BY <1>2, <4>1, <4>2, <4>3
    <3>4. knn # NoCache
      BY <3>3 DEF NoCache
    <3>5. knn' = knn
      BY <1>3, <1>4, <3>3, <3>4
    <3>6. QED
      BY <3>1, <3>2, <3>5
  <2>3. CASE j = d + 1 /\ i = d + 1
    BY <2>3
  <2>4. QED
    BY <2>1, <2>2, <2>3
<1>9. Widths(vectors, X, request, more, d + 1)
  <2> HIDE DEF X, more
  <2>1. QED
    BY <1>7, <1>8 DEF Widths
<1>10. X[d + 1] = knn'.k /\ d + 1 <= Len(request) /\ DOMAIN more = 1..(d + 1)
  OBVIOUS
<1> HIDE DEF X, more
<1>11. QED
  BY <1>6, <1>9, <1>10 DEF Answered, more

-----------------------------------------------------------------------------
(* The invariant: every result of the call in progress and of the last     *)
(* reply comes from a search, and the cache is as wide as the last of them *)
(* found or left it.                                                       *)

Answering ==
  call.todo # <<>> => Answered(vectors, knn.k, call.request, call.results, Done)

Replied ==
  reply.results # <<>> =>
    /\ call.todo = <<>>
    /\ reply.request \in Requests(vectors)
    /\ DOMAIN reply.results = DOMAIN reply.request
    /\ \E d \in Nat : Answered(vectors, knn.k, reply.request, reply.results, d)

AInv == IInv /\ Found /\ Place /\ Answering /\ Replied /\ PanicsOnlyOnZeroK

\* A query against finite documents fills every slot of its buffer: no row is
\* left out and there are k of them.
LEMMA QueriesDoNotPanic ==
  ASSUME NEW v, VectorsOK(v), AllFinite(v), NEW q, q.copies \in Seq(Rows(v)),
         NEW k \in Nat \ {0}, k <= v.n
  PROVE  ~QmasPanics(v, q, k)
<1> SUFFICES ASSUME NEW r \in Rows(v) PROVE NoIndex \notin QueryCandidates(v, r, k)
  BY DEF QmasPanics
<1> DEFINE E == Rows(v)
           sims == v.sim[r]
           buffer == TopK(sims, v.n, NoIndex, k)
<1>1. v.n \in Nat /\ NoIndex \in Nat
  BY DEF VectorsOK, NoIndex
<1>2. E \in SUBSET (Nat \ {0}) /\ IsFiniteSet(E) /\ Cardinality(E) = v.n
  <2>1. IsFiniteSet(Rows(v)) /\ Cardinality(Rows(v)) = v.n
    BY <1>1, RowsAreFinite
  <2>2. Rows(v) \in SUBSET (Nat \ {0})
    BY <1>1 DEF Rows
  <2>3. QED
    BY <2>1, <2>2
<1>3. \A e \in E : sims[e] \in Nat \ {NegInf}
  BY FiniteNumbers
<1>4. E = (1..v.n) \ {NoIndex}
  BY DEF Rows, NoIndex
<1>5. QueryCandidates(v, r, k) = InBuffer(buffer)
  BY DEF QueryCandidates, InBuffer
<1> HIDE DEF E, sims
<1>6. Keeps(buffer, sims, E, k)
  BY <1>1, <1>3, <1>4, TopKKeeps
<1> HIDE DEF buffer
<1>7. InBuffer(buffer) \subseteq E
  BY <1>2, <1>3, <1>6, BufferIsBest DEF Best
<1>8. QED
  BY <1>2, <1>5, <1>7 DEF NoIndex

LEMMA FailAnswers ==
  ASSUME AInv, call.todo # <<>>, Fails(Head(call.todo))
  PROVE  Place' /\ Answering' /\ Replied' /\ PanicsOnlyOnZeroK'
<1> DEFINE s == Head(call.todo)
<1>1. PICK error :
        /\ Fail(error)
        /\ error = "Panic" =>
             \/ s.k = 0
             \/ s.k < vectors.n /\ SearchPanics(vectors, s.k)
             \/ /\ s.metric = "qmas" /\ s.k <= vectors.n
                /\ QmasPanics(vectors, s.arg, s.k)
  BY DEF Fails
<1>2. /\ call' = NoCall /\ UNCHANGED vectors
      /\ reply' = Reply(call.request, error, <<>>)
  BY <1>1 DEF Fail
<1>3. call'.todo = <<>> /\ reply'.results = <<>> /\ reply'.error = error
      /\ reply'.request = call.request
  BY <1>2 DEF NoCall, Reply
<1>4. Place' /\ Answering' /\ Replied'
  BY <1>2, <1>3 DEF Place, Answering, Replied
<1>5. ASSUME error = "Panic", AllFinite(vectors)
      PROVE  \E i \in DOMAIN call.request : call.request[i].k = 0
  <2>1. /\ call.request \in Seq(AllSteps) /\ Done \in Nat /\ Done + 1 \in 1..Len(call.request)
        /\ s = call.request[Done + 1]
    BY NextStep DEF AInv, IInv
  <2>2. Done + 1 \in DOMAIN call.request /\ s \in AllSteps
    BY <2>1
  <2>3. s.k \in Nat /\ vectors.n \in Nat /\ vectors \in Datasets /\ VectorsOK(vectors)
    BY <2>2, StepsOK, InputsAssumption DEF StepOK, AInv, IInv, TypeOK, QueueOK
  <2>4. CASE s.k = 0
    BY <2>1, <2>2, <2>4
  <2>5. CASE s.k # 0
    <3>1. ~(s.k < vectors.n /\ SearchPanics(vectors, s.k))
      <4> SUFFICES ASSUME s.k < vectors.n PROVE ~SearchPanics(vectors, s.k)
        OBVIOUS
      <4>1. s.k \in 1..(vectors.n - 1)
        BY <2>3, <2>5
      <4>2. QED
        BY <1>5, <2>3, <4>1, PanicsWhereNotSearchable DEF Searchable
    <3>2. ~(s.metric = "qmas" /\ s.k <= vectors.n /\ QmasPanics(vectors, s.arg, s.k))
      <4> SUFFICES ASSUME s.metric = "qmas", s.k <= vectors.n
                   PROVE  ~QmasPanics(vectors, s.arg, s.k)
        OBVIOUS
      <4>1. call.request \in Requests(vectors)
        BY DEF AInv, Place
      <4>2. s.arg.copies \in Seq(Rows(vectors))
        BY <2>1, <2>2, <2>3, <4>1, InputsAssumption
      <4>3. QED
        BY <1>5, <2>3, <2>5, <4>2, QueriesDoNotPanic
    <3>3. QED
      BY <1>1, <1>5, <2>5, <3>1, <3>2
  <2>6. QED
    BY <2>4, <2>5
<1>6. PanicsOnlyOnZeroK'
  BY <1>2, <1>3, <1>5 DEF PanicsOnlyOnZeroK
<1>7. QED
  BY <1>4, <1>6

LEMMA DeliverAnswers ==
  ASSUME AInv, call.todo # <<>>, NEW result, Deliver(result),
         LET s == Head(call.todo)
         IN  \/ /\ s.metric \in KnnMetrics /\ KnnReady(s)
                /\ FromLists(vectors, s, knn'.rows, result)
             \/ s.metric \notin KnnMetrics /\ UNCHANGED knn
  PROVE  Place' /\ Answering' /\ Replied' /\ PanicsOnlyOnZeroK'
<1> DEFINE request == call.request
           more == [i \in 1..(Done + 1) |-> IF i = Done + 1 THEN result ELSE call.results[i]]
<1>1. /\ request \in Seq(AllSteps) /\ Done \in Nat /\ Done + 1 \in 1..Len(request)
      /\ Len(call.todo) \in Nat \ {0} /\ Head(call.todo) = request[Done + 1]
  BY NextStep DEF AInv, IInv
<1>2. /\ request \in Requests(vectors) /\ reply = Nothing
      /\ call.results = [i \in 1..Done |-> call.results[i]]
  BY DEF AInv, Place
<1>3. UNCHANGED vectors
  BY DEF Deliver
<1>4. Answered(vectors, knn'.k, request, more, Done + 1)
  <2> DEFINE results == call.results
             d == Done
             r == request
             new == [i \in 1..(d + 1) |-> IF i = d + 1 THEN result ELSE results[i]]
  <2>1. Answered(vectors, knn.k, r, results, d)
    BY DEF AInv, Answering
  <2>2. r \in Seq(AllSteps) /\ d \in Nat /\ d + 1 \in 1..Len(r)
    BY <1>1
  <2>3. \/ /\ r[d + 1].metric \in KnnMetrics /\ KnnReady(r[d + 1])
           /\ FromLists(vectors, r[d + 1], knn'.rows, result)
        \/ r[d + 1].metric \notin KnnMetrics /\ UNCHANGED knn
    BY <1>1
  <2>4. IInv /\ Found
    BY DEF AInv
  <2> HIDE DEF results, d, r
  <2>5. Answered(vectors, knn'.k, r, new, d + 1)
    BY ONLY <1>3, <2>1, <2>2, <2>3, <2>4, AnsweredGrows
  <2>6. QED
    BY <2>5 DEF results, d, r
<1>5. CASE Len(call.todo) = 1
  <2>1. call' = NoCall /\ reply' = Reply(request, "none", Append(call.results, result))
    BY <1>5 DEF Deliver
  <2>2. Append(call.results, result) = more
    BY <1>1, <1>2, AppendResult
  <2> HIDE DEF more
  <2>3. /\ call'.todo = <<>> /\ reply'.results = more /\ reply'.error = "none"
        /\ reply'.request = request
    BY <2>1, <2>2 DEF NoCall, Reply
  <2>4. Place' /\ Answering' /\ PanicsOnlyOnZeroK'
    BY <2>1, <2>3 DEF Place, Answering, PanicsOnlyOnZeroK
  <2>5. Done + 1 \in Nat /\ DOMAIN more = DOMAIN request
    <3>1. Len(request) = Done + 1 /\ DOMAIN request = 1..(Done + 1)
      BY <1>1, <1>5 DEF Done
    <3>2. QED
      BY <1>1, <3>1 DEF more
  <2>6. Replied'
    BY <1>2, <1>3, <1>4, <2>3, <2>5 DEF Replied
  <2>7. QED
    BY <2>4, <2>6
<1>6. CASE Len(call.todo) # 1
  <2>1. /\ Place' /\ call'.todo # <<>> /\ Done' = Done + 1
        /\ call'.request = request /\ UNCHANGED <<vectors, reply>>
        /\ call'.results = more
    BY <1>6, DeliverPlace DEF AInv, IInv
  <2> HIDE DEF more
  <2>2. Answering'
    BY <1>4, <2>1 DEF Answering
  <2>3. Replied' /\ PanicsOnlyOnZeroK'
    BY <1>2, <2>1 DEF Replied, PanicsOnlyOnZeroK, Nothing, Reply
  <2>4. QED
    BY <2>1, <2>2, <2>3
<1>7. QED
  BY <1>5, <1>6

LEMMA InitAInv == Init => AInv
<1> SUFFICES ASSUME Init PROVE AInv
  OBVIOUS
<1>1. IInv
  BY InitInv
<1>2. Found /\ Place /\ Answering /\ Replied /\ PanicsOnlyOnZeroK
  BY DEF Init, Found, Place, Answering, Replied, PanicsOnlyOnZeroK, Nothing, Reply, NoCall
<1>3. QED
  BY <1>1, <1>2 DEF AInv

LEMMA NextAInv ==
  ASSUME AInv, [Next]_vars
  PROVE  AInv'
<1>0. IInv'
  BY NextInv DEF AInv
<1> SUFFICES Found' /\ Place' /\ Answering' /\ Replied' /\ PanicsOnlyOnZeroK'
  BY <1>0 DEF AInv
<1>1. CASE Step
  <2> DEFINE s == Head(call.todo)
  <2>1. call.todo # <<>> /\ UNCHANGED vectors /\ (KnnReady(s) \/ CachesKept)
    BY <1>1, StepShape DEF Deliver, Fail
  <2>2. s \in AllSteps
    BY <2>1, HeadIsStep DEF AInv, IInv
  <2>3. Found'
    <3>1. CASE KnnReady(s)
      BY <2>1, <2>2, <3>1, ReadyLists DEF AInv, Found
    <3>2. CASE CachesKept
      BY <2>1, <3>2 DEF CachesKept, AInv, Found
    <3>3. QED
      BY <2>1, <3>1, <3>2
  <2>4. Computes(s) \/ Passes(s) \/ Fails(s)
    BY <1>1, <2>2, StepEnds DEF AInv
  <2>5. QED
    BY <2>1, <2>3, <2>4, FailAnswers, DeliverAnswers DEF Computes, Passes
<1>2. ASSUME NEW request \in Requests(vectors), Begin(request)
      PROVE  Found' /\ Place' /\ Answering' /\ Replied' /\ PanicsOnlyOnZeroK'
  <2>1. /\ call.todo = <<>> /\ UNCHANGED <<vectors, normalized, knn>>
        /\ call' = [NoCall EXCEPT !.request = request, !.todo = request]
        /\ reply' = Nothing
    BY <1>2 DEF Begin
  <2>2. call'.request = request /\ call'.todo = request /\ call'.results = <<>>
    BY <2>1 DEF NoCall
  <2>3. request \in Seq(AllSteps)
    BY RequestsAreSequences DEF AInv, IInv, QueueOK
  <2>4. Found' /\ Replied' /\ PanicsOnlyOnZeroK'
    BY <2>1 DEF AInv, Found, Replied, PanicsOnlyOnZeroK, Nothing, Reply
  <2>5. CASE request = <<>>
    BY <2>1, <2>2, <2>4, <2>5 DEF Place, Answering, NoCall
  <2>6. CASE request # <<>>
    <3>1. Done' = 0 /\ Len(request) \in Nat
      BY <2>2, <2>3 DEF Done
    <3>2. DOMAIN call'.results = 1..0 /\ call'.results = [i \in 1..0 |-> call'.results[i]]
      BY <2>2
    <3>3. Place'
      BY <2>1, <2>2, <2>6, <3>1, <3>2 DEF Place
    <3>4. Answering'
      BY <2>2, <3>1, <3>2, AnsweredNothing DEF Answering
    <3>5. QED
      BY <2>4, <3>3, <3>4
  <2>7. QED
    BY <2>5, <2>6
<1>3. CASE UNCHANGED vars
  BY <1>3 DEF vars, AInv, Found, Place, Done, Answering, Replied, PanicsOnlyOnZeroK
<1>4. QED
  BY <1>1, <1>2, <1>3 DEF Next

-----------------------------------------------------------------------------
(* What the replies say.                                                   *)

\* The search behind every result of a reply.
SearchedAt(d, W) ==
  /\ DOMAIN reply.results = 1..d /\ DOMAIN reply.request = 1..d
  /\ Widths(vectors, W, reply.request, reply.results, d)
  /\ d > 0 => W[d] = knn.k

Searched == \E d \in Nat : \E W \in [1..d -> Int] : SearchedAt(d, W)

LEMMA RepliesAreSearched ==
  ASSUME AInv, reply.results # <<>>
  PROVE  Searched
BY DEF AInv, Replied, Answered, Searched, SearchedAt

LEMMA RequestOfReply ==
  ASSUME AInv, NEW i \in DOMAIN reply.results
  PROVE  /\ reply.results # <<>> /\ VectorsOK(vectors) /\ vectors.n \in Nat
         /\ reply.request \in Requests(vectors) /\ vectors \in Datasets
         /\ i \in DOMAIN reply.request /\ reply.request[i].k \in Nat
<1>1. reply.results # <<>>
  OBVIOUS
<1>2. reply.request \in Requests(vectors) /\ vectors \in Datasets /\ i \in DOMAIN reply.request
  BY <1>1 DEF AInv, Replied, IInv, QueueOK
<1>3. reply.request[i].k \in Nat /\ VectorsOK(vectors)
  BY <1>2, InputsAssumption DEF StepOK
<1>4. QED
  BY <1>1, <1>2, <1>3 DEF VectorsOK

(***************************************************************************)
(* The index arithmetic of the search is safe: whatever calls came before, *)
(* only k = 0 makes a call on finite vectors panic.                        *)
(***************************************************************************)
THEOREM PanicFree == Spec => []PanicsOnlyOnZeroK
<1>1. AInv /\ [Next]_vars => AInv'
  BY NextAInv
<1>2. AInv => PanicsOnlyOnZeroK
  BY DEF AInv
<1>3. QED
  BY InitAInv, <1>1, <1>2, PTL DEF Spec

(***************************************************************************)
(* Vectors with a NaN or an infinity never produce k-NN numbers, unless    *)
(* there are two of them.                                                  *)
(***************************************************************************)
THEOREM NonFiniteRefused == Spec => []NonFiniteNeverAnswered
<1>1. AInv /\ [Next]_vars => AInv'
  BY NextAInv
<1>2. AInv => NonFiniteNeverAnswered
  <2> SUFFICES ASSUME AInv, NEW i \in DOMAIN reply.results,
                      reply.request[i].metric \in KnnMetrics, reply.request[i].k > 0
               PROVE  Searchable(vectors)
    BY DEF NonFiniteNeverAnswered
  <2>1. /\ reply.results # <<>> /\ VectorsOK(vectors) /\ vectors.n \in Nat
        /\ reply.request[i].k \in Nat
    BY RequestOfReply
  <2>2. PICK d \in Nat : \E W \in [1..d -> Int] : SearchedAt(d, W)
    BY <2>1, RepliesAreSearched DEF Searched
  <2>3. PICK W \in [1..d -> Int] : SearchedAt(d, W)
    BY <2>2
  <2>4. W[i] \in reply.request[i].k..(vectors.n - 1) /\ ~SearchPanics(vectors, W[i])
    BY <2>3 DEF SearchedAt, Widths
  <2>5. W[i] \in 1..(vectors.n - 1)
    BY <2>1, <2>4
  <2>6. QED
    BY <2>1, <2>4, <2>5, PanicsWhereNotSearchable
<1>3. QED
  BY InitAInv, <1>1, <1>2, PTL DEF Spec

(***************************************************************************)
(* No column of a get_knn reply is farther than the one a new evaluator    *)
(* would return, however wide the cache it was sliced from.                *)
(***************************************************************************)
THEOREM WiderIsBetter == Spec => []WiderCacheNoFarther
<1>1. AInv /\ [Next]_vars => AInv'
  BY NextAInv
<1>2. AInv => WiderCacheNoFarther
  <2> DEFINE k(i) == reply.request[i].k
  <2> SUFFICES ASSUME AInv, NEW i \in DOMAIN reply.results,
                      reply.request[i].metric = "get_knn", k(i) > 0,
                      NEW r \in Rows(vectors), NEW c \in 1..k(i)
               PROVE  DistAt(vectors, reply.results[i], r, c)
                        <= DistAt(vectors, Search(vectors, k(i), 1), r, c)
    BY DEF WiderCacheNoFarther
  <2>1. /\ reply.results # <<>> /\ VectorsOK(vectors) /\ vectors.n \in Nat /\ k(i) \in Nat
    BY RequestOfReply
  <2>2. PICK d \in Nat : \E W \in [1..d -> Int] : SearchedAt(d, W)
    BY <2>1, RepliesAreSearched DEF Searched
  <2>3. PICK W \in [1..d -> Int] : SearchedAt(d, W)
    BY <2>2
  <2> DEFINE w == W[i]
  <2>4. /\ w \in k(i)..(vectors.n - 1) /\ ~SearchPanics(vectors, w)
        /\ reply.results[i] = Slice(Search(vectors, w, 1), k(i))
    BY <2>3 DEF SearchedAt, Widths, FromLists, KnnMetrics
  <2> HIDE DEF w
  <2>5. w \in 1..(vectors.n - 1) /\ k(i) \in 1..(vectors.n - 1)
    BY <2>1, <2>4
  <2>6. Searchable(vectors)
    BY <2>1, <2>4, <2>5, PanicsWhereNotSearchable
  <2>7. reply.results[i][r][c] = Search(vectors, w, 1)[r][c]
    <3> DEFINE rows == Search(vectors, w, 1)
    <3>1. r \in DOMAIN rows
      BY DEF Search
    <3> HIDE DEF rows
    <3>2. Slice(rows, k(i))[r] = SubSeq(rows[r], 1, k(i))
      BY <3>1 DEF Slice
    <3>3. SubSeq(rows[r], 1, k(i))[c] = rows[r][c]
      BY <2>1
    <3>4. QED
      BY <2>4, <3>2, <3>3 DEF rows
  <2>8. QED
    BY <2>1, <2>4, <2>5, <2>6, <2>7, WiderNoFarther DEF DistAt
<1>3. QED
  BY InitAInv, <1>1, <1>2, PTL DEF Spec

(***************************************************************************)
(* The mean nearest-neighbour distance compute_all reports with the        *)
(* dispersion is the one it reports with the duplicates.                   *)
(***************************************************************************)
THEOREM NearestMeansEqual == Spec => []NearestMeansAgree
<1>1. AInv /\ [Next]_vars => AInv'
  BY NextAInv
<1>2. AInv => NearestMeansAgree
  <2> SUFFICES ASSUME AInv, NEW i \in DOMAIN reply.results, NEW j \in DOMAIN reply.results,
                      reply.request[i].metric = "dispersion",
                      reply.request[j].metric = "duplicates"
               PROVE  reply.results[i][1] = reply.results[j][2]
    BY DEF NearestMeansAgree
  <2>1. /\ reply.results # <<>> /\ reply.request \in Requests(vectors) /\ vectors \in Datasets
        /\ i \in DOMAIN reply.request /\ j \in DOMAIN reply.request
    BY RequestOfReply
  <2>2. PICK d \in Nat : \E W \in [1..d -> Int] : SearchedAt(d, W)
    BY <2>1, RepliesAreSearched DEF Searched
  <2>3. PICK W \in [1..d -> Int] : SearchedAt(d, W)
    BY <2>2
  <2>4. /\ reply.request[i].k > 0
        /\ reply.results[i][1] = Total(Nearest(vectors, Slice(Search(vectors, W[i], 1), 1)))
        /\ reply.results[j][2] = Total(Nearest(vectors, Slice(Search(vectors, W[j], 1), 1)))
    BY <2>3 DEF SearchedAt, Widths, FromLists, KnnMetrics
  <2>5. i < j /\ \A m \in i..j : reply.request[m].k <= reply.request[i].k
    BY <2>1, <2>4, NearestAssumption
  <2>6. i \in 1..d /\ j \in i..d
    BY <2>3, <2>5 DEF SearchedAt
  <2>7. W[j] = W[i]
    BY <2>3, <2>5, <2>6 DEF SearchedAt, Widths, KnnMetrics
  <2>8. QED
    BY <2>4, <2>7
<1>3. QED
  BY InitAInv, <1>1, <1>2, PTL DEF Spec

-----------------------------------------------------------------------------
(* The exact search.                                                       *)

\* The f32 similarities of finite vectors are fine enough for their distances.
FineSimilarities == \A v \in Datasets : AllFinite(v) => OrderFaithful(v)

LEMMA ExactHere ==
  ASSUME IInv, FineSimilarities
  PROVE  SearchIsExact
<1>1. vectors \in Datasets /\ VectorsOK(vectors)
  BY InputsAssumption DEF IInv, QueueOK
<1>2. ASSUME ~AllFinite(vectors), vectors.n = 2 PROVE OrderFaithful(vectors)
  <2> SUFFICES ASSUME NEW r \in Rows(vectors), NEW i \in Rows(vectors) \ {r},
                      NEW j \in Rows(vectors) \ {r}
               PROVE  vectors.dist[r][i] < vectors.dist[r][j]
                        <=> vectors.sim[r][i] > vectors.sim[r][j]
    BY DEF OrderFaithful
  <2>1. i = j /\ i \in Rows(vectors)
    BY <1>2 DEF Rows
  <2>2. vectors.dist[r][i] \in Int /\ vectors.sim[r][i] \in Int
    BY <1>1, <2>1 DEF VectorsOK, NaN
  <2>4. QED
    BY <2>1, <2>2
<1>3. Searchable(vectors) => OrderFaithful(vectors)
  BY <1>1, <1>2 DEF Searchable, FineSimilarities
<1>4. QED
  BY <1>1, <1>3, PanicsWhereNotSearchable, SearchExact DEF SearchIsExact

(***************************************************************************)
(* knn.rs promises an exact search. Where the f32 similarities order the   *)
(* rows as the distances do, the search returns the true neighbours, and   *)
(* panics on three or more vectors not all finite and on no others.        *)
(***************************************************************************)
THEOREM ExactSearch == ASSUME FineSimilarities PROVE Spec => []SearchIsExact
<1>1. IInv /\ [Next]_vars => IInv'
  BY NextInv
<1>2. IInv => SearchIsExact
  BY ExactHere
<1>3. QED
  BY InitInv, <1>1, <1>2, PTL DEF Spec

-----------------------------------------------------------------------------
(* The evaluator implements MetricOracle.                                  *)

\* Callers ask for at least one neighbour; on 0 the search panics.
SomeNeighbour ==
  \A v \in Datasets : \A request \in Requests(v) : \A i \in DOMAIN request :
    request[i].k > 0

\* What is there is what the true neighbours give.
TruthSoFar ==
  call.todo # <<>> =>
    /\ call.results = [i \in 1..Done |-> StepValue(vectors, call.request[i])]
    /\ \A i \in 1..Done : StepError(vectors, call.request[i]) = "none"

\* What a filled cache says of the vectors.
Healthy ==
  /\ normalized => ~AllDegenerate(vectors)
  /\ knn # NoCache => Searchable(vectors) /\ knn.k > 0

RInv == AInv /\ TruthSoFar /\ Healthy

-----------------------------------------------------------------------------
(* A slice of the true neighbours is the true neighbours.                  *)

LEMMA SliceOfTrue ==
  ASSUME NEW v, NEW wide \in Nat, NEW k \in 1..wide
  PROVE  Slice(TrueNeighbours(v, wide), k) = TrueNeighbours(v, k)
<1>1. \A r \in Rows(v) :
        SubSeq(SubSeq(Ranked(v, r, Rows(v) \ {r}), 1, wide), 1, k)
          = SubSeq(Ranked(v, r, Rows(v) \ {r}), 1, k)
  OBVIOUS
<1>2. QED
  BY <1>1 DEF Slice, TrueNeighbours

\* The mean nearest distance does not depend on how many neighbours were asked
\* for with it.
LEMMA NearestOfTrue ==
  ASSUME NEW v, NEW k \in Nat \ {0}
  PROVE  Nearest(v, TrueNeighbours(v, k)) = Nearest(v, TrueNeighbours(v, 1))
<1>1. ASSUME NEW r \in Rows(v)
      PROVE  TrueNeighbours(v, k)[r][1] = TrueNeighbours(v, 1)[r][1]
  BY DEF TrueNeighbours
<1>2. QED
  BY <1>1 DEF Nearest, DistAt

LEMMA DispersionOfTrue ==
  ASSUME NEW v, NEW k \in Nat \ {0}
  PROVE  Dispersion(v, TrueNeighbours(v, k), k)[1] = Dispersion(v, TrueNeighbours(v, 1), 1)[1]
BY NearestOfTrue DEF Dispersion

\* A threshold that is given needs no mean.
LEMMA GivenThreshold ==
  ASSUME NEW v, NEW rows, NEW threshold, threshold # Adaptive, NEW x, NEW y
  PROVE  Outliers(v, rows, threshold, x) = Outliers(v, rows, threshold, y)
BY DEF Outliers

-----------------------------------------------------------------------------
(* One step gives what the step of the oracle gives.                       *)

\* get_knn returned: the lists are the true neighbours, for every k up to s.k.
LEMMA ReadyIsTrue ==
  ASSUME IInv, Healthy, SearchIsExact, UNCHANGED vectors,
         NEW s \in AllSteps, s.k > 0, KnnReady(s)
  PROVE  /\ Healthy'
         /\ KnnError(vectors, s.k) = "none"
         /\ \A k \in 1..s.k : Slice(knn'.rows, k) = TrueNeighbours(vectors, k)
<1>0. s.k \in Nat /\ s.b \in Nat \ {0} /\ vectors.n \in Nat
  BY StepsOK DEF StepOK, IInv, TypeOK
<1>1. CASE Cached(s)
  <2>1. s.k < vectors.n /\ knn # NoCache /\ ~(knn.k < s.k) /\ UNCHANGED <<normalized, knn>>
    BY <1>1 DEF Cached, NeedSearch
  <2>2. /\ normalized /\ knn.k < vectors.n
        /\ knn.rows = Search(vectors, knn.k, 1)
    BY <2>1 DEF IInv, CacheIsSearch
  <2>3. knn.k \in Nat
    BY <2>1 DEF IInv, TypeOK
  <2>4. ~AllDegenerate(vectors) /\ Searchable(vectors)
    BY <2>1, <2>2 DEF Healthy
  <2>5. knn.k \in 1..(vectors.n - 1) /\ s.k \in 1..knn.k
    BY <1>0, <2>1, <2>2, <2>3
  <2>6. knn.rows = TrueNeighbours(vectors, knn.k)
    BY <2>2, <2>4, <2>5 DEF SearchIsExact
  <2>7. \A k \in 1..s.k : Slice(knn.rows, k) = TrueNeighbours(vectors, k)
    BY <1>0, <2>3, <2>5, <2>6, SliceOfTrue
  <2>8. Healthy'
    BY <2>1 DEF Healthy
  <2>9. KnnError(vectors, s.k) = "none"
    BY <1>0, <2>1, <2>4 DEF KnnError
  <2>10. QED
    BY <2>1, <2>7, <2>8, <2>9
<1>2. CASE Recomputed(s)
  <2>1. /\ s.k < vectors.n /\ (normalized \/ ~AllDegenerate(vectors))
        /\ normalized' = TRUE /\ ~SearchPanics(vectors, s.k)
        /\ knn' = [k |-> s.k, rows |-> Search(vectors, s.k, s.b)]
    BY <1>2 DEF Recomputed, EnsureNormalized
  <2>2. knn'.k = s.k /\ knn'.rows = Search(vectors, s.k, 1)
    BY <1>0, <2>1, BatchIndependence
  <2>3. s.k \in 1..(vectors.n - 1)
    BY <1>0, <2>1
  <2>4. ~AllDegenerate(vectors)
    BY <2>1 DEF Healthy
  <2>5. Searchable(vectors) /\ Search(vectors, s.k, 1) = TrueNeighbours(vectors, s.k)
    BY <2>1, <2>3, <2>4 DEF SearchIsExact
  <2>6. \A k \in 1..s.k : Slice(knn'.rows, k) = TrueNeighbours(vectors, k)
    BY <1>0, <2>2, <2>5, SliceOfTrue
  <2>7. Healthy'
    BY <2>2, <2>4, <2>5 DEF Healthy
  <2>8. KnnError(vectors, s.k) = "none"
    BY <1>0, <2>1, <2>4, <2>5 DEF KnnError
  <2>9. QED
    BY <2>6, <2>7, <2>8
<1>3. QED
  BY <1>1, <1>2 DEF KnnReady

\* What the step s is to end with.
Right(s) ==
  \/ StepError(vectors, s) = "none" /\ Deliver(StepValue(vectors, s))
  \/ StepError(vectors, s) # "none" /\ Fail(StepError(vectors, s))

\* The neighbourhood size of the step s, and the mean that its adaptive outlier
\* threshold is taken from, are those the oracle uses.
Plain(s) ==
  /\ s.k > 0
  /\ s.metric \in {"outliers", "duplicates"} => s.k = 1
  /\ s.metric = "outliers" /\ s.arg = Adaptive =>
       call.results[1][1] = Dispersion(vectors, TrueNeighbours(vectors, 1), 1)[1]

LEMMA KnnStepIsRight ==
  ASSUME IInv, Healthy, SearchIsExact, NEW s \in AllSteps, Plain(s),
         \/ GetKnn(s) \/ ComputeHubness(s) \/ IdentifyHubsStep(s)
         \/ ComputeDispersion(s) \/ ComputeOutliers(s) \/ ComputeDuplicates(s)
         \/ ComputeIntrinsicDim(s) \/ ComputeSnc(s)
  PROVE  Right(s) /\ Healthy'
<1>0. s.k \in Nat \ {0} /\ s.k \in 1..s.k
  BY StepsOK DEF StepOK, Plain
<1>1. KnnReady(s) /\ UNCHANGED vectors
  BY DEF GetKnn, ComputeHubness, IdentifyHubsStep, ComputeDispersion, ComputeOutliers,
         ComputeDuplicates, ComputeIntrinsicDim, ComputeSnc, Deliver, Fail
<1> DEFINE true == TrueNeighbours(vectors, s.k)
<1>2. /\ Healthy'
      /\ KnnError(vectors, s.k) = "none"
      /\ Slice(knn'.rows, s.k) = true
      /\ s.k = 1 => Slice(knn'.rows, 1) = true
  BY <1>0, <1>1, ReadyIsTrue DEF Plain
<1> SUFFICES StepError(vectors, s) = "none" /\ Deliver(StepValue(vectors, s))
  BY <1>2 DEF Right
<1> HIDE DEF true
<1>3. CASE GetKnn(s)
  <2>1. s.metric = "get_knn" /\ Deliver(true)
    BY <1>2, <1>3 DEF GetKnn, Running
  <2>2. QED
    BY <1>2, <2>1 DEF StepError, StepValue, true
<1>4. CASE ComputeHubness(s)
  <2>1. s.metric = "hubness" /\ Deliver(Hubness(vectors, true))
    BY <1>2, <1>4 DEF ComputeHubness, Running
  <2>2. QED
    BY <1>2, <2>1 DEF StepError, StepValue, true
<1>5. CASE IdentifyHubsStep(s)
  <2>1. s.metric = "hubs" /\ Deliver(IdentifyHubs(vectors, true, s.arg))
    BY <1>2, <1>5 DEF IdentifyHubsStep, Running
  <2>2. QED
    BY <1>2, <2>1 DEF StepError, StepValue, true
<1>6. CASE ComputeDispersion(s)
  <2>1. s.metric = "dispersion" /\ Deliver(Dispersion(vectors, true, s.k))
    BY <1>0, <1>2, <1>6 DEF ComputeDispersion, Running
  <2>2. QED
    BY <1>2, <2>1 DEF StepError, StepValue, true
<1>7. CASE ComputeOutliers(s)
  <2> DEFINE sum == Dispersion(vectors, true, 1)[1]
             taken == IF s.arg = Adaptive THEN call.results[1][1] ELSE 0
  <2>1. s.metric = "outliers" /\ s.k = 1
    BY <1>7 DEF ComputeOutliers, Running, Plain
  <2>2. Deliver(Outliers(vectors, true, s.arg, taken))
    BY <1>2, <1>7, <2>1 DEF ComputeOutliers
  <2>3. Outliers(vectors, true, s.arg, taken) = Outliers(vectors, true, s.arg, sum)
    <3>1. CASE s.arg = Adaptive
      BY <2>1, <3>1 DEF Plain, true
    <3>2. CASE s.arg # Adaptive
      BY <3>2, GivenThreshold
    <3>3. QED
      BY <3>1, <3>2
  <2>4. StepValue(vectors, s) = Outliers(vectors, true, s.arg, sum)
    BY <2>1 DEF StepValue, true
  <2>5. QED
    BY <1>2, <2>1, <2>2, <2>3, <2>4 DEF StepError
<1>8. CASE ComputeDuplicates(s)
  <2>1. s.metric = "duplicates" /\ Deliver(Duplicates(vectors, true, s.arg))
    BY <1>2, <1>8 DEF ComputeDuplicates, Running, Plain
  <2>2. QED
    BY <1>2, <2>1 DEF StepError, StepValue, true
<1>9. CASE ComputeIntrinsicDim(s)
  <2>1. /\ s.metric = "intrinsic_dim" /\ ~(s.k < 2)
        /\ Deliver(IntrinsicDim(vectors, true, s.k))
    BY <1>0, <1>2, <1>9 DEF ComputeIntrinsicDim, Running
  <2>2. QED
    BY <1>2, <2>1 DEF StepError, StepValue, true
<1>10. CASE ComputeSnc(s)
  <2>1. s.metric = "snc" /\ Deliver(Snc(vectors, true, s.k))
    BY <1>2, <1>10 DEF ComputeSnc, Running
  <2>2. QED
    BY <1>2, <2>1 DEF StepError, StepValue, true
<1>11. QED
  BY <1>3, <1>4, <1>5, <1>6, <1>7, <1>8, <1>9, <1>10

LEMMA OtherStepIsRight ==
  ASSUME IInv, Healthy, SearchIsExact, NEW s \in AllSteps, Plain(s),
         ComputeAnisotropy(s) \/ KnnMetricFails(s) \/ QmasRefused(s) \/ ComputeQmas(s)
  PROVE  Right(s) /\ Healthy'
<1>0. s.k \in Nat /\ s.k > 0 /\ vectors.n \in Nat /\ UNCHANGED vectors
  BY StepsOK DEF StepOK, Plain, IInv, TypeOK, ComputeAnisotropy, KnnMetricFails,
                 QmasRefused, ComputeQmas, Deliver, Fail
<1>1. CASE ComputeAnisotropy(s)
  <2>1. /\ s.metric = "anisotropy" /\ Deliver(<<>>)
        /\ UNCHANGED <<normalized, knn>>
    BY <1>1 DEF ComputeAnisotropy, Running
  <2>2. StepError(vectors, s) = "none" /\ StepValue(vectors, s) = <<>>
    BY <2>1 DEF StepError, StepValue
  <2>3. QED
    BY <1>0, <2>1, <2>2 DEF Right, Healthy
<1>2. CASE KnnMetricFails(s)
  <2>1. s.metric \in KnnMetrics
    BY <1>2 DEF KnnMetricFails, Running
  <2>2. CASE s.metric = "intrinsic_dim" /\ s.k < 2
    <3>1. Fail("KTooLarge") /\ UNCHANGED <<normalized, knn>>
      BY <1>2, <2>2 DEF KnnMetricFails
    <3>2. StepError(vectors, s) = "KTooLarge"
      BY <2>2 DEF StepError
    <3>3. QED
      BY <1>0, <3>1, <3>2 DEF Right, Healthy
  <2>3. CASE ~(s.metric = "intrinsic_dim" /\ s.k < 2)
    <3>1. StepError(vectors, s) = KnnError(vectors, s.k)
      BY <2>1, <2>3 DEF StepError, KnnMetrics
    <3>2. CASE KTooLarge(s) /\ Fail("KTooLarge")
      <4>1. KnnError(vectors, s.k) = "KTooLarge"
        BY <3>2 DEF KTooLarge, KnnError
      <4>2. QED
        BY <1>0, <3>1, <3>2, <4>1 DEF Right, Healthy, KTooLarge
    <3>3. CASE CannotNormalize(s) /\ Fail("AllVectorsDegenerate")
      <4>1. KnnError(vectors, s.k) = "AllVectorsDegenerate"
        BY <1>0, <3>3 DEF CannotNormalize, KnnError
      <4>2. QED
        BY <1>0, <3>1, <3>3, <4>1 DEF Right, Healthy, CannotNormalize
    <3>4. CASE SearchAborts(s) /\ Fail("Panic")
      <4>1. /\ s.k < vectors.n /\ (normalized \/ ~AllDegenerate(vectors))
            /\ normalized' = TRUE /\ SearchPanics(vectors, s.k) /\ UNCHANGED knn
        BY <3>4 DEF SearchAborts, EnsureNormalized
      <4>2. ~AllDegenerate(vectors)
        BY <4>1 DEF Healthy
      <4>3. ~Searchable(vectors)
        BY <1>0, <4>1, <4>2 DEF SearchIsExact
      <4>4. KnnError(vectors, s.k) = "Panic"
        BY <1>0, <4>1, <4>2, <4>3 DEF KnnError
      <4>5. QED
        BY <1>0, <3>1, <3>4, <4>1, <4>2, <4>4 DEF Right, Healthy
    <3>5. QED
      BY <1>2, <2>3, <3>2, <3>3, <3>4 DEF KnnMetricFails
  <2>4. QED
    BY <2>2, <2>3
<1>3. ASSUME QmasRefused(s) \/ ComputeQmas(s) PROVE Right(s) /\ Healthy'
  <2>1. s.metric = "qmas"
    BY <1>3 DEF QmasRefused, ComputeQmas, Running
  <2>2. StepError(vectors, s) = QmasError(vectors, s.arg, s.k)
    BY <2>1 DEF StepError
  <2>3. StepValue(vectors, s) = Qmas(vectors, s.arg, s.k)
    BY <2>1 DEF StepValue
  <2>4. QmasArguments(s) # "none" => QmasError(vectors, s.arg, s.k) = QmasArguments(s)
    BY DEF QmasArguments, QmasError
  <2>5. QmasArguments(s) = "none" =>
          QmasError(vectors, s.arg, s.k) =
            IF AllDegenerate(vectors) THEN "AllVectorsDegenerate"
            ELSE IF QmasPanics(vectors, s.arg, s.k) THEN "Panic"
            ELSE "none"
    BY DEF QmasArguments, QmasError
  <2>6. CASE QmasRefused(s)
    BY <1>0, <2>2, <2>4, <2>5, <2>6 DEF QmasRefused, Right, Healthy
  <2>7. CASE ComputeQmas(s)
    <3>1. /\ QmasArguments(s) = "none" /\ (normalized \/ ~AllDegenerate(vectors))
          /\ normalized' = TRUE /\ UNCHANGED knn
          /\ IF QmasPanics(vectors, s.arg, s.k)
             THEN Fail("Panic")
             ELSE Deliver(Qmas(vectors, s.arg, s.k))
      BY <2>7 DEF ComputeQmas, EnsureNormalized
    <3>2. ~AllDegenerate(vectors)
      BY <3>1 DEF Healthy
    <3>3. QED
      BY <1>0, <2>2, <2>3, <2>5, <3>1, <3>2 DEF Right, Healthy
  <2>8. QED
    BY <1>3, <2>6, <2>7
<1>4. QED
  BY <1>1, <1>2, <1>3

LEMMA StepIsRight ==
  ASSUME IInv, Healthy, SearchIsExact, Step, NEW s, s = Head(call.todo), Plain(s)
  PROVE  Right(s) /\ Healthy'
<1>1. s \in AllSteps
  BY HeadIsStep DEF Step, IInv
<1>2. QED
  BY <1>1, KnnStepIsRight, OtherStepIsRight DEF Step

-----------------------------------------------------------------------------
(* A call answers with the truth.                                          *)

LEMMA NextIsPlain ==
  ASSUME RInv, SomeNeighbour, call.todo # <<>>
  PROVE  /\ call.request \in Seq(AllSteps) /\ call.todo \in Seq(AllSteps)
         /\ Done \in Nat /\ Done + 1 \in 1..Len(call.request)
         /\ Len(call.todo) \in Nat \ {0}
         /\ Head(call.todo) = call.request[Done + 1]
         /\ Plain(Head(call.todo))
<1>1. /\ call.request \in Seq(AllSteps) /\ call.todo \in Seq(AllSteps)
      /\ Done \in Nat /\ Done + 1 \in 1..Len(call.request)
      /\ Len(call.todo) \in Nat \ {0}
      /\ Head(call.todo) = call.request[Done + 1]
  BY NextStep DEF RInv, AInv, IInv
<1>2. /\ vectors \in Datasets /\ call.request \in Requests(vectors)
      /\ call.results = [i \in 1..Done |-> StepValue(vectors, call.request[i])]
  BY DEF RInv, AInv, IInv, QueueOK, Place, TruthSoFar
<1> DEFINE s == call.request[Done + 1]
<1>3. /\ s.k > 0
      /\ s.metric \in {"outliers", "duplicates"} => s.k = 1
      /\ s.metric = "outliers" /\ s.arg = Adaptive =>
           Done + 1 > 1 /\ call.request[1].metric = "dispersion"
  <2>1. Done + 1 \in DOMAIN call.request
    BY <1>1
  <2>2. QED
    BY <1>2, <2>1, NearestAssumption DEF SomeNeighbour
<1>4. ASSUME s.metric = "outliers", s.arg = Adaptive
      PROVE  call.results[1][1] = Dispersion(vectors, TrueNeighbours(vectors, 1), 1)[1]
  <2> DEFINE first == call.request[1]
  <2>1. 1 \in 1..Done /\ 1 \in DOMAIN call.request
    BY <1>1, <1>3, <1>4
  <2>2. first \in AllSteps /\ first.k > 0
    BY <1>1, <1>2, <2>1 DEF SomeNeighbour
  <2>3. first.k \in Nat \ {0}
    <3>1. StepOK(first)
      BY <2>2, StepsOK
    <3> HIDE DEF first
    <3>2. QED
      BY <2>2, <3>1 DEF StepOK
  <2>4. call.results[1] = Dispersion(vectors, TrueNeighbours(vectors, first.k), first.k)
    BY <1>2, <1>3, <1>4, <2>1, Zenon DEF StepValue
  <2>5. QED
    BY <2>3, <2>4, DispersionOfTrue
<1>5. QED
  BY <1>1, <1>3, <1>4 DEF Plain

\* The first failing step is the one Truth reports.
LEMMA FirstError ==
  ASSUME NEW v, NEW request, NEW d \in Nat, d + 1 \in DOMAIN request,
         DOMAIN request \subseteq Nat \ {0},
         \A i \in 1..d : StepError(v, request[i]) = "none",
         StepError(v, request[d + 1]) # "none"
  PROVE  Truth(v, request) = Reply(request, StepError(v, request[d + 1]), <<>>)
<1> DEFINE failing == {i \in DOMAIN request : StepError(v, request[i]) # "none"}
<1>1. d + 1 \in failing /\ \A i \in failing : i \in Nat /\ d + 1 <= i
  OBVIOUS
<1> HIDE DEF failing
<1>2. Min(failing) = d + 1
  BY <1>1 DEF Min
<1>3. QED
  BY <1>1, <1>2 DEF Truth, failing

LEMMA NoError ==
  ASSUME NEW v, NEW request, \A i \in DOMAIN request : StepError(v, request[i]) = "none"
  PROVE  Truth(v, request)
           = Reply(request, "none", [i \in DOMAIN request |-> StepValue(v, request[i])])
BY DEF Truth

LEMMA StepRefines ==
  ASSUME RInv, SomeNeighbour, call.todo # <<>>, Right(Head(call.todo))
  PROVE  TruthSoFar' /\ (Oracle!Answer \/ UNCHANGED Oracle!oracleVars)
<1> DEFINE s == Head(call.todo)
           request == call.request
           results == [i \in 1..(Done + 1) |-> StepValue(vectors, request[i])]
<1>1. /\ request \in Seq(AllSteps) /\ Done \in Nat /\ Done + 1 \in 1..Len(request)
      /\ s = request[Done + 1]
  BY NextIsPlain
<1>2. /\ call.results = [i \in 1..Done |-> StepValue(vectors, request[i])]
      /\ \A i \in 1..Done : StepError(vectors, request[i]) = "none"
  BY DEF RInv, TruthSoFar
<1>3. UNCHANGED vectors /\ request # <<>>
  BY <1>1 DEF Right, Deliver, Fail
<1>4. ASSUME call' = NoCall, reply' = Truth(vectors, request)
      PROVE  TruthSoFar' /\ Oracle!Answer
  BY <1>3, <1>4 DEF TruthSoFar, NoCall, Oracle!Answer
<1>5. CASE StepError(vectors, s) # "none" /\ Fail(StepError(vectors, s))
  <2>1. Truth(vectors, request) = Reply(request, StepError(vectors, s), <<>>)
    <3>1. DOMAIN request = 1..Len(request)
      BY <1>1
    <3>2. DOMAIN request \subseteq Nat \ {0} /\ Done + 1 \in DOMAIN request
      BY <1>1, <3>1
    <3>3. StepError(vectors, request[Done + 1]) # "none"
      BY <1>1, <1>5
    <3> HIDE DEF request
    <3>4. Truth(vectors, request)
            = Reply(request, StepError(vectors, request[Done + 1]), <<>>)
      BY <1>1, <1>2, <3>2, <3>3, FirstError
    <3>5. QED
      BY <1>1, <3>4
  <2>2. QED
    BY <1>4, <1>5, <2>1 DEF Fail
<1>6. ASSUME StepError(vectors, s) = "none", Deliver(StepValue(vectors, s))
      PROVE  TruthSoFar' /\ (Oracle!Answer \/ UNCHANGED Oracle!oracleVars)
  <2> DEFINE value == StepValue(vectors, s)
             more == [i \in 1..(Done + 1) |-> IF i = Done + 1 THEN value ELSE call.results[i]]
  <2>1. more = results
    BY <1>1, <1>2
  <2>2. \A i \in 1..(Done + 1) : StepError(vectors, request[i]) = "none"
    BY <1>1, <1>2, <1>6
  <2>3. CASE Len(call.todo) = 1
    <3>1. Len(request) = Done + 1 /\ DOMAIN request = 1..(Done + 1)
      BY <1>1, <2>3 DEF Done
    <3>2. Truth(vectors, request) = Reply(request, "none", results)
      <4> HIDE DEF request
      <4>1. \A i \in DOMAIN request : StepError(vectors, request[i]) = "none"
        BY <2>2, <3>1
      <4>2. Truth(vectors, request)
              = Reply(request, "none", [i \in DOMAIN request |-> StepValue(vectors, request[i])])
        BY <4>1, NoError
      <4>3. QED
        BY <3>1, <4>2
    <3>3. call' = NoCall /\ reply' = Reply(request, "none", Append(call.results, value))
      BY <1>6, <2>3 DEF Deliver
    <3>4. Append(call.results, value) = more
      <4> DEFINE old == call.results
      <4>1. old = [i \in 1..Done |-> old[i]] /\ Done \in Nat
        BY <1>1, <1>2
      <4> HIDE DEF old, value
      <4>2. QED
        BY <4>1, AppendResult DEF old
    <3>5. QED
      BY <1>4, <2>1, <3>2, <3>3, <3>4
  <2>4. CASE Len(call.todo) # 1
    <3>1. /\ Done' = Done + 1 /\ call'.request = request
          /\ UNCHANGED <<vectors, reply>> /\ call'.results = more
      BY <1>6, <2>4, DeliverPlace DEF RInv, AInv, IInv
    <3> HIDE DEF more
    <3>2. TruthSoFar'
      BY <2>1, <2>2, <3>1 DEF TruthSoFar
    <3>3. QED
      BY <3>1, <3>2 DEF Oracle!oracleVars
  <2>5. QED
    BY <2>3, <2>4
<1>7. QED
  BY <1>5, <1>6 DEF Right

LEMMA NextRefines ==
  ASSUME RInv, SomeNeighbour, FineSimilarities, [Next]_vars
  PROVE  RInv' /\ [Oracle!Submit \/ Oracle!Answer]_Oracle!oracleVars
<1>1. AInv'
  BY NextAInv DEF RInv
<1>2. CASE Step
  <2> DEFINE s == Head(call.todo)
  <2>1. call.todo # <<>>
    BY <1>2 DEF Step
  <2>2. SearchIsExact
    BY ExactHere DEF RInv, AInv
  <2>3. Right(s) /\ Healthy'
    BY <1>2, <2>1, <2>2, NextIsPlain, StepIsRight DEF RInv, AInv
  <2>4. QED
    BY <1>1, <2>1, <2>3, StepRefines DEF RInv
<1>3. ASSUME NEW request \in Requests(vectors), Begin(request)
      PROVE  RInv' /\ Oracle!Submit
  <2>1. /\ call.todo = <<>> /\ UNCHANGED <<vectors, normalized, knn>>
        /\ call' = [NoCall EXCEPT !.request = request, !.todo = request]
        /\ reply' = Nothing
    BY <1>3 DEF Begin
  <2>2. call'.request = request /\ call'.todo = request /\ call'.results = <<>>
    BY <2>1 DEF NoCall
  <2>3. request \in Seq(AllSteps)
    BY RequestsAreSequences DEF RInv, AInv, IInv, QueueOK
  <2>4. call.request = <<>>
    BY <2>1 DEF RInv, AInv, Place, NoCall
  <2>5. TruthSoFar'
    <3>1. Done' = 0
      BY <2>2, <2>3 DEF Done
    <3>2. call'.results = [i \in 1..0 |-> StepValue(vectors', call'.request[i])]
      BY <2>2
    <3>3. QED
      BY <3>1, <3>2 DEF TruthSoFar
  <2>6. Healthy'
    BY <2>1 DEF RInv, Healthy
  <2>7. Oracle!Submit
    BY <2>1, <2>2, <2>4 DEF Oracle!Submit
  <2>8. QED
    BY <1>1, <2>5, <2>6, <2>7 DEF RInv
<1>4. CASE UNCHANGED vars
  BY <1>1, <1>4 DEF vars, RInv, TruthSoFar, Done, Healthy, Oracle!oracleVars
<1>5. QED
  BY <1>2, <1>3, <1>4 DEF Next

LEMMA InitRefines == Init => RInv /\ Oracle!OracleInit
<1>1. Init => TruthSoFar /\ Healthy
  BY DEF Init, TruthSoFar, Healthy, NoCall, NoCache
<1>2. Init => Oracle!OracleInit
  BY DEF Init, NoCall, Oracle!OracleInit
<1>3. QED
  BY <1>1, <1>2, InitAInv DEF RInv

(***************************************************************************)
(* knn.rs caches "so that every metric shares one search": where the f32   *)
(* similarities order the rows as the distances do, no sequence of calls,  *)
(* errors and panics can tell an evaluator that caches from one that       *)
(* computes every reply afresh.                                            *)
(***************************************************************************)
THEOREM Refinement ==
  ASSUME SomeNeighbour, FineSimilarities PROVE Spec => ImplementsOracle
<1>1. RInv /\ [Next]_vars => RInv' /\ [Oracle!Submit \/ Oracle!Answer]_Oracle!oracleVars
  BY NextRefines
<1>2. QED
  BY InitRefines, <1>1, PTL DEF Spec, ImplementsOracle, Oracle!OracleSpec
=============================================================================
