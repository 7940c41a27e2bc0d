----------------------------- MODULE PmapProofs -----------------------------
(***************************************************************************)
(* pmap_process for every array and every number of processors: at most T  *)
(* threads work at a time, the semaphore is not used after sem_destroy,    *)
(* and the array that is returned is complete.  The argument is one        *)
(* balance: the semaphore's value, the elements that hold a permit and the *)
(* permits the caller has taken back add up to T.  When the caller has all *)
(* T of them, no element holds one.                                        *)
(***************************************************************************)
EXTENDS Pmap, FiniteSetTheorems, TLAPS

-----------------------------------------------------------------------------
(* Facts about one state *)

LEMMA HoldingFinite ==
    ASSUME NEW S \in SUBSET Elements
    PROVE  IsFiniteSet(S) /\ Cardinality(S) \in Nat
  <1>1. N \in Int /\ 1 \in Int
    BY SizesAssumption
  <1>2. IsFiniteSet(Elements)
    BY <1>1, FS_Interval DEF Elements
  <1>3. IsFiniteSet(S)
    BY <1>2, FS_Subset
  <1> QED
    BY <1>3, FS_CardinalityType

\* The caller has all permits: no element holds one.
LEMMA AllDrained ==
    ASSUME TypeOK, PermitsBalance, Drained = T
    PROVE  Holding = {}
  <1>1. Holding \in SUBSET Elements
    BY DEF Holding
  <1>2. IsFiniteSet(Holding) /\ Cardinality(Holding) \in Nat
    BY <1>1, HoldingFinite
  <1>3. Cardinality(Holding) = 0
    BY <1>2, SizesAssumption DEF TypeOK, PermitsBalance
  <1> QED
    BY <1>2, <1>3, FS_EmptySet

\* The inductive invariant gives the three safety properties.
LEMMA Consequences ==
    ASSUME IInv
    PROVE  Throttled /\ SafeDestroy /\ ResultsComplete
  <1> USE DEF IInv
  <1>1. Throttled
    <2>1. Working \in SUBSET Holding /\ Holding \in SUBSET Elements
      BY DEF Working, Holding
    <2>2. IsFiniteSet(Holding) /\ Cardinality(Holding) \in Nat
      BY <2>1, HoldingFinite
    <2>3. Working \in SUBSET Elements
      BY <2>1
    <2>4. Cardinality(Working) \in Nat
      BY <2>3, HoldingFinite
    <2>5. Cardinality(Working) <= Cardinality(Holding)
      BY <2>1, <2>2, FS_Subset
    <2>6. sem \in Nat /\ Drained \in Nat
      BY SizesAssumption DEF TypeOK, Drained
    <2> QED
      BY <2>2, <2>4, <2>5, <2>6, SizesAssumption DEF PermitsBalance, Throttled
  <1>2. SafeDestroy
    <2>1. Working \subseteq Holding
      BY DEF Working, Holding
    <2>2. pc \in {"join", "returned"} => Drained = T
      BY DEF Drained
    <2> QED
      BY <2>1, <2>2, AllDrained DEF SafeDestroy
  <1>3. ResultsComplete
    BY DEF ResultsComplete, Progress, Written
  <1> QED
    BY <1>1, <1>2, <1>3

-----------------------------------------------------------------------------
(* The invariant is inductive *)

LEMMA InitIInv == Init => IInv
  <1> SUFFICES ASSUME Init PROVE IInv
    OBVIOUS
  <1>1. TypeOK
    BY SizesAssumption DEF Init, TypeOK, Permits
  <1>2. Holding = {}
    BY DEF Init, Holding
  <1>3. PermitsBalance
    BY <1>2, FS_EmptySet, SizesAssumption DEF Init, PermitsBalance, Drained, Permits
  <1>4. Progress
    BY SizesAssumption DEF Init, Progress, Elements
  <1>5. Written
    BY DEF Init, Written
  <1> QED
    BY <1>1, <1>3, <1>4, <1>5 DEF IInv

LEMMA CallerStep ==
    ASSUME IInv, Caller
    PROVE  IInv'
  <1> USE SizesAssumption DEF IInv, Elements
  <1>h. Holding \in SUBSET Elements /\ IsFiniteSet(Holding) /\ Cardinality(Holding) \in Nat
    BY HoldingFinite DEF Holding
  <1>1. CASE sem_wait_create
    <2>1. i \in Elements /\ worker[i] = "none" /\ i \notin Holding
      BY <1>1 DEF sem_wait_create, MoreToCreate, TypeOK, Progress, Holding
    <2>2. Holding' = Holding \cup {i}
      BY <1>1, <2>1 DEF sem_wait_create, Holding, TypeOK
    <2>3. Cardinality(Holding') = Cardinality(Holding) + 1
      BY <1>h, <2>1, <2>2, FS_AddElement
    <2>4. TypeOK'
      BY <1>1, <2>1 DEF sem_wait_create, TypeOK
    <2>5. PermitsBalance'
      BY <1>1, <1>h, <2>3 DEF sem_wait_create, PermitsBalance, Drained, TypeOK
    <2>6. Progress'
      BY <1>1, <2>1 DEF sem_wait_create, Progress, TypeOK
    <2>7. Written'
      BY <1>1, <2>1 DEF sem_wait_create, Written, TypeOK
    <2> QED
      BY <2>4, <2>5, <2>6, <2>7
  <1>2. CASE pthread_create
    <2>1. i \in Elements /\ worker[i] = "taken" /\ i \in Holding
      BY <1>2 DEF pthread_create, TypeOK, Progress, Holding
    <2>2. PICK s \in {"func", "failed"} : worker' = [worker EXCEPT ![i] = s]
      BY <1>2 DEF pthread_create
    <2>3. Holding' = Holding
      BY <2>1, <2>2 DEF Holding, TypeOK
    <2>4. TypeOK'
      BY <1>2, <2>1, <2>2 DEF pthread_create, TypeOK
    <2>5. PermitsBalance'
      BY <1>2, <2>3 DEF pthread_create, PermitsBalance, Drained
    <2>6. Progress'
      BY <1>2, <2>1, <2>2 DEF pthread_create, Progress, TypeOK
    <2>7. Written'
      BY <1>2, <2>1, <2>2 DEF pthread_create, Written, TypeOK
    <2> QED
      BY <2>4, <2>5, <2>6, <2>7
  <1>3. CASE all_created
    <2>1. Holding' = Holding
      BY <1>3 DEF all_created, Holding
    <2>2. TypeOK'
      BY <1>3 DEF all_created, TypeOK
    <2>3. PermitsBalance'
      BY <1>3, <2>1 DEF all_created, PermitsBalance, Drained
    <2>4. Progress'
      BY <1>3 DEF all_created, MoreToCreate, Progress, TypeOK
    <2>5. Written'
      BY <1>3 DEF all_created, Written
    <2> QED
      BY <2>2, <2>3, <2>4, <2>5
  <1>4. CASE sem_wait_drain
    <2>1. Holding' = Holding
      BY <1>4 DEF sem_wait_drain, Holding
    <2>2. TypeOK'
      BY <1>4 DEF sem_wait_drain, MoreToDrain, TypeOK
    <2>3. PermitsBalance'
      BY <1>4, <1>h, <2>1 DEF sem_wait_drain, PermitsBalance, Drained, TypeOK
    <2>4. Progress'
      BY <1>4 DEF sem_wait_drain, MoreToDrain, Progress, TypeOK
    <2>5. Written'
      BY <1>4 DEF sem_wait_drain, Written
    <2> QED
      BY <2>2, <2>3, <2>4, <2>5
  <1>5. CASE sem_destroy
    <2>1. Holding' = Holding
      BY <1>5 DEF sem_destroy, Holding
    <2>2. i = T + 1
      BY <1>5 DEF sem_destroy, MoreToDrain, Progress, TypeOK
    <2>3. Drained = T
      BY <1>5, <2>2 DEF sem_destroy, Drained
    <2>4. Holding = {}
      BY <2>3, AllDrained
    <2>5. TypeOK'
      BY <1>5 DEF sem_destroy, TypeOK
    <2>6. PermitsBalance'
      BY <1>5, <2>1, <2>3 DEF sem_destroy, PermitsBalance, Drained
    <2>7. \A n \in Elements : worker[n] \in {"exiting", "exited"}
      BY <1>5, <2>4 DEF sem_destroy, Holding, Progress, TypeOK
    <2>8. Progress'
      BY <1>5, <2>7 DEF sem_destroy, Progress
    <2>9. Written'
      BY <1>5 DEF sem_destroy, Written
    <2> QED
      BY <2>5, <2>6, <2>8, <2>9
  <1>6. CASE pthread_join
    <2>1. i \in Elements /\ worker[i] = "exited" /\ i \notin Holding
      BY <1>6 DEF pthread_join, MoreToJoin, TypeOK, Holding
    <2>2. Holding' = Holding
      BY <1>6, <2>1 DEF pthread_join, Holding, TypeOK
    <2>3. TypeOK'
      BY <1>6, <2>1 DEF pthread_join, TypeOK
    <2>4. PermitsBalance'
      BY <1>6, <2>2 DEF pthread_join, PermitsBalance, Drained
    <2>5. Progress'
      BY <1>6, <2>1 DEF pthread_join, Progress, TypeOK
    <2>6. Written'
      BY <1>6, <2>1 DEF pthread_join, Written, TypeOK
    <2> QED
      BY <2>3, <2>4, <2>5, <2>6
  <1>7. CASE return_out
    <2>1. Holding' = Holding
      BY <1>7 DEF return_out, Holding
    <2>2. TypeOK'
      BY <1>7 DEF return_out, TypeOK
    <2>3. PermitsBalance'
      BY <1>7, <2>1 DEF return_out, PermitsBalance, Drained
    <2>4. Progress'
      BY <1>7 DEF return_out, MoreToJoin, Progress, TypeOK
    <2>5. Written'
      BY <1>7 DEF return_out, Written
    <2> QED
      BY <2>2, <2>3, <2>4, <2>5
  <1> QED
    BY <1>1, <1>2, <1>3, <1>4, <1>5, <1>6, <1>7 DEF Caller

LEMMA WorkerStep ==
    ASSUME IInv, NEW n \in Elements, Worker(n)
    PROVE  IInv'
  <1> USE SizesAssumption DEF IInv, Elements, Goes
  <1>h. Holding \in SUBSET Elements /\ IsFiniteSet(Holding) /\ Cardinality(Holding) \in Nat
    BY HoldingFinite DEF Holding
  <1>1. CASE call_func(n)
    <2>1. Holding' = Holding
      BY <1>1 DEF call_func, Holding, TypeOK
    <2>2. TypeOK' /\ Written'
      BY <1>1 DEF call_func, TypeOK, Written
    <2>3. PermitsBalance'
      BY <1>1, <2>1 DEF call_func, PermitsBalance, Drained
    <2>4. Progress'
      BY <1>1 DEF call_func, Progress, TypeOK
    <2> QED
      BY <2>2, <2>3, <2>4
  <1>2. CASE store_result(n)
    <2>1. Holding' = Holding
      BY <1>2 DEF store_result, Holding, TypeOK
    <2>2. TypeOK' /\ Written'
      BY <1>2 DEF store_result, TypeOK, Written
    <2>3. PermitsBalance'
      BY <1>2, <2>1 DEF store_result, PermitsBalance, Drained
    <2>4. Progress'
      BY <1>2 DEF store_result, Progress, TypeOK
    <2> QED
      BY <2>2, <2>3, <2>4
  <1>3. CASE sem_post(n)
    <2>1. n \in Holding /\ Holding' = Holding \ {n}
      BY <1>3 DEF sem_post, Holding, TypeOK
    <2>2. Cardinality(Holding') = Cardinality(Holding) - 1
      BY <1>h, <2>1, FS_RemoveElement
    <2>3. Cardinality(Holding) # 0
      BY <1>h, <2>1, FS_EmptySet
    <2>4. Drained \in Nat
      BY DEF Drained, TypeOK
    <2>5. sem + 1 \in 0 .. T
      BY <1>h, <2>3, <2>4 DEF PermitsBalance, TypeOK
    <2>6. TypeOK' /\ Written'
      BY <1>3, <2>5 DEF sem_post, TypeOK, Written
    <2>7. Drained' = Drained
      BY <1>3 DEF sem_post, Drained
    <2>8. PermitsBalance'
      BY <1>3, <1>h, <2>2, <2>4, <2>7 DEF sem_post, PermitsBalance, TypeOK
    <2>9. Progress'
      BY <1>3 DEF sem_post, Progress, TypeOK
    <2> QED
      BY <2>6, <2>8, <2>9
  <1>4. CASE thread_return(n)
    <2>1. Holding' = Holding
      BY <1>4 DEF thread_return, Holding, TypeOK
    <2>2. TypeOK' /\ Written'
      BY <1>4 DEF thread_return, TypeOK, Written
    <2>3. PermitsBalance'
      BY <1>4, <2>1 DEF thread_return, PermitsBalance, Drained
    <2>4. Progress'
      BY <1>4 DEF thread_return, Progress, TypeOK
    <2> QED
      BY <2>2, <2>3, <2>4
  <1> QED
    BY <1>1, <1>2, <1>3, <1>4 DEF Worker

LEMMA StutterIInv ==
    ASSUME IInv, UNCHANGED vars
    PROVE  IInv'
  BY DEF IInv, vars, TypeOK, PermitsBalance, Holding, Drained, Progress, Written

LEMMA NextIInv == IInv /\ [Next]_vars => IInv'
  BY CallerStep, WorkerStep, StutterIInv DEF Next

LEMMA Inductive == Spec => []IInv
  BY InitIInv, NextIInv, PTL DEF Spec

-----------------------------------------------------------------------------
(* Theorems *)

\* At most get_nprocs() threads work at a time, however many elements the
\* array has and however the threads interleave.
THEOREM AlwaysThrottled == Spec => []Throttled
  <1>1. IInv => Throttled
    BY Consequences
  <1> QED
    BY <1>1, Inductive, PTL

\* sem_destroy is called when no thread will post any more.
THEOREM DestroyIsSafe == Spec => []SafeDestroy
  <1>1. IInv => SafeDestroy
    BY Consequences
  <1> QED
    BY <1>1, Inductive, PTL

\* pmap_process returns a complete array and leaves no thread behind that
\* could touch its dead stack frame.
THEOREM ReturnsComplete == Spec => []ResultsComplete
  <1>1. IInv => ResultsComplete
    BY Consequences
  <1> QED
    BY <1>1, Inductive, PTL
=============================================================================
