-------------------------------- MODULE Pmap --------------------------------
(***************************************************************************)
(* inf20-1_posix_shm_sem_map-on-processes: pmap_process applies a function *)
(* to an array with one thread per element, of which a semaphore lets at   *)
(* most T (get_nprocs) work at a time.  The caller takes the T permits     *)
(* back, destroys the semaphore, joins the threads and returns.  Values    *)
(* are abstracted to whether out[n] has been written (malloc leaves it     *)
(* undefined).  pthread_create may fail, which the code does not test.     *)
(***************************************************************************)
EXTENDS Integers, FiniteSets

CONSTANTS
    N,    \* count, the elements of the array
    T     \* get_nprocs()

ASSUME SizesAssumption == N \in Nat /\ T \in Nat \ {0}

VARIABLES
    pc,       \* where pmap_process is
    i,        \* its loop variable, from 1
    sem,      \* value of free_processes
    worker,   \* state of the thread of each element
    out       \* out[n] holds func(in[n])

vars == <<pc, i, sem, worker, out>>

Elements == 1 .. N

TypeOK ==
    /\ pc \in {"wait", "create", "drain", "join", "returned"}
    /\ i \in 1 .. ((IF N > T THEN N ELSE T) + 1)
    /\ sem \in 0 .. T
    /\ worker \in [Elements -> {"none", "taken", "failed", "func", "store", "post",
                                "exiting", "exited", "joined"}]
    /\ out \in [Elements -> BOOLEAN]

bug_Permits == T + 1

\* The value free_processes is initialised with.
Permits == T

Init ==
    /\ pc = "wait" /\ i = 1
    /\ sem = Permits
    /\ worker = [n \in Elements |-> "none"]
    /\ out = [n \in Elements |-> FALSE]

-----------------------------------------------------------------------------
(* pmap_process *)

bug_LessToDrain  == i < T
bug_MoreToDrain  == i <= T + 1
bug_MoreToJoin   == i < N

MoreToCreate == i <= N
MoreToDrain  == i <= T
MoreToJoin   == i <= N

sem_wait_create ==
    /\ pc = "wait" /\ MoreToCreate
    /\ sem > 0
    /\ sem' = sem - 1
    /\ worker' = [worker EXCEPT ![i] = "taken"]
    /\ pc' = "create"
    /\ UNCHANGED <<i, out>>

pthread_create ==
    /\ pc = "create"
    /\ \E s \in {"func", "failed"} : worker' = [worker EXCEPT ![i] = s]
    /\ pc' = "wait" /\ i' = i + 1
    /\ UNCHANGED <<sem, out>>

all_created ==
    /\ pc = "wait" /\ ~MoreToCreate
    /\ pc' = "drain" /\ i' = 1
    /\ UNCHANGED <<sem, worker, out>>

sem_wait_drain ==
    /\ pc = "drain" /\ MoreToDrain
    /\ sem > 0
    /\ sem' = sem - 1 /\ i' = i + 1
    /\ UNCHANGED <<pc, worker, out>>

sem_destroy ==
    /\ pc = "drain" /\ ~MoreToDrain
    /\ pc' = "join" /\ i' = 1
    /\ UNCHANGED <<sem, worker, out>>

pthread_join ==
    /\ pc = "join" /\ MoreToJoin
    /\ worker[i] = "exited"
    /\ worker' = [worker EXCEPT ![i] = "joined"]
    /\ i' = i + 1
    /\ UNCHANGED <<pc, sem, out>>

return_out ==
    /\ pc = "join" /\ ~MoreToJoin
    /\ pc' = "returned"
    /\ UNCHANGED <<i, sem, worker, out>>

Caller ==
    \/ sem_wait_create \/ pthread_create \/ all_created
    \/ sem_wait_drain \/ sem_destroy \/ pthread_join \/ return_out

-----------------------------------------------------------------------------
(* thread_safe_func_wrapper *)

Goes(n, from, to) == worker[n] = from /\ worker' = [worker EXCEPT ![n] = to]

call_func(n) == Goes(n, "func", "store") /\ UNCHANGED <<pc, i, sem, out>>

store_result(n) ==
    /\ Goes(n, "store", "post")
    /\ out' = [out EXCEPT ![n] = TRUE]
    /\ UNCHANGED <<pc, i, sem>>

sem_post(n) ==
    /\ Goes(n, "post", "exiting")
    /\ sem' = sem + 1
    /\ UNCHANGED <<pc, i, out>>

thread_return(n) == Goes(n, "exiting", "exited") /\ UNCHANGED <<pc, i, sem, out>>

Worker(n) == call_func(n) \/ store_result(n) \/ sem_post(n) \/ thread_return(n)

Next == Caller \/ \E n \in Elements : Worker(n)

Spec == Init /\ [][Next]_vars

\* The scheduler runs every thread that can go on.
FairSpec == Spec /\ WF_vars(Caller) /\ \A n \in Elements : WF_vars(Worker(n))

-----------------------------------------------------------------------------
(* Properties *)

Working == {n \in Elements : worker[n] \in {"func", "store", "post"}}

\* At most get_nprocs() threads work at the same time, though N are created.
Throttled == Cardinality(Working) <= T

\* When the caller destroys the semaphore, no thread can post to it any more.
SafeDestroy == pc \in {"join", "returned"} => Working = {}

\* The array is returned only when every element has been written and every
\* thread has been joined: the threads' arguments and the semaphore are on the
\* caller's stack.  It holds with failed pthread_create calls, too, as their
\* permits never come back.
ResultsComplete == pc = "returned" => \A n \in Elements : out[n] /\ worker[n] = "joined"

\* pmap_process returns, unless a thread could not be created.
Returns == <>(pc = "returned" \/ \E n \in Elements : worker[n] = "failed")

-----------------------------------------------------------------------------
(* The inductive invariant: every permit is in the semaphore, with an element, *)
(* or taken back by the caller.                                                *)

Holding == {n \in Elements : worker[n] \in {"taken", "failed", "func", "store", "post"}}
Drained == IF pc = "drain" THEN i - 1 ELSE IF pc \in {"join", "returned"} THEN T ELSE 0

\* Permits are neither lost nor made: sem_wait and sem_post balance.
PermitsBalance == sem + Cardinality(Holding) + Drained = T

\* The part of the elements that the caller's loops have been through.
Progress ==
    /\ pc \in {"wait", "create"} =>
         /\ i <= N + 1
         /\ \A n \in Elements : /\ n < i => worker[n] \notin {"none", "taken", "joined"}
                                /\ n > i => worker[n] = "none"
    /\ pc = "wait" /\ i <= N => worker[i] = "none"
    /\ pc = "create" => i <= N /\ worker[i] = "taken"
    /\ pc = "drain" => i <= T + 1 /\ \A n \in Elements : worker[n] \notin {"none", "taken", "joined"}
    /\ pc = "join" =>
         /\ i <= N + 1
         /\ \A n \in Elements : /\ n < i => worker[n] = "joined"
                                /\ n >= i => worker[n] \in {"exiting", "exited"}
    /\ pc = "returned" => \A n \in Elements : worker[n] = "joined"

Written == \A n \in Elements : worker[n] \in {"post", "exiting", "exited", "joined"} => out[n]

IInv == TypeOK /\ PermitsBalance /\ Progress /\ Written
=============================================================================
