----------------------------- MODULE AtomicList -----------------------------
(***************************************************************************)
(* The two lock-free lists of inf19-2_posix_threads_atomic.  n threads push *)
(* k values each, the main thread joins them and prints the list.          *)
(*   main.c  appends: atomic_exchange of tail, then the link from the old  *)
(*           tail (or from head) is written, then size is incremented;     *)
(*   file.c  prepends: atomic_exchange of the head, then next and value of *)
(*           the published item are written.                               *)
(* An item is named by the value it is to carry, which no other item has.  *)
(***************************************************************************)
EXTENDS Integers, Sequences, SequencesExt, FiniteSets

CONSTANTS MaxN, MaxK   \* bounds on the command line arguments

ASSUME BoundsAssumption == MaxN \in Nat /\ MaxK \in Nat

VARIABLES
    program,              \* which of the two programs runs
    n, k,                 \* its arguments
    head, tail, next,     \* the list; tail is only used by main.c
    value,                \* items whose value has been stored
    size,                 \* the counter of main.c
    pc, item, prev,       \* per worker: the item being pushed, the old end
    mpc, created, joined, \* the main thread
    cur, printed,         \* the main thread's walk over the list
    out,                  \* what it printed
    freed,                \* items list_destroy has freed
    order                 \* history: items in the order of the exchanges

list == <<head, tail, next, value, size>>
worker_vars == <<pc, item, prev>>
main_vars == <<mpc, created, joined, cur, printed, out, freed>>
vars == <<program, n, k, list, worker_vars, main_vars, order>>

NULL    == -1
Garbage == -2     \* a pointer field nobody has written

Workers == 0 .. (n - 1)
Items   == 0 .. (n * k - 1)

TypeOK ==
    /\ program \in {"main.c", "file.c"}
    /\ n \in 0 .. MaxN /\ k \in 0 .. MaxK
    /\ head \in Items \cup {NULL} /\ tail \in Items \cup {NULL}
    /\ next \in [Items -> Items \cup {NULL, Garbage}]
    /\ value \subseteq Items
    /\ size \in 0 .. n * k
    /\ pc \in [Workers -> {"unborn", "loop", "link", "count", "done"}]
    /\ item \in [Workers -> 0 .. n * k]
    /\ prev \in [Workers -> Items \cup {NULL}]
    /\ mpc \in {"create", "join", "print", "destroy", "exit", "crash"}
    /\ created \in 0 .. n /\ joined \in 0 .. n
    /\ cur \in Items \cup {NULL, Garbage}
    /\ printed \in 0 .. n * k
    /\ out \in Seq(Items) /\ order \in Seq(Items)
    /\ freed \subseteq Items

Init ==
    /\ program \in {"main.c", "file.c"}
    /\ n \in 0 .. MaxN /\ k \in 0 .. MaxK
    /\ head = NULL /\ tail = NULL
    /\ next = [x \in Items |-> Garbage]
    /\ value = {} /\ size = 0
    /\ pc = [t \in Workers |-> "unborn"]
    /\ item = [t \in Workers |-> t * k]
    /\ prev = [t \in Workers |-> NULL]
    /\ mpc = "create" /\ created = 0 /\ joined = 0
    /\ cur = NULL /\ printed = 0 /\ out = <<>> /\ freed = {}
    /\ order = <<>>

Step(t, from, to) == pc[t] = from /\ pc' = [pc EXCEPT ![t] = to]

-----------------------------------------------------------------------------
(* Pushing one item.  Operators named bug_ are mutants of the definition    *)
(* that follows them.                                                      *)

bug_Unfinished(t) == item[t] <= (t + 1) * k

Unfinished(t) == item[t] < (t + 1) * k

\* main.c: the item is complete before it is published.
list_push_exchange(t) ==
    /\ program = "main.c"
    /\ Unfinished(t)
    /\ Step(t, "loop", "link")
    /\ prev' = [prev EXCEPT ![t] = tail]
    /\ tail' = item[t]
    /\ next' = [next EXCEPT ![item[t]] = NULL]
    /\ value' = value \cup {item[t]}
    /\ order' = Append(order, item[t])
    /\ UNCHANGED <<program, n, k, head, size, item, main_vars>>

bug_ListWasEmpty(t) == head = NULL

ListWasEmpty(t) == prev[t] = NULL

list_push_link(t) ==
    /\ program = "main.c"
    /\ Step(t, "link", "count")
    /\ IF ListWasEmpty(t)
       THEN head' = item[t] /\ UNCHANGED next
       ELSE next' = [next EXCEPT ![prev[t]] = item[t]] /\ UNCHANGED head
    /\ UNCHANGED <<program, n, k, tail, value, size, item, prev, main_vars, order>>

list_push_count(t) ==
    /\ program = "main.c"
    /\ Step(t, "count", "loop")
    /\ size' = size + 1
    /\ item' = [item EXCEPT ![t] = @ + 1]
    /\ UNCHANGED <<program, n, k, head, tail, next, value, prev, main_vars, order>>

\* file.c: the item is published with both fields unwritten.
add_item_exchange(t) ==
    /\ program = "file.c"
    /\ Unfinished(t)
    /\ Step(t, "loop", "link")
    /\ prev' = [prev EXCEPT ![t] = head]
    /\ head' = item[t]
    /\ order' = Append(order, item[t])
    /\ UNCHANGED <<program, n, k, tail, next, value, size, item, main_vars>>

add_item_next(t) ==
    /\ program = "file.c"
    /\ Step(t, "link", "count")
    /\ next' = [next EXCEPT ![item[t]] = prev[t]]
    /\ UNCHANGED <<program, n, k, head, tail, value, size, item, prev, main_vars, order>>

add_item_value(t) ==
    /\ program = "file.c"
    /\ Step(t, "count", "loop")
    /\ value' = value \cup {item[t]}
    /\ item' = [item EXCEPT ![t] = @ + 1]
    /\ UNCHANGED <<program, n, k, head, tail, next, size, prev, main_vars, order>>

worker_return(t) ==
    /\ ~Unfinished(t)
    /\ Step(t, "loop", "done")
    /\ UNCHANGED <<program, n, k, list, item, prev, main_vars, order>>

worker(t) ==
    \/ list_push_exchange(t) \/ list_push_link(t) \/ list_push_count(t)
    \/ add_item_exchange(t) \/ add_item_next(t) \/ add_item_value(t)
    \/ worker_return(t)

-----------------------------------------------------------------------------
(* The main thread *)

bug_MoreToCreate == created + 1 < n

MoreToCreate == created < n

bug_MoreToJoin == joined + 1 < n

MoreToJoin == joined < n

\* pthread_create may fail, which nobody looks at: the thread is never born.
main_create ==
    /\ mpc = "create"
    /\ IF MoreToCreate
       THEN /\ \/ pc' = [pc EXCEPT ![created] = "loop"]
               \/ UNCHANGED pc
            /\ created' = created + 1
            /\ UNCHANGED mpc
       ELSE mpc' = "join" /\ UNCHANGED <<pc, created>>
    /\ UNCHANGED <<program, n, k, list, item, prev, joined, cur, printed, out, freed, order>>

\* What pthread_join does with a pthread_t that was never written is undefined:
\* the model follows the main thread no further.
main_join ==
    /\ mpc = "join"
    /\ IF MoreToJoin
       THEN /\ pc[joined] = "done"
            /\ joined' = joined + 1
            /\ UNCHANGED <<mpc, cur>>
       ELSE mpc' = "print" /\ cur' = head /\ UNCHANGED joined
    /\ UNCHANGED <<program, n, k, list, worker_vars, created, printed, out, freed, order>>

\* main.c counts the items it prints, file.c stops at the item with no next.
main_print ==
    /\ mpc = "print"
    /\ IF program = "main.c" /\ printed = size
       THEN mpc' = "destroy" /\ cur' = head /\ UNCHANGED <<printed, out>>
       ELSE IF cur \notin Items
       THEN mpc' = "crash" /\ UNCHANGED <<cur, printed, out>>
       ELSE /\ out' = Append(out, cur)
            /\ printed' = printed + 1
            /\ cur' = next[cur]
            /\ mpc' = IF program = "file.c" /\ next[cur] = NULL THEN "exit" ELSE mpc
    /\ UNCHANGED <<program, n, k, list, worker_vars, created, joined, freed, order>>

list_destroy ==
    /\ mpc = "destroy"
    /\ IF cur = NULL
       THEN /\ mpc' = "exit" /\ head' = NULL /\ tail' = NULL /\ size' = 0
            /\ UNCHANGED <<cur, freed>>
       ELSE IF cur \notin Items \ freed
       THEN mpc' = "crash" /\ UNCHANGED <<cur, freed, head, tail, size>>
       ELSE /\ freed' = freed \cup {cur}
            /\ cur' = next[cur]
            /\ UNCHANGED <<mpc, head, tail, size>>
    /\ UNCHANGED <<program, n, k, next, value, worker_vars, created, joined, printed, out, order>>

main == main_create \/ main_join \/ main_print \/ list_destroy

ended == mpc \in {"exit", "crash"} /\ UNCHANGED vars

join_undefined == mpc = "join" /\ MoreToJoin /\ pc[joined] = "unborn" /\ UNCHANGED vars

Next == (\E t \in Workers : worker(t)) \/ main \/ ended \/ join_undefined

Spec == Init /\ [][Next]_vars

\* The system schedules every thread.
FairSpec == Spec /\ WF_vars(main) /\ \A t \in 0 .. (MaxN - 1) : WF_vars(t \in Workers /\ worker(t))

-----------------------------------------------------------------------------
(* Properties *)

\* The item exchanged just before the j-th one.
Before(j) == IF j = 1 THEN NULL ELSE order[j - 1]

\* A worker is between its exchange of x, which returned y, and the link.
Linking(x, y) == \E t \in Workers : pc[t] = "link" /\ item[t] = x /\ prev[t] = y

\* The list is never torn: items hang together in the order of their
\* exchanges, and a link that is missing is owed by exactly the worker that
\* is between the exchange and the store.
Chained ==
    mpc # "exit" =>
      /\ \A j \in 1 .. Len(order) :
           LET x == order[j]
               y == Before(j)
           IN IF program = "file.c"
              THEN next[x] = y \/ (next[x] = Garbage /\ Linking(x, y))
              ELSE LET link == IF j = 1 THEN head ELSE next[y]
                   IN link = x \/ (link = NULL /\ Linking(x, y))
      /\ (IF program = "file.c" THEN head ELSE tail) = Before(Len(order) + 1)
      /\ program = "main.c" /\ order # <<>> => next[Last(order)] = NULL

\* The program ends having printed each of the n * k values once, the values
\* of one thread in the order it pushed them (file.c: in the opposite order),
\* and main.c has freed each item once.
PrintsEveryPush ==
    mpc = "exit" =>
      /\ out = IF program = "main.c" THEN order ELSE Reverse(order)
      /\ Len(out) = n * k
      /\ \A i, j \in 1 .. Len(order) :
            i < j => /\ order[i] # order[j]
                     /\ order[i] \div k = order[j] \div k => order[i] < order[j]
      /\ value = Items
      /\ program = "main.c" => freed = Items

\* The walks over the list follow no unwritten or freed pointer, except that
\* file.c prints the first item of an empty list.
CrashOnlyOnEmptyList == mpc = "crash" => program = "file.c" /\ n * k = 0

-----------------------------------------------------------------------------
(* The inductive invariant: what each worker has pushed is in the order of   *)
(* the exchanges, the counter of main.c lags behind it by the pushes under   *)
(* way, and the main thread walks over a list that is complete.             *)

\* The first item of worker t, and those it has published.
First(t)   == t * k
Busy(t)    == pc[t] \in {"link", "count"}
Pushed(t)  == {x \in Items : First(t) <= x /\ (x < item[t] \/ (x = item[t] /\ Busy(t)))}
InOrder(x) == \E j \in 1 .. Len(order) : order[j] = x

Progress ==
    \A t \in Workers :
      /\ First(t) <= item[t] /\ item[t] <= First(t + 1)
      /\ Busy(t) => Unfinished(t)
      /\ pc[t] = "done" => ~Unfinished(t)
      /\ pc[t] = "link" => \E j \in 1 .. Len(order) : order[j] = item[t] /\ prev[t] = Before(j)

OrderIsPushed ==
    /\ \A x \in Items : InOrder(x) <=> \E t \in Workers : x \in Pushed(t)
    /\ \A i, j \in 1 .. Len(order) :
         i < j => /\ order[i] # order[j]
                  /\ order[i] \div k = order[j] \div k => order[i] < order[j]

\* file.c stores the value after the exchange, main.c before.
ValuesStored ==
    \A t \in Workers : \A x \in Pushed(t) : x \in value \/ (program = "file.c" /\ x = item[t])

NotYetPushed ==
    /\ program = "file.c" => \A x \in Items : ~InOrder(x) => next[x] = Garbage
    /\ program = "main.c" /\ order = <<>> => head = NULL

Counted ==
    program = "main.c" /\ mpc # "exit" =>
      size + Cardinality({t \in Workers : Busy(t)}) = Len(order)

Joined ==
    /\ \A t \in Workers : /\ t >= created => pc[t] = "unborn"
                          /\ t < joined => pc[t] = "done"
    /\ mpc # "create" => created = n
    /\ mpc \notin {"create", "join"} => joined = n

\* out and cur after printed items; cur and freed after f items.
Walk ==
    /\ Len(out) = printed /\ printed <= Len(order)
    /\ \A j \in 1 .. printed :
         out[j] = order[IF program = "main.c" THEN j ELSE Len(order) + 1 - j]
    /\ mpc \in {"create", "join"} => printed = 0
    /\ mpc \in {"create", "join", "print"} => freed = {}
    /\ mpc = "print" =>
         IF program = "main.c"
         THEN cur = IF printed = Len(order) THEN NULL ELSE order[printed + 1]
         ELSE (order = <<>> \/ printed < Len(order)) /\ cur = Before(Len(order) + 1 - printed)
    /\ mpc \in {"destroy", "exit"} => printed = Len(order)
    /\ mpc = "destroy" =>
         /\ program = "main.c"
         /\ \E f \in 0 .. Len(order) :
              /\ cur = IF f = Len(order) THEN NULL ELSE order[f + 1]
              /\ freed = {order[j] : j \in 1 .. f}
    /\ mpc = "exit" /\ program = "main.c" => freed = Items

IInv ==
    /\ TypeOK /\ Progress /\ OrderIsPushed /\ ValuesStored /\ NotYetPushed /\ Counted
    /\ Joined /\ Walk /\ Chained /\ CrashOnlyOnEmptyList

-----------------------------------------------------------------------------
(* Liveness *)

\* All threads are joined and the program ends, unless pthread_create has failed.
Terminates ==
    <>(mpc \in {"exit", "crash"} \/ \E t \in Workers : t < created /\ pc[t] = "unborn")
=============================================================================
