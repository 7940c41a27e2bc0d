-------------------------- MODULE AtomicListProofs --------------------------
(***************************************************************************)
(* The two lock-free lists for every number of threads and of values: the  *)
(* list is never torn by more than the links under way, and the main       *)
(* thread prints each value once, in the order of the exchanges.           *)
(***************************************************************************)
EXTENDS AtomicList, FiniteSetTheorems, SequenceTheorems, TLAPS

-----------------------------------------------------------------------------
(* The items of a worker are a block of the numbers                         *)

LEMMA Mono ==
    ASSUME NEW a \in Nat, NEW b \in Nat, NEW c \in Nat, a <= b
    PROVE  a * c \in Nat /\ b * c \in Nat /\ a * c <= b * c
  <1>1. (b - a) * c >= 0 /\ (b - a) * c = b * c - a * c
    OBVIOUS
  <1> QED
    BY <1>1

LEMMA Block ==
    ASSUME NEW t \in Nat, NEW c \in Nat
    PROVE  t * c \in Nat /\ (t + 1) * c = t * c + c /\ (t + 1) * c \in Nat
  OBVIOUS

LEMMA DivMod ==
    ASSUME NEW x \in Nat, NEW c \in Nat \ {0}
    PROVE  /\ x \div c \in Nat
           /\ (x \div c) * c <= x /\ x < (x \div c + 1) * c
  <1>1. x = c * (x \div c) + (x % c) /\ x \div c \in Nat /\ x % c \in 0 .. c - 1
    OBVIOUS
  <1> QED
    BY <1>1

LEMMA OwnerIs ==
    ASSUME NEW x \in Nat, NEW t \in Nat, NEW c \in Nat, t * c <= x, x < (t + 1) * c
    PROVE  x \div c = t
  <1>1. c \in Nat \ {0}
    <2>1. c # 0
      <3>1. c = 0 => (t + 1) * c = 0
        OBVIOUS
      <3> QED
        BY <3>1
    <2> QED
      BY <2>1
  <1>2. /\ x \div c \in Nat /\ (x \div c) * c <= x /\ x < (x \div c + 1) * c
    BY <1>1, DivMod
  <1>3. ~(x \div c < t)
    <2> SUFFICES ASSUME x \div c < t PROVE FALSE
      OBVIOUS
    <2>1. x \div c + 1 <= t
      BY <1>2
    <2>2. (x \div c + 1) * c <= t * c /\ t * c \in Nat /\ (x \div c + 1) * c \in Nat
      BY <1>2, <2>1, Mono
    <2> QED
      BY <1>2, <2>2
  <1>4. ~(t < x \div c)
    <2> SUFFICES ASSUME t < x \div c PROVE FALSE
      OBVIOUS
    <2>1. t + 1 <= x \div c
      BY <1>2
    <2>2. (t + 1) * c <= (x \div c) * c /\ (t + 1) * c \in Nat /\ (x \div c) * c \in Nat
      BY <1>2, <2>1, Mono
    <2> QED
      BY <1>2, <2>2
  <1> QED
    BY <1>2, <1>3, <1>4

LEMMA Blocks ==
    ASSUME n \in Nat, k \in Nat
    PROVE  /\ n * k \in Nat /\ Items \subseteq Nat /\ \A x \in Nat : x \in Items <=> x < n * k
           /\ \A t \in Workers : /\ t \in Nat /\ First(t) \in Nat /\ First(t + 1) \in Nat
                                 /\ First(t) <= First(t + 1) /\ First(t + 1) <= n * k
           /\ \A t, u \in Workers : t < u => First(t + 1) <= First(u)
           /\ \A t \in Workers : \A x \in Nat :
                 First(t) <= x /\ x < First(t + 1) => x \div k = t
           /\ \A x \in Items : \E t \in Workers : First(t) <= x /\ x < First(t + 1)
  <1>1. n * k \in Nat /\ Items \subseteq Nat /\ \A x \in Nat : x \in Items <=> x < n * k
    BY Block DEF Items
  <1>2. \A t \in Workers : t \in Nat /\ t + 1 \in Nat /\ t + 1 <= n /\ t < n
    BY DEF Workers
  <1>3. ASSUME NEW t \in Workers
        PROVE  /\ First(t) \in Nat /\ First(t + 1) \in Nat
               /\ First(t) <= First(t + 1) /\ First(t + 1) <= n * k
    <2>1. t * k \in Nat /\ (t + 1) * k \in Nat /\ t * k <= (t + 1) * k
      BY <1>2, Mono
    <2>2. (t + 1) * k <= n * k
      BY <1>2, Mono
    <2> QED
      BY <2>1, <2>2 DEF First
  <1>4. ASSUME NEW t \in Workers, NEW u \in Workers, t < u
        PROVE  First(t + 1) <= First(u)
    <2>1. t + 1 <= u
      BY <1>2, <1>4
    <2> QED
      BY <1>2, <2>1, Mono DEF First
  <1>5. ASSUME NEW t \in Workers, NEW x \in Nat, First(t) <= x, x < First(t + 1)
        PROVE  x \div k = t
    BY <1>2, <1>5, OwnerIs DEF First
  <1>6. ASSUME NEW x \in Items
        PROVE  \E t \in Workers : First(t) <= x /\ x < First(t + 1)
    <2>1. x \in Nat /\ x < n * k
      BY <1>1
    <2>2. k \in Nat \ {0}
      <3>1. k = 0 => n * k = 0
        OBVIOUS
      <3> QED
        BY <2>1, <3>1
    <2>3. x \div k \in Nat /\ (x \div k) * k <= x /\ x < (x \div k + 1) * k
      BY <2>1, <2>2, DivMod
    <2>4. x \div k < n
      <3> SUFFICES ASSUME n <= x \div k PROVE FALSE
        BY <2>3
      <3>1. n * k <= (x \div k) * k /\ (x \div k) * k \in Nat
        BY <2>3, Mono
      <3> QED
        BY <1>1, <2>1, <2>3, <3>1
    <2>5. x \div k \in Workers
      BY <2>3, <2>4 DEF Workers
    <2> QED
      BY <2>3, <2>5 DEF First
  <1> QED
    BY <1>1, <1>2, <1>3, <1>4, <1>5, <1>6

-----------------------------------------------------------------------------
(* What the invariant says of the order of the exchanges                    *)

LEMMA Basics ==
    ASSUME TypeOK
    PROVE  /\ n \in Nat /\ k \in Nat /\ order \in Seq(Items) /\ Len(order) \in Nat
           /\ \A j \in 1 .. Len(order) : order[j] \in Items
           /\ IsFiniteSet(Workers) /\ Workers \subseteq Nat
           /\ IsFiniteSet(Items) /\ Cardinality(Items) = n * k
           /\ NULL \notin Items /\ Garbage \notin Items /\ NULL # Garbage
  <1>1. n \in Nat /\ k \in Nat /\ order \in Seq(Items)
    BY BoundsAssumption DEF TypeOK
  <1>2. Len(order) \in Nat /\ \A j \in 1 .. Len(order) : order[j] \in Items
    BY <1>1
  <1>3. IsFiniteSet(Workers) /\ Workers \subseteq Nat
    BY <1>1, FS_Interval DEF Workers
  <1>4. n * k \in Nat
    BY <1>1, Block
  <1>5. IsFiniteSet(Items) /\ Cardinality(Items) = n * k
    <2>1. n * k - 1 \in Int /\ 0 \in Int
      BY <1>4
    <2>2. Cardinality(Items) = IF 0 > n * k - 1 THEN 0 ELSE n * k - 1 - 0 + 1
      BY <2>1, FS_Interval DEF Items
    <2> QED
      BY <1>4, <2>1, <2>2, FS_Interval DEF Items
  <1> QED
    BY <1>1, <1>2, <1>3, <1>5 DEF Items, NULL, Garbage

\* No item is exchanged twice, so there are at most n * k exchanges, and with
\* n * k exchanges every item has been.
LEMMA OrderBound ==
    ASSUME TypeOK, OrderIsPushed
    PROVE  /\ Len(order) <= n * k
           /\ (\A x \in Items : InOrder(x)) => Len(order) = n * k
  <1> DEFINE D == 1 .. Len(order)
  <1>1. order \in [D -> Items] /\ Len(order) \in Nat
    BY Basics
  <1>2. \A i, j \in D : i # j => order[i] # order[j]
    <2> SUFFICES ASSUME NEW i \in D, NEW j \in D, i # j PROVE order[i] # order[j]
      OBVIOUS
    <2>1. i < j \/ j < i
      BY <1>1
    <2> QED
      BY <2>1 DEF OrderIsPushed
  <1>3. order \in Injection(D, Items)
    BY <1>1, <1>2 DEF Injection, IsInjective
  <1>4. Cardinality(D) = Len(order) /\ IsFiniteSet(Items) /\ Cardinality(Items) = n * k
    <2>1. Cardinality(D) = IF 1 > Len(order) THEN 0 ELSE Len(order) - 1 + 1
      BY <1>1, FS_Interval
    <2> QED
      BY <1>1, <2>1, Basics
  <1>5. /\ Cardinality(D) <= Cardinality(Items)
        /\ Cardinality(D) = Cardinality(Items) <=> order \in Surjection(D, Items)
    BY <1>3, <1>4, FS_Injection
  <1>6. (\A x \in Items : InOrder(x)) => order \in Surjection(D, Items)
    BY <1>1 DEF Surjection, InOrder
  <1> QED
    BY <1>4, <1>5, <1>6

\* A published item is in the block of the worker that published it.
LEMMA PushedOwn ==
    ASSUME IInv, NEW t \in Workers, NEW x \in Pushed(t)
    PROVE  /\ x \in Items /\ x \in Nat /\ First(t) <= x /\ x < First(t + 1) /\ x \div k = t
           /\ \A u \in Workers : First(u) <= x /\ x < First(u + 1) => u = t
  <1>1. n \in Nat /\ k \in Nat
    BY Basics DEF IInv
  <1>2. x \in Nat /\ x \in Items /\ First(t) <= x /\ (x < item[t] \/ (x = item[t] /\ Busy(t)))
    BY <1>1, Blocks DEF Pushed
  <1>3. item[t] \in Nat /\ item[t] <= First(t + 1) /\ (Busy(t) => item[t] < First(t + 1))
    <2>1. item[t] \in 0 .. n * k
      BY DEF IInv, TypeOK
    <2> QED
      BY <2>1 DEF IInv, Progress, Unfinished, First
  <1>4. First(t + 1) \in Nat
    BY <1>1, Blocks
  <1>5. x < First(t + 1)
    BY <1>2, <1>3, <1>4
  <1>6. \A u \in Workers : First(u) <= x /\ x < First(u + 1) => x \div k = u
    BY <1>1, <1>2, Blocks
  <1> QED
    BY <1>2, <1>5, <1>6

\* The next item of a worker is new.
LEMMA ItemIsNew ==
    ASSUME IInv, NEW t \in Workers, pc[t] = "loop", Unfinished(t)
    PROVE  /\ item[t] \in Items /\ ~InOrder(item[t])
           /\ First(t) <= item[t] /\ item[t] < First(t + 1) /\ item[t] \div k = t
  <1>1. n \in Nat /\ k \in Nat
    BY Basics DEF IInv
  <1>2. item[t] \in Nat
    <2>1. item[t] \in 0 .. n * k
      BY DEF IInv, TypeOK
    <2> QED
      BY <2>1
  <1>3. First(t) <= item[t] /\ item[t] < First(t + 1)
    BY DEF IInv, Progress, Unfinished, First
  <1>4. item[t] \in Items
    <2>1. First(t + 1) <= n * k /\ First(t + 1) \in Nat /\ n * k \in Nat
      BY <1>1, Blocks
    <2>2. item[t] < n * k
      BY <1>2, <1>3, <2>1
    <2> QED
      BY <1>1, <1>2, <2>2, Blocks
  <1>5. ~InOrder(item[t])
    <2> SUFFICES ASSUME InOrder(item[t]) PROVE FALSE
      OBVIOUS
    <2>1. PICK u \in Workers : item[t] \in Pushed(u)
      BY <1>4 DEF IInv, OrderIsPushed
    <2>2. u = t
      BY <1>3, <2>1, PushedOwn
    <2> QED
      BY <1>2, <2>1, <2>2 DEF Pushed, Busy
  <1>6. item[t] \div k = t
    BY <1>1, <1>2, <1>3, Blocks
  <1> QED
    BY <1>3, <1>4, <1>5, <1>6

\* While a worker runs, the main thread creates or joins.
LEMMA StillRunning ==
    ASSUME IInv, NEW t \in Workers, pc[t] # "done"
    PROVE  mpc \in {"create", "join"} /\ printed = 0 /\ freed = {} /\ out = <<>>
  <1>1. mpc \in {"create", "join"}
    <2> SUFFICES ASSUME mpc \notin {"create", "join"} PROVE FALSE
      OBVIOUS
    <2>1. joined = n /\ n \in Nat
      BY Basics DEF IInv, Joined
    <2>2. t < joined
      BY <2>1 DEF Workers
    <2> QED
      BY <2>2 DEF IInv, Joined
  <1>2. printed = 0 /\ freed = {} /\ Len(out) = 0
    BY <1>1 DEF IInv, Walk
  <1>3. out = <<>>
    BY <1>2, EmptySeq DEF IInv, TypeOK
  <1> QED
    BY <1>1, <1>2, <1>3

-----------------------------------------------------------------------------
(* The parts of Chained                                                      *)

Linked(j) ==
    IF program = "file.c"
    THEN next[order[j]] = Before(j) \/ (next[order[j]] = Garbage /\ Linking(order[j], Before(j)))
    ELSE LET link == IF j = 1 THEN head ELSE next[Before(j)]
         IN  link = order[j] \/ (link = NULL /\ Linking(order[j], Before(j)))

EndIs ==
    IF program = "file.c"
    THEN head = Before(Len(order) + 1)
    ELSE tail = Before(Len(order) + 1) /\ (order # <<>> => next[order[Len(order)]] = NULL)

LEMMA ChainedIs ==
    ASSUME program \in {"main.c", "file.c"}, program' = program
    PROVE  /\ Chained <=> (mpc # "exit" => (\A j \in 1 .. Len(order) : Linked(j)) /\ EndIs)
           /\ Chained' <=> (mpc' # "exit" => (\A j \in 1 .. Len(order') : Linked(j)') /\ EndIs')
  <1>1. CASE program = "file.c"
    BY <1>1 DEF Chained, Linked, EndIs, Last, Before
  <1>2. CASE program = "main.c"
    BY <1>2 DEF Chained, Linked, EndIs, Last, Before
  <1> QED
    BY <1>1, <1>2

LEMMA BeforeIs ==
    ASSUME TypeOK, NEW j \in 1 .. Len(order) + 1
    PROVE  /\ j = 1 => Before(j) = NULL
           /\ j # 1 => j - 1 \in 1 .. Len(order) /\ Before(j) = order[j - 1] /\ Before(j) \in Items
  BY Basics DEF Before

-----------------------------------------------------------------------------
(* The invariant is inductive                                                *)

LEMMA InitIInv == Init => IInv
  <1> SUFFICES ASSUME Init PROVE IInv
    OBVIOUS
  <1>1. /\ n \in 0 .. MaxN /\ k \in 0 .. MaxK /\ n \in Nat /\ k \in Nat /\ program \in {"main.c", "file.c"}
        /\ head = NULL /\ tail = NULL /\ next = [x \in Items |-> Garbage] /\ value = {} /\ size = 0
        /\ pc = [t \in Workers |-> "unborn"] /\ item = [t \in Workers |-> t * k]
        /\ prev = [t \in Workers |-> NULL]
        /\ mpc = "create" /\ created = 0 /\ joined = 0
        /\ cur = NULL /\ printed = 0 /\ out = <<>> /\ freed = {} /\ order = <<>>
    BY BoundsAssumption DEF Init
  <1>2. /\ n * k \in Nat
        /\ \A t \in Workers : /\ t \in Nat /\ item[t] = First(t) /\ item[t] \in 0 .. n * k
                              /\ First(t) <= First(t + 1)
    <2>1. n * k \in Nat /\ \A t \in Workers : First(t) \in Nat /\ First(t + 1) \in Nat /\ t \in Nat
                              /\ First(t) <= First(t + 1) /\ First(t + 1) <= n * k
      BY <1>1, Blocks
    <2>2. \A t \in Workers : item[t] = First(t)
      BY <1>1 DEF First
    <2> QED
      BY <2>1, <2>2
  <1>3. TypeOK
    <2>1. item \in [Workers -> 0 .. n * k]
      BY <1>1, <1>2
    <2>2. next \in [Items -> Items \cup {NULL, Garbage}] /\ prev \in [Workers -> Items \cup {NULL}]
      BY <1>1
    <2>3. size \in 0 .. n * k /\ printed \in 0 .. n * k /\ created \in 0 .. n /\ joined \in 0 .. n
      BY <1>1, <1>2
    <2>4. out \in Seq(Items) /\ order \in Seq(Items)
      BY <1>1
    <2> QED
      BY <1>1, <2>1, <2>2, <2>3, <2>4 DEF TypeOK
  <1>4. \A t \in Workers : pc[t] = "unborn" /\ ~Busy(t) /\ Pushed(t) = {}
    <2> SUFFICES ASSUME NEW t \in Workers PROVE pc[t] = "unborn" /\ ~Busy(t) /\ Pushed(t) = {}
      OBVIOUS
    <2>1. pc[t] = "unborn" /\ ~Busy(t)
      BY <1>1 DEF Busy
    <2>2. item[t] \in Nat /\ First(t) = item[t]
      BY <1>2
    <2>3. \A x \in Items : x \in Nat
      BY <1>1, Blocks
    <2>4. ASSUME NEW x \in Pushed(t) PROVE FALSE
      BY <2>1, <2>2, <2>3 DEF Pushed
    <2> QED
      BY <2>1, <2>4
  <1>5. \A x : ~InOrder(x)
    BY <1>1 DEF InOrder
  <1>6. Progress
    BY <1>2, <1>4 DEF Progress
  <1>7. OrderIsPushed /\ ValuesStored /\ NotYetPushed
    BY <1>1, <1>4, <1>5 DEF OrderIsPushed, ValuesStored, NotYetPushed
  <1>8. Counted
    <2>1. {t \in Workers : Busy(t)} = {}
      BY <1>4
    <2>2. Cardinality({t \in Workers : Busy(t)}) = 0
      BY <2>1, FS_EmptySet
    <2> QED
      BY <1>1, <2>2 DEF Counted
  <1>9. Joined /\ Walk
    <2>1. Joined
      BY <1>1, <1>2, <1>4 DEF Joined
    <2>2. Walk
      BY <1>1 DEF Walk
    <2> QED
      BY <2>1, <2>2
  <1>10. Chained /\ CrashOnlyOnEmptyList
    BY <1>1 DEF Chained, Before, CrashOnlyOnEmptyList
  <1> QED
    BY <1>3, <1>6, <1>7, <1>8, <1>9, <1>10 DEF IInv

\* What a step of a worker leaves alone.
ByWorker(t, from, to) ==
    /\ Step(t, from, to)
    /\ UNCHANGED <<program, n, k, main_vars>>

LEMMA ByWorkerIs ==
    ASSUME IInv, NEW t \in Workers, NEW from, NEW to, ByWorker(t, from, to)
    PROVE  /\ pc[t] = from /\ pc'[t] = to /\ \A u \in Workers : u # t => pc'[u] = pc[u]
           /\ Workers' = Workers /\ Items' = Items /\ \A u : First(u)' = First(u)
           /\ UNCHANGED <<program, n, k, mpc, created, joined, cur, printed, out, freed>>
           /\ to \in {"loop", "link", "count", "done"} =>
                 pc' \in [Workers -> {"unborn", "loop", "link", "count", "done"}]
           /\ \A u \in Workers : Unfinished(u)' <=> item'[u] < First(u + 1)
  <1>1. UNCHANGED <<program, n, k, mpc, created, joined, cur, printed, out, freed>>
    BY DEF ByWorker, main_vars
  <1>2. Workers' = Workers /\ Items' = Items /\ \A u : First(u)' = First(u)
    BY <1>1 DEF Workers, Items, First
  <1>3. \A u \in Workers : Unfinished(u)' <=> item'[u] < First(u + 1)
    BY <1>1 DEF Unfinished, First
  <1> QED
    BY <1>1, <1>2, <1>3 DEF ByWorker, Step, IInv, TypeOK

\* The main thread has not begun to walk.
LEMMA WorkerKeepsMain ==
    ASSUME IInv, NEW t \in Workers, NEW from, NEW to, ByWorker(t, from, to),
           from \notin {"done", "unborn"}, to # "unborn", Len(order') \in Nat
    PROVE  Joined' /\ Walk' /\ CrashOnlyOnEmptyList' /\ mpc' \in {"create", "join"}
  <1>1. /\ pc[t] = from /\ pc'[t] = to /\ \A u \in Workers : u # t => pc'[u] = pc[u]
        /\ Workers' = Workers
        /\ UNCHANGED <<program, n, k, mpc, created, joined, cur, printed, out, freed>>
    BY ByWorkerIs
  <1>2. mpc \in {"create", "join"} /\ printed = 0 /\ freed = {} /\ out = <<>>
    BY <1>1, StillRunning
  <1>3. Joined'
    <2>1. ~(t < joined) /\ ~(t >= created)
      BY <1>1 DEF IInv, Joined
    <2> QED
      BY <1>1, <2>1 DEF IInv, Joined
  <1>4. Walk'
    BY <1>1, <1>2 DEF Walk
  <1> QED
    BY <1>1, <1>2, <1>3, <1>4 DEF CrashOnlyOnEmptyList

\* The exchange puts a new item at the end of the order.
LEMMA OrderGrows ==
    ASSUME IInv, NEW t \in Workers, Unfinished(t), ByWorker(t, "loop", "link"),
           order' = Append(order, item[t]), UNCHANGED <<item, size>>,
           prev' = [prev EXCEPT ![t] = Before(Len(order) + 1)],
           value' = value \/ value' = value \cup {item[t]}, program = "main.c" => item[t] \in value'
    PROVE  /\ Len(order') = Len(order) + 1 /\ order'[Len(order) + 1] = item[t]
           /\ \A j \in 1 .. Len(order) : order'[j] = order[j]
           /\ \A j \in 1 .. Len(order) + 1 : Before(j)' = Before(j)
           /\ Before(Len(order) + 1)' = item[t]
           /\ \A x : InOrder(x)' <=> InOrder(x) \/ x = item[t]
           /\ order' \in Seq(Items) /\ prev' \in [Workers -> Items \cup {NULL}]
           /\ prev'[t] = Before(Len(order) + 1) /\ \A u \in Workers : u # t => prev'[u] = prev[u]
           /\ Progress' /\ OrderIsPushed' /\ ValuesStored' /\ Counted'
  <1>1. /\ pc[t] = "loop" /\ pc'[t] = "link" /\ \A u \in Workers : u # t => pc'[u] = pc[u]
        /\ Workers' = Workers /\ Items' = Items /\ \A u : First(u)' = First(u)
        /\ UNCHANGED <<program, n, k, mpc>>
        /\ \A u \in Workers : Unfinished(u)' <=> item'[u] < First(u + 1)
    BY ByWorkerIs
  <1>2. /\ item[t] \in Items /\ ~InOrder(item[t]) /\ item[t] \div k = t
        /\ First(t) <= item[t] /\ item[t] < First(t + 1)
    BY <1>1, ItemIsNew
  <1>3. /\ order \in Seq(Items) /\ Len(order) \in Nat
    BY Basics DEF IInv
  <1>4. /\ Len(order') = Len(order) + 1 /\ order'[Len(order) + 1] = item[t]
        /\ order' \in Seq(Items)
        /\ \A j \in 1 .. Len(order) : order'[j] = order[j]
    BY <1>2, <1>3
  <1>5. /\ \A j \in 1 .. Len(order) + 1 : Before(j)' = Before(j)
        /\ Before(Len(order) + 1)' = item[t]
    <2>1. ASSUME NEW j \in 1 .. Len(order) + 1 PROVE Before(j)' = Before(j)
      BY <1>3, <1>4 DEF Before
    <2>2. Before(Len(order) + 1)' = item[t]
      BY <1>3, <1>4 DEF Before
    <2> QED
      BY <2>1, <2>2
  <1>6. ASSUME NEW x PROVE InOrder(x)' <=> InOrder(x) \/ x = item[t]
    <2>1. 1 .. Len(order') = 1 .. Len(order) \cup {Len(order) + 1}
      BY <1>3, <1>4
    <2> QED
      BY <1>4, <2>1 DEF InOrder
  <1>7. Before(Len(order) + 1) \in Items \cup {NULL}
    BY <1>3, BeforeIs DEF IInv
  <1>8. /\ prev' \in [Workers -> Items \cup {NULL}]
        /\ prev'[t] = Before(Len(order) + 1) /\ \A u \in Workers : u # t => prev'[u] = prev[u]
    BY <1>7 DEF IInv, TypeOK
  <1>9. /\ \A u \in Workers : u # t => Pushed(u)' = Pushed(u) /\ (Busy(u)' <=> Busy(u))
        /\ Busy(t)' /\ ~Busy(t) /\ Pushed(t)' = Pushed(t) \cup {item[t]}
    <2>1. \A u \in Workers : u # t => (Busy(u)' <=> Busy(u))
      BY <1>1 DEF Busy
    <2>2. Busy(t)' /\ ~Busy(t)
      BY <1>1 DEF Busy
    <2> QED
      BY <1>1, <1>2, <2>1, <2>2 DEF Pushed
  <1>10. Progress'
    <2> SUFFICES ASSUME NEW u \in Workers
                 PROVE  /\ First(u) <= item[u] /\ item[u] <= First(u + 1)
                        /\ Busy(u)' => item[u] < First(u + 1)
                        /\ pc'[u] = "done" => ~(item[u] < First(u + 1))
                        /\ pc'[u] = "link" => \E j \in 1 .. Len(order') :
                                                 order'[j] = item[u] /\ prev'[u] = Before(j)'
      BY <1>1 DEF Progress
    <2>1. First(u) <= item[u] /\ item[u] <= First(u + 1) /\ (Unfinished(u) <=> item[u] < First(u + 1))
      BY DEF IInv, Progress, Unfinished, First
    <2>2. CASE u = t
      <3>1. Len(order) + 1 \in 1 .. Len(order')
        BY <1>3, <1>4
      <3> QED
        BY <1>1, <1>2, <1>3, <1>4, <1>5, <1>8, <2>1, <2>2, <3>1
    <2>3. CASE u # t
      <3>1. pc[u] = "link" => \E j \in 1 .. Len(order) : order[j] = item[u] /\ prev[u] = Before(j)
        BY DEF IInv, Progress
      <3>2. (Busy(u) => Unfinished(u)) /\ (pc[u] = "done" => ~Unfinished(u))
        BY DEF IInv, Progress
      <3>3. \A j \in 1 .. Len(order) : j \in 1 .. Len(order') /\ j \in 1 .. Len(order) + 1
        BY <1>3, <1>4
      <3> QED
        BY <1>1, <1>4, <1>5, <1>8, <1>9, <2>1, <2>3, <3>1, <3>2, <3>3
    <2> QED
      BY <2>2, <2>3
  <1>11. OrderIsPushed'
    <2>1. \A x \in Items : InOrder(x)' <=> \E u \in Workers : x \in Pushed(u)'
      <3>1. \A x \in Items : InOrder(x) <=> \E u \in Workers : x \in Pushed(u)
        BY DEF IInv, OrderIsPushed
      <3> QED
        BY <1>6, <1>9, <3>1
    <2>2. ASSUME NEW i \in 1 .. Len(order'), NEW j \in 1 .. Len(order'), i < j
          PROVE  order'[i] # order'[j] /\ (order'[i] \div k = order'[j] \div k => order'[i] < order'[j])
      <3>1. i \in 1 .. Len(order) /\ order'[i] = order[i]
        BY <1>3, <1>4, <2>2
      <3>2. CASE j = Len(order) + 1
        <4>1. InOrder(order[i]) /\ order[i] \in Items
          BY <1>3, <3>1 DEF InOrder
        <4>2. PICK u \in Workers : order[i] \in Pushed(u)
          BY <4>1 DEF IInv, OrderIsPushed
        <4>3. order[i] \div k = u
          BY <4>2, PushedOwn
        <4>4. u = t => order[i] < item[t]
          BY <1>9, <4>2 DEF Pushed
        <4> QED
          BY <1>2, <1>4, <3>1, <3>2, <4>1, <4>3, <4>4
      <3>3. CASE j # Len(order) + 1
        <4>1. j \in 1 .. Len(order) /\ order'[j] = order[j]
          BY <1>3, <1>4, <3>3
        <4> QED
          BY <2>2, <3>1, <4>1 DEF IInv, OrderIsPushed
      <3> QED
        BY <3>2, <3>3
    <2> QED
      BY <1>1, <2>1, <2>2 DEF OrderIsPushed
  <1>12. ValuesStored'
    <2> SUFFICES ASSUME NEW u \in Workers, NEW x \in Pushed(u)'
                 PROVE  x \in value' \/ (program = "file.c" /\ x = item[u])
      BY <1>1 DEF ValuesStored
    <2>1. CASE x \in Pushed(u)
      BY <2>1 DEF IInv, ValuesStored
    <2>2. CASE x \notin Pushed(u)
      <3>1. u = t /\ x = item[t]
        BY <1>9, <2>2
      <3> QED
        BY <3>1 DEF IInv, TypeOK
    <2> QED
      BY <2>1, <2>2
  <1>13. Counted'
    <2>1. {u \in Workers : Busy(u)}' = {u \in Workers : Busy(u)} \cup {t}
      BY <1>1, <1>9
    <2>2. IsFiniteSet({u \in Workers : Busy(u)})
      BY Basics, FS_Subset DEF IInv
    <2>3. Cardinality({u \in Workers : Busy(u)}') = Cardinality({u \in Workers : Busy(u)}) + 1
          /\ Cardinality({u \in Workers : Busy(u)}) \in Nat
      BY <1>9, <2>1, <2>2, FS_AddElement, FS_CardinalityType
    <2> DEFINE busy == Cardinality({u \in Workers : Busy(u)})
    <2>4. busy' = busy + 1 /\ busy \in Nat
      BY <2>3
    <2>5. program = "main.c" /\ mpc # "exit" => size + busy = Len(order)
      BY DEF IInv, Counted
    <2>6. Counted' <=> (program' = "main.c" /\ mpc' # "exit" => size' + busy' = Len(order'))
      BY DEF Counted
    <2>7. size \in Nat
      BY BoundsAssumption, Block DEF IInv, TypeOK
    <2> HIDE DEF busy
    <2> QED
      BY <1>1, <1>3, <1>4, <2>4, <2>5, <2>6, <2>7
  <1> QED
    BY <1>4, <1>5, <1>6, <1>8, <1>10, <1>11, <1>12, <1>13

LEMMA ExchangeStep ==
    ASSUME IInv, NEW t \in Workers, list_push_exchange(t) \/ add_item_exchange(t)
    PROVE  IInv'
  <1>0. /\ order' = Append(order, item[t]) /\ UNCHANGED <<item, size>> /\ Unfinished(t)
        /\ ByWorker(t, "loop", "link")
    BY DEF list_push_exchange, add_item_exchange, ByWorker
  <1>1. program \in {"main.c", "file.c"} /\ TypeOK
    BY DEF IInv, TypeOK
  <1>2. /\ pc[t] = "loop" /\ pc'[t] = "link" /\ \A u \in Workers : u # t => pc'[u] = pc[u]
        /\ Workers' = Workers /\ Items' = Items
        /\ UNCHANGED <<program, n, k, mpc, created, joined, cur, printed, out, freed>>
        /\ pc' \in [Workers -> {"unborn", "loop", "link", "count", "done"}]
    BY <1>0, ByWorkerIs
  <1>3. /\ item[t] \in Items /\ ~InOrder(item[t])
    BY <1>0, <1>2, ItemIsNew
  <1>4. mpc \in {"create", "join"}
    BY <1>2, StillRunning
  <1>5. (\A j \in 1 .. Len(order) : Linked(j)) /\ EndIs
    BY <1>1, <1>2, <1>4, ChainedIs DEF IInv
  <1>6. prev' = [prev EXCEPT ![t] = Before(Len(order) + 1)]
    <2>1. CASE list_push_exchange(t)
      BY <1>5, <2>1 DEF list_push_exchange, EndIs
    <2>2. CASE add_item_exchange(t)
      BY <1>5, <2>2 DEF add_item_exchange, EndIs
    <2> QED
      BY <2>1, <2>2
  <1>7. /\ value' = value \/ value' = value \cup {item[t]}
        /\ program = "main.c" => item[t] \in value'
    <2>1. CASE list_push_exchange(t)
      BY <2>1 DEF list_push_exchange
    <2>2. CASE add_item_exchange(t)
      BY <2>2 DEF add_item_exchange
    <2> QED
      BY <2>1, <2>2
  <1>8. /\ Len(order') = Len(order) + 1 /\ order'[Len(order) + 1] = item[t]
        /\ \A j \in 1 .. Len(order) : order'[j] = order[j]
        /\ \A j \in 1 .. Len(order) + 1 : Before(j)' = Before(j)
        /\ Before(Len(order) + 1)' = item[t]
        /\ \A x : InOrder(x)' <=> InOrder(x) \/ x = item[t]
        /\ order' \in Seq(Items) /\ prev' \in [Workers -> Items \cup {NULL}]
        /\ prev'[t] = Before(Len(order) + 1) /\ \A u \in Workers : u # t => prev'[u] = prev[u]
    BY <1>0, <1>6, <1>7, OrderGrows
  <1>9. Progress' /\ OrderIsPushed' /\ ValuesStored' /\ Counted'
    BY <1>0, <1>6, <1>7, OrderGrows
  <1>10. Len(order) \in Nat /\ Len(order') \in Nat /\ \A j \in 1 .. Len(order) : order[j] \in Items /\ order[j] # item[t]
    BY <1>3, <1>8, Basics DEF InOrder, IInv
  <1>11. Joined' /\ Walk' /\ CrashOnlyOnEmptyList'
    BY <1>0, <1>10, WorkerKeepsMain
  <1>12. \A x, y : Linking(x, y) => Linking(x, y)'
    <2> SUFFICES ASSUME NEW x, NEW y, Linking(x, y) PROVE Linking(x, y)'
      OBVIOUS
    <2>1. PICK u \in Workers : pc[u] = "link" /\ item[u] = x /\ prev[u] = y
      BY DEF Linking
    <2>2. u # t
      BY <1>2, <2>1
    <2> QED
      BY <1>0, <1>2, <1>8, <2>1, <2>2 DEF Linking
  <1>13. \A x, y : x = item[t] /\ y = Before(Len(order) + 1) => Linking(x, y)'
    <2>1. pc'[t] = "link" /\ item'[t] = item[t] /\ prev'[t] = Before(Len(order) + 1)
      BY <1>0, <1>2, <1>8
    <2> QED
      BY <1>2, <2>1 DEF Linking
  <1>14. value' \subseteq Items
    BY <1>1, <1>3, <1>7 DEF TypeOK
  <1>15. CASE list_push_exchange(t)
    <2>1. /\ program = "main.c" /\ tail' = item[t] /\ next' = [next EXCEPT ![item[t]] = NULL]
          /\ UNCHANGED head
      BY <1>15 DEF list_push_exchange
    <2>2. /\ next'[item[t]] = NULL /\ \A x \in Items : x # item[t] => next'[x] = next[x]
          /\ next' \in [Items -> Items \cup {NULL, Garbage}]
      BY <1>1, <1>3, <2>1 DEF TypeOK
    <2>3. TypeOK'
      BY <1>0, <1>1, <1>2, <1>3, <1>8, <1>14, <2>1, <2>2 DEF TypeOK
    <2>4. NotYetPushed'
      <3>1. order' # <<>>
        BY <1>8, <1>10
      <3> QED
        BY <1>2, <2>1, <3>1 DEF NotYetPushed
    <2>5. EndIs'
      <3>1. order'[Len(order')] = item[t] /\ Before(Len(order) + 1)' = item[t]
        BY <1>8
      <3> QED
        BY <1>2, <2>1, <2>2, <3>1 DEF EndIs
    <2>6. ASSUME NEW j \in 1 .. Len(order') PROVE Linked(j)'
      <3>1. CASE j = Len(order) + 1
        <4>1. order'[j] = item[t] /\ Before(j)' = Before(j)
          BY <1>8, <1>10, <3>1
        <4>2. CASE j = 1
          <5>1. order = <<>>
            BY <1>1, <1>10, <3>1, <4>2, EmptySeq DEF TypeOK
          <5>2. head = NULL
            BY <2>1, <5>1 DEF IInv, NotYetPushed
          <5> QED
            BY <1>2, <1>13, <2>1, <3>1, <4>1, <4>2, <5>2 DEF Linked
        <4>3. CASE j # 1
          <5>1. j - 1 = Len(order) /\ Len(order) \in 1 .. Len(order) /\ Before(j) = order[Len(order)]
            BY <1>1, <1>10, <3>1, <4>3, BeforeIs
          <5>2. next[order[Len(order)]] = NULL
            BY <1>5, <2>1, <5>1 DEF EndIs
          <5>3. next'[Before(j)] = NULL
            BY <1>10, <2>2, <5>1, <5>2
          <5> QED
            BY <1>2, <1>13, <2>1, <3>1, <4>1, <4>3, <5>3 DEF Linked
        <4> QED
          BY <4>2, <4>3
      <3>2. CASE j # Len(order) + 1
        <4>1. j \in 1 .. Len(order) /\ order'[j] = order[j] /\ Before(j)' = Before(j)
          BY <1>8, <1>10, <3>2
        <4>2. Linked(j)
          BY <1>5, <4>1
        <4>3. CASE j = 1
          BY <1>2, <1>12, <2>1, <4>1, <4>2, <4>3 DEF Linked
        <4>4. CASE j # 1
          <5>1. Before(j) = order[j - 1] /\ j - 1 \in 1 .. Len(order)
            BY <1>1, <1>10, <4>1, <4>4, BeforeIs
          <5>2. next'[Before(j)] = next[Before(j)]
            BY <1>10, <2>2, <5>1
          <5> QED
            BY <1>2, <1>12, <2>1, <4>1, <4>2, <4>4, <5>2 DEF Linked
        <4> QED
          BY <4>3, <4>4
      <3> QED
        BY <3>1, <3>2
    <2>7. Chained'
      BY <1>1, <1>2, <2>5, <2>6, ChainedIs
    <2> QED
      BY <1>9, <1>11, <2>3, <2>4, <2>7 DEF IInv
  <1>16. CASE add_item_exchange(t)
    <2>1. program = "file.c" /\ head' = item[t] /\ UNCHANGED <<tail, next, value>>
      BY <1>16 DEF add_item_exchange
    <2>2. TypeOK'
      BY <1>0, <1>1, <1>2, <1>3, <1>8, <2>1 DEF TypeOK
    <2>3. NotYetPushed'
      BY <1>2, <1>8, <2>1 DEF NotYetPushed, IInv
    <2>4. EndIs'
      BY <1>2, <1>8, <2>1 DEF EndIs
    <2>5. ASSUME NEW j \in 1 .. Len(order') PROVE Linked(j)'
      <3>1. CASE j = Len(order) + 1
        <4>1. order'[j] = item[t] /\ Before(j)' = Before(j)
          BY <1>8, <1>10, <3>1
        <4>2. next[item[t]] = Garbage
          BY <1>3, <2>1 DEF IInv, NotYetPushed
        <4> QED
          BY <1>2, <1>13, <2>1, <3>1, <4>1, <4>2 DEF Linked
      <3>2. CASE j # Len(order) + 1
        <4>1. j \in 1 .. Len(order) /\ order'[j] = order[j] /\ Before(j)' = Before(j)
          BY <1>8, <1>10, <3>2
        <4>2. Linked(j)
          BY <1>5, <4>1
        <4> QED
          BY <1>2, <1>12, <2>1, <4>1, <4>2 DEF Linked
      <3> QED
        BY <3>1, <3>2
    <2>6. Chained'
      BY <1>1, <1>2, <2>4, <2>5, ChainedIs
    <2> QED
      BY <1>9, <1>11, <2>2, <2>3, <2>6 DEF IInv
  <1> QED
    BY <1>15, <1>16

LEMMA Distinct ==
    ASSUME TypeOK, OrderIsPushed, NEW i \in 1 .. Len(order), NEW j \in 1 .. Len(order), i # j
    PROVE  order[i] # order[j]
  <1>1. i < j \/ j < i
    BY Basics
  <1> QED
    BY <1>1 DEF OrderIsPushed

\* A worker that links has published its item already.
LEMMA OrderKept ==
    ASSUME IInv, NEW t \in Workers, ByWorker(t, "link", "count"),
           UNCHANGED <<order, item, prev, size, value>>
    PROVE  /\ \A j : Before(j)' = Before(j)
           /\ \A x : InOrder(x)' <=> InOrder(x)
           /\ \A x, y : Linking(x, y) /\ x # item[t] => Linking(x, y)'
           /\ Progress' /\ OrderIsPushed' /\ ValuesStored' /\ Counted'
  <1>1. /\ pc[t] = "link" /\ pc'[t] = "count" /\ \A u \in Workers : u # t => pc'[u] = pc[u]
        /\ Workers' = Workers /\ Items' = Items /\ \A u : First(u)' = First(u)
        /\ UNCHANGED <<program, n, k, mpc>>
        /\ \A u \in Workers : Unfinished(u)' <=> item'[u] < First(u + 1)
    BY ByWorkerIs
  <1>2. /\ \A j : Before(j)' = Before(j)
        /\ \A x : InOrder(x)' <=> InOrder(x)
    BY DEF Before, InOrder
  <1>3. \A u \in Workers : Pushed(u)' = Pushed(u) /\ (Busy(u)' <=> Busy(u))
    <2>1. \A u \in Workers : Busy(u)' <=> Busy(u)
      BY <1>1 DEF Busy
    <2> QED
      BY <1>1, <2>1 DEF Pushed
  <1>4. \A x, y : Linking(x, y) /\ x # item[t] => Linking(x, y)'
    BY <1>1 DEF Linking
  <1>5. Progress'
    <2> SUFFICES ASSUME NEW u \in Workers
                 PROVE  /\ First(u) <= item[u] /\ item[u] <= First(u + 1)
                        /\ Busy(u)' => item[u] < First(u + 1)
                        /\ pc'[u] = "done" => ~(item[u] < First(u + 1))
                        /\ pc'[u] = "link" => \E j \in 1 .. Len(order) :
                                                 order[j] = item[u] /\ prev[u] = Before(j)'
      BY <1>1 DEF Progress
    <2>1. /\ First(u) <= item[u] /\ item[u] <= First(u + 1) /\ (Unfinished(u) <=> item[u] < First(u + 1))
          /\ Busy(u) => Unfinished(u)
          /\ pc[u] = "done" => ~Unfinished(u)
          /\ pc[u] = "link" => \E j \in 1 .. Len(order) : order[j] = item[u] /\ prev[u] = Before(j)
      BY DEF IInv, Progress, Unfinished, First
    <2> QED
      BY <1>1, <1>2, <1>3, <2>1
  <1>6. OrderIsPushed'
    BY <1>1, <1>2, <1>3 DEF IInv, OrderIsPushed
  <1>7. ValuesStored'
    BY <1>1, <1>3 DEF IInv, ValuesStored
  <1>8. Counted'
    <2>1. {u \in Workers : Busy(u)}' = {u \in Workers : Busy(u)}
      BY <1>1, <1>3
    <2> QED
      BY <1>1, <2>1 DEF IInv, Counted
  <1> QED
    BY <1>2, <1>4, <1>5, <1>6, <1>7, <1>8

LEMMA LinkStep ==
    ASSUME IInv, NEW t \in Workers, list_push_link(t) \/ add_item_next(t)
    PROVE  IInv'
  <1>0. ByWorker(t, "link", "count") /\ UNCHANGED <<order, item, prev, size, value, tail>>
    BY DEF list_push_link, add_item_next, ByWorker
  <1>1. program \in {"main.c", "file.c"} /\ TypeOK /\ OrderIsPushed
    BY DEF IInv, TypeOK
  <1>2. /\ pc[t] = "link" /\ Workers' = Workers /\ Items' = Items
        /\ UNCHANGED <<program, n, k, mpc, created, joined, cur, printed, out, freed>>
        /\ pc' \in [Workers -> {"unborn", "loop", "link", "count", "done"}]
    BY <1>0, ByWorkerIs
  <1>3. /\ \A j : Before(j)' = Before(j)
        /\ \A x : InOrder(x)' <=> InOrder(x)
        /\ \A x, y : Linking(x, y) /\ x # item[t] => Linking(x, y)'
        /\ Progress' /\ OrderIsPushed' /\ ValuesStored' /\ Counted'
    BY <1>0, OrderKept
  <1>4. Len(order) \in Nat /\ \A j \in 1 .. Len(order) : order[j] \in Items
    BY <1>1, Basics
  <1>5. mpc \in {"create", "join"} /\ Joined' /\ Walk' /\ CrashOnlyOnEmptyList'
    BY <1>0, <1>2, <1>4, StillRunning, WorkerKeepsMain
  <1>6. (\A j \in 1 .. Len(order) : Linked(j)) /\ EndIs
    BY <1>1, <1>2, <1>5, ChainedIs DEF IInv
  <1>7. PICK m \in 1 .. Len(order) : order[m] = item[t] /\ prev[t] = Before(m)
    BY <1>2 DEF IInv, Progress
  <1>8. /\ item[t] \in Items /\ prev[t] \in Items \cup {NULL}
        /\ m = 1 => prev[t] = NULL
        /\ m # 1 => prev[t] # NULL /\ m - 1 \in 1 .. Len(order) /\ prev[t] = order[m - 1]
                      /\ prev[t] \in Items
    BY <1>1, <1>4, <1>7, BeforeIs, Basics
  <1>9. \A j \in 1 .. Len(order) : j # m => order[j] # item[t]
    BY <1>1, <1>7, Distinct
  <1>10. CASE list_push_link(t)
    <2>1. /\ program = "main.c"
          /\ m = 1 => head' = item[t] /\ next' = next
          /\ m # 1 => next' = [next EXCEPT ![prev[t]] = item[t]] /\ head' = head
      BY <1>8, <1>10 DEF list_push_link, ListWasEmpty
    <2>2. /\ m # 1 => next'[prev[t]] = item[t]
          /\ \A x \in Items : m = 1 \/ x # prev[t] => next'[x] = next[x]
          /\ next' \in [Items -> Items \cup {NULL, Garbage}] /\ head' \in Items \cup {NULL}
      BY <1>1, <1>8, <2>1 DEF TypeOK
    <2>3. TypeOK'
      BY <1>0, <1>1, <1>2, <2>2 DEF TypeOK
    <2>4. NotYetPushed'
      <3>1. order # <<>>
        BY <1>4, <1>7
      <3> QED
        BY <1>0, <1>2, <2>1, <3>1 DEF NotYetPushed
    <2>5. ASSUME NEW j \in 1 .. Len(order), j # 1
          PROVE  /\ Before(j) \in Items /\ j - 1 \in 1 .. Len(order) /\ Before(j) = order[j - 1]
                 /\ j # m => next'[Before(j)] = next[Before(j)]
      <3>1. Before(j) \in Items /\ j - 1 \in 1 .. Len(order) /\ Before(j) = order[j - 1]
        BY <1>1, <1>4, <2>5, BeforeIs
      <3>2. CASE m # 1 /\ j # m
        <4>1. j - 1 # m - 1 /\ m - 1 \in 1 .. Len(order)
          BY <1>4, <1>8, <3>2
        <4>2. order[j - 1] # order[m - 1]
          BY <1>1, <3>1, <4>1, Distinct
        <4> QED
          BY <1>8, <2>2, <3>1, <3>2, <4>2
      <3> QED
        BY <2>2, <3>1, <3>2
    <2>6. EndIs'
      <3>1. order # <<>> /\ Len(order) \in 1 .. Len(order)
        BY <1>4, <1>7
      <3>2. tail = Before(Len(order) + 1) /\ next[order[Len(order)]] = NULL
        BY <1>6, <2>1, <3>1 DEF EndIs
      <3>3. next'[order[Len(order)]] = NULL
        <4>1. CASE m # 1
          <5>1. m - 1 # Len(order) /\ m - 1 \in 1 .. Len(order)
            BY <1>4, <1>8, <4>1
          <5>2. order[Len(order)] # order[m - 1]
            BY <1>1, <3>1, <5>1, Distinct
          <5> QED
            BY <1>4, <1>8, <2>2, <3>1, <3>2, <4>1, <5>2
        <4>2. CASE m = 1
          BY <2>1, <3>2, <4>2
        <4> QED
          BY <4>1, <4>2
      <3> QED
        BY <1>0, <1>2, <1>3, <2>1, <3>2, <3>3 DEF EndIs
    <2>7. ASSUME NEW j \in 1 .. Len(order') PROVE Linked(j)'
      <3>1. j \in 1 .. Len(order) /\ order' = order
        BY <1>0
      <3>2. CASE j = m
        <4>1. CASE j = 1
          BY <1>2, <1>3, <1>7, <2>1, <3>1, <3>2, <4>1 DEF Linked
        <4>2. CASE j # 1
          BY <1>2, <1>3, <1>7, <2>1, <2>2, <3>1, <3>2, <4>2 DEF Linked
        <4> QED
          BY <4>1, <4>2
      <3>3. CASE j # m
        <4>1. Linked(j) /\ order[j] # item[t]
          BY <1>6, <1>9, <3>1, <3>3
        <4>2. CASE j = 1
          <5>1. head' = head
            BY <2>1, <3>3, <4>2
          <5> QED
            BY <1>2, <1>3, <2>1, <3>1, <4>1, <4>2, <5>1 DEF Linked
        <4>3. CASE j # 1
          <5>1. next'[Before(j)] = next[Before(j)]
            BY <2>5, <3>1, <3>3, <4>3
          <5> QED
            BY <1>2, <1>3, <2>1, <3>1, <4>1, <4>3, <5>1 DEF Linked
        <4> QED
          BY <4>2, <4>3
      <3> QED
        BY <3>2, <3>3
    <2>8. Chained'
      BY <1>1, <1>2, <2>6, <2>7, ChainedIs
    <2> QED
      BY <1>3, <1>5, <2>3, <2>4, <2>8 DEF IInv
  <1>11. CASE add_item_next(t)
    <2>1. program = "file.c" /\ next' = [next EXCEPT ![item[t]] = prev[t]] /\ head' = head
      BY <1>11 DEF add_item_next
    <2>2. /\ next'[item[t]] = prev[t] /\ \A x \in Items : x # item[t] => next'[x] = next[x]
          /\ next' \in [Items -> Items \cup {NULL, Garbage}]
      BY <1>1, <1>8, <2>1 DEF TypeOK
    <2>3. TypeOK'
      BY <1>0, <1>1, <1>2, <2>1, <2>2 DEF TypeOK
    <2>4. NotYetPushed'
      <3>1. InOrder(item[t])
        BY <1>7 DEF InOrder
      <3> QED
        BY <1>2, <1>3, <2>1, <2>2, <3>1 DEF NotYetPushed, IInv
    <2>5. EndIs'
      BY <1>0, <1>2, <1>3, <1>6, <2>1 DEF EndIs
    <2>6. ASSUME NEW j \in 1 .. Len(order') PROVE Linked(j)'
      <3>1. j \in 1 .. Len(order) /\ order' = order
        BY <1>0
      <3>2. CASE j = m
        BY <1>2, <1>3, <1>7, <2>1, <2>2, <3>1, <3>2 DEF Linked
      <3>3. CASE j # m
        <4>1. Linked(j) /\ order[j] # item[t] /\ order[j] \in Items
          BY <1>4, <1>6, <1>9, <3>1, <3>3
        <4> QED
          BY <1>2, <1>3, <2>1, <2>2, <3>1, <4>1 DEF Linked
      <3> QED
        BY <3>2, <3>3
    <2>7. Chained'
      BY <1>1, <1>2, <2>5, <2>6, ChainedIs
    <2> QED
      BY <1>3, <1>5, <2>3, <2>4, <2>7 DEF IInv
  <1> QED
    BY <1>10, <1>11

LEMMA ChainKept ==
    ASSUME IInv, mpc # "exit", UNCHANGED <<program, order, head, tail, next>>,
           \A x, y : Linking(x, y) => Linking(x, y)'
    PROVE  Chained'
  <1>1. program \in {"main.c", "file.c"} /\ TypeOK
    BY DEF IInv, TypeOK
  <1>2. (\A j \in 1 .. Len(order) : Linked(j)) /\ EndIs
    BY <1>1, ChainedIs DEF IInv
  <1>3. \A j : Before(j)' = Before(j)
    BY DEF Before
  <1>4. ASSUME NEW j \in 1 .. Len(order') PROVE Linked(j)'
    <2>1. Linked(j)
      BY <1>2
    <2> QED
      BY <1>3, <2>1 DEF Linked
  <1>5. EndIs'
    BY <1>2, <1>3 DEF EndIs
  <1> QED
    BY <1>1, <1>4, <1>5, ChainedIs

\* A worker has finished a push.
LEMMA CountStep ==
    ASSUME IInv, NEW t \in Workers, list_push_count(t) \/ add_item_value(t)
    PROVE  IInv'
  <1>0. /\ ByWorker(t, "count", "loop") /\ UNCHANGED <<order, prev, head, tail, next>>
        /\ item' = [item EXCEPT ![t] = @ + 1]
    BY DEF list_push_count, add_item_value, ByWorker
  <1>1. program \in {"main.c", "file.c"} /\ TypeOK /\ OrderIsPushed /\ n \in Nat /\ k \in Nat
    BY Basics DEF IInv, TypeOK
  <1>2. /\ pc[t] = "count" /\ pc'[t] = "loop" /\ \A u \in Workers : u # t => pc'[u] = pc[u]
        /\ Workers' = Workers /\ Items' = Items /\ \A u : First(u)' = First(u)
        /\ UNCHANGED <<program, n, k, mpc, created, joined, cur, printed, out, freed>>
        /\ pc' \in [Workers -> {"unborn", "loop", "link", "count", "done"}]
        /\ \A u \in Workers : Unfinished(u)' <=> item'[u] < First(u + 1)
    BY <1>0, ByWorkerIs
  <1>3. Len(order) \in Nat /\ Len(order) <= n * k /\ n * k \in Nat
    BY <1>1, Basics, OrderBound, Blocks
  <1>4. mpc \in {"create", "join"} /\ Joined' /\ Walk' /\ CrashOnlyOnEmptyList'
    BY <1>0, <1>2, <1>3, StillRunning, WorkerKeepsMain
  <1>5. /\ item[t] \in Nat /\ First(t) <= item[t] /\ item[t] < First(t + 1) /\ First(t + 1) <= n * k
        /\ First(t) \in Nat /\ First(t + 1) \in Nat
    <2>1. item[t] \in 0 .. n * k
      BY <1>1 DEF TypeOK
    <2>2. Busy(t)
      BY <1>2 DEF Busy
    <2> QED
      BY <1>1, <1>3, <2>1, <2>2, Blocks DEF IInv, Progress, Unfinished, First
  <1>6. /\ item'[t] = item[t] + 1 /\ \A u \in Workers : u # t => item'[u] = item[u]
        /\ item' \in [Workers -> 0 .. n * k]
    <2>1. item \in [Workers -> 0 .. n * k]
      BY <1>1 DEF TypeOK
    <2>2. item[t] + 1 \in 0 .. n * k
      BY <1>3, <1>5
    <2> QED
      BY <1>0, <2>1, <2>2
  <1>7. /\ \A u \in Workers : u # t => (Busy(u)' <=> Busy(u))
        /\ Busy(t) /\ ~Busy(t)'
    BY <1>2 DEF Busy
  <1>8. \A u \in Workers : Pushed(u)' = Pushed(u)
    <2> SUFFICES ASSUME NEW u \in Workers PROVE Pushed(u)' = Pushed(u)
      OBVIOUS
    <2>1. CASE u = t
      <3>1. \A x \in Items : x \in Nat
        BY <1>1, Blocks
      <3>2. \A x \in Items : x < item[t] + 1 <=> x < item[t] \/ x = item[t]
        BY <1>5, <3>1
      <3> QED
        BY <1>2, <1>6, <1>7, <2>1, <3>2 DEF Pushed
    <2>2. CASE u # t
      BY <1>2, <1>6, <1>7, <2>2 DEF Pushed
    <2> QED
      BY <2>1, <2>2
  <1>9. /\ \A j : Before(j)' = Before(j)
        /\ \A x : InOrder(x)' <=> InOrder(x)
    BY <1>0 DEF Before, InOrder
  <1>10. Progress'
    <2> SUFFICES ASSUME NEW u \in Workers
                 PROVE  /\ First(u) <= item'[u] /\ item'[u] <= First(u + 1)
                        /\ Busy(u)' => item'[u] < First(u + 1)
                        /\ pc'[u] = "done" => ~(item'[u] < First(u + 1))
                        /\ pc'[u] = "link" => \E j \in 1 .. Len(order) :
                                                 order[j] = item'[u] /\ prev[u] = Before(j)'
      BY <1>0, <1>2 DEF Progress
    <2>1. /\ First(u) <= item[u] /\ item[u] <= First(u + 1) /\ (Unfinished(u) <=> item[u] < First(u + 1))
          /\ Busy(u) => Unfinished(u)
          /\ pc[u] = "done" => ~Unfinished(u)
          /\ pc[u] = "link" => \E j \in 1 .. Len(order) : order[j] = item[u] /\ prev[u] = Before(j)
      BY DEF IInv, Progress, Unfinished, First
    <2>2. CASE u = t
      BY <1>2, <1>5, <1>6, <1>7, <2>2
    <2>3. CASE u # t
      BY <1>2, <1>6, <1>7, <1>9, <2>1, <2>3
    <2> QED
      BY <2>2, <2>3
  <1>11. OrderIsPushed'
    BY <1>0, <1>2, <1>8, <1>9 DEF IInv, OrderIsPushed
  <1>12. NotYetPushed'
    BY <1>0, <1>2, <1>9 DEF IInv, NotYetPushed
  <1>13. Chained'
    <2>1. \A x, y : Linking(x, y) => Linking(x, y)'
      BY <1>0, <1>2, <1>6 DEF Linking
    <2> QED
      BY <1>0, <1>2, <1>4, <2>1, ChainKept
  <1>14. value' \subseteq Items /\ ValuesStored'
    <2>1. item[t] \in Items
      BY <1>1, <1>3, <1>5, Blocks
    <2>2. CASE list_push_count(t)
      <3>1. program = "main.c" /\ value' = value
        BY <2>2 DEF list_push_count
      <3> QED
        BY <1>1, <1>2, <1>8, <3>1 DEF IInv, ValuesStored, TypeOK
    <2>3. CASE add_item_value(t)
      <3>1. value' = value \cup {item[t]}
        BY <2>3 DEF add_item_value
      <3>2. ASSUME NEW u \in Workers, NEW x \in Pushed(u)
            PROVE  x \in value' \/ (program = "file.c" /\ x = item'[u])
        <4>1. x \in value \/ (program = "file.c" /\ x = item[u])
          BY DEF IInv, ValuesStored
        <4> QED
          BY <1>6, <3>1, <4>1
      <3>3. value' \subseteq Items
        BY <1>1, <2>1, <3>1 DEF TypeOK
      <3> QED
        BY <1>2, <1>8, <3>2, <3>3 DEF ValuesStored
    <2> QED
      BY <2>2, <2>3
  <1>15. size' \in 0 .. n * k /\ Counted'
    <2> DEFINE busy == Cardinality({u \in Workers : Busy(u)})
    <2>1. {u \in Workers : Busy(u)}' = {u \in Workers : Busy(u)} \ {t}
      BY <1>2, <1>7
    <2>2. IsFiniteSet({u \in Workers : Busy(u)})
      BY <1>1, Basics, FS_Subset
    <2>3. Cardinality({u \in Workers : Busy(u)}') = Cardinality({u \in Workers : Busy(u)}) - 1
          /\ Cardinality({u \in Workers : Busy(u)}) \in Nat
          /\ Cardinality({u \in Workers : Busy(u)}') \in Nat
      <3>1. t \in {u \in Workers : Busy(u)}
        BY <1>7
      <3>2. IsFiniteSet({u \in Workers : Busy(u)} \ {t})
        BY <2>2, FS_RemoveElement
      <3> QED
        BY <2>1, <2>2, <3>1, <3>2, FS_RemoveElement, FS_CardinalityType
    <2>4. busy' = busy - 1 /\ busy \in Nat /\ busy' \in Nat
      BY <2>3
    <2>5. program = "main.c" /\ mpc # "exit" => size + busy = Len(order)
      BY DEF IInv, Counted
    <2>6. Counted' <=> (program' = "main.c" /\ mpc' # "exit" => size' + busy' = Len(order'))
      BY DEF Counted
    <2>7. size \in 0 .. n * k
      BY <1>1 DEF TypeOK
    <2> HIDE DEF busy
    <2>8. CASE list_push_count(t)
      <3>1. program = "main.c" /\ size' = size + 1
        BY <2>8 DEF list_push_count
      <3> QED
        BY <1>0, <1>2, <1>3, <1>4, <2>4, <2>5, <2>6, <2>7, <3>1
    <2>9. CASE add_item_value(t)
      <3>1. program = "file.c" /\ size' = size
        BY <2>9 DEF add_item_value
      <3> QED
        BY <1>2, <2>6, <2>7, <3>1
    <2> QED
      BY <2>8, <2>9
  <1>16. TypeOK'
    BY <1>0, <1>1, <1>2, <1>6, <1>14, <1>15 DEF TypeOK
  <1> QED
    BY <1>4, <1>10, <1>11, <1>12, <1>13, <1>14, <1>15, <1>16 DEF IInv

LEMMA ReturnStep ==
    ASSUME IInv, NEW t \in Workers, worker_return(t)
    PROVE  IInv'
  <1>0. /\ ByWorker(t, "loop", "done") /\ UNCHANGED <<list, order, prev, item>> /\ ~Unfinished(t)
        /\ UNCHANGED <<head, tail, next, value, size>>
    BY DEF worker_return, ByWorker, list
  <1>1. /\ pc[t] = "loop" /\ pc'[t] = "done" /\ \A u \in Workers : u # t => pc'[u] = pc[u]
        /\ Workers' = Workers /\ Items' = Items /\ \A u : First(u)' = First(u)
        /\ UNCHANGED <<program, n, k, mpc, created, joined, cur, printed, out, freed>>
        /\ pc' \in [Workers -> {"unborn", "loop", "link", "count", "done"}]
        /\ \A u \in Workers : Unfinished(u)' <=> item'[u] < First(u + 1)
    BY <1>0, ByWorkerIs
  <1>2. Len(order) \in Nat
    BY Basics DEF IInv
  <1>3. mpc \in {"create", "join"} /\ Joined' /\ Walk' /\ CrashOnlyOnEmptyList'
    BY <1>0, <1>1, <1>2, StillRunning, WorkerKeepsMain
  <1>4. \A u \in Workers : (Busy(u)' <=> Busy(u)) /\ (Unfinished(u)' <=> Unfinished(u))
    <2>1. \A u \in Workers : Unfinished(u)' <=> Unfinished(u)
      BY <1>0, <1>1 DEF Unfinished, First
    <2> QED
      BY <1>1, <2>1 DEF Busy
  <1>5. \A u \in Workers : Pushed(u)' = Pushed(u)
    BY <1>0, <1>1, <1>4 DEF Pushed
  <1>6. /\ \A j : Before(j)' = Before(j)
        /\ \A x : InOrder(x)' <=> InOrder(x)
    BY <1>0 DEF Before, InOrder
  <1>7. Progress'
    <2> SUFFICES ASSUME NEW u \in Workers
                 PROVE  /\ First(u) <= item[u] /\ item[u] <= First(u + 1)
                        /\ Busy(u)' => Unfinished(u)'
                        /\ pc'[u] = "done" => ~Unfinished(u)'
                        /\ pc'[u] = "link" => \E j \in 1 .. Len(order) :
                                                 order[j] = item[u] /\ prev[u] = Before(j)'
      BY <1>0, <1>1 DEF Progress
    <2>1. /\ First(u) <= item[u] /\ item[u] <= First(u + 1)
          /\ Busy(u) => Unfinished(u)
          /\ pc[u] = "done" => ~Unfinished(u)
          /\ pc[u] = "link" => \E j \in 1 .. Len(order) : order[j] = item[u] /\ prev[u] = Before(j)
      BY DEF IInv, Progress
    <2> QED
      BY <1>0, <1>1, <1>4, <1>6, <2>1
  <1>8. OrderIsPushed' /\ NotYetPushed'
    BY <1>0, <1>1, <1>5, <1>6 DEF IInv, OrderIsPushed, NotYetPushed
  <1>9. ValuesStored'
    BY <1>0, <1>1, <1>5 DEF IInv, ValuesStored
  <1>10. Counted'
    <2>1. {u \in Workers : Busy(u)}' = {u \in Workers : Busy(u)}
      BY <1>1, <1>4
    <2> QED
      BY <1>0, <1>1, <2>1 DEF IInv, Counted
  <1>11. Chained'
    <2>1. \A x, y : Linking(x, y) => Linking(x, y)'
      BY <1>0, <1>1 DEF Linking
    <2> QED
      BY <1>0, <1>1, <1>3, <2>1, ChainKept
  <1>12. TypeOK'
    BY <1>0, <1>1 DEF IInv, TypeOK
  <1> QED
    BY <1>3, <1>7, <1>8, <1>9, <1>10, <1>11, <1>12 DEF IInv

\* What the main thread leaves alone: it may start a worker, no more.
LEMMA MainKeeps ==
    ASSUME IInv, UNCHANGED <<program, n, k, order, item, prev, value>>,
           \/ pc' = pc
           \/ created \in Workers /\ pc[created] = "unborn" /\ pc' = [pc EXCEPT ![created] = "loop"]
    PROVE  /\ Workers' = Workers /\ Items' = Items
           /\ pc' \in [Workers -> {"unborn", "loop", "link", "count", "done"}]
           /\ {u \in Workers : Busy(u)}' = {u \in Workers : Busy(u)}
           /\ \A x : InOrder(x)' <=> InOrder(x)
           /\ \A j : Before(j)' = Before(j)
           /\ \A x, y : Linking(x, y) => Linking(x, y)'
           /\ Progress' /\ OrderIsPushed' /\ ValuesStored'
  <1>1. /\ Workers' = Workers /\ Items' = Items /\ \A u : First(u)' = First(u)
        /\ \A u \in Workers : Unfinished(u)' <=> Unfinished(u)
    BY DEF Workers, Items, First, Unfinished
  <1>2. /\ pc' \in [Workers -> {"unborn", "loop", "link", "count", "done"}]
        /\ \A u \in Workers : pc'[u] = pc[u] \/ (pc[u] = "unborn" /\ pc'[u] = "loop")
    BY DEF IInv, TypeOK
  <1>3. \A u \in Workers : Busy(u)' <=> Busy(u)
    BY <1>2 DEF Busy
  <1>4. \A u \in Workers : Pushed(u)' = Pushed(u)
    BY <1>1, <1>3 DEF Pushed
  <1>5. (\A x : InOrder(x)' <=> InOrder(x)) /\ \A j : Before(j)' = Before(j)
    BY DEF InOrder, Before
  <1>6. \A x, y : Linking(x, y) => Linking(x, y)'
    BY <1>1, <1>2 DEF Linking
  <1>7. {u \in Workers : Busy(u)}' = {u \in Workers : Busy(u)}
    BY <1>1, <1>3
  <1>8. Progress'
    <2> SUFFICES ASSUME NEW u \in Workers
                 PROVE  /\ First(u) <= item[u] /\ item[u] <= First(u + 1)
                        /\ Busy(u)' => Unfinished(u)'
                        /\ pc'[u] = "done" => ~Unfinished(u)'
                        /\ pc'[u] = "link" => \E j \in 1 .. Len(order) :
                                                 order[j] = item[u] /\ prev[u] = Before(j)'
      BY <1>1 DEF Progress
    <2>1. /\ First(u) <= item[u] /\ item[u] <= First(u + 1)
          /\ Busy(u) => Unfinished(u)
          /\ pc[u] = "done" => ~Unfinished(u)
          /\ pc[u] = "link" => \E j \in 1 .. Len(order) : order[j] = item[u] /\ prev[u] = Before(j)
      BY DEF IInv, Progress
    <2> QED
      BY <1>1, <1>2, <1>3, <1>5, <2>1
  <1>9. OrderIsPushed'
    BY <1>1, <1>4, <1>5 DEF IInv, OrderIsPushed
  <1>10. ValuesStored'
    BY <1>1, <1>4 DEF IInv, ValuesStored
  <1> QED
    BY <1>1, <1>2, <1>5, <1>6, <1>7, <1>8, <1>9, <1>10

\* When all workers are joined, the list is complete.
LEMMA Complete ==
    ASSUME IInv, joined = n
    PROVE  /\ \A x \in Items : InOrder(x) /\ x \in value
           /\ Len(order) = n * k
           /\ mpc # "exit" /\ program = "main.c" =>
                /\ size = Len(order)
                /\ head = IF order = <<>> THEN NULL ELSE order[1]
                /\ \A j \in 1 .. Len(order) :
                     next[order[j]] = IF j = Len(order) THEN NULL ELSE order[j + 1]
           /\ mpc # "exit" /\ program = "file.c" =>
                /\ head = Before(Len(order) + 1)
                /\ \A j \in 1 .. Len(order) : next[order[j]] = Before(j)
  <1>1. /\ program \in {"main.c", "file.c"} /\ TypeOK /\ OrderIsPushed /\ n \in Nat /\ k \in Nat
        /\ Len(order) \in Nat /\ \A j \in 1 .. Len(order) : order[j] \in Items
    BY Basics DEF IInv, TypeOK
  <1>2. \A t \in Workers : pc[t] = "done" /\ ~Unfinished(t) /\ ~Busy(t)
    <2>1. \A t \in Workers : t < joined
      BY <1>1 DEF Workers
    <2> QED
      BY <2>1 DEF IInv, Joined, Progress, Busy
  <1>3. \A x, y : ~Linking(x, y)
    BY <1>2 DEF Linking
  <1>4. ASSUME NEW x \in Items
        PROVE  InOrder(x) /\ x \in value
    <2>1. PICK t \in Workers : First(t) <= x /\ x < First(t + 1)
      BY <1>1, Blocks
    <2>2. item[t] \in Nat /\ x \in Nat /\ First(t + 1) \in Nat
      BY <1>1, Blocks DEF TypeOK
    <2>3. ~(item[t] < First(t + 1))
      BY <1>2 DEF Unfinished, First
    <2>4. x < item[t]
      BY <2>1, <2>2, <2>3
    <2>5. x \in Pushed(t)
      BY <2>1, <2>4 DEF Pushed
    <2>6. x # item[t]
      BY <2>2, <2>4
    <2> QED
      BY <2>5, <2>6 DEF IInv, OrderIsPushed, ValuesStored
  <1>5. Len(order) = n * k
    BY <1>1, <1>4, OrderBound
  <1>6. ASSUME mpc # "exit", program = "main.c"
        PROVE  /\ size = Len(order)
               /\ head = IF order = <<>> THEN NULL ELSE order[1]
               /\ \A j \in 1 .. Len(order) :
                     next[order[j]] = IF j = Len(order) THEN NULL ELSE order[j + 1]
    <2>1. (\A j \in 1 .. Len(order) : Linked(j)) /\ EndIs
      BY <1>6 DEF IInv, Chained, Linked, EndIs, Last
    <2>2. size = Len(order)
      <3>1. Cardinality({u \in Workers : Busy(u)}) = 0
        <4>1. {u \in Workers : Busy(u)} = {}
          BY <1>2
        <4> QED
          BY <4>1, FS_EmptySet
      <3>2. size + Cardinality({u \in Workers : Busy(u)}) = Len(order)
        BY <1>6 DEF IInv, Counted
      <3>3. size \in Nat
        BY <1>1, Blocks DEF TypeOK
      <3> QED
        BY <3>1, <3>2, <3>3
    <2>3. head = IF order = <<>> THEN NULL ELSE order[1]
      <3>1. CASE order = <<>>
        BY <1>6, <3>1 DEF IInv, NotYetPushed
      <3>2. CASE order # <<>>
        <4>1. 1 \in 1 .. Len(order)
          BY <1>1, <3>2, EmptySeq DEF TypeOK
        <4> QED
          BY <1>3, <1>6, <2>1, <3>2, <4>1 DEF Linked
      <3> QED
        BY <3>1, <3>2
    <2>4. ASSUME NEW j \in 1 .. Len(order)
          PROVE  next[order[j]] = IF j = Len(order) THEN NULL ELSE order[j + 1]
      <3>1. order # <<>>
        BY <1>1
      <3>2. CASE j = Len(order)
        BY <1>6, <2>1, <3>1, <3>2 DEF EndIs
      <3>3. CASE j # Len(order)
        <4>1. j + 1 \in 1 .. Len(order) /\ j + 1 # 1 /\ j + 1 - 1 = j
          BY <1>1, <3>3
        <4>2. Linked(j + 1) /\ Before(j + 1) = order[j]
          BY <2>1, <4>1 DEF Before
        <4> QED
          BY <1>3, <1>6, <3>3, <4>1, <4>2 DEF Linked
      <3> QED
        BY <3>2, <3>3
    <2> QED
      BY <2>2, <2>3, <2>4
  <1>7. ASSUME mpc # "exit", program = "file.c"
        PROVE  /\ head = Before(Len(order) + 1)
               /\ \A j \in 1 .. Len(order) : next[order[j]] = Before(j)
    BY <1>3, <1>7 DEF IInv, Chained
  <1> QED
    BY <1>4, <1>5, <1>6, <1>7

LEMMA CreateStep ==
    ASSUME IInv, main_create
    PROVE  IInv'
  <1>0. /\ mpc = "create"
        /\ UNCHANGED <<program, n, k, head, tail, next, value, size, item, prev, joined, cur, printed,
                       out, freed, order>>
    BY DEF main_create, list
  <1>1. n \in Nat /\ created \in 0 .. n /\ joined \in 0 .. n /\ Workers \subseteq Nat
    BY Basics DEF IInv, TypeOK
  <1>2. \/ /\ created < n /\ created \in Workers /\ pc[created] = "unborn"
           /\ pc' = [pc EXCEPT ![created] = "loop"] \/ pc' = pc
           /\ created' = created + 1 /\ mpc' = mpc
        \/ pc' = pc /\ created' = created /\ created = n /\ mpc' = "join"
    <2>1. CASE created < n
      <3>1. created \in Workers /\ created >= created
        BY <1>1, <2>1 DEF Workers
      <3> QED
        BY <2>1, <3>1 DEF main_create, MoreToCreate, IInv, Joined
    <2>2. CASE ~(created < n)
      BY <1>1, <2>2 DEF main_create, MoreToCreate
    <2> QED
      BY <2>1, <2>2
  <1>3. /\ Workers' = Workers /\ Items' = Items
        /\ pc' \in [Workers -> {"unborn", "loop", "link", "count", "done"}]
        /\ {u \in Workers : Busy(u)}' = {u \in Workers : Busy(u)}
        /\ \A x : InOrder(x)' <=> InOrder(x)
        /\ \A x, y : Linking(x, y) => Linking(x, y)'
        /\ Progress' /\ OrderIsPushed' /\ ValuesStored'
    BY <1>0, <1>2, MainKeeps
  <1>4. Chained'
    BY <1>0, <1>3, ChainKept
  <1>5. TypeOK'
    <2>1. created' \in 0 .. n /\ mpc' \in {"create", "join"}
      BY <1>0, <1>1, <1>2
    <2> QED
      BY <1>0, <1>3, <2>1 DEF IInv, TypeOK
  <1>6. NotYetPushed'
    BY <1>0, <1>3 DEF IInv, NotYetPushed
  <1>7. Counted'
    BY <1>0, <1>2, <1>3 DEF IInv, Counted
  <1>8. Joined'
    <2>1. \A t \in Workers : t >= created' => pc'[t] = "unborn"
      <3> SUFFICES ASSUME NEW t \in Workers PROVE t >= created' => pc'[t] = "unborn"
        OBVIOUS
      <3>1. t >= created => pc[t] = "unborn"
        BY DEF IInv, Joined
      <3>2. t \in Nat
        BY <1>1
      <3>3. CASE t = created
        BY <1>1, <1>2, <3>1, <3>2, <3>3 DEF IInv, TypeOK, Workers
      <3>4. CASE t # created
        <4>1. pc'[t] = pc[t]
          BY <1>2, <3>4 DEF IInv, TypeOK
        <4> QED
          BY <1>1, <1>2, <3>1, <3>2, <3>4, <4>1
      <3> QED
        BY <3>3, <3>4
    <2>2. \A t \in Workers : t < joined => pc'[t] = "done"
      <3> SUFFICES ASSUME NEW t \in Workers, t < joined PROVE pc'[t] = "done"
        OBVIOUS
      <3>1. pc[t] = "done"
        BY DEF IInv, Joined
      <3> QED
        BY <1>2, <3>1 DEF IInv, TypeOK
    <2> QED
      BY <1>0, <1>2, <1>3, <2>1, <2>2 DEF IInv, Joined
  <1>9. Walk' /\ CrashOnlyOnEmptyList'
    BY <1>0, <1>2 DEF IInv, Walk, CrashOnlyOnEmptyList
  <1> QED
    BY <1>3, <1>4, <1>5, <1>6, <1>7, <1>8, <1>9 DEF IInv

LEMMA JoinStep ==
    ASSUME IInv, main_join
    PROVE  IInv'
  <1>0. /\ mpc = "join"
        /\ UNCHANGED <<program, n, k, head, tail, next, value, size, pc, item, prev, created, printed,
                       out, freed, order>>
    BY DEF main_join, list, worker_vars
  <1>1. n \in Nat /\ joined \in 0 .. n /\ Len(order) \in Nat /\ printed = 0 /\ freed = {}
    BY <1>0, Basics DEF IInv, TypeOK, Walk
  <1>2. /\ Workers' = Workers /\ Items' = Items
        /\ {u \in Workers : Busy(u)}' = {u \in Workers : Busy(u)}
        /\ \A x : InOrder(x)' <=> InOrder(x)
        /\ \A j : Before(j)' = Before(j)
        /\ \A x, y : Linking(x, y) => Linking(x, y)'
        /\ Progress' /\ OrderIsPushed' /\ ValuesStored'
    BY <1>0, MainKeeps
  <1>3. Chained'
    BY <1>0, <1>2, ChainKept
  <1>4. NotYetPushed'
    BY <1>0, <1>2 DEF IInv, NotYetPushed
  <1>5. \/ joined < n /\ pc[joined] = "done" /\ joined' = joined + 1 /\ UNCHANGED <<mpc, cur>>
        \/ joined = n /\ joined' = joined /\ mpc' = "print" /\ cur' = head
    BY <1>1 DEF main_join, MoreToJoin
  <1>6. Counted'
    BY <1>0, <1>2, <1>5 DEF IInv, Counted
  <1>7. TypeOK'
    <2>1. joined' \in 0 .. n /\ mpc' \in {"join", "print"} /\ cur' \in Items \cup {NULL, Garbage}
      BY <1>0, <1>1, <1>5 DEF IInv, TypeOK
    <2> QED
      BY <1>0, <1>2, <2>1 DEF IInv, TypeOK
  <1>8. Joined'
    <2>1. \A t \in Workers : t \in Nat
      BY Basics DEF IInv
    <2> QED
      BY <1>0, <1>1, <1>2, <1>5, <2>1 DEF IInv, Joined
  <1>9. Walk'
    <2>1. CASE UNCHANGED <<mpc, cur>>
      BY <1>0, <2>1 DEF IInv, Walk
    <2>2. CASE joined = n /\ mpc' = "print" /\ cur' = head
      <3>1. CASE program = "main.c"
        <4>1. head = IF order = <<>> THEN NULL ELSE order[1]
          BY <1>0, <2>2, <3>1, Complete
        <4>2. order = <<>> <=> Len(order) = 0
          BY EmptySeq DEF IInv, TypeOK
        <4> QED
          BY <1>0, <1>1, <2>2, <3>1, <4>1, <4>2 DEF IInv, Walk
      <3>2. CASE program = "file.c"
        <4>1. head = Before(Len(order) + 1)
          BY <1>0, <2>2, <3>2, Complete
        <4>2. order = <<>> \/ 0 < Len(order)
          BY <1>1, EmptySeq DEF IInv, TypeOK
        <4>3. /\ (order' = <<>> \/ printed' < Len(order')) /\ Len(order) + 1 - 0 = Len(order) + 1
              /\ cur' = Before(Len(order) + 1)'
          BY <1>0, <1>1, <1>2, <2>2, <4>1, <4>2
        <4>4. cur' = Before(Len(order) + 1 - printed)'
          BY <1>0, <1>1, <4>3
        <4> QED
          BY <1>0, <1>1, <2>2, <3>2, <4>3, <4>4 DEF IInv, Walk
      <3> QED
        BY <3>1, <3>2 DEF IInv, TypeOK
    <2> QED
      BY <1>5, <2>1, <2>2
  <1>10. CrashOnlyOnEmptyList'
    BY <1>0, <1>5 DEF CrashOnlyOnEmptyList
  <1> QED
    BY <1>2, <1>3, <1>4, <1>6, <1>7, <1>8, <1>9, <1>10 DEF IInv

\* What a step of the walk leaves alone.
LEMMA WalkKeeps ==
    ASSUME IInv, mpc \in {"print", "destroy"},
           UNCHANGED <<program, n, k, next, value, pc, item, prev, created, joined, order>>,
           mpc' # "exit" => UNCHANGED <<head, tail, size>>,
           mpc' = "exit" /\ program = "main.c" => head' = NULL,
           mpc' \in {"print", "destroy", "exit", "crash"}
    PROVE  /\ Workers' = Workers /\ Items' = Items /\ \A j : Before(j)' = Before(j)
           /\ Progress' /\ OrderIsPushed' /\ ValuesStored' /\ NotYetPushed' /\ Counted' /\ Joined' /\ Chained'
  <1>1. /\ Workers' = Workers /\ Items' = Items
        /\ {u \in Workers : Busy(u)}' = {u \in Workers : Busy(u)}
        /\ \A x : InOrder(x)' <=> InOrder(x)
        /\ \A j : Before(j)' = Before(j)
        /\ \A x, y : Linking(x, y) => Linking(x, y)'
        /\ Progress' /\ OrderIsPushed' /\ ValuesStored'
    BY MainKeeps
  <1>2. Counted'
    BY <1>1 DEF IInv, Counted
  <1>3. NotYetPushed'
    BY <1>1 DEF IInv, NotYetPushed
  <1>4. Joined'
    BY <1>1 DEF IInv, Joined
  <1>5. Chained'
    <2>1. CASE mpc' # "exit"
      BY <1>1, <2>1, ChainKept
    <2>2. CASE mpc' = "exit"
      BY <2>2 DEF Chained
    <2> QED
      BY <2>1, <2>2
  <1> QED
    BY <1>1, <1>2, <1>3, <1>4, <1>5

LEMMA PrintStep ==
    ASSUME IInv, main_print
    PROVE  IInv'
  <1>0. /\ mpc = "print" /\ joined = n /\ freed = {}
        /\ UNCHANGED <<program, n, k, head, tail, next, value, size, pc, item, prev, created, joined,
                       freed, order>>
    BY DEF main_print, list, worker_vars, IInv, Joined, Walk
  <1>1. /\ program \in {"main.c", "file.c"} /\ TypeOK /\ n \in Nat /\ k \in Nat /\ n * k \in Nat
        /\ Len(order) \in Nat /\ \A j \in 1 .. Len(order) : order[j] \in Items
        /\ NULL \notin Items /\ order \in Seq(Items) /\ out \in Seq(Items)
        /\ order = <<>> <=> Len(order) = 0
    BY Basics, Blocks, EmptySeq DEF IInv, TypeOK
  <1>2. /\ Len(order) = n * k
        /\ program = "main.c" =>
                /\ size = Len(order)
                /\ head = IF order = <<>> THEN NULL ELSE order[1]
                /\ \A j \in 1 .. Len(order) :
                     next[order[j]] = IF j = Len(order) THEN NULL ELSE order[j + 1]
        /\ program = "file.c" => \A j \in 1 .. Len(order) : next[order[j]] = Before(j)
    BY <1>0, Complete
  <1>3. /\ Len(out) = printed /\ printed \in Nat /\ printed <= Len(order)
        /\ \A j \in 1 .. printed : out[j] = order[IF program = "main.c" THEN j ELSE Len(order) + 1 - j]
        /\ program = "main.c" => cur = IF printed = Len(order) THEN NULL ELSE order[printed + 1]
        /\ program = "file.c" =>
              (order = <<>> \/ printed < Len(order)) /\ cur = Before(Len(order) + 1 - printed)
    BY <1>0, <1>1 DEF IInv, Walk, TypeOK
  <1>4. CASE program = "main.c" /\ printed = size
    <2>1. mpc' = "destroy" /\ cur' = head /\ UNCHANGED <<printed, out>>
      BY <1>4 DEF main_print
    <2>2. /\ Workers' = Workers /\ Items' = Items
          /\ Progress' /\ OrderIsPushed' /\ ValuesStored' /\ NotYetPushed' /\ Counted' /\ Joined' /\ Chained'
      BY <1>0, <2>1, WalkKeeps
    <2>3. TypeOK'
      BY <1>0, <1>1, <2>1, <2>2 DEF TypeOK
    <2>4. Walk'
      <3>1. \E f \in 0 .. Len(order) : /\ cur' = IF f = Len(order) THEN NULL ELSE order[f + 1]
                                       /\ freed = {order[j] : j \in 1 .. f}
        <4>1. 0 \in 0 .. Len(order) /\ cur' = IF 0 = Len(order) THEN NULL ELSE order[0 + 1]
          BY <1>1, <1>2, <1>4, <2>1
        <4>2. freed = {order[j] : j \in 1 .. 0}
          BY <1>0
        <4> QED
          BY <4>1, <4>2
      <3> QED
        BY <1>0, <1>2, <1>3, <1>4, <2>1, <3>1 DEF Walk
    <2> QED
      BY <2>1, <2>2, <2>3, <2>4 DEF IInv, CrashOnlyOnEmptyList
  <1>5. CASE ~(program = "main.c" /\ printed = size) /\ cur \notin Items
    <2>1. mpc' = "crash" /\ UNCHANGED <<cur, printed, out>>
      BY <1>5 DEF main_print
    <2>2. program = "file.c" /\ order = <<>>
      <3>1. program = "main.c" => cur \in Items
        <4>1. program = "main.c" => printed + 1 \in 1 .. Len(order) /\ cur = order[printed + 1]
          BY <1>1, <1>2, <1>3, <1>5
        <4> QED
          BY <1>1, <4>1
      <3>2. program = "file.c" /\ order # <<>> => cur \in Items
        <4>1. program = "file.c" /\ order # <<>> =>
                 /\ Len(order) + 1 - printed \in 1 .. Len(order) + 1 /\ Len(order) + 1 - printed # 1
                 /\ cur = Before(Len(order) + 1 - printed)
          BY <1>1, <1>3
        <4> QED
          BY <1>1, <4>1, BeforeIs
      <3> QED
        BY <1>1, <1>5, <3>1, <3>2
    <2>3. /\ Workers' = Workers /\ Items' = Items
          /\ Progress' /\ OrderIsPushed' /\ ValuesStored' /\ NotYetPushed' /\ Counted' /\ Joined' /\ Chained'
      BY <1>0, <2>1, WalkKeeps
    <2>4. TypeOK'
      BY <1>0, <1>1, <2>1, <2>3 DEF TypeOK
    <2>5. Walk'
      BY <1>0, <1>3, <2>1 DEF Walk
    <2>6. CrashOnlyOnEmptyList'
      BY <1>0, <1>1, <1>2, <2>2 DEF CrashOnlyOnEmptyList
    <2> QED
      BY <2>3, <2>4, <2>5, <2>6 DEF IInv
  <1>6. CASE ~(program = "main.c" /\ printed = size) /\ cur \in Items
    <2>1. /\ out' = Append(out, cur) /\ printed' = printed + 1 /\ cur' = next[cur]
          /\ mpc' = IF program = "file.c" /\ next[cur] = NULL THEN "exit" ELSE "print"
      BY <1>0, <1>6 DEF main_print
    <2>2. /\ printed < Len(order)
          /\ program = "file.c" => /\ Len(order) - printed \in 1 .. Len(order)
                                   /\ cur = order[Len(order) - printed]
      <3>1. CASE program = "main.c"
        BY <1>1, <1>2, <1>3, <1>6, <3>1
      <3>2. CASE program = "file.c"
        <4>1. order # <<>>
          <5>1. order = <<>> => Len(order) + 1 - printed = 1
            BY <1>1, <1>3
          <5> QED
            BY <1>1, <1>3, <1>6, <3>2, <5>1 DEF Before
        <4>2. printed < Len(order) /\ Len(order) - printed \in 1 .. Len(order)
          BY <1>1, <1>3, <3>2, <4>1
        <4>3. Len(order) + 1 - printed # 1 /\ (Len(order) + 1 - printed) - 1 = Len(order) - printed
          BY <1>1, <1>3, <4>2
        <4>4. cur = order[Len(order) - printed]
          BY <1>3, <3>2, <4>3 DEF Before
        <4> QED
          BY <3>2, <4>2, <4>4
      <3> QED
        BY <1>1, <3>1, <3>2
    <2>3. /\ Workers' = Workers /\ Items' = Items /\ \A j : Before(j)' = Before(j)
          /\ Progress' /\ OrderIsPushed' /\ ValuesStored' /\ NotYetPushed' /\ Counted' /\ Joined' /\ Chained'
      BY <1>0, <2>1, WalkKeeps
    <2>4. /\ Append(out, cur) \in Seq(Items) /\ Len(out') = printed + 1 /\ out'[printed + 1] = cur
          /\ \A j \in 1 .. printed : out'[j] = out[j]
      BY <1>1, <1>3, <1>6, <2>1
    <2>5. printed + 1 \in 1 .. Len(order) /\ printed + 1 \in 0 .. n * k
      BY <1>1, <1>2, <1>3, <2>2
    <2>6. TypeOK'
      <3>1. next[cur] \in Items \cup {NULL, Garbage}
        BY <1>1, <1>6 DEF TypeOK
      <3> QED
        BY <1>0, <1>1, <2>1, <2>3, <2>4, <2>5, <3>1 DEF TypeOK
    <2>7. ASSUME NEW j \in 1 .. printed'
          PROVE  out'[j] = order[IF program = "main.c" THEN j ELSE Len(order) + 1 - j]
      <3>1. CASE j = printed + 1
        <4>1. CASE program = "main.c"
          BY <1>3, <2>2, <2>4, <3>1, <4>1
        <4>2. CASE program = "file.c"
          <5>1. Len(order) + 1 - j = Len(order) - printed
            BY <1>1, <1>3, <3>1
          <5> QED
            BY <2>2, <2>4, <3>1, <4>2, <5>1
        <4> QED
          BY <1>1, <4>1, <4>2
      <3>2. CASE j # printed + 1
        <4>1. j \in 1 .. printed
          BY <1>3, <2>1, <3>2
        <4> QED
          BY <1>3, <2>4, <4>1
      <3> QED
        BY <3>1, <3>2
    <2>8. CASE program = "main.c"
      <3>1. cur' = IF printed' = Len(order) THEN NULL ELSE order[printed' + 1]
        BY <1>2, <1>3, <2>1, <2>2, <2>5, <2>8
      <3> QED
        BY <1>0, <2>1, <2>4, <2>5, <2>7, <2>8, <3>1, <2>3, <2>6 DEF Walk, IInv, CrashOnlyOnEmptyList
    <2>9. CASE program = "file.c"
      <3>1. next[cur] = Before(Len(order) - printed)
        BY <1>2, <2>2, <2>9
      <3>2. next[cur] = NULL <=> Len(order) - printed = 1
        <4>1. Len(order) - printed \in 1 .. Len(order) + 1
          BY <1>1, <2>2, <2>9
        <4> QED
          BY <1>1, <3>1, <4>1, BeforeIs
      <3>3. Len(order) + 1 - printed' = Len(order) - printed
        BY <1>1, <1>3, <2>1
      <3>4. mpc' = "exit" => printed' = Len(order)
        BY <1>1, <1>3, <2>1, <2>9, <3>2
      <3>5. mpc' # "exit" => printed' < Len(order) /\ cur' = Before(Len(order) + 1 - printed)'
        <4>1. mpc' # "exit" => printed' < Len(order)
          BY <1>1, <1>3, <2>1, <2>2, <2>9, <3>2
        <4>2. \A j : j = Len(order) - printed => Before(j)' = cur'
          BY <2>1, <2>3, <3>1
        <4>3. (Len(order) + 1 - printed)' = Len(order) - printed
          BY <1>0, <3>3
        <4> QED
          BY <4>1, <4>2, <4>3
      <3>6. Walk'
        BY <1>0, <2>1, <2>4, <2>5, <2>7, <2>9, <3>4, <3>5 DEF Walk
      <3> QED
        BY <2>1, <2>3, <2>6, <3>6 DEF IInv, CrashOnlyOnEmptyList
    <2> QED
      BY <1>1, <2>8, <2>9
  <1> QED
    BY <1>4, <1>5, <1>6

LEMMA DestroyStep ==
    ASSUME IInv, list_destroy
    PROVE  IInv'
  <1>0. /\ mpc = "destroy" /\ program = "main.c" /\ joined = n /\ printed = Len(order)
        /\ UNCHANGED <<program, n, k, next, value, pc, item, prev, created, joined, printed, out, order>>
    BY DEF list_destroy, worker_vars, IInv, Joined, Walk
  <1>1. /\ TypeOK /\ n \in Nat /\ k \in Nat /\ Len(order) \in Nat /\ n * k \in Nat
        /\ \A j \in 1 .. Len(order) : order[j] \in Items
        /\ NULL \notin Items
    BY Basics, Blocks DEF IInv
  <1>2. /\ \A x \in Items : InOrder(x)
        /\ \A j \in 1 .. Len(order) :
             next[order[j]] = IF j = Len(order) THEN NULL ELSE order[j + 1]
    BY <1>0, Complete
  <1>3. PICK f \in 0 .. Len(order) : /\ cur = IF f = Len(order) THEN NULL ELSE order[f + 1]
                                     /\ freed = {order[j] : j \in 1 .. f}
    BY <1>0 DEF IInv, Walk
  <1>4. CASE cur = NULL
    <2>1. mpc' = "exit" /\ head' = NULL /\ tail' = NULL /\ size' = 0 /\ UNCHANGED <<cur, freed>>
      BY <1>4 DEF list_destroy
    <2>2. f = Len(order)
      <3>1. f # Len(order) => f + 1 \in 1 .. Len(order)
        BY <1>1
      <3> QED
        BY <1>1, <1>3, <1>4, <3>1
    <2>3. freed = Items
      <3>1. \A x \in Items : \E j \in 1 .. f : order[j] = x
        BY <1>2, <2>2 DEF InOrder
      <3>2. \A j \in 1 .. f : order[j] \in Items
        BY <1>1, <2>2
      <3> QED
        BY <1>3, <3>1, <3>2
    <2>4. /\ Workers' = Workers /\ Items' = Items
          /\ Progress' /\ OrderIsPushed' /\ ValuesStored' /\ NotYetPushed' /\ Counted' /\ Joined' /\ Chained'
      BY <1>0, <2>1, WalkKeeps
    <2>5. TypeOK'
      <3>1. 0 \in 0 .. n * k
        BY <1>1
      <3> QED
        BY <1>0, <1>1, <2>1, <2>4, <3>1 DEF TypeOK
    <2>6. Walk'
      BY <1>0, <2>1, <2>3, <2>4 DEF IInv, Walk
    <2> QED
      BY <2>1, <2>4, <2>5, <2>6 DEF IInv, CrashOnlyOnEmptyList
  <1>5. CASE cur # NULL
    <2>1. f + 1 \in 1 .. Len(order) /\ f \in Nat /\ cur = order[f + 1]
      BY <1>1, <1>3, <1>5
    <2>2. cur \in Items /\ cur \notin freed
      <3>1. \A j \in 1 .. f : j \in 1 .. Len(order) /\ j # f + 1
        BY <1>1, <2>1
      <3>2. \A j \in 1 .. f : order[j] # order[f + 1]
        BY <2>1, <3>1, Distinct DEF IInv
      <3> QED
        BY <1>1, <1>3, <2>1, <3>2
    <2>3. freed' = freed \cup {cur} /\ cur' = next[cur] /\ UNCHANGED <<mpc, head, tail, size>>
      BY <1>5, <2>2 DEF list_destroy
    <2>4. /\ Workers' = Workers /\ Items' = Items
          /\ Progress' /\ OrderIsPushed' /\ ValuesStored' /\ NotYetPushed' /\ Counted' /\ Joined' /\ Chained'
      BY <1>0, <2>3, WalkKeeps
    <2>5. TypeOK'
      <3>1. next[cur] \in Items \cup {NULL, Garbage}
        BY <1>1, <2>2 DEF TypeOK
      <3>2. cur' \in Items \cup {NULL, Garbage} /\ freed' \subseteq Items
        BY <1>1, <2>2, <2>3, <3>1 DEF TypeOK
      <3> QED
        BY <1>0, <1>1, <2>3, <2>4, <3>2 DEF TypeOK
    <2>6. /\ f + 1 \in 0 .. Len(order)
          /\ cur' = IF f + 1 = Len(order) THEN NULL ELSE order[(f + 1) + 1]
          /\ freed' = {order[j] : j \in 1 .. f + 1}
      <3>1. freed' = {order[j] : j \in 1 .. f} \cup {order[f + 1]}
        BY <1>3, <2>1, <2>3
      <3>2. 1 .. f + 1 = (1 .. f) \cup {f + 1}
        BY <2>1
      <3>3. {order[j] : j \in (1 .. f) \cup {f + 1}} = {order[j] : j \in 1 .. f} \cup {order[f + 1]}
        OBVIOUS
      <3> QED
        BY <1>1, <1>2, <2>1, <2>3, <3>1, <3>2, <3>3
    <2>7. Walk'
      <3>1. \E g \in 0 .. Len(order') : /\ cur' = IF g = Len(order') THEN NULL ELSE order'[g + 1]
                                        /\ freed' = {order'[j] : j \in 1 .. g}
        BY <1>0, <2>6
      <3>2. mpc' = "destroy" /\ program' = "main.c" /\ printed' = Len(order')
        BY <1>0, <2>3
      <3>3. /\ Len(out') = printed'
            /\ \A j \in 1 .. printed' : out'[j] = order'[IF program' = "main.c" THEN j ELSE Len(order') + 1 - j]
        BY <1>0 DEF IInv, Walk
      <3> QED
        BY <1>1, <3>1, <3>2, <3>3 DEF Walk
    <2> QED
      BY <1>0, <2>3, <2>4, <2>5, <2>7 DEF IInv, CrashOnlyOnEmptyList
  <1> QED
    BY <1>4, <1>5

-----------------------------------------------------------------------------
(* The results                                                              *)

LEMMA NextIInv == IInv /\ [Next]_vars => IInv'
  <1> SUFFICES ASSUME IInv, [Next]_vars PROVE IInv'
    OBVIOUS
  <1>1. ASSUME NEW t \in Workers, worker(t) PROVE IInv'
    BY <1>1, ExchangeStep, LinkStep, CountStep, ReturnStep DEF worker
  <1>2. CASE main
    BY <1>2, CreateStep, JoinStep, PrintStep, DestroyStep DEF main
  <1>3. CASE UNCHANGED vars
    <2>1. UNCHANGED <<program, n, k, head, tail, next, value, size, pc, item, prev, mpc, created, joined,
                      cur, printed, out, freed, order>>
      BY <1>3 DEF vars, list, worker_vars, main_vars
    <2>2. /\ Workers' = Workers /\ Items' = Items
          /\ {u \in Workers : Busy(u)}' = {u \in Workers : Busy(u)}
          /\ \A x : InOrder(x)' <=> InOrder(x)
          /\ \A j : Before(j)' = Before(j)
          /\ \A x, y : Linking(x, y) => Linking(x, y)'
          /\ Progress' /\ OrderIsPushed' /\ ValuesStored'
      BY <2>1, MainKeeps
    <2>3. TypeOK' /\ Counted' /\ NotYetPushed' /\ Joined'
      BY <2>1, <2>2 DEF IInv, TypeOK, Counted, NotYetPushed, Joined
    <2>4. Walk' /\ CrashOnlyOnEmptyList'
      BY <2>1, <2>2 DEF IInv, Walk, CrashOnlyOnEmptyList
    <2>5. Chained'
      <3>1. CASE mpc' # "exit"
        BY <2>1, <2>2, <3>1, ChainKept
      <3>2. CASE mpc' = "exit"
        BY <3>2 DEF Chained
      <3> QED
        BY <3>1, <3>2
    <2> QED
      BY <2>2, <2>3, <2>4, <2>5 DEF IInv
  <1> QED
    BY <1>1, <1>2, <1>3 DEF Next, ended, join_undefined

LEMMA IInvImpliesPrints == IInv => PrintsEveryPush
  <1> SUFFICES ASSUME IInv, mpc = "exit" PROVE PrintsEveryPush
    BY DEF PrintsEveryPush
  <1>1. /\ program \in {"main.c", "file.c"} /\ order \in Seq(Items) /\ out \in Seq(Items)
        /\ Len(order) \in Nat /\ value \subseteq Items
    BY Basics DEF IInv, TypeOK
  <1>2. /\ printed = Len(order) /\ Len(out) = Len(order) /\ joined = n
        /\ \A j \in 1 .. Len(order) : out[j] = order[IF program = "main.c" THEN j ELSE Len(order) + 1 - j]
        /\ program = "main.c" => freed = Items
    BY DEF IInv, Walk, Joined
  <1>3. Len(order) = n * k /\ value = Items
    BY <1>1, <1>2, Complete
  <1>4. program = "main.c" => out = order
    BY <1>1, <1>2, SeqEqual
  <1>5. program # "main.c" => out = Reverse(order)
    <2>1. out = [j \in 1 .. Len(out) |-> out[j]]
      BY <1>1, SeqDef
    <2>2. \A j \in 1 .. Len(order) : (Len(order) - j) + 1 = Len(order) + 1 - j
      BY <1>1
    <2> QED
      BY <1>2, <2>1, <2>2 DEF Reverse
  <1> QED
    BY <1>1, <1>2, <1>3, <1>4, <1>5 DEF PrintsEveryPush, IInv, OrderIsPushed

\* What the workers have pushed is in the order of the exchanges, the counter
\* of list_push lags behind by the pushes under way, and the main thread walks
\* over a complete list.
THEOREM Inductive == Spec => []IInv
  BY InitIInv, NextIInv, PTL DEF Spec

\* Between atomic_exchange and the store of the link the list of list_push and
\* add_item is open at that one place, and the worker that stands there owes
\* the link, however many workers push.
THEOREM ListIsChained == Spec => []Chained
  <1>1. IInv => Chained
    BY DEF IInv
  <1> QED
    BY <1>1, Inductive, PTL

\* The main thread of either program prints each of the n * k values once, in
\* the order of the exchanges (file.c: reversed), and list_destroy of main.c
\* frees each item.
THEOREM EveryPushIsPrinted == Spec => []PrintsEveryPush
  BY Inductive, IInvImpliesPrints, PTL

\* The walks of main, print_list and list_destroy follow no unwritten or freed
\* pointer: the only crash is that of file.c on an empty list.
THEOREM CrashesOnEmptyListOnly == Spec => []CrashOnlyOnEmptyList
  <1>1. IInv => CrashOnlyOnEmptyList
    BY DEF IInv
  <1> QED
    BY <1>1, Inductive, PTL

\* Pointers stay among the items, the counters within the n * k pushes.
THEOREM TypesAreCorrect == Spec => []TypeOK
  <1>1. IInv => TypeOK
    BY DEF IInv
  <1> QED
    BY <1>1, Inductive, PTL
=============================================================================
