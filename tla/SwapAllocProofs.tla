--------------------------- MODULE SwapAllocProofs ---------------------------
(***************************************************************************)
(* The heap of the swap-file allocator is never corrupted, for every file, *)
(* page and word size, every set of requests and whatever the client       *)
(* stores: TypeOK /\ HeapIntact is inductive.                              *)
(***************************************************************************)
EXTENDS SwapAlloc, TLAPS

Inv == TypeOK /\ HeapIntact

\* The parts of HeapIntact for one set of headers.
HInv(H) == Headers(H) /\ ScanPosition(H) /\ FreePosition(H)

-----------------------------------------------------------------------------
(* Facts about one state *)

LEMMA HeadersGiveInv ==
    ASSUME NEW H, HInv(H), TypeOK, pc # "segv", pc = "unmapped" => f_size = 0,
           pc \in {"idle", "scan", "coalesce"} => f_size > 0
    PROVE  Inv
  BY DEF Inv, HInv, HeapIntact, Headers

\* No word of a free block belongs to a block the client holds.
LEMMA FreeBlockUnused ==
    ASSUME TypeOK, NEW H, Headers(H), NEW h \in H, mem[h] < 0,
           NEW c \in h .. (h - mem[h] - 1)
    PROVE  ~Used(c)
  <1> SUFFICES ASSUME NEW p \in DOMAIN live, p - 1 <= c, c <= p - 1 + live[p]
               PROVE  FALSE
    BY DEF Used
  <1>1. p - 1 \in H /\ mem[p - 1] = live[p] + 1 /\ p \in Nat /\ live[p] \in Nat
    BY DEF Headers, TypeOK
  <1>2. h \in 0 .. (f_size - 1) /\ mem[h] \in Int
    BY DEF Headers, TypeOK
  <1>3. CASE h = p - 1
    BY <1>1, <1>3
  <1>4. CASE h < p - 1
    BY <1>1, <1>2, <1>4 DEF Headers, Abs
  <1>5. CASE h > p - 1
    BY <1>1, <1>2, <1>5 DEF Headers, Abs
  <1> QED
    BY <1>1, <1>2, <1>3, <1>4, <1>5

\* Two held blocks share no word with the header of another.
LEMMA HeaderOfAnother ==
    ASSUME TypeOK, NEW H, Headers(H), NEW p \in DOMAIN live,
           NEW q \in DOMAIN live, p # q
    PROVE  ~(q - 1 <= p - 1 /\ p - 1 <= q - 1 + live[q])
  <1>1. p - 1 \in H /\ q - 1 \in H /\ mem[q - 1] = live[q] + 1
    BY DEF Headers
  <1>2. p \in Nat /\ q \in Nat /\ live[q] \in Nat
    BY DEF TypeOK
  <1> QED
    BY <1>1, <1>2 DEF Headers, Abs

-----------------------------------------------------------------------------
(* One lemma per action *)

LEMMA InitInv == Init => Inv
  <1> SUFFICES ASSUME Init PROVE Inv
    OBVIOUS
  <1>1. TypeOK
    BY DEF Init, TypeOK, NoLocals, NoBlocks
  <1>2. HInv({})
    BY DEF Init, HInv, Headers, ScanPosition, FreePosition, NoBlocks
  <1> QED
    BY <1>1, <1>2, HeadersGiveInv DEF Init

LEMMA StutterInv == Inv /\ UNCHANGED vars => Inv'
  <1> SUFFICES ASSUME Inv, UNCHANGED vars PROVE Inv'
    OBVIOUS
  <1>1. TypeOK'
    BY DEF Inv, TypeOK, vars
  <1>2. PICK H \in SUBSET (0 .. (f_size - 1)) : HInv(H)
    BY DEF Inv, HeapIntact, HInv
  <1>3. Headers(H)' /\ ScanPosition(H)' /\ FreePosition(H)'
    <2>1. \A c : Used(c)' <=> Used(c)
      BY DEF Used, vars
    <2> QED
      BY <1>2, <2>1 DEF HInv, Headers, ScanPosition, FreePosition, vars
  <1> QED
    BY <1>1, <1>2, <1>3 DEF Inv, HeapIntact, vars

LEMMA InitializeInv == Inv /\ myalloc_initialize => Inv'
  <1> SUFFICES ASSUME Inv, myalloc_initialize PROVE Inv'
    OBVIOUS
  <1>1. PICK H \in SUBSET (0 .. (f_size - 1)) : HInv(H)
    BY DEF Inv, HeapIntact, HInv
  <1>2. PICK bytes \in FileBytes :
         LET words == bytes \div WordBytes IN
         \/ /\ pc' = "exit"
            /\ UNCHANGED <<f_size, mem>>
         \/ /\ words > 0
            /\ words * WordBytes > RoundUpToPage(words)
            /\ pc' = "fault"
            /\ UNCHANGED <<f_size, mem>>
         \/ /\ words > 0
            /\ words * WordBytes <= RoundUpToPage(words)
            /\ pc' = "idle"
            /\ f_size' = words
            /\ mem' = [c \in 0 .. (words - 1) |-> IF c = 0 THEN -words ELSE 0]
    BY DEF myalloc_initialize
  <1> DEFINE words == bytes \div WordBytes
  <1>3. words \in Int
    BY SizesAssumption
  <1> HIDE DEF words
  <1>4. CASE pc' \in {"exit", "fault"} /\ UNCHANGED <<f_size, mem>>
    BY <1>1, <1>4 DEF Inv, TypeOK, HeapIntact, HInv, Headers, ScanPosition, FreePosition, Used,
       myalloc_initialize, locals
  <1>5. CASE /\ words > 0 /\ pc' = "idle" /\ f_size' = words
             /\ mem' = [c \in 0 .. (words - 1) |-> IF c = 0 THEN -words ELSE 0]
    <2>1. DOMAIN live = {}
      <3>1. H = {}
        BY <1>1 DEF Inv, HeapIntact, myalloc_initialize
      <3> QED
        BY <1>1, <3>1 DEF HInv, Headers
    <2>2. TypeOK'
      BY <1>3, <1>5, <2>1 DEF Inv, TypeOK, myalloc_initialize, locals
    <2>3. HInv({0})'
      BY <1>3, <1>5, <2>1 DEF HInv, Headers, ScanPosition, FreePosition, Abs,
         myalloc_initialize, locals
    <2> QED
      BY <1>5, <2>2, <2>3 DEF Inv, HInv, HeapIntact, Headers
  <1> QED
    BY <1>2, <1>4, <1>5 DEF words

LEMMA FinalizeInv == Inv /\ myalloc_finalize => Inv'
  <1> SUFFICES ASSUME Inv, myalloc_finalize PROVE Inv'
    OBVIOUS
  <1>1. CASE pc = "idle"
    <2>1. TypeOK'
      BY <1>1 DEF Inv, TypeOK, myalloc_finalize, locals, NoBlocks
    <2>2. HInv({})'
      BY <1>1 DEF HInv, Headers, ScanPosition, FreePosition, NoBlocks, myalloc_finalize
    <2> QED
      BY <1>1, <2>1, <2>2 DEF Inv, HInv, HeapIntact, Headers, myalloc_finalize
  <1>2. CASE pc = "unmapped"
    BY <1>2 DEF Inv, TypeOK, HeapIntact, Headers, ScanPosition, FreePosition, Used,
       myalloc_finalize, locals
  <1> QED
    BY <1>1, <1>2 DEF myalloc_finalize

LEMMA MallocInv == Inv /\ my_malloc => Inv'
  <1> SUFFICES ASSUME Inv, my_malloc, ~UNCHANGED vars PROVE Inv'
    BY StutterInv
  <1>1. PICK H \in SUBSET (0 .. (f_size - 1)) : HInv(H)
    BY DEF Inv, HeapIntact, HInv
  <1>2. PICK bytes \in Requests \ {0} : size' = align_bytes(bytes) + 1
    BY DEF my_malloc
  <1>3. size' \in Nat /\ size' > 1
    BY <1>2, SizesAssumption DEF align_bytes
  <1>4. /\ pc = "idle" /\ pc' = "scan" /\ i' = 0 /\ max_gap' = 0
        /\ UNCHANGED <<f_size, mem, live, stale, aligned_ptr, empty_space>>
    BY DEF my_malloc
  <1>5. TypeOK'
    BY <1>3, <1>4 DEF Inv, TypeOK
  <1>6. Headers(H)' /\ FreePosition(H)'
    BY <1>1, <1>4 DEF HInv, Headers, FreePosition
  <1>7. ScanPosition(H)'
    BY <1>1, <1>3, <1>4 DEF Inv, TypeOK, HInv, Headers, ScanPosition
  <1> QED
    BY <1>1, <1>4, <1>5, <1>6, <1>7 DEF Inv, HInv, HeapIntact, Headers

LEMMA ScanInv == Inv /\ find_first_empty_gap => Inv'
  <1> SUFFICES ASSUME Inv, find_first_empty_gap PROVE Inv'
    OBVIOUS
  <1>1. PICK H \in SUBSET (0 .. (f_size - 1)) : HInv(H)
    BY DEF Inv, HeapIntact, HInv
  <1>2. /\ pc = "scan" /\ i < f_size
        /\ UNCHANGED <<f_size, mem, live, stale, size, aligned_ptr, empty_space>>
    BY DEF find_first_empty_gap
  <1> DEFINE m == Abs(mem[i])
  <1>3. /\ i \in H /\ mem[i] \in Int /\ mem[i] # 0 /\ i \in Nat /\ max_gap \in Nat
        /\ size \in Nat /\ f_size \in Nat /\ i + m \in H \cup {f_size}
    BY <1>1, <1>2 DEF Inv, TypeOK, HInv, Headers, ScanPosition
  <1>4. m \in Nat /\ m > 0 /\ i' = i + m /\ pc' = "scan"
    BY <1>2, <1>3 DEF find_first_empty_gap, FreeLength, Abs
  <1>5. max_gap' \in Nat
    BY <1>3 DEF find_first_empty_gap, FreeLength
  <1>6. TypeOK'
    BY <1>2, <1>3, <1>4, <1>5 DEF Inv, TypeOK
  <1>7. Headers(H)' /\ FreePosition(H)'
    BY <1>1, <1>2, <1>4 DEF HInv, Headers, FreePosition
  <1>8. \A c : Used(c)' <=> Used(c)
    BY <1>2 DEF Used
  <1>9. ScanPosition(H)'
    <2>1. CASE mem[i] > 0
      <3>1. i + 1 \in DOMAIN live /\ live[i + 1] = mem[i] - 1 /\ m = mem[i]
        BY <1>1, <1>2, <1>3, <2>1 DEF HInv, Headers, Abs, Inv, TypeOK
      <3>2. \A c \in i .. (i + m - 1) : Used(c)
        BY <1>3, <1>4, <3>1 DEF Used
      <3>3. max_gap' = 0
        BY <2>1, <1>3 DEF find_first_empty_gap
      <3>4. ASSUME NEW s \in 0 .. (i + m - size)
            PROVE  \E c \in s .. (s + size - 1) : Used(c)
        <4>1. size > 1
          BY <1>1, <1>2 DEF HInv, ScanPosition
        <4>2. CASE s + size <= i
          <5>1. s \in 0 .. (i - size)
            BY <1>3, <1>4, <4>2
          <5> QED
            BY <5>1, <1>1, <1>2 DEF HInv, ScanPosition
        <4>3. CASE s + size > i
          BY <1>3, <1>4, <3>2, <4>1, <4>3
        <4> QED
          BY <4>2, <4>3, <1>3
      <3> QED
        BY <1>1, <1>2, <1>3, <1>4, <1>8, <3>2, <3>3, <3>4 DEF HInv, ScanPosition
    <2>2. CASE mem[i] < 0
      <3>1. m = -mem[i] /\ max_gap + m < size /\ max_gap' = max_gap + m
        BY <1>3, <2>2 DEF find_first_empty_gap, FreeLength, Abs
      <3>2. \A c \in i .. (i + m - 1) : ~Used(c)
        BY <1>1, <1>3, <2>2, <3>1, FreeBlockUnused DEF HInv, Inv
      <3>3. \A c \in (i - max_gap) .. (i + m - 1) : ~Used(c)
        BY <1>1, <1>2, <1>3, <1>4, <3>2 DEF HInv, ScanPosition
      <3>4. ASSUME NEW s \in 0 .. (i + m - size)
            PROVE  \E c \in s .. (s + size - 1) : Used(c)
        <4>1. CASE s + size <= i
          <5>1. s \in 0 .. (i - size)
            BY <1>3, <1>4, <4>1
          <5> QED
            BY <5>1, <1>1, <1>2 DEF HInv, ScanPosition
        <4>2. CASE s + size > i
          <5>1. i - max_gap > 0 /\ i - max_gap - 1 \in s .. (s + size - 1)
            BY <1>3, <1>4, <3>1, <4>2
          <5> QED
            BY <5>1, <1>1, <1>2 DEF HInv, ScanPosition
        <4> QED
          BY <4>1, <4>2, <1>3
      <3>5. i' - max_gap' = i - max_gap /\ i' - 1 = i + m - 1
        BY <1>3, <1>4, <3>1
      <3>6. /\ size > 1 /\ i - max_gap \in H \cup {f_size}
            /\ i - max_gap > 0 => Used(i - max_gap - 1)
        BY <1>1, <1>2 DEF HInv, ScanPosition
      <3> QED
        BY <1>2, <1>3, <1>4, <1>8, <3>1, <3>3, <3>4, <3>5, <3>6 DEF ScanPosition
    <2> QED
      BY <1>3, <2>1, <2>2
  <1> QED
    BY <1>1, <1>2, <1>4, <1>6, <1>7, <1>9 DEF Inv, HInv, HeapIntact

LEMMA FoundInv == Inv /\ my_malloc_found => Inv'
  <1> SUFFICES ASSUME Inv, my_malloc_found PROVE Inv'
    OBVIOUS
  <1>1. PICK H \in SUBSET (0 .. (f_size - 1)) : HInv(H)
    BY DEF Inv, HeapIntact, HInv
  <1>2. PICK g, G : g = i - max_gap /\ G = max_gap - mem[i]
    OBVIOUS
  <1>3. /\ i \in H /\ mem[i] \in Int /\ mem[i] < 0 /\ i \in Nat /\ max_gap \in Nat
        /\ size \in Nat /\ size > 1 /\ f_size \in Nat /\ g + G \in H \cup {f_size}
        /\ g \in H /\ g \in Nat /\ G \in Nat /\ G >= size /\ g <= i /\ i < g + G
    <2>1. /\ i \in Nat /\ max_gap \in Nat /\ size \in Nat /\ f_size \in Nat
          /\ mem \in [0 .. (f_size - 1) -> Int]
      BY DEF Inv, TypeOK
    <2>2. /\ pc = "scan" /\ i < f_size /\ mem[i] < 0 /\ max_gap + (-mem[i]) >= size
      BY DEF my_malloc_found, FreeLength
    <2>3. mem[i] \in Int
      BY <2>1, <2>2
    <2>4. i \in H /\ size > 1 /\ i - max_gap \in H \cup {f_size}
      <3>1. ScanPosition(H)
        BY <1>1 DEF HInv
      <3> QED
        BY <2>1, <2>2, <3>1 DEF ScanPosition
    <2>5. i - max_gap \in H
      BY <2>1, <2>2, <2>4
    <2>6. i + Abs(mem[i]) \in H \cup {f_size}
      BY <1>1, <2>4 DEF HInv, Headers
    <2>7. g \in Nat /\ g <= i
      BY <1>1, <1>2, <2>1, <2>5
    <2>8. G \in Nat /\ g + G = i + Abs(mem[i]) /\ i < g + G /\ G >= size
      BY <1>2, <2>1, <2>2, <2>3 DEF Abs
    <2> QED
      BY <1>2, <2>1, <2>2, <2>3, <2>4, <2>5, <2>6, <2>7, <2>8
  <1>4. /\ mem' = [c \in 0 .. (f_size - 1) |->
                       IF c = g THEN size
                       ELSE IF c = g + size /\ size < G THEN -(G - size)
                       ELSE mem[c]]
        /\ live' = [p \in DOMAIN live \cup {g + 1} |->
                       IF p = g + 1 THEN size - 1 ELSE live[p]]
        /\ pc' = "idle" /\ ClearLocals /\ UNCHANGED <<f_size, stale>>
    BY <1>2, <1>3 DEF my_malloc_found, FreeLength, LeavesRest
  <1>5. \A c \in g .. (g + G - 1) : ~Used(c)
    <2>1. \A c \in i .. (i - mem[i] - 1) : ~Used(c)
      BY <1>1, <1>3, FreeBlockUnused DEF HInv, Inv
    <2>2. \A c \in g .. (i - 1) : ~Used(c)
      BY <1>1, <1>2 DEF HInv, ScanPosition, my_malloc_found
    <2> QED
      BY <1>2, <1>3, <2>1, <2>2
  <1>6. \A p \in DOMAIN live :
           /\ p - 1 \in H /\ p - 1 \notin g .. (g + G - 1)
           /\ p \in Nat /\ live[p] \in Nat /\ live[p] > 0 /\ mem[p - 1] = live[p] + 1
    BY <1>1, <1>5 DEF Inv, TypeOK, HInv, Headers, Used
  <1>7. PICK K : K = (H \ (g + 1) .. (g + G - 1)) \cup
                     (IF size < G THEN {g + size} ELSE {})
    OBVIOUS
  <1>8. /\ mem' \in [0 .. (f_size - 1) -> Int]
        /\ live' \in [DOMAIN live' -> Nat] /\ DOMAIN live' \subseteq Nat \ {0}
    <2>1. mem \in [0 .. (f_size - 1) -> Int] /\ DOMAIN live \subseteq Nat \ {0}
      BY DEF Inv, TypeOK
    <2>2. mem' \in [0 .. (f_size - 1) -> Int]
      BY <1>3, <1>4, <2>1
    <2>3. DOMAIN live' = DOMAIN live \cup {g + 1}
      BY <1>4
    <2>4. \A p \in DOMAIN live' : live'[p] \in Nat
      BY <1>3, <1>4, <1>6
    <2>5. live' \in [DOMAIN live' -> Nat]
      BY <1>4, <2>3, <2>4
    <2> QED
      BY <1>3, <2>1, <2>2, <2>3, <2>5
  <1>9. TypeOK'
    BY <1>4, <1>8 DEF Inv, TypeOK, ClearLocals
  <1>10. K \subseteq 0 .. (f_size - 1)
    BY <1>1, <1>3, <1>7
  <1>11. f_size > 0 => 0 \in K
    BY <1>1, <1>3, <1>7 DEF HInv, Headers
  <1>12. ASSUME NEW h \in K
         PROVE  /\ mem'[h] # 0
                /\ h + Abs(mem'[h]) \in K \cup {f_size}
                /\ \A k \in K : k > h => k >= h + Abs(mem'[h])
                /\ mem'[h] > 0 => h + 1 \in DOMAIN live'
    <2> h \in 0 .. (f_size - 1)
      BY <1>10
    <2>1. CASE h = g
      BY <1>3, <1>4, <1>7, <1>10, <2>1 DEF Abs
    <2>2. CASE h = g + size /\ size < G
      BY <1>1, <1>3, <1>4, <1>7, <1>10, <2>2 DEF Abs
    <2>3. CASE h < g
      <3>1. h \in H /\ mem'[h] = mem[h] /\ mem[h] \in Int
        BY <1>3, <1>4, <1>7, <2>3 DEF Inv, TypeOK
      <3>2. h + Abs(mem[h]) <= g
        BY <1>1, <1>3, <2>3, <3>1 DEF HInv, Headers, Abs
      <3>3. mem[h] # 0 /\ h + Abs(mem[h]) \in H \cup {f_size}
        BY <1>1, <3>1 DEF HInv, Headers
      <3>4. mem[h] > 0 => h + 1 \in DOMAIN live
        BY <1>1, <3>1 DEF HInv, Headers, my_malloc_found
      <3>5. h + Abs(mem[h]) \in K \cup {f_size}
        BY <1>1, <1>3, <1>7, <3>1, <3>2, <3>3 DEF Abs
      <3>6. ASSUME NEW k \in K, k > h PROVE k >= h + Abs(mem[h])
        BY <1>1, <1>3, <1>7, <1>10, <3>1, <3>2, <3>6 DEF HInv, Headers, Abs
      <3> QED
        BY <1>4, <3>1, <3>3, <3>4, <3>5, <3>6
    <2>4. CASE h >= g + G
      <3>1. h \in H /\ mem'[h] = mem[h] /\ mem[h] \in Int
        BY <1>3, <1>4, <1>7, <2>4 DEF Inv, TypeOK
      <3>2. mem[h] # 0 /\ h + Abs(mem[h]) \in H \cup {f_size}
        BY <1>1, <3>1 DEF HInv, Headers
      <3>3. mem[h] > 0 => h + 1 \in DOMAIN live
        BY <1>1, <3>1 DEF HInv, Headers, my_malloc_found
      <3>4. h + Abs(mem[h]) \in K \cup {f_size}
        BY <1>1, <1>3, <1>7, <2>4, <3>1, <3>2 DEF Abs
      <3>5. ASSUME NEW k \in K, k > h PROVE k >= h + Abs(mem[h])
        BY <1>1, <1>3, <1>7, <1>10, <2>4, <3>1, <3>5 DEF HInv, Headers
      <3> QED
        BY <1>4, <3>1, <3>2, <3>3, <3>4, <3>5
    <2> QED
      BY <1>3, <1>7, <2>1, <2>2, <2>3, <2>4
  <1>13. ASSUME NEW p \in DOMAIN live'
         PROVE  p - 1 \in K /\ live'[p] > 0 /\ mem'[p - 1] = live'[p] + 1
    <2>1. CASE p = g + 1
      BY <1>1, <1>3, <1>4, <1>7, <2>1
    <2>2. CASE p \in DOMAIN live /\ p # g + 1
      BY <1>1, <1>3, <1>4, <1>6, <1>7, <2>2
    <2> QED
      BY <1>4, <2>1, <2>2
  <1>14. HInv(K)'
    BY <1>4, <1>10, <1>11, <1>12, <1>13 DEF HInv, Headers, ScanPosition, FreePosition
  <1> QED
    BY <1>3, <1>4, <1>9, <1>10, <1>14 DEF Inv, HInv, HeapIntact, my_malloc_found

LEMMA NullInv == Inv /\ my_malloc_null => Inv'
  <1> SUFFICES ASSUME Inv, my_malloc_null PROVE Inv'
    OBVIOUS
  <1>1. TypeOK'
    BY DEF Inv, TypeOK, my_malloc_null, ClearLocals
  <1>2. PICK H \in SUBSET (0 .. (f_size - 1)) : HInv(H)
    BY DEF Inv, HeapIntact, HInv
  <1>3. Headers(H)' /\ ScanPosition(H)' /\ FreePosition(H)'
    BY <1>2 DEF HInv, Headers, ScanPosition, FreePosition, my_malloc_null
  <1> QED
    BY <1>1, <1>2, <1>3 DEF Inv, HeapIntact, my_malloc_null

LEMMA FreeInv == Inv /\ my_free => Inv'
  <1> SUFFICES ASSUME Inv, my_free PROVE Inv'
    OBVIOUS
  <1>1. PICK H \in SUBSET (0 .. (f_size - 1)) : HInv(H)
    BY DEF Inv, HeapIntact, HInv
  <1>2. pc = "idle" /\ UNCHANGED <<f_size, mem, size, i, max_gap>>
    BY DEF my_free
  <1>3. CASE pc' \in {"exit", "idle"} /\ UNCHANGED <<live, stale, aligned_ptr, empty_space>>
    BY <1>1, <1>2, <1>3 DEF Inv, TypeOK, HInv, Headers, ScanPosition, FreePosition, HeapIntact
  <1>4. CASE \E ptr \in DOMAIN live \cup {p \in stale : ~Used(p - 1)} :
              /\ ptr < f_size /\ mem[ptr - 1] > 0
              /\ pc' = "coalesce"
              /\ aligned_ptr' = ptr - 1
              /\ empty_space' = mem[ptr - 1]
              /\ live' = [p \in DOMAIN live \ {ptr} |-> live[p]]
              /\ stale' = stale \cup {ptr}
    <2>1. PICK ptr \in DOMAIN live \cup {p \in stale : ~Used(p - 1)} :
              /\ ptr < f_size /\ mem[ptr - 1] > 0
              /\ pc' = "coalesce"
              /\ aligned_ptr' = ptr - 1
              /\ empty_space' = mem[ptr - 1]
              /\ live' = [p \in DOMAIN live \ {ptr} |-> live[p]]
              /\ stale' = stale \cup {ptr}
      BY <1>4
    <2>2. ptr \in Nat \ {0} /\ f_size \in Nat /\ mem[ptr - 1] \in Int
      BY <2>1 DEF Inv, TypeOK
    <2>3. TypeOK'
      BY <1>2, <2>1, <2>2 DEF Inv, TypeOK
    <2>4. Headers(H)'
      BY <1>1, <1>2, <2>1, <2>2 DEF Inv, TypeOK, HInv, Headers
    <2>5. ScanPosition(H)'
      BY <2>1 DEF ScanPosition
    <2>6. ~Used(ptr - 1)'
      <3>1. CASE ptr \in DOMAIN live
        BY <1>1, <2>1, <2>2, <3>1, HeaderOfAnother DEF Used, HInv, Inv
      <3>2. CASE ~Used(ptr - 1)
        BY <2>1, <3>2 DEF Used
      <3> QED
        BY <2>1, <3>1, <3>2
    <2>7. ptr - 1 \in H => /\ ptr - 1 + mem[ptr - 1] \in H \cup {f_size}
                           /\ \A h \in H : ~(ptr - 1 < h /\ h < ptr - 1 + mem[ptr - 1])
      BY <1>1, <2>1, <2>2 DEF HInv, Headers, Abs
    <2>8. FreePosition(H)'
      BY <1>2, <2>1, <2>2, <2>6, <2>7 DEF FreePosition, Used
    <2> QED
      BY <1>1, <1>2, <2>1, <2>3, <2>4, <2>5, <2>8 DEF Inv, HInv, HeapIntact
  <1> QED
    <2>1. PICK ptr \in DOMAIN live \cup {p \in stale : ~Used(p - 1)} \cup {NULL} :
             IF ptr < 0 \/ ptr >= f_size
             THEN /\ pc' = "exit"
                  /\ UNCHANGED <<live, stale, aligned_ptr, empty_space>>
             ELSE IF mem[ptr - 1] <= 0
             THEN UNCHANGED <<pc, live, stale, aligned_ptr, empty_space>>
             ELSE /\ pc' = "coalesce"
                  /\ aligned_ptr' = ptr - 1
                  /\ empty_space' = mem[ptr - 1]
                  /\ live' = [p \in DOMAIN live \ {ptr} |-> live[p]]
                  /\ stale' = stale \cup {ptr}
      BY DEF my_free
    <2>2. CASE ptr < 0 \/ ptr >= f_size
      BY <1>3, <2>1, <2>2
    <2>3. CASE ~(ptr < 0 \/ ptr >= f_size)
      <3>1. /\ ptr \in DOMAIN live \cup {p \in stale : ~Used(p - 1)}
            /\ ptr \in Nat \ {0} /\ f_size \in Nat /\ ptr < f_size
            /\ mem \in [0 .. (f_size - 1) -> Int]
        BY <2>1, <2>3 DEF Inv, TypeOK, NULL
      <3>2. mem[ptr - 1] \in Int
        BY <3>1
      <3>3. CASE mem[ptr - 1] <= 0
        <4>1. UNCHANGED <<pc, live, stale, aligned_ptr, empty_space>>
          BY <2>1, <2>3, <3>3
        <4> QED
          BY <1>2, <1>3, <4>1
      <3>4. CASE mem[ptr - 1] > 0
        <4>1. ~(mem[ptr - 1] <= 0)
          BY <3>2, <3>4
        <4>2. /\ pc' = "coalesce"
              /\ aligned_ptr' = ptr - 1
              /\ empty_space' = mem[ptr - 1]
              /\ live' = [p \in DOMAIN live \ {ptr} |-> live[p]]
              /\ stale' = stale \cup {ptr}
          BY <2>1, <2>3, <4>1
        <4> QED
          BY <1>4, <3>1, <3>4, <4>2
      <3> QED
        BY <3>2, <3>3, <3>4
    <2> QED
      BY <2>2, <2>3

LEMMA CoalesceInv == Inv /\ my_free_coalesce => Inv'
  <1> SUFFICES ASSUME Inv, my_free_coalesce PROVE Inv'
    OBVIOUS
  <1>1. PICK H \in SUBSET (0 .. (f_size - 1)) : HInv(H)
    BY DEF Inv, HeapIntact, HInv
  <1> DEFINE n == aligned_ptr + empty_space
  <1>2. /\ n < f_size /\ mem[n] \in Int /\ mem[n] < 0 /\ pc = "coalesce"
        /\ n \in Nat /\ aligned_ptr \in Nat /\ empty_space \in Nat
        /\ empty_space' = empty_space - mem[n]
        /\ UNCHANGED <<pc, f_size, mem, live, stale, size, i, max_gap, aligned_ptr>>
    BY DEF Inv, TypeOK, my_free_coalesce, NextIsFree, FreeLength
  <1>3. TypeOK'
    BY <1>2 DEF Inv, TypeOK
  <1>4. Headers(H)' /\ ScanPosition(H)'
    BY <1>1, <1>2 DEF HInv, Headers, ScanPosition
  <1>5. ASSUME aligned_ptr \in H
        PROVE  /\ aligned_ptr + empty_space' \in H \cup {f_size}
               /\ \A h \in H : aligned_ptr < h /\ h < aligned_ptr + empty_space'
                                  => mem[h] < 0
    <2>1. n \in H /\ aligned_ptr + empty_space' = n - mem[n]
      BY <1>1, <1>2, <1>5 DEF HInv, FreePosition
    <2>2. n - mem[n] \in H \cup {f_size} /\ \A h \in H : h > n => h >= n - mem[n]
      BY <1>1, <1>2, <2>1 DEF HInv, Headers, Abs
    <2>3. \A h \in H : aligned_ptr < h /\ h < n => mem[h] < 0
      BY <1>1, <1>2, <1>5 DEF HInv, FreePosition
    <2> QED
      BY <1>1, <1>2, <2>1, <2>2, <2>3
  <1>6. FreePosition(H)'
    BY <1>1, <1>2, <1>5 DEF HInv, FreePosition, Used, Inv, TypeOK
  <1> QED
    BY <1>1, <1>2, <1>3, <1>4, <1>6 DEF Inv, HInv, HeapIntact

LEMMA FreeDoneInv == Inv /\ my_free_done => Inv'
  <1> SUFFICES ASSUME Inv, my_free_done PROVE Inv'
    OBVIOUS
  <1>1. PICK H \in SUBSET (0 .. (f_size - 1)) : HInv(H)
    BY DEF Inv, HeapIntact, HInv
  <1>2. PICK a, e : a = aligned_ptr /\ e = empty_space
    OBVIOUS
  <1>3. /\ a \in Nat /\ e \in Nat /\ e > 0 /\ f_size \in Nat /\ a < f_size /\ pc = "coalesce"
        /\ mem' = [mem EXCEPT ![a] = -e] /\ pc' = "idle" /\ ClearLocals
        /\ UNCHANGED <<f_size, live, stale>> /\ ~Used(a)
    BY <1>1, <1>2 DEF Inv, TypeOK, HInv, FreePosition, my_free_done
  <1>4. TypeOK'
    BY <1>3 DEF Inv, TypeOK, ClearLocals
  <1>5. mem \in [0 .. (f_size - 1) -> Int]
    BY DEF Inv, TypeOK
  <1>6. \A p \in DOMAIN live : p - 1 # a /\ p \in Nat /\ live[p] \in Nat
    <2>1. \A p \in DOMAIN live : p \in Nat /\ live[p] \in Nat
      BY DEF Inv, TypeOK
    <2> QED
      BY <1>3, <2>1 DEF Used
  <1>7. PICK K : K = IF a \in H THEN H \ (a + 1) .. (a + e - 1) ELSE H
    OBVIOUS
  <1>8. Headers(K)'
    <2>1. CASE a \notin H
      <3>1. \A h \in H : mem'[h] = mem[h]
        BY <1>1, <1>3, <1>5, <2>1
      <3> QED
        BY <1>1, <1>2, <1>3, <1>7, <2>1, <3>1 DEF HInv, Headers
    <2>2. CASE a \in H
      <3>1. a + e \in H \cup {f_size} /\ \A h \in H : a < h /\ h < a + e => mem[h] < 0
        BY <1>1, <1>2, <1>3, <2>2 DEF HInv, FreePosition
      <3>2. \A h \in H \ {a} : mem'[h] = mem[h] /\ mem[h] \in Int
        BY <1>1, <1>3, <1>5
      <3>3. mem'[a] = -e
        BY <1>1, <1>3, <1>5, <2>2
      <3>4. ASSUME NEW p \in DOMAIN live
            PROVE  p - 1 \in K /\ live[p] > 0 /\ mem'[p - 1] = live[p] + 1
        BY <1>1, <1>3, <1>6, <1>7, <2>2, <3>1, <3>2 DEF HInv, Headers
      <3>5. ASSUME NEW h \in K
            PROVE  /\ mem'[h] # 0
                   /\ h + Abs(mem'[h]) \in K \cup {f_size}
                   /\ \A k \in K : k > h => k >= h + Abs(mem'[h])
                   /\ mem'[h] > 0 => h + 1 \in DOMAIN live
        <4>0. h \in H /\ h \in Nat /\ h < f_size
          BY <1>1, <1>7, <2>2, <1>3
        <4>1. CASE h = a
          BY <1>1, <1>3, <1>7, <2>2, <3>1, <3>3, <4>1 DEF Abs
        <4>2. CASE h # a
          <5>1. /\ mem'[h] = mem[h] /\ mem[h] # 0 /\ mem[h] \in Int
                /\ h + Abs(mem[h]) \in H \cup {f_size}
                /\ \A k \in H : k > h => k >= h + Abs(mem[h])
                /\ mem[h] > 0 => h + 1 \in DOMAIN live
            BY <1>1, <1>2, <3>2, <4>0, <4>2 DEF HInv, Headers
          <5>2. h + Abs(mem[h]) \in K \cup {f_size}
            BY <1>1, <1>3, <1>7, <2>2, <3>1, <4>0, <4>2, <5>1 DEF Abs
          <5> QED
            BY <5>1, <5>2, <1>7
        <4> QED
          BY <4>1, <4>2
      <3>6. K \subseteq 0 .. (f_size - 1) /\ (f_size > 0 => 0 \in K)
        BY <1>1, <1>3, <1>7, <2>2 DEF HInv, Headers
      <3> QED
        BY <1>3, <3>4, <3>5, <3>6 DEF Headers
    <2> QED
      BY <2>1, <2>2
  <1>9. ScanPosition(K)' /\ FreePosition(K)'
    BY <1>3 DEF ScanPosition, FreePosition
  <1> QED
    BY <1>3, <1>4, <1>8, <1>9 DEF Inv, HInv, HeapIntact, Headers

LEMMA StoreInv == Inv /\ client_store => Inv'
  <1> SUFFICES ASSUME Inv, client_store PROVE Inv'
    OBVIOUS
  <1>1. PICK H \in SUBSET (0 .. (f_size - 1)) : HInv(H)
    BY DEF Inv, HeapIntact, HInv
  <1>2. PICK c \in UserWords, d \in Data : mem' = [mem EXCEPT ![c] = d]
    BY DEF client_store
  <1>3. c \in 0 .. (f_size - 1) /\ d \in Int /\ pc = "idle"
        /\ UNCHANGED <<pc, f_size, live, stale, size, i, max_gap, aligned_ptr, empty_space>>
    BY SizesAssumption DEF UserWords, client_store, locals
  <1>4. c \notin H
    <2>1. PICK p \in DOMAIN live : p <= c /\ c <= p - 1 + live[p]
      BY DEF UserWords
    <2>2. p - 1 \in H /\ mem[p - 1] = live[p] + 1 /\ p \in Nat /\ live[p] \in Nat
      BY <1>1, <2>1 DEF HInv, Headers, Inv, TypeOK
    <2> QED
      BY <1>1, <1>3, <2>1, <2>2 DEF HInv, Headers, Abs
  <1>5. \A h \in H : mem'[h] = mem[h]
    BY <1>1, <1>2, <1>4 DEF Inv, TypeOK
  <1>6. TypeOK'
    BY <1>2, <1>3 DEF Inv, TypeOK
  <1>7. HInv(H)'
    BY <1>1, <1>3, <1>5 DEF HInv, Headers, ScanPosition, FreePosition
  <1> QED
    BY <1>1, <1>3, <1>6, <1>7 DEF Inv, HInv, HeapIntact

-----------------------------------------------------------------------------

LEMMA NextInv == Inv /\ [Next]_vars => Inv'
  BY StutterInv, InitializeInv, FinalizeInv, MallocInv, ScanInv, FoundInv, NullInv, FreeInv,
     CoalesceInv, FreeDoneInv, StoreInv DEF Next, Call, stopped

\* Every reachable state of the allocator has a walkable heap: the variables
\* keep their types and HeapIntact holds.
THEOREM HeapStaysIntact == Spec => [](TypeOK /\ HeapIntact)
  <1>1. Spec => []Inv
    BY InitInv, NextInv, PTL DEF Spec
  <1> QED
    BY <1>1, PTL DEF Inv

-----------------------------------------------------------------------------
(* The allocator implements HeapContract *)

LEMMA TakenIsUsed ==
    ASSUME TypeOK, NEW c \in Int
    PROVE  Contract!Taken(c) <=> Used(c)
  BY DEF TypeOK, Used, Contract!Taken, Contract!Blocks, Contract!Block

\* The words of two held blocks are apart.
LEMMA BlocksApart ==
    ASSUME TypeOK, NEW H, Headers(H), NEW p \in DOMAIN live, NEW q \in DOMAIN live,
           NEW c \in Int, p - 1 <= c, c <= p - 1 + live[p], q - 1 <= c, c <= q - 1 + live[q]
    PROVE  p = q
  <1>1. /\ p - 1 \in H /\ q - 1 \in H /\ mem[q - 1] = live[q] + 1 /\ mem[p - 1] = live[p] + 1
        /\ p \in Nat /\ q \in Nat /\ live[q] \in Nat /\ live[p] \in Nat
    BY DEF Headers, TypeOK
  <1>2. CASE p < q
    BY <1>1, <1>2 DEF Headers, Abs
  <1>3. CASE q < p
    BY <1>1, <1>3 DEF Headers, Abs
  <1> QED
    BY <1>1, <1>2, <1>3

\* A held block lies inside the file.
LEMMA BlockInFile ==
    ASSUME TypeOK, NEW H, Headers(H), NEW p \in DOMAIN live
    PROVE  p + live[p] <= f_size
  <1>1. /\ p - 1 \in H /\ mem[p - 1] = live[p] + 1 /\ p \in Nat /\ live[p] \in Nat
        /\ p - 1 + Abs(mem[p - 1]) \in H \cup {f_size} /\ f_size \in Nat
        /\ H \subseteq 0 .. (f_size - 1)
    BY DEF Headers, TypeOK
  <1> QED
    BY <1>1 DEF Abs

LEMMA ContractInit == Init => Contract!Init
  BY DEF Init, NoBlocks, UserWords, Contract!Init

\* The smallest number of words that hold some bytes.
LEMMA AlignIsLeast ==
    ASSUME NEW bytes \in Requests \ {0}
    PROVE  /\ align_bytes(bytes) * WordBytes >= bytes
           /\ (align_bytes(bytes) - 1) * WordBytes < bytes
  <1> DEFINE k == (bytes - 1) \div WordBytes
  <1>1. bytes - 1 \in Nat /\ WordBytes \in Nat \ {0}
    BY SizesAssumption
  <1>2. k \in Nat /\ k * WordBytes <= bytes - 1 /\ bytes - 1 < (k + 1) * WordBytes
    BY <1>1
  <1>3. align_bytes(bytes) = k + 1
    BY DEF align_bytes
  <1> HIDE DEF k
  <1>4. align_bytes(bytes) - 1 = k
    BY <1>2, <1>3
  <1>5. k * WordBytes \in Int /\ (k + 1) * WordBytes \in Int
    BY <1>1, <1>2
  <1>6. \A x, y, b \in Int : x <= b - 1 /\ b - 1 < y => y >= b /\ x < b
    OBVIOUS
  <1>7. bytes \in Int
    BY SizesAssumption
  <1> QED
    BY <1>2, <1>3, <1>4, <1>5, <1>6, <1>7

LEMMA InitializeRefines ==
    Inv /\ myalloc_initialize => Contract!Open \/ UNCHANGED Contract!vars
  <1> SUFFICES ASSUME Inv, myalloc_initialize
               PROVE  Contract!Open \/ UNCHANGED Contract!vars
    OBVIOUS
  <1>1. pc = "unmapped" /\ f_size = 0 /\ UNCHANGED <<live, size>>
    BY DEF Inv, HeapIntact, myalloc_initialize, locals
  <1>2. DOMAIN live = {}
    <2>1. PICK H \in SUBSET (0 .. (f_size - 1)) : HInv(H)
      BY DEF Inv, HeapIntact, HInv
    <2>2. H = {}
      BY <1>1, <2>1
    <2> QED
      BY <2>1, <2>2 DEF HInv, Headers
  <1>3. UserWords = {} /\ UserWords' = {}
    BY <1>1, <1>2 DEF UserWords
  <1>4. UNCHANGED f_size \/ f_size' \in Nat \ {0}
    BY SizesAssumption DEF myalloc_initialize
  <1>5. pc' # "scan"
    BY DEF myalloc_initialize
  <1>6. [c \in UserWords |-> mem[c]]' = [c \in UserWords |-> mem[c]]
    BY <1>3
  <1> QED
    BY <1>1, <1>4, <1>5, <1>6 DEF Contract!Open, Contract!vars

LEMMA FinalizeRefines ==
    Inv /\ myalloc_finalize => Contract!Close \/ UNCHANGED Contract!vars
  <1> SUFFICES ASSUME Inv, myalloc_finalize
               PROVE  Contract!Close \/ UNCHANGED Contract!vars
    OBVIOUS
  <1>1. CASE pc = "idle"
    BY <1>1 DEF myalloc_finalize, Contract!Close, NoBlocks, UserWords, Inv, HeapIntact
  <1>2. CASE pc = "unmapped"
    BY <1>2 DEF myalloc_finalize, Contract!vars, UserWords
  <1> QED
    BY <1>1, <1>2 DEF myalloc_finalize

LEMMA MallocRefines ==
    Inv /\ my_malloc => Contract!Ask \/ UNCHANGED Contract!vars
  <1> SUFFICES ASSUME Inv, my_malloc, ~UNCHANGED vars
               PROVE  Contract!Ask
    BY DEF vars, Contract!vars, UserWords
  <1>1. PICK bytes \in Requests \ {0} : size' = align_bytes(bytes) + 1
    BY DEF my_malloc
  <1>2. pc = "idle" /\ pc' = "scan" /\ UNCHANGED <<f_size, mem, live>>
    BY DEF my_malloc
  <1>3. align_bytes(bytes) \in Nat
    BY SizesAssumption DEF align_bytes
  <1>4. /\ (size' - 1) * WordBytes >= bytes
        /\ (size' - 2) * WordBytes < bytes
        /\ size' \in Nat
    <2>1. size' - 1 = align_bytes(bytes) /\ size' - 2 = align_bytes(bytes) - 1
      BY <1>1, <1>3
    <2> QED
      BY <1>1, <1>3, <2>1, AlignIsLeast
  <1>5. f_size > 0
    BY <1>2 DEF Inv, HeapIntact
  <1>6. UNCHANGED [c \in UserWords |-> mem[c]]
    BY <1>2 DEF UserWords
  <1> QED
    BY <1>2, <1>4, <1>5, <1>6 DEF Contract!Ask

LEMMA FoundRefines == Inv /\ my_malloc_found => Contract!Grant
  <1> SUFFICES ASSUME Inv, my_malloc_found PROVE Contract!Grant
    OBVIOUS
  <1>1. PICK H \in SUBSET (0 .. (f_size - 1)) : HInv(H)
    BY DEF Inv, HeapIntact, HInv
  <1> DEFINE g == i - max_gap
             G == max_gap - mem[i]
  <1>2. /\ pc = "scan" /\ i \in Nat /\ max_gap \in Nat /\ size \in Nat /\ f_size \in Nat
        /\ i < f_size /\ mem[i] \in Int /\ mem[i] < 0 /\ G >= size
    BY DEF Inv, TypeOK, my_malloc_found, FreeLength
  <1>3. /\ i \in H /\ g \in H \cup {f_size} /\ size > 1 /\ max_gap < size
        /\ \A c \in g .. (i - 1) : ~Used(c)
        /\ g > 0 => Used(g - 1)
        /\ \A s \in 0 .. (i - size) : \E c \in s .. (s + size - 1) : Used(c)
    <2>1. ScanPosition(H)
      BY <1>1 DEF HInv
    <2> QED
      BY <1>2, <2>1 DEF ScanPosition
  <1>4. g \in Nat /\ g <= i /\ G \in Nat
    BY <1>1, <1>2, <1>3
  <1>5. g + G <= f_size /\ g + G = i - mem[i]
    <2>1. i + Abs(mem[i]) \in H \cup {f_size}
      BY <1>1, <1>3 DEF HInv, Headers
    <2> QED
      BY <1>1, <1>2, <2>1 DEF Abs
  <1>6. \A c \in g .. (g + G - 1) : ~Used(c)
    <2>1. \A c \in i .. (i - mem[i] - 1) : ~Used(c)
      BY <1>1, <1>2, <1>3, FreeBlockUnused DEF HInv, Inv
    <2> QED
      BY <1>2, <1>3, <1>4, <1>5, <2>1
  <1>7. /\ mem' = [c \in 0 .. (f_size - 1) |->
                       IF c = g THEN size
                       ELSE IF c = g + size /\ size < G THEN -(G - size)
                       ELSE mem[c]]
        /\ live' = [p \in DOMAIN live \cup {g + 1} |->
                       IF p = g + 1 THEN size - 1 ELSE live[p]]
        /\ pc' = "idle" /\ UNCHANGED f_size
    BY <1>2 DEF my_malloc_found, FreeLength, LeavesRest
  <1> HIDE DEF g, G
  <1>8. g \in 0 .. (f_size - size)
    BY <1>2, <1>4, <1>5
  <1>9. Contract!Vacant(g, size)
    <2> SUFFICES ASSUME NEW c \in g .. (g + size - 1) PROVE ~Contract!Taken(c)
      BY <1>2 DEF Contract!Vacant
    <2>1. c \in Int /\ c \in g .. (g + G - 1)
      BY <1>2, <1>4
    <2> QED
      BY <1>6, <2>1, TakenIsUsed DEF Inv
  <1>10. ASSUME NEW t \in 0 .. (g - 1) PROVE ~Contract!Vacant(t, size)
    <2>1. \E c \in t .. (t + size - 1) : Used(c)
      <3>1. CASE t + size <= i
        <4>1. t \in 0 .. (i - size)
          BY <1>2, <1>4, <3>1
        <4> QED
          BY <1>3, <4>1
      <3>2. CASE t + size > i
        <4>1. g > 0 /\ g - 1 \in t .. (t + size - 1)
          BY <1>2, <1>4, <3>2
        <4> QED
          BY <1>3, <4>1
      <3> QED
        BY <1>2, <1>4, <3>1, <3>2
    <2>2. PICK c \in t .. (t + size - 1) : Used(c)
      BY <2>1
    <2>3. c \in Int /\ Contract!Taken(c)
      BY <1>2, <2>2, TakenIsUsed DEF Inv
    <2> QED
      BY <1>2, <2>2, <2>3 DEF Contract!Vacant
  <1>11. UserWords' = UserWords \cup (g + 1) .. (g + size - 1)
    <2>1. \A p \in DOMAIN live : p \in Nat /\ live[p] \in Nat
      BY DEF Inv, TypeOK
    <2>2. ASSUME NEW p \in DOMAIN live PROVE p # g + 1
      <3>1. ~Used(g)
        BY <1>2, <1>3, <1>4, <1>6
      <3> QED
        BY <1>4, <2>1, <3>1 DEF Used
    <2>3. ASSUME NEW c \in UserWords
          PROVE  c \in UserWords'
      <3>1. PICK p \in DOMAIN live : p <= c /\ c <= p - 1 + live[p]
        BY DEF UserWords
      <3>2. p \in DOMAIN live' /\ live'[p] = live[p]
        BY <1>7, <2>2
      <3> QED
        BY <1>7, <3>1, <3>2 DEF UserWords
    <2>4. ASSUME NEW c \in (g + 1) .. (g + size - 1)
          PROVE  c \in UserWords'
      <3>1. g + 1 \in DOMAIN live' /\ live'[g + 1] = size - 1
        BY <1>7
      <3>2. c \in 0 .. (f_size - 1)
        BY <1>2, <1>4, <1>5
      <3> QED
        <4>0. PICK q : q = g + 1
          OBVIOUS
        <4>1. q \in DOMAIN live' /\ q <= c /\ c <= q - 1 + live'[q]
          BY <1>2, <1>3, <1>4, <3>1, <4>0
        <4>2. \E p \in DOMAIN live' : p <= c /\ c <= p - 1 + live'[p]
          BY <4>1
        <4>3. c \in 0 .. (f_size' - 1)
          BY <1>7, <3>2
        <4> QED
          BY <4>2, <4>3 DEF UserWords
    <2>5. ASSUME NEW c \in UserWords'
          PROVE  c \in UserWords \cup (g + 1) .. (g + size - 1)
      <3>1. PICK p \in DOMAIN live' : p <= c /\ c <= p - 1 + live'[p]
        BY DEF UserWords
      <3>2. c \in 0 .. (f_size - 1)
        BY <1>7 DEF UserWords
      <3>3. CASE p = g + 1
        BY <1>2, <1>4, <1>7, <3>1, <3>2, <3>3
      <3>4. CASE p \in DOMAIN live /\ p # g + 1
        BY <1>7, <3>1, <3>2, <3>4 DEF UserWords
      <3> QED
        BY <1>7, <3>3, <3>4
    <2> QED
      BY <2>3, <2>4, <2>5
  <1>12. ASSUME NEW c \in UserWords PROVE mem'[c] = mem[c] /\ c \in UserWords'
    <2>1. PICK p \in DOMAIN live : p <= c /\ c <= p - 1 + live[p]
      BY DEF UserWords
    <2>2. p \in Nat /\ live[p] \in Nat /\ c \in 0 .. (f_size - 1)
      BY DEF Inv, TypeOK, UserWords
    <2>3. Used(c)
      BY <2>1, <2>2 DEF Used
    <2>4. c \notin g .. (g + G - 1)
      BY <1>6, <2>3
    <2>5. c # g /\ (size < G => c # g + size)
      BY <1>2, <1>3, <1>4, <2>4
    <2> QED
      BY <1>7, <1>11, <2>2, <2>5
  <1>13. /\ DOMAIN [c \in UserWords' |-> mem'[c]] =
               DOMAIN [c \in UserWords |-> mem[c]] \cup (g + 1) .. (g + size - 1)
         /\ \A c \in DOMAIN [x \in UserWords |-> mem[x]] :
               [x \in UserWords' |-> mem'[x]][c] = [x \in UserWords |-> mem[x]][c]
    BY <1>11, <1>12
  <1>14. (IF pc = "scan" THEN size ELSE 0) = size /\ (IF pc = "scan" THEN size ELSE 0)' = 0
    BY <1>2, <1>7
  <1>15. \E s \in 0 .. (f_size - size) :
            /\ Contract!Vacant(s, size)
            /\ \A t \in 0 .. (s - 1) : ~Contract!Vacant(t, size)
            /\ live' = [p \in DOMAIN live \cup {s + 1} |->
                          IF p = s + 1 THEN size - 1 ELSE live[p]]
            /\ DOMAIN [c \in UserWords' |-> mem'[c]] =
                  DOMAIN [c \in UserWords |-> mem[c]] \cup (s + 1) .. (s + size - 1)
            /\ \A c \in DOMAIN [x \in UserWords |-> mem[x]] :
                  [x \in UserWords' |-> mem'[x]][c] = [x \in UserWords |-> mem[x]][c]
    BY <1>7, <1>8, <1>9, <1>10, <1>13
  <1>16. size > 0 /\ UNCHANGED f_size
    BY <1>2, <1>3, <1>7
  <1> QED
    BY <1>14, <1>15, <1>16 DEF Contract!Grant, Contract!Blocks

LEMMA NullRefines == Inv /\ my_malloc_null => Contract!Refuse
  <1> SUFFICES ASSUME Inv, my_malloc_null PROVE Contract!Refuse
    OBVIOUS
  <1>1. PICK H \in SUBSET (0 .. (f_size - 1)) : HInv(H)
    BY DEF Inv, HeapIntact, HInv
  <1>2. /\ pc = "scan" /\ pc' = "idle" /\ i >= f_size /\ UNCHANGED <<f_size, mem, live>>
        /\ i \in Nat /\ size \in Nat /\ f_size \in Nat
    BY DEF my_malloc_null, Inv, TypeOK
  <1>3. /\ size > 1 /\ i = f_size
        /\ \A s \in 0 .. (i - size) : \E c \in s .. (s + size - 1) : Used(c)
    BY <1>1, <1>2 DEF HInv, ScanPosition
  <1>4. ASSUME NEW s \in 0 .. (f_size - size) PROVE ~Contract!Vacant(s, size)
    <2>1. PICK c \in s .. (s + size - 1) : Used(c)
      BY <1>3
    <2>2. Contract!Taken(c)
      BY <1>2, <2>1, TakenIsUsed DEF Inv
    <2> QED
      BY <1>2, <2>1, <2>2 DEF Contract!Vacant
  <1>5. UNCHANGED [c \in UserWords |-> mem[c]]
    BY <1>2 DEF UserWords
  <1> QED
    BY <1>2, <1>3, <1>4, <1>5 DEF Contract!Refuse

LEMMA FreeRefines ==
    Inv /\ my_free => Contract!Release \/ UNCHANGED Contract!vars
  <1> SUFFICES ASSUME Inv, my_free
               PROVE  Contract!Release \/ UNCHANGED Contract!vars
    OBVIOUS
  <1>1. PICK H \in SUBSET (0 .. (f_size - 1)) : HInv(H)
    BY DEF Inv, HeapIntact, HInv
  <1>2. pc = "idle" /\ pc' # "scan" /\ UNCHANGED <<f_size, mem, size>>
    BY DEF my_free
  <1>3. CASE UNCHANGED live
    BY <1>2, <1>3 DEF Contract!vars, UserWords
  <1>4. CASE \E ptr \in DOMAIN live : live' = [p \in DOMAIN live \ {ptr} |-> live[p]]
    <2>1. PICK ptr \in DOMAIN live : live' = [p \in DOMAIN live \ {ptr} |-> live[p]]
      BY <1>4
    <2>2. \A p \in DOMAIN live : p \in Nat /\ live[p] \in Nat
      BY DEF Inv, TypeOK
    <2>3. UserWords' = UserWords \ Contract!Block(ptr)
      <3>1. ASSUME NEW c \in UserWords' PROVE c \in UserWords \ Contract!Block(ptr)
        <4>1. PICK p \in DOMAIN live : /\ p # ptr /\ p <= c /\ c <= p - 1 + live[p]
                                       /\ c \in 0 .. (f_size - 1)
          BY <1>2, <2>1 DEF UserWords
        <4>2. c \in Int
          BY <4>1
        <4>3. ~(ptr - 1 <= c /\ c <= ptr - 1 + live[ptr])
          BY <1>1, <2>1, <2>2, <4>1, <4>2, BlocksApart DEF Inv, HInv
        <4> QED
          BY <2>1, <2>2, <4>1, <4>2, <4>3 DEF UserWords, Contract!Block
      <3>2. ASSUME NEW c \in UserWords, c \notin Contract!Block(ptr) PROVE c \in UserWords'
        <4>1. PICK p \in DOMAIN live : /\ p <= c /\ c <= p - 1 + live[p]
                                       /\ c \in 0 .. (f_size - 1)
          BY DEF UserWords
        <4>2. p # ptr
          BY <2>2, <3>2, <4>1 DEF Contract!Block
        <4> QED
          BY <1>2, <2>1, <4>1, <4>2 DEF UserWords
      <3> QED
        BY <3>1, <3>2
    <2>4. [c \in UserWords' |-> mem'[c]] =
             [c \in DOMAIN [x \in UserWords |-> mem[x]] \ Contract!Block(ptr)
                 |-> [x \in UserWords |-> mem[x]][c]]
      BY <1>2, <2>3
    <2> QED
      BY <1>2, <2>1, <2>4 DEF Contract!Release, Contract!Blocks
  <1>5. UNCHANGED live \/ \E ptr \in DOMAIN live \cup {p \in stale : ~Used(p - 1)} \cup {NULL} :
             live' = [p \in DOMAIN live \ {ptr} |-> live[p]]
    BY DEF my_free
  <1>6. ASSUME NEW ptr, ptr \notin DOMAIN live,
               live' = [p \in DOMAIN live \ {ptr} |-> live[p]]
        PROVE  live' = live
    <2>1. live = [p \in DOMAIN live |-> live[p]]
      BY DEF Inv, TypeOK
    <2>2. DOMAIN live \ {ptr} = DOMAIN live
      BY <1>6
    <2> QED
      BY <1>6, <2>1, <2>2
  <1> QED
    BY <1>3, <1>4, <1>5, <1>6

LEMMA FreeDoneRefines == Inv /\ my_free_done => UNCHANGED Contract!vars
  <1> SUFFICES ASSUME Inv, my_free_done PROVE UNCHANGED Contract!vars
    OBVIOUS
  <1>1. /\ pc = "coalesce" /\ pc' = "idle" /\ UNCHANGED <<f_size, live>>
        /\ mem' = [mem EXCEPT ![aligned_ptr] = -empty_space]
        /\ mem \in [0 .. (f_size - 1) -> Int]
    BY DEF my_free_done, Inv, TypeOK
  <1>2. aligned_ptr \in Nat /\ ~Used(aligned_ptr)
    BY <1>1 DEF Inv, TypeOK, HeapIntact, FreePosition
  <1>3. ASSUME NEW c \in UserWords PROVE mem'[c] = mem[c]
    <2>1. PICK p \in DOMAIN live : p <= c /\ c <= p - 1 + live[p]
      BY DEF UserWords
    <2>2. p \in Nat /\ c \in 0 .. (f_size - 1)
      BY DEF Inv, TypeOK, UserWords
    <2>3. c # aligned_ptr
      BY <1>2, <2>1, <2>2 DEF Used
    <2> QED
      BY <1>1, <2>2, <2>3
  <1>4. UserWords' = UserWords
    BY <1>1 DEF UserWords
  <1> QED
    BY <1>1, <1>3, <1>4 DEF Contract!vars

LEMMA StoreRefines == Inv /\ client_store => Contract!Store
  <1> SUFFICES ASSUME Inv, client_store PROVE Contract!Store
    OBVIOUS
  <1>1. PICK c \in UserWords, d \in Data : mem' = [mem EXCEPT ![c] = d]
    BY DEF client_store
  <1>2. /\ pc = "idle" /\ UNCHANGED <<pc, f_size, live, size>>
        /\ mem \in [0 .. (f_size - 1) -> Int]
    BY DEF client_store, locals, Inv, TypeOK
  <1>3. UserWords' = UserWords /\ UserWords \subseteq 0 .. (f_size - 1)
    BY <1>2 DEF UserWords
  <1>4. \A x \in UserWords \ {c} : mem'[x] = mem[x]
    BY <1>1, <1>2, <1>3
  <1> QED
    BY <1>2, <1>3, <1>4 DEF Contract!Store

LEMMA NextRefines == Inv /\ [Next]_vars => [Contract!Next]_(Contract!vars)
  <1> SUFFICES ASSUME Inv, [Next]_vars PROVE [Contract!Next]_(Contract!vars)
    OBVIOUS
  <1>1. CASE UNCHANGED vars
    BY <1>1 DEF vars, Contract!vars, UserWords
  <1>2. CASE find_first_empty_gap
    <2>1. pc = "scan" /\ pc' = "scan" /\ UNCHANGED <<f_size, mem, live, size>>
      <3>1. PICK H \in SUBSET (0 .. (f_size - 1)) : HInv(H)
        BY DEF Inv, HeapIntact, HInv
      <3>2. i \in H
        BY <1>2, <3>1 DEF HInv, ScanPosition, find_first_empty_gap, Inv, TypeOK
      <3>3. mem[i] # 0
        BY <3>1, <3>2 DEF HInv, Headers
      <3> QED
        BY <1>2, <3>3 DEF find_first_empty_gap
    <2> QED
      BY <2>1 DEF Contract!vars, UserWords
  <1>3. CASE my_free_coalesce
    BY <1>3 DEF my_free_coalesce, Contract!vars, UserWords
  <1>4. CASE stopped
    BY <1>1, <1>4 DEF stopped
  <1> QED
    BY <1>1, <1>2, <1>3, <1>4, InitializeRefines, FinalizeRefines, MallocRefines, FoundRefines,
       NullRefines, FreeRefines, FreeDoneRefines, StoreRefines
       DEF Next, Call, Contract!Next

\* Every behaviour of my_malloc and my_free is one of the abstract heap: a
\* request gets the lowest place that fits, NULL means that nothing fits,
\* and the words of a held block change only when their owner stores.
THEOREM ImplementsContract == Spec => HeapPromise
  <1>1. Spec => []Inv
    BY InitInv, NextInv, PTL DEF Spec
  <1> QED
    BY <1>1, ContractInit, NextRefines, PTL DEF Spec, HeapPromise, Contract!Spec
=============================================================================
