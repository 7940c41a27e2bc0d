------------------------------ MODULE SwapAlloc ------------------------------
(***************************************************************************)
(* The first-fit allocator in a mapped swap file                           *)
(* (inf10-3-posix_mmap_swap-file-mem-allocator).  The file is an array of  *)
(* f_size words; the first word of a block is its header, +length for a    *)
(* used block and -length for a free one, and everything between headers   *)
(* is the owner's data or garbage left by former owners.  The two loops    *)
(* (the scan of find_first_empty_gap and the coalescing of my_free) run    *)
(* one iteration per step.                                                 *)
(***************************************************************************)
EXTENDS Integers

CONSTANTS
    FileBytes,  \* sizes in bytes of the files the allocator may be given
    PageBytes,  \* the page size of the machine
    WordBytes,  \* sizeof(pointer_t)
    IntLimit,   \* 2^31: a pointer_t holds -IntLimit .. IntLimit - 1
    Requests,   \* byte counts the client asks for
    Data        \* words the client stores in its blocks

\* pointer_t and size_t conversions do not wrap on these inputs.
ASSUME SizesAssumption ==
    /\ PageBytes \in Nat \ {0} /\ WordBytes \in Nat \ {0}
    /\ IntLimit \in Nat
    /\ FileBytes \subseteq Nat
    /\ \A b \in FileBytes : b \div WordBytes < IntLimit
    /\ Requests \subseteq Nat
    /\ \A b \in Requests \ {0} : (b - 1) \div WordBytes + 1 \in 1 .. (IntLimit - 1)
    /\ Data \subseteq Int

VARIABLES
    pc,           \* where the program is
    f_size,       \* words in the mapped file
    mem,          \* the words at mymalloc_ptr
    live,         \* history: user words of every block the client holds
    stale,        \* history: pointers the client has already freed
    size, i, max_gap,          \* locals of my_malloc and find_first_empty_gap
    aligned_ptr, empty_space   \* locals of my_free

locals == <<size, i, max_gap, aligned_ptr, empty_space>>
vars == <<pc, f_size, mem, live, stale, size, i, max_gap, aligned_ptr, empty_space>>

NULL == -1

TypeOK ==
    /\ pc \in {"unmapped", "idle", "scan", "coalesce", "exit", "fault", "segv"}
    /\ f_size \in Nat
    /\ mem \in [0 .. (f_size - 1) -> Int]
    /\ DOMAIN live \subseteq Nat \ {0}
    /\ live \in [DOMAIN live -> Nat]
    /\ stale \subseteq Nat \ {0}
    /\ size \in Nat /\ i \in Nat /\ max_gap \in Nat
    /\ aligned_ptr \in Nat /\ empty_space \in Nat

\* A word that belongs to a block the client holds, its header included.
Used(c) == \E p \in DOMAIN live : p - 1 <= c /\ c <= p - 1 + live[p]

\* Words the client may write.
UserWords == {c \in 0 .. (f_size - 1) :
                \E p \in DOMAIN live : p <= c /\ c <= p - 1 + live[p]}

NoBlocks == [p \in {} |-> 0]
NoLocals == size = 0 /\ i = 0 /\ max_gap = 0 /\ aligned_ptr = 0 /\ empty_space = 0
ClearLocals ==
    size' = 0 /\ i' = 0 /\ max_gap' = 0 /\ aligned_ptr' = 0 /\ empty_space' = 0

Init ==
    /\ pc = "unmapped" /\ f_size = 0 /\ mem = [c \in {} |-> 0]
    /\ live = NoBlocks /\ stale = {} /\ NoLocals

-----------------------------------------------------------------------------
(* myalloc_initialize, myalloc_finalize *)

RoundUpToPage(b) == ((b + PageBytes - 1) \div PageBytes) * PageBytes

\* mmap may fail, and does for an empty file; its length argument is f_size
\* WORDS taken as bytes, so that a file larger than a page is cleared past
\* the end of the mapping.
myalloc_initialize ==
    /\ pc = "unmapped"
    /\ \E bytes \in FileBytes :
         LET words == bytes \div WordBytes IN
         \/ /\ pc' = "exit"
            /\ UNCHANGED <<f_size, mem>>
         \/ /\ words > 0
            /\ words * WordBytes > RoundUpToPage(words)
            /\ pc' = "fault"
            /\ UNCHANGED <<f_size, mem>>
         \/ /\ words > 0
            /\ words * WordBytes <= RoundUpToPage(words)
            /\ pc' = "idle"
            /\ f_size' = words
            /\ mem' = [c \in 0 .. (words - 1) |-> IF c = 0 THEN -words ELSE 0]
    /\ UNCHANGED <<live, stale, locals>>

myalloc_finalize ==
    \/ /\ pc = "idle"
       /\ pc' = "unmapped"
       /\ f_size' = 0 /\ mem' = [c \in {} |-> 0]
       /\ live' = NoBlocks /\ stale' = {}
       /\ UNCHANGED locals
    \/ /\ pc = "unmapped"
       /\ pc' = "exit"
       /\ UNCHANGED <<f_size, mem, live, stale, locals>>

-----------------------------------------------------------------------------
(* my_malloc.  Operators named bug_ are mutants of the definition that      *)
(* follows them: they show that the properties notice such a slip.         *)

\* The length of the free block at c.
FreeLength(c) == -mem[c]

bug_LeavesRest(gap_size) == size + 1 < gap_size

\* The gap is larger than the block, so that the rest needs a header.
LeavesRest(gap_size) == size < gap_size

bug_align_bytes(bytes_count) == bytes_count \div WordBytes

align_bytes(bytes_count) ==
    IF bytes_count = 0 THEN 0 ELSE (bytes_count - 1) \div WordBytes + 1

my_malloc ==
    /\ pc = "idle"
    /\ \E bytes \in Requests :
         IF bytes = 0
         THEN UNCHANGED vars
         ELSE /\ size' = align_bytes(bytes) + 1
              /\ i' = 0 /\ max_gap' = 0
              /\ pc' = "scan"
              /\ UNCHANGED <<f_size, mem, live, stale, aligned_ptr, empty_space>>

\* The loop of find_first_empty_gap passes the block at i.
find_first_empty_gap ==
    /\ pc = "scan" /\ i < f_size
    /\ \/ /\ mem[i] >= 0
          /\ max_gap' = 0
          /\ i' = i + mem[i]
          /\ pc' = IF mem[i] = 0 THEN "segv" ELSE "scan"
       \/ /\ mem[i] < 0
          /\ max_gap + FreeLength(i) < size
          /\ max_gap' = max_gap + FreeLength(i)
          /\ i' = i + FreeLength(i)
          /\ UNCHANGED pc
    /\ UNCHANGED <<f_size, mem, live, stale, size, aligned_ptr, empty_space>>

\* The gap that ends with the block at i is large enough: split it.
my_malloc_found ==
    /\ pc = "scan" /\ i < f_size
    /\ mem[i] < 0 /\ max_gap + FreeLength(i) >= size
    /\ LET gap_size == max_gap + FreeLength(i)
           gap_idx  == i - max_gap
       IN /\ mem' = [c \in 0 .. (f_size - 1) |->
                       IF c = gap_idx THEN size
                       ELSE IF c = gap_idx + size /\ LeavesRest(gap_size)
                       THEN -(gap_size - size)
                       ELSE mem[c]]
          /\ live' = [p \in DOMAIN live \cup {gap_idx + 1} |->
                       IF p = gap_idx + 1 THEN size - 1 ELSE live[p]]
    /\ pc' = "idle"
    /\ ClearLocals
    /\ UNCHANGED <<f_size, stale>>

\* Not enough empty space: my_malloc returns NULL.
my_malloc_null ==
    /\ pc = "scan" /\ i >= f_size
    /\ pc' = "idle"
    /\ ClearLocals
    /\ UNCHANGED <<f_size, mem, live, stale>>

-----------------------------------------------------------------------------
(* my_free *)

\* The client frees a block it holds, frees one again, or passes NULL.  A
\* second my_free is the client's error once the word in front of the
\* pointer belongs to another block of its own, and is not taken then.
my_free ==
    /\ pc = "idle"
    /\ \E ptr \in DOMAIN live \cup {p \in stale : ~Used(p - 1)} \cup {NULL} :
         IF ptr < 0 \/ ptr >= f_size
         THEN /\ pc' = "exit"
              /\ UNCHANGED <<live, stale, aligned_ptr, empty_space>>
         ELSE IF mem[ptr - 1] <= 0
         THEN UNCHANGED <<pc, live, stale, aligned_ptr, empty_space>>
         ELSE /\ pc' = "coalesce"
              /\ aligned_ptr' = ptr - 1
              /\ empty_space' = mem[ptr - 1]
              /\ live' = [p \in DOMAIN live \ {ptr} |-> live[p]]
              /\ stale' = stale \cup {ptr}
    /\ UNCHANGED <<f_size, mem, size, i, max_gap>>

bug_NextIsFree ==
    aligned_ptr + empty_space < f_size /\ mem[aligned_ptr + empty_space] <= 0

NextIsFree ==
    aligned_ptr + empty_space < f_size /\ mem[aligned_ptr + empty_space] < 0

my_free_coalesce ==
    /\ pc = "coalesce" /\ NextIsFree
    /\ empty_space' = empty_space + FreeLength(aligned_ptr + empty_space)
    /\ UNCHANGED <<pc, f_size, mem, live, stale, size, i, max_gap, aligned_ptr>>

my_free_done ==
    /\ pc = "coalesce" /\ ~NextIsFree
    /\ mem' = [mem EXCEPT ![aligned_ptr] = -empty_space]
    /\ pc' = "idle"
    /\ ClearLocals
    /\ UNCHANGED <<f_size, live, stale>>

-----------------------------------------------------------------------------
(* The client *)

\* The owner of a word stores anything in it.
client_store ==
    /\ pc = "idle"
    /\ \E c \in UserWords, d \in Data : mem' = [mem EXCEPT ![c] = d]
    /\ UNCHANGED <<pc, f_size, live, stale, locals>>

\* The process has exited or was killed.
stopped ==
    /\ pc \in {"exit", "fault", "segv"}
    /\ UNCHANGED vars

Call == find_first_empty_gap \/ my_malloc_found \/ my_malloc_null
            \/ my_free_coalesce \/ my_free_done

Next == myalloc_initialize \/ myalloc_finalize \/ my_malloc \/ my_free
            \/ Call \/ client_store \/ stopped

Spec == Init /\ [][Next]_vars

\* A call that has been entered runs on: the allocator blocks nowhere.
FairSpec == Spec /\ WF_vars(Call)

-----------------------------------------------------------------------------
(* Properties *)

Abs(x) == IF x < 0 THEN -x ELSE x

\* H is the set of headers: they tile the file, and the positive ones are
\* those of the blocks the client holds (and of the one being freed).
Headers(H) ==
    /\ H \subseteq 0 .. (f_size - 1)
    /\ f_size > 0 => 0 \in H
    /\ \A h \in H : /\ mem[h] # 0
                    /\ h + Abs(mem[h]) \in H \cup {f_size}
                    /\ \A g \in H : g > h => g >= h + Abs(mem[h])
    /\ \A p \in DOMAIN live : /\ p - 1 \in H
                              /\ live[p] > 0
                              /\ mem[p - 1] = live[p] + 1
    /\ \A h \in H : mem[h] > 0 =>
          h + 1 \in DOMAIN live \/ (pc = "coalesce" /\ h = aligned_ptr)

\* While my_malloc scans: i is a header or the end, the max_gap words before
\* it are free and start at a header, the word before those is used, and no
\* interval of size words below i is free.
ScanPosition(H) ==
    pc = "scan" =>
      /\ size > 1
      /\ i \in H \cup {f_size}
      /\ max_gap < size
      /\ i - max_gap \in H \cup {f_size}
      /\ \A c \in (i - max_gap) .. (i - 1) : ~Used(c)
      /\ i - max_gap > 0 => Used(i - max_gap - 1)
      /\ \A s \in 0 .. (i - size) : \E c \in s .. (s + size - 1) : Used(c)

\* While my_free coalesces: the blocks that follow aligned_ptr, up to
\* empty_space words, are free; or the header is garbage inside a free
\* block (a second my_free of the same pointer).
FreePosition(H) ==
    pc = "coalesce" =>
      /\ aligned_ptr < f_size
      /\ ~Used(aligned_ptr)
      /\ empty_space > 0
      /\ aligned_ptr \in H =>
            /\ mem[aligned_ptr] > 0
            /\ empty_space >= mem[aligned_ptr]
            /\ aligned_ptr + empty_space \in H \cup {f_size}
            /\ \A h \in H : aligned_ptr < h /\ h < aligned_ptr + empty_space
                               => mem[h] < 0

\* The heap can always be walked from header to header, whatever the client
\* stores in its words and however often it frees a pointer: blocks tile the
\* file, no held block lost its header, and the "Segmentation error" exit of
\* find_first_empty_gap is never taken.
HeapIntact ==
    /\ pc # "segv"
    /\ pc = "unmapped" => f_size = 0
    /\ pc \in {"idle", "scan", "coalesce"} => f_size > 0
    /\ \E H \in SUBSET (0 .. (f_size - 1)) :
          Headers(H) /\ ScanPosition(H) /\ FreePosition(H)

Contract == INSTANCE HeapContract WITH
    n        <- f_size,
    contents <- [c \in UserWords |-> mem[c]],
    request  <- IF pc = "scan" THEN size ELSE 0

\* my_malloc answers with the lowest place that holds the bytes asked for,
\* returns NULL only when there is none (so free space is never lost to
\* fragmented headers), and no call changes a word of a held block.
HeapPromise == Contract!Spec

\* The scan and the coalescing loop of a call always come to an end.
CallsReturn == pc \in {"scan", "coalesce"} ~> pc = "idle"
=============================================================================
