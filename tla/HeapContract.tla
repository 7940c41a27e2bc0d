---------------------------- MODULE HeapContract ----------------------------
(***************************************************************************)
(* What a client of the swap-file allocator may rely on, with no headers,  *)
(* no scan and no coalescing: a file of n words, in which each block owns  *)
(* one bookkeeping word in front of its user words.  A request is answered *)
(* by the lowest place where it fits, it is refused only when it fits      *)
(* nowhere, and nobody but the owner changes the words of a block.         *)
(***************************************************************************)
EXTENDS Integers

CONSTANTS
    Requests,   \* byte counts the client asks for
    WordBytes   \* bytes in a word

VARIABLES
    n,         \* words in the mapped file, 0 when no file is mapped
    live,      \* live[p]: user words of the block handed out at word p
    contents,  \* what the owners stored in their words
    request    \* words wanted by the call in progress (its bookkeeping word
               \* included), 0 when there is none

vars == <<n, live, contents, request>>

Blocks   == DOMAIN live
Block(p) == (p - 1) .. (p - 1 + live[p])
Taken(c) == \E p \in Blocks : c \in Block(p)

\* The interval of w words at word s overlaps no block.
Vacant(s, w) == \A c \in s .. (s + w - 1) : ~Taken(c)

Init ==
    /\ n = 0 /\ request = 0
    /\ live = [p \in {} |-> 0]
    /\ contents = [c \in {} |-> 0]

Open ==
    /\ n = 0
    /\ n' \in Nat \ {0}
    /\ UNCHANGED <<live, contents, request>>

\* The fewest words that hold the bytes, and the bookkeeping word.
Ask ==
    /\ n > 0 /\ request = 0
    /\ request' \in Nat
    /\ \E bytes \in Requests \ {0} :
          /\ (request' - 1) * WordBytes >= bytes
          /\ (request' - 2) * WordBytes < bytes
    /\ UNCHANGED <<n, live, contents>>

\* First fit: the lowest vacant interval, its previous contents unspecified.
Grant ==
    /\ request > 0
    /\ \E s \in 0 .. (n - request) :
          /\ Vacant(s, request)
          /\ \A t \in 0 .. (s - 1) : ~Vacant(t, request)
          /\ live' = [p \in Blocks \cup {s + 1} |->
                         IF p = s + 1 THEN request - 1 ELSE live[p]]
          /\ DOMAIN contents' = DOMAIN contents \cup (s + 1) .. (s + request - 1)
          /\ \A c \in DOMAIN contents : contents'[c] = contents[c]
    /\ request' = 0
    /\ UNCHANGED n

Refuse ==
    /\ request > 0
    /\ \A s \in 0 .. (n - request) : ~Vacant(s, request)
    /\ request' = 0
    /\ UNCHANGED <<n, live, contents>>

Release ==
    /\ request = 0
    /\ \E p \in Blocks :
          /\ live' = [q \in Blocks \ {p} |-> live[q]]
          /\ contents' = [c \in DOMAIN contents \ Block(p) |-> contents[c]]
    /\ UNCHANGED <<n, request>>

Store ==
    /\ request = 0
    /\ DOMAIN contents' = DOMAIN contents
    /\ \E c \in DOMAIN contents :
          \A x \in DOMAIN contents \ {c} : contents'[x] = contents[x]
    /\ UNCHANGED <<n, live, request>>

Close ==
    /\ n > 0 /\ request = 0
    /\ n' = 0
    /\ live' = [p \in {} |-> 0]
    /\ contents' = [c \in {} |-> 0]
    /\ UNCHANGED request

Next == Open \/ Ask \/ Grant \/ Refuse \/ Release \/ Store \/ Close

Spec == Init /\ [][Next]_vars
=============================================================================
