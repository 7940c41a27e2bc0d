---------------------------- MODULE PrimeStream ----------------------------
(***************************************************************************)
(* What the prime generators of inf19-1 promise: the primes of A .. B are  *)
(* printed one after another, at most N of them, with no prime left out,   *)
(* repeated or out of order.                                               *)
(***************************************************************************)
EXTENDS Integers, Sequences

VARIABLES
    A, B, N,   \* the interval and the number of primes wanted
    out        \* what has been printed

vars == <<A, B, N, out>>

IsPrime(x) == x > 1 /\ \A d \in 2 .. (x - 1) : x % d # 0

\* The primes of the interval that come after those already printed.
Left == {x \in A .. B : IsPrime(x) /\ \A i \in 1 .. Len(out) : out[i] < x}

Init ==
    /\ A \in Nat /\ B \in Nat /\ N \in Nat
    /\ out = <<>>

Emit ==
    /\ Len(out) < N
    /\ \E x \in Left : /\ \A y \in Left : x <= y
                       /\ out' = Append(out, x)
    /\ UNCHANGED <<A, B, N>>

Spec == Init /\ [][Emit]_vars
=============================================================================
