------------------------------ MODULE MCPrimes ------------------------------
(* Intervals with no, one and several primes, with as many numbers wanted  *)
(* as there are, fewer, more and none; 25 and 49 need the largest divisor. *)
EXTENDS Primes

MCArgs == {0, 2, 3, 8} \X {1, 5, 10} \X (0 .. 4) \cup {<<22, 29, 2>>, <<46, 53, 2>>}
=============================================================================
