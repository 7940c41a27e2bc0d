--------------------------- MODULE MCAtomicList ---------------------------
(* Both programs with up to 3 threads of up to 2 values.                   *)
EXTENDS AtomicList

MCMaxN == 3
MCMaxK == 2
===========================================================================
