-------------------------------- MODULE MCFuse --------------------------------
(* Images of up to two files of up to four bytes; two directories with two *)
(* names and a hidden one, three times (one of them for no file), tables of  *)
(* one and two names.  The two names that are not hidden are interchangeable. *)
EXTENDS Fuse

CONSTANTS n1, n2, dot

MCNames      == {n1, n2, dot}
MCHidden     == {dot}
MCCapacities == {1, 2}
MCSymmetry   == Permutations({n1, n2})
=============================================================================
