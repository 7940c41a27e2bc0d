---------------------------- MODULE MCSwapAlloc ----------------------------
(* Files of 0, 4, 6 and 10 words with pages of 32 bytes: the first cannot  *)
(* be mapped and the last is larger than a page.                           *)
EXTENDS SwapAlloc

MCFileBytes == {3, 16, 27, 40}
MCPageBytes == 32
MCWordBytes == 4
MCIntLimit  == 16
MCRequests  == {0, 1, 5, 12, 60}
MCData      == {-2, 0, 3}
=============================================================================
