----------------------------- MODULE MCFileTools -----------------------------
(* Files of up to five integers of three bits, two of which differ by more    *)
(* than three bits hold; every path of up to seven characters.                *)
EXTENDS FileTools

MCValues == {-4, 0, 3}
MCSizes == {1, 2}
=============================================================================
