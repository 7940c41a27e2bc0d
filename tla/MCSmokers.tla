----------------------------- MODULE MCSmokers -----------------------------
(* Every input of up to two commands.                                      *)
EXTENDS Smokers

MCMaxInput == 2
=============================================================================
