----------------------------- MODULE MCProcesses -----------------------------
(* Pipelines of up to four programs, so that descriptor 0 is used again both *)
(* for a pipe that is read and for one that is not; outputs below, at and    *)
(* above what a pipe holds; three signals, so that one can follow a late one.*)
EXTENDS Processes
=============================================================================
