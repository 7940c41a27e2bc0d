----------------------------- MODULE MCFileServer -----------------------------
(* Two connections, descriptors for one leak, requests of up to two pieces   *)
(* of head, files of up to two pieces.                                       *)
EXTENDS FileServer
=============================================================================
