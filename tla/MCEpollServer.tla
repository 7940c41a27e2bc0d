---------------------------- MODULE MCEpollServer ----------------------------
(* Two clients of up to three bytes; a socket holds two bytes, a buffer two.  *)
EXTENDS EpollServer

MCConnectionLimits == {1, 2}
=============================================================================
