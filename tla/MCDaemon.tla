------------------------------ MODULE MCDaemon ------------------------------
(* The model-checking instances of Daemon.  Requests are numbered in the    *)
(* order they are sent, so that session 1, the slow one, is what the first  *)
(* request opens.                                                           *)
EXTENDS Daemon

Others == 2 .. MaxRequests
=============================================================================
