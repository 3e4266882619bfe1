----------------------------- MODULE MCSocketFd -----------------------------
(* Small instances of SocketFd. *)
EXTENDS SocketFd

CONSTANTS c1, c2
=============================================================================
