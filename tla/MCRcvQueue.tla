----------------------------- MODULE MCRcvQueue -----------------------------
(* Small instances of RcvQueue. *)
EXTENDS RcvQueue
=============================================================================
