----------------------------- MODULE MCRecvPath -----------------------------
(* Small instances of RecvPath. *)
EXTENDS RecvPath
=============================================================================
