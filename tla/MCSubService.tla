---------------------------- MODULE MCSubService ----------------------------
(* Small instances of SubService. *)
EXTENDS SubService
=============================================================================
