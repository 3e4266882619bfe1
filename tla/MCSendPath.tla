----------------------------- MODULE MCSendPath -----------------------------
(* Small instances of SendPath. *)
EXTENDS SendPath

CONSTANTS owner, app
=============================================================================
