---------------------------- MODULE MCHeartbeat ----------------------------
(* Small instances of Heartbeat. *)
EXTENDS Heartbeat

\* The clock is set by more than the interval of a verification.
TwoEitherWay == {-2, 2}
=============================================================================
