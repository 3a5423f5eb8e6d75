---------------------------- MODULE MCControlLink ----------------------------
(***************************************************************************)
(* One actuation request and one arming request.  The id of the actuator   *)
(* reads as the status ACT_DENIED or ARM_DENIED.                           *)
(***************************************************************************)
EXTENDS ControlLink

MCRequests == {[kind |-> "act", id |-> 1], [kind |-> "arm", id |-> 0]}
=============================================================================
