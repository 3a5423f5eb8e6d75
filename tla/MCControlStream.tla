-------------------------- MODULE MCControlStream --------------------------
(***************************************************************************)
(* Two actuator requests and an arming request, with bytes that are also   *)
(* types and subtypes, so that a stream out of step is full of headers.    *)
(***************************************************************************)
EXTENDS ControlStream

MCBodies == {<<2, 1>>, <<0, 0>>, <<1>>}
=============================================================================
