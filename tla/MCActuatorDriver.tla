-------------------------- MODULE MCActuatorDriver --------------------------
(***************************************************************************)
(* One GPIO actuator and the two channels of the PWM device.               *)
(***************************************************************************)
EXTENDS ActuatorDriver

MCGpio == {"valve"}
MCPwm  == {"dump", "qd"}
=============================================================================
