----------------------------- MODULE MCSensors -----------------------------
(***************************************************************************)
(* Two ADCs, of which one has fewer channels, and two thermocouples.       *)
(***************************************************************************)
EXTENDS Sensors

MCAdcs == <<<<"temp0", "pressure4", "pressure2">>, <<"thrust0">>>>
MCTopics == <<"temp2", "temp3">>
MCForces == {-3, 5}
=============================================================================
