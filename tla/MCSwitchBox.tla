---------------------------- MODULE MCSwitchBox ----------------------------
(***************************************************************************)
(* The quick disconnect, which moves the level twice on the way, and the   *)
(* switches of ARMED_VALVES (the key) and ARMED_IGNITION.                  *)
(***************************************************************************)
EXTENDS SwitchBox

MCSwitches ==
    <<[kind |-> "act", act_id |-> 0, pin |-> TRUE],
      [kind |-> "arm", act_id |-> ARMED_VALVES, pin |-> TRUE],
      [kind |-> "arm", act_id |-> ARMED_IGNITION, pin |-> TRUE]>>

MCRequests == {RequestOf(i, on) : i \in DOMAIN MCSwitches, on \in BOOLEAN}
=============================================================================
