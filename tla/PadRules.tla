------------------------------ MODULE PadRules ------------------------------
(***************************************************************************)
(* The rules the pad server decides by: which arming levels follow which,  *)
(* which actuator may be commanded at which level, and which arming level  *)
(* an actuation leads to (pad_server/src/state.c, packets/packet.h).       *)
(* The operators are pure: they are shared by the abstract specification   *)
(* PadCommands and by the thread-level one, PadServer.                     *)
(***************************************************************************)
EXTENDS Integers

CONSTANTS
    NUM_ACTUATORS,        \* state.h:18 (15 in the code)
    ID_IGNITER,           \* the actuators the rules single out, actuator.h:9-26
    ID_QUICK_DISCONNECT,
    ID_FIRE_VALVE,
    ID_DUMP,
    ID_XV                 \* the ids ID_XV1 .. ID_XV12, the fire valve among them

Special == {ID_IGNITER, ID_QUICK_DISCONNECT, ID_FIRE_VALVE, ID_DUMP}

ASSUME ActuatorAssumption ==
    /\ NUM_ACTUATORS \in Nat \ {0}
    /\ Special \subseteq Nat
    /\ ID_XV \subseteq Nat
    /\ ID_XV \cap {ID_IGNITER, ID_QUICK_DISCONNECT, ID_DUMP} = {}
    /\ ID_IGNITER # ID_QUICK_DISCONNECT
    /\ ID_DUMP \notin {ID_IGNITER, ID_QUICK_DISCONNECT, ID_FIRE_VALVE}
    /\ ID_FIRE_VALVE \notin {ID_IGNITER, ID_QUICK_DISCONNECT}

Actuators == 0 .. NUM_ACTUATORS - 1

(***************************************************************************)
(* arm_lvl_e, conn_status_e, act_ack_status_e and arm_ack_status_e.        *)
(***************************************************************************)
ARMED_PAD          == 0
ARMED_VALVES       == 1
ARMED_IGNITION     == 2
ARMED_DISCONNECTED == 3
ARMED_LAUNCH       == 4
Levels             == ARMED_PAD .. ARMED_LAUNCH

CONN_CONNECTED    == 0
CONN_RECONNECTING == 1
CONN_DISCONNECTED == 2
ConnStatus        == {CONN_CONNECTED, CONN_RECONNECTING, CONN_DISCONNECTED}

ACT_OK     == 0
ACT_DENIED == 1
ACT_DNE    == 2
ACT_INV    == 3
ARM_OK     == 0
ARM_DENIED == 1
ARM_INV    == 2
Statuses   == {ACT_OK, ACT_DENIED, ACT_DNE, ACT_INV}

(***************************************************************************)
(* A request as the controller thread decodes it.  Both bodies are bytes.  *)
(***************************************************************************)
Byte        == 0 .. 255
ActRequests == [kind : {"act"}, id : Byte, state : Byte]
ArmRequests == [kind : {"arm"}, level : Byte]
AllRequests == ActRequests \cup ArmRequests

(***************************************************************************)
(* padstate_change_level: one level up, back to ARMED_VALVES from inside   *)
(* the firing sequence, or to ARMED_PAD from anywhere.                     *)
(***************************************************************************)
FiringSequence == {ARMED_IGNITION, ARMED_DISCONNECTED, ARMED_LAUNCH}

\* Faulty variant: any level above will do, not just the next one.
ChangeAllowedSkips(lvl, new) ==
    \/ new > lvl /\ new <= ARMED_LAUNCH
    \/ new = ARMED_VALVES /\ lvl \in FiringSequence
    \/ new = ARMED_PAD

ChangeAllowed(lvl, new) ==
    \/ new = lvl + 1 /\ new <= ARMED_LAUNCH
    \/ new = ARMED_VALVES /\ lvl \in FiringSequence
    \/ new = ARMED_PAD

ArmStatus(lvl, new) ==
    IF new \notin Levels THEN ARM_INV
    ELSE IF ChangeAllowed(lvl, new) THEN ARM_OK ELSE ARM_DENIED

(***************************************************************************)
(* pad_actuate: the checks made before the actuator is driven.  The dump   *)
(* valve skips the check of the requested state and of the level.          *)
(***************************************************************************)
Solenoids == ID_XV \ {ID_FIRE_VALVE}

\* Faulty variant: the case of ARMED_DISCONNECTED falls through.
CommandableFallsThrough(lvl) ==
    CASE lvl = ARMED_PAD      -> {}
      [] lvl = ARMED_VALVES   -> Solenoids
      [] lvl = ARMED_IGNITION -> Solenoids \cup {ID_QUICK_DISCONNECT}
      [] OTHER                -> Actuators

Commandable(lvl) ==
    CASE lvl = ARMED_PAD          -> {}
      [] lvl = ARMED_VALVES       -> Solenoids
      [] lvl = ARMED_IGNITION     -> Solenoids \cup {ID_QUICK_DISCONNECT}
      [] lvl = ARMED_DISCONNECTED -> Solenoids \cup {ID_QUICK_DISCONNECT, ID_IGNITER}
      [] OTHER                    -> Actuators

ActStatus(lvl, id, s) ==
    IF id \notin Actuators THEN ACT_DNE
    ELSE IF id = ID_DUMP THEN ACT_OK
    ELSE IF s \notin {0, 1} THEN ACT_INV
    ELSE IF id \in Commandable(lvl) THEN ACT_OK ELSE ACT_DENIED

(***************************************************************************)
(* pad_actuate, after the actuator was driven: the levels it asks          *)
(* padstate_change_level for (none, or one), and the level that results.   *)
(***************************************************************************)
\* Faulty variant: the igniter advances to the wrong level.
FollowUpWrongLevel(lvl, id, s) ==
    {new \in {ARMED_DISCONNECTED} :
        id \in {ID_QUICK_DISCONNECT, ID_IGNITER} /\ s # 0 /\ lvl < ARMED_DISCONNECTED}

FollowUp(lvl, id, s) ==
    {new \in {ARMED_IGNITION, ARMED_DISCONNECTED, ARMED_LAUNCH} :
        \/ id = ID_QUICK_DISCONNECT /\ s # 0 /\ lvl < ARMED_DISCONNECTED
           /\ new = ARMED_DISCONNECTED
        \/ id = ID_QUICK_DISCONNECT /\ s = 0 /\ new = ARMED_IGNITION
        \/ id = ID_IGNITER /\ s # 0 /\ lvl < ARMED_LAUNCH /\ new = ARMED_LAUNCH
        \/ id = ID_IGNITER /\ s = 0 /\ new = ARMED_DISCONNECTED}

LevelAfter(lvl, id, s) ==
    IF \E new \in FollowUp(lvl, id, s) : ChangeAllowed(lvl, new)
    THEN CHOOSE new \in FollowUp(lvl, id, s) : ChangeAllowed(lvl, new)
    ELSE lvl
=============================================================================
