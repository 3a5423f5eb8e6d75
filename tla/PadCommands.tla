----------------------------- MODULE PadCommands -----------------------------
(***************************************************************************)
(* What the control connection of the pad server promises: requests are    *)
(* executed one at a time, each at one instant, and answered in order.     *)
(* PadServer, whose controller thread takes many steps per request while   *)
(* a telemetry thread looks on, is shown to implement this specification.  *)
(***************************************************************************)
EXTENDS PadRules

CONSTANT Requests    \* the requests clients send

ASSUME RequestAssumption == Requests \subseteq AllRequests

VARIABLES
    level,     \* padstate_t.arm_level
    conn,      \* padstate_t.conn_status
    act,       \* the recorded state of every actuator
    answer     \* the acknowledgement still owed to the client, or NoAnswer

vars == <<level, conn, act, answer>>

NoAnswer   == [kind |-> "none"]
Reply(r, st) == [kind |-> "ack", req |-> r, status |-> st]

TypeOK ==
    /\ level \in Levels
    /\ conn \in ConnStatus
    /\ act \in [Actuators -> BOOLEAN]
    /\ answer \in {NoAnswer} \cup {Reply(r, st) : r \in Requests, st \in Statuses}

Init ==
    /\ level = ARMED_PAD
    /\ conn = CONN_RECONNECTING
    /\ act = [i \in Actuators |-> FALSE]
    /\ answer = NoAnswer

Connect ==
    /\ conn = CONN_RECONNECTING
    /\ conn' = CONN_CONNECTED
    /\ UNCHANGED <<level, act, answer>>

Disconnect ==
    /\ conn = CONN_CONNECTED
    /\ answer = NoAnswer
    /\ conn' = CONN_RECONNECTING
    /\ UNCHANGED <<level, act, answer>>

Ready == conn = CONN_CONNECTED /\ answer = NoAnswer

Arm(r) ==
    /\ Ready
    /\ r.kind = "arm"
    /\ level' = IF ArmStatus(level, r.level) = ARM_OK THEN r.level ELSE level
    /\ answer' = Reply(r, ArmStatus(level, r.level))
    /\ UNCHANGED <<conn, act>>

(***************************************************************************)
(* An accepted actuation moves the actuator and, for the quick disconnect  *)
(* and the igniter, the arming level, at once.  A driver that fails leaves *)
(* everything as it was and sends no answer: a stuttering step.            *)
(***************************************************************************)
Actuate(r) ==
    /\ Ready
    /\ r.kind = "act"
    /\ ActStatus(level, r.id, r.state) = ACT_OK
    /\ act' = [act EXCEPT ![r.id] = (r.state # 0)]
    /\ level' = LevelAfter(level, r.id, r.state)
    /\ answer' = Reply(r, ACT_OK)
    /\ UNCHANGED conn

Refuse(r) ==
    /\ Ready
    /\ r.kind = "act"
    /\ ActStatus(level, r.id, r.state) # ACT_OK
    /\ answer' = Reply(r, ActStatus(level, r.id, r.state))
    /\ UNCHANGED <<level, conn, act>>

SendAnswer ==
    /\ answer # NoAnswer
    /\ answer' = NoAnswer
    /\ UNCHANGED <<level, conn, act>>

Next ==
    \/ Connect
    \/ Disconnect
    \/ \E r \in Requests : Arm(r) \/ Actuate(r) \/ Refuse(r)
    \/ SendAnswer

Spec == Init /\ [][Next]_vars

-----------------------------------------------------------------------------
(* Properties.                                                             *)

TurnsOn(i)  == i \in Actuators /\ ~act[i] /\ act'[i]
TurnsOff(i) == i \in Actuators /\ act[i] /\ ~act'[i]

(***************************************************************************)
(* The two actuators that advance the firing sequence always advance it,   *)
(* and to their own level: padstate_change_level, whose result pad_actuate *)
(* throws away (state.c:322, state.c:336), never refuses an advance.       *)
(***************************************************************************)
ActuationAdvances ==
    [][/\ TurnsOn(ID_QUICK_DISCONNECT) => level' >= ARMED_DISCONNECTED
       /\ TurnsOn(ID_IGNITER) => level' = ARMED_LAUNCH]_vars

(***************************************************************************)
(* state.c:325: "If we re-connected, move back a level prior", and         *)
(* state.c:339: "If we un-ignited, move back a level prior": turning the   *)
(* quick disconnect or the igniter off undoes the step of the firing       *)
(* sequence that turning it on was.                                        *)
(***************************************************************************)
UndoMovesBack ==
    [][/\ TurnsOff(ID_QUICK_DISCONNECT) /\ level = ARMED_DISCONNECTED => level' = ARMED_IGNITION
       /\ TurnsOff(ID_IGNITER) /\ level = ARMED_LAUNCH => level' = ARMED_DISCONNECTED]_vars
=============================================================================
