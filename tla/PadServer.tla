------------------------------ MODULE PadServer ------------------------------
(***************************************************************************)
(* The two threads of the pad server that share the pad state:             *)
(*   - the controller thread (controller.c), which executes the requests   *)
(*     of one client and is the only writer of the pad state;              *)
(*   - the pad-state telemetry thread (telemetry.c), which multicasts a    *)
(*     snapshot of the pad state on every update and as a heartbeat.       *)
(* Their interplay is a mutex, a condition variable and a flag             *)
(* (padstate_signal_update, telemetry_update_padstate).  The read/write    *)
(* lock of state.c protects single reads and writes of one field, so each  *)
(* of its critical sections is part of one step here.                      *)
(***************************************************************************)
EXTENDS PadRules, FiniteSets

CONSTANTS
    Requests,         \* the requests clients send
    LossyNetwork,     \* may a datagram be lost, or sendmsg fail?
    Silence           \* what a listener has heard before the first datagram

ASSUME RequestAssumption == Requests \subseteq AllRequests
ASSUME NetworkAssumption == LossyNetwork \in BOOLEAN

VARIABLES
    level, conn, act,       \* padstate_t: arm_level, conn_status, actuators[].state
    updateMut,              \* holder of update_mut
    updateRecorded,         \* update_recorded
    pcC,                    \* where the controller thread is
    req, status,            \* its request and the outcome of it
    ret,                    \* where padstate_signal_update returns to
    pcT,                    \* where the pad-state telemetry thread is
    timedOut,               \* its err = ETIMEDOUT
    snap, next,             \* the messages it has built, the actuator to read next
    heard,                  \* the last snapshot that reached the listeners
    window                  \* history: the pad states since it began to build

ctrlVars  == <<pcC, req, status, ret>>
telemVars == <<pcT, timedOut, snap, next, heard>>
vars == <<level, conn, act, updateMut, updateRecorded, ctrlVars, telemVars, window>>

PadStates == [level : Levels, conn : ConnStatus, act : [Actuators -> BOOLEAN]]
Pad       == [level |-> level, conn |-> conn, act |-> act]

Free      == "free"
NoRequest == [kind |-> "none"]

CtrlLabels  == {"accept", "recv", "check", "drive", "followup", "lock", "signal", "reply"}
TelemLabels == {"lock", "wait", "relock", "level", "conn", "acts", "publish", "unlock"}
Collecting  == pcT \in {"level", "conn", "acts", "publish", "unlock"}

TypeOK ==
    /\ level \in Levels /\ conn \in ConnStatus /\ act \in [Actuators -> BOOLEAN]
    /\ updateMut \in {Free, "controller", "telemetry"}
    /\ updateRecorded \in BOOLEAN
    /\ pcC \in CtrlLabels
    /\ req \in Requests \cup {NoRequest}
    /\ status \in Statuses
    /\ ret \in {"accept", "recv", "update", "reply"}
    /\ pcT \in TelemLabels
    /\ timedOut \in BOOLEAN
    /\ snap \in PadStates
    /\ next \in Actuators
    /\ heard \in PadStates \cup {Silence}
    /\ window \subseteq PadStates

(***************************************************************************)
(* padstate_init.  Before the first send, snap stands for the state every  *)
(* server starts in.                                                       *)
(***************************************************************************)
Init ==
    /\ level = ARMED_PAD
    /\ conn = CONN_RECONNECTING
    /\ act = [i \in Actuators |-> FALSE]
    /\ updateMut = Free
    /\ updateRecorded = FALSE
    /\ pcC = "accept" /\ req = NoRequest /\ status = ACT_OK /\ ret = "accept"
    /\ pcT = "lock" /\ timedOut = FALSE
    /\ snap = Pad /\ next = 0
    /\ heard = Silence
    /\ window = {}

\* The history variable: remembers every pad state while a snapshot is built.
Observe == window' = IF Collecting THEN window \cup {Pad'} ELSE window

-----------------------------------------------------------------------------
(* The controller thread.                                                  *)

SignalThen(label) == pcC' = "lock" /\ ret' = label

\* controller_accept succeeds; padstate_set_connstatus(CONN_CONNECTED).
C_Accept ==
    /\ pcC = "accept"
    /\ conn' = CONN_CONNECTED
    /\ SignalThen("recv")
    /\ UNCHANGED <<level, act, updateMut, updateRecorded, req, status, telemVars>>
    /\ Observe

\* The header cannot be read: the client is closed and the state says so.
C_Disconnect ==
    /\ pcC = "recv"
    /\ conn' = CONN_RECONNECTING
    /\ SignalThen("accept")
    /\ UNCHANGED <<level, act, updateMut, updateRecorded, req, status, telemVars>>
    /\ Observe

\* A request arrives whole.  Messages of any other type change nothing.
C_Receive(r) ==
    /\ pcC = "recv"
    /\ req' = r
    /\ status' = ACT_OK
    /\ pcC' = "check"
    /\ UNCHANGED <<level, conn, act, updateMut, updateRecorded, ret, telemVars, window>>

\* padstate_change_level for an arming request.
C_Arm ==
    /\ pcC = "check"
    /\ req.kind = "arm"
    /\ status' = ArmStatus(level, req.level)
    /\ IF status' = ARM_OK
       THEN level' = req.level /\ SignalThen("reply")
       ELSE level' = level /\ pcC' = "reply" /\ ret' = ret
    /\ UNCHANGED <<conn, act, updateMut, updateRecorded, req, telemVars>>
    /\ Observe

\* pad_actuate up to the call of actuator_set.
C_CheckActuation ==
    /\ pcC = "check"
    /\ req.kind = "act"
    /\ status' = ActStatus(level, req.id, req.state)
    /\ pcC' = IF status' = ACT_OK THEN "drive" ELSE "reply"
    /\ UNCHANGED <<level, conn, act, updateMut, updateRecorded, req, ret, telemVars, window>>

\* actuator_set succeeds, and records the state it was asked for.
C_Drive ==
    /\ pcC = "drive"
    /\ act' = [act EXCEPT ![req.id] = (req.state # 0)]
    /\ pcC' = "followup"
    /\ UNCHANGED <<level, conn, updateMut, updateRecorded, req, status, ret, telemVars>>
    /\ Observe

\* Faulty variant: the new state is recorded before the error is looked at.
C_DriveFailsRecorded ==
    /\ pcC = "drive"
    /\ act' = [act EXCEPT ![req.id] = (req.state # 0)]
    /\ pcC' = "recv"
    /\ req' = NoRequest
    /\ UNCHANGED <<level, conn, updateMut, updateRecorded, status, ret, telemVars>>
    /\ Observe

\* actuator_set fails: pad_actuate returns -1 and no answer is sent.
C_DriveFails ==
    /\ pcC = "drive"
    /\ pcC' = "recv"
    /\ req' = NoRequest
    /\ UNCHANGED <<level, conn, act, updateMut, updateRecorded, status, ret, telemVars, window>>

\* Faulty variant: the level is assigned, not asked for.
C_FollowUpUnchecked ==
    /\ pcC = "followup"
    /\ \/ \E new \in FollowUp(level, req.id, req.state) : level' = new /\ SignalThen("update")
       \/ FollowUp(level, req.id, req.state) = {} /\ level' = level /\ SignalThen("reply")
    /\ UNCHANGED <<conn, act, updateMut, updateRecorded, req, status, telemVars>>
    /\ Observe

\* The level change that goes with the quick disconnect and the igniter.  Its
\* own update is signalled before pad_actuate signals one more; its outcome is
\* ignored.
C_FollowUp ==
    /\ pcC = "followup"
    /\ \/ \E new \in FollowUp(level, req.id, req.state) :
             /\ ChangeAllowed(level, new)
             /\ level' = new
             /\ SignalThen("update")
       \/ /\ \A new \in FollowUp(level, req.id, req.state) : ~ChangeAllowed(level, new)
          /\ level' = level
          /\ SignalThen("reply")
    /\ UNCHANGED <<conn, act, updateMut, updateRecorded, req, status, telemVars>>
    /\ Observe

\* padstate_signal_update: pthread_mutex_lock ...
C_Lock ==
    /\ pcC = "lock"
    /\ updateMut = Free
    /\ updateMut' = "controller"
    /\ pcC' = "signal"
    /\ UNCHANGED <<level, conn, act, updateRecorded, req, status, ret, telemVars, window>>

\* Faulty variant: the flag without the signal.
C_SignalWakesNobody ==
    /\ pcC = "signal"
    /\ updateRecorded' = TRUE
    /\ updateMut' = Free
    /\ pcC' = IF ret = "update" THEN "lock" ELSE ret
    /\ ret' = IF ret = "update" THEN "reply" ELSE "accept"
    /\ UNCHANGED <<level, conn, act, req, status, telemVars, window>>

\* ... then the flag, the condition variable and the unlock.  A signal wakes
\* the telemetry thread only if it is waiting at that moment.
C_Signal ==
    /\ pcC = "signal"
    /\ updateRecorded' = TRUE
    /\ pcT' = IF pcT = "wait" THEN "relock" ELSE pcT
    /\ updateMut' = Free
    /\ pcC' = IF ret = "update" THEN "lock" ELSE ret
    /\ ret' = IF ret = "update" THEN "reply" ELSE "accept"     \* dead when not "lock"
    /\ UNCHANGED <<level, conn, act, req, status, timedOut, snap, next, heard, window>>

\* controller_send of the acknowledgement; its result is not looked at.
C_Reply ==
    /\ pcC = "reply"
    /\ pcC' = "recv"
    /\ req' = NoRequest
    /\ status' = ACT_OK
    /\ UNCHANGED <<level, conn, act, updateMut, updateRecorded, ret, telemVars, window>>

ControllerSteps ==
    \/ C_Arm \/ C_CheckActuation \/ C_Drive \/ C_DriveFails \/ C_FollowUp
    \/ C_Lock \/ C_Signal \/ C_Reply

-----------------------------------------------------------------------------
(* The pad-state telemetry thread.                                         *)

\* Faulty variant: the mutex is given back before the snapshot is built.
BeginOrWaitUnlocked ==
    IF timedOut \/ updateRecorded
    THEN pcT' = "level" /\ window' = {Pad} /\ UNCHANGED updateMut
    ELSE pcT' = "wait" /\ UNCHANGED <<updateMut, window>>

\* The test of the wait loop, with the mutex just acquired.
BeginOrWait ==
    IF timedOut \/ updateRecorded
    THEN pcT' = "level" /\ updateMut' = "telemetry" /\ window' = {Pad}
    ELSE pcT' = "wait" /\ UNCHANGED <<updateMut, window>>

T_Lock ==
    /\ pcT \in {"lock", "relock"}
    /\ updateMut = Free
    /\ BeginOrWait
    /\ UNCHANGED <<level, conn, act, updateRecorded, ctrlVars, timedOut, snap, next, heard>>

\* Faulty variant: the timeout is taken for a spurious wake-up.
T_TimeoutUnnoticed ==
    /\ pcT = "wait"
    /\ pcT' = "relock"
    /\ UNCHANGED <<level, conn, act, updateMut, updateRecorded, ctrlVars, timedOut, snap, next,
                   heard, window>>

\* pthread_cond_timedwait returns ETIMEDOUT ...
T_Timeout ==
    /\ pcT = "wait"
    /\ timedOut' = TRUE
    /\ pcT' = "relock"
    /\ UNCHANGED <<level, conn, act, updateMut, updateRecorded, ctrlVars, snap, next, heard, window>>

\* ... or wakes up spuriously.
T_SpuriousWakeup ==
    /\ pcT = "wait"
    /\ pcT' = "relock"
    /\ UNCHANGED <<level, conn, act, updateMut, updateRecorded, ctrlVars, timedOut, snap, next,
                   heard, window>>

\* telemetry_send_padstate: the level, the connection, the actuators in order.
T_ReadLevel ==
    /\ pcT = "level"
    /\ snap' = [snap EXCEPT !.level = level]
    /\ pcT' = "conn"
    /\ UNCHANGED <<level, conn, act, updateMut, updateRecorded, ctrlVars, timedOut, next, heard,
                   window>>

T_ReadConn ==
    /\ pcT = "conn"
    /\ snap' = [snap EXCEPT !.conn = conn]
    /\ pcT' = "acts"
    /\ UNCHANGED <<level, conn, act, updateMut, updateRecorded, ctrlVars, timedOut, next, heard,
                   window>>

T_ReadAct ==
    /\ pcT = "acts"
    /\ snap' = [snap EXCEPT !.act = [@ EXCEPT ![next] = act[next]]]
    /\ IF next + 1 \in Actuators
       THEN next' = next + 1 /\ pcT' = "acts"
       ELSE next' = 0 /\ pcT' = "publish"
    /\ UNCHANGED <<level, conn, act, updateMut, updateRecorded, ctrlVars, timedOut, heard, window>>

\* telemetry_publish: one datagram holds the whole snapshot.  It may be lost,
\* and so it is when sendmsg fails, which nobody looks at.
T_Publish ==
    /\ pcT = "publish"
    /\ heard' \in {snap} \cup (IF LossyNetwork THEN {heard} ELSE {})
    /\ pcT' = "unlock"
    /\ UNCHANGED <<level, conn, act, updateMut, updateRecorded, ctrlVars, timedOut, snap, next,
                   window>>

\* Faulty variant: the mutex is taken once, outside the loop.
T_UnlockNever ==
    /\ pcT = "unlock"
    /\ updateRecorded' = FALSE
    /\ timedOut' = FALSE
    /\ pcT' = "level"
    /\ window' = {Pad}
    /\ UNCHANGED <<level, conn, act, updateMut, ctrlVars, snap, next, heard>>

\* The update is consumed and the mutex released; the next round starts with
\* err = 0 from pthread_mutex_lock.
T_Unlock ==
    /\ pcT = "unlock"
    /\ updateRecorded' = FALSE
    /\ updateMut' = Free
    /\ timedOut' = FALSE
    /\ pcT' = "lock"
    /\ window' = {}
    /\ UNCHANGED <<level, conn, act, ctrlVars, snap, next, heard>>

TelemetryReads == T_ReadLevel \/ T_ReadConn \/ T_ReadAct
TelemetrySteps ==
    \/ T_Lock \/ T_Timeout \/ T_SpuriousWakeup \/ TelemetryReads
    \/ T_Publish \/ T_Unlock

-----------------------------------------------------------------------------
Next ==
    \/ C_Accept
    \/ C_Disconnect
    \/ \E r \in Requests : C_Receive(r)
    \/ ControllerSteps
    \/ TelemetrySteps

Spec == Init /\ [][Next]_vars

-----------------------------------------------------------------------------
(* Properties.                                                             *)

\* The controller has changed the pad state, or is about to signal it.
Owes == pcC \in {"followup", "lock", "signal"}

(***************************************************************************)
(* No update is lost: once nothing is owed, nothing is recorded and no     *)
(* snapshot is being built, the last snapshot handed to the network is the *)
(* state of the pad (pad_server_main.c:139 asks for this broadcast).       *)
(***************************************************************************)
NoLostUpdate == ~Owes /\ ~updateRecorded /\ ~Collecting => snap = Pad

(***************************************************************************)
(* No wake-up is lost: the telemetry thread never sleeps on the condition  *)
(* variable while an update is recorded.                                   *)
(***************************************************************************)
NoLostWakeup == pcT = "wait" => ~updateRecorded

(***************************************************************************)
(* A snapshot is not torn: although its fields are read one at a time      *)
(* while the controller keeps running, the pad was in exactly that state   *)
(* at some instant since the telemetry thread began to build it.           *)
(***************************************************************************)
SnapshotReal == pcT \in {"publish", "unlock"} => snap \in window

-----------------------------------------------------------------------------
(***************************************************************************)
(* The inductive invariant behind the safety properties.  Mixed is the pad *)
(* state the telemetry thread is about to report: the fields it has read   *)
(* from snap, the others as they are now.                                  *)
(***************************************************************************)
LevelRead == pcT \in {"conn", "acts", "publish", "unlock"}
ConnRead  == pcT \in {"acts", "publish", "unlock"}
ActsRead  == IF pcT = "acts" THEN 0 .. next - 1
             ELSE IF pcT \in {"publish", "unlock"} THEN Actuators ELSE {}

MixedLevel  == IF LevelRead THEN snap.level ELSE level
MixedConn   == IF ConnRead THEN snap.conn ELSE conn
MixedAct(i) == IF i \in ActsRead THEN snap.act[i] ELSE act[i]
Mixed == [level |-> MixedLevel, conn |-> MixedConn, act |-> [i \in Actuators |-> MixedAct(i)]]

\* The outcome of the request is certain, its answer not yet sent.
Decided ==
    \/ pcC \in {"followup", "reply"}
    \/ pcC \in {"lock", "signal"} /\ ret \in {"update", "reply"}

MutexInv ==
    /\ updateMut = "controller" <=> pcC = "signal"
    /\ updateMut = "telemetry" <=> Collecting

\* What the controller thread knows of its own request and connection.
RequestInv ==
    /\ pcC = "check" \/ Decided => req \in Requests
    /\ pcC \in {"drive", "followup"} =>
         req \in Requests /\ req.kind = "act" /\ req.id \in Actuators /\ status = ACT_OK
    /\ conn = IF pcC = "accept" \/ (pcC \in {"lock", "signal"} /\ ret = "accept")
              THEN CONN_RECONNECTING ELSE CONN_CONNECTED

\* No other thread writes the level between the check of a request and the drive.
PermitInv == pcC = "drive" => ActStatus(level, req.id, req.state) = ACT_OK

\* The scan of the actuators starts at the first one.
ScanInv == pcT # "acts" => next = 0

\* Whatever the telemetry thread reports was true since it began ...
WindowInv == Collecting => Mixed \in window /\ Pad \in window

\* ... and it is still true unless the controller owes a signal.
FreshInv == Collecting /\ ~Owes => Mixed = Pad

(***************************************************************************)
(* All of the above holds in every reachable state.                        *)
(***************************************************************************)
IndInv ==
    /\ TypeOK /\ MutexInv /\ RequestInv /\ ScanInv /\ PermitInv
    /\ WindowInv /\ FreshInv /\ NoLostUpdate /\ NoLostWakeup

-----------------------------------------------------------------------------
(***************************************************************************)
(* Refinement of PadCommands.  An actuation takes effect when the actuator *)
(* is driven: until its follow-up has run, the abstract level is already   *)
(* the one the follow-up will set.  The answer is owed from the moment the *)
(* outcome is certain until it is sent.                                    *)
(***************************************************************************)
AbsLevel == IF pcC = "followup" THEN LevelAfter(level, req.id, req.state) ELSE level

Commands == INSTANCE PadCommands WITH
    level  <- AbsLevel,
    answer <- IF Decided THEN [kind |-> "ack", req |-> req, status |-> status]
              ELSE NoRequest

(***************************************************************************)
(* Every request behaves as if it were executed at one instant, between    *)
(* two others, and is answered before the next one is looked at: the many  *)
(* steps of the controller thread implement PadCommands.                   *)
(***************************************************************************)
ImplementsPadCommands == Commands!Spec
=============================================================================
