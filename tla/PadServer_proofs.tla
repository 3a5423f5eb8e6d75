--------------------------- MODULE PadServer_proofs ---------------------------
(***************************************************************************)
(* The pad server, for every number of actuators, every set of requests    *)
(* and every network:                                                      *)
(*   - while its two threads live, no update is lost and what they read is *)
(*     what there is (PadServer);                                          *)
(*   - they are born and die in the order their memory and socket need,    *)
(*     whatever is cancelled and whatever fails (PadLifecycle);            *)
(*   - while they live, they implement PadCommands.                        *)
(*                                                                         *)
(* IndInv is inductive.  Its heart is Mixed, the pad state the telemetry   *)
(* thread is about to report: reading a field leaves Mixed as it is, and a *)
(* change by the controller moves it only while the changed field is still *)
(* unread - to a state the pad has just taken.  Two changes can fall into  *)
(* one collection (an actuator, then the level), and since the level is    *)
(* read first the second one cannot mix with the first.                    *)
(***************************************************************************)
EXTENDS PadLifecycle, TLAPS

USE DEF Free, Collecting, Owes

(***************************************************************************)
(* The codes are what the types say.                                       *)
(***************************************************************************)
LEMMA StatusTypes ==
    /\ \A lvl, new : ArmStatus(lvl, new) \in Statuses
    /\ \A lvl, id, s : ActStatus(lvl, id, s) \in Statuses
    /\ \A lvl, id, s : FollowUp(lvl, id, s) \subseteq Levels
    /\ ACT_OK \in Statuses
BY DEF ArmStatus, ActStatus, FollowUp, Statuses, Levels, ARM_OK, ARM_DENIED, ARM_INV,
       ACT_OK, ACT_DENIED, ACT_DNE, ACT_INV, ARMED_PAD, ARMED_IGNITION,
       ARMED_DISCONNECTED, ARMED_LAUNCH

LEMMA PadType ==
    ASSUME level \in Levels, conn \in ConnStatus, act \in [Actuators -> BOOLEAN]
    PROVE  Pad \in PadStates
BY DEF Pad, PadStates

(***************************************************************************)
(* The initial state.                                                      *)
(***************************************************************************)
LEMMA InitIndInv == Init => IndInv
<1> SUFFICES ASSUME Init PROVE IndInv
  OBVIOUS
<1>1. Pad \in PadStates
  BY DEF Init, Pad, PadStates, Levels, ConnStatus, ARMED_PAD, ARMED_LAUNCH, CONN_RECONNECTING
<1>2. level \in Levels /\ conn \in ConnStatus /\ act \in [Actuators -> BOOLEAN] /\ next \in Actuators
  BY ActuatorAssumption
  DEF Init, Levels, ConnStatus, ARMED_PAD, ARMED_LAUNCH, CONN_RECONNECTING, Actuators
<1>3. TypeOK
  BY <1>1, <1>2, StatusTypes DEF Init, TypeOK, CtrlLabels, TelemLabels
<1>4. QED
  BY <1>3 DEF Init, IndInv, MutexInv, RequestInv, ScanInv, PermitInv, WindowInv, FreshInv,
              NoLostUpdate, NoLostWakeup, Decided

(***************************************************************************)
(* The mutex is held exactly while the flag is set and while a snapshot is *)
(* built and sent.                                                         *)
(***************************************************************************)
LEMMA MutexStep == IndInv /\ [Next]_vars => MutexInv'
<1> SUFFICES ASSUME IndInv, [Next]_vars PROVE MutexInv'
  OBVIOUS
<1> USE DEF IndInv, MutexInv
<1>1. CASE UNCHANGED vars
  BY <1>1 DEF vars, ctrlVars, telemVars
<1>2. ASSUME NEW r \in Requests, C_Receive(r) PROVE MutexInv'
  BY <1>2 DEF C_Receive, telemVars
<1>3. CASE C_Accept
  BY <1>3 DEF C_Accept, telemVars, SignalThen
<1>4. CASE C_Disconnect
  BY <1>4 DEF C_Disconnect, telemVars, SignalThen
<1>5. CASE C_Arm
  BY <1>5 DEF C_Arm, telemVars, SignalThen
<1>6. CASE C_CheckActuation
  BY <1>6 DEF C_CheckActuation, telemVars
<1>7. CASE C_Drive
  BY <1>7 DEF C_Drive, telemVars
<1>8. CASE C_DriveFails
  BY <1>8 DEF C_DriveFails, telemVars
<1>9. CASE C_FollowUp
  BY <1>9 DEF C_FollowUp, telemVars, SignalThen
<1>10. CASE C_Lock
  BY <1>10 DEF C_Lock, telemVars
<1>11. CASE C_Signal
  BY <1>11 DEF C_Signal, telemVars, TypeOK
<1>12. CASE C_Reply
  BY <1>12 DEF C_Reply, telemVars
<1>13. CASE T_Lock
  BY <1>13 DEF T_Lock, ctrlVars, BeginOrWait
<1>14. CASE T_Timeout
  BY <1>14 DEF T_Timeout, ctrlVars
<1>15. CASE T_SpuriousWakeup
  BY <1>15 DEF T_SpuriousWakeup, ctrlVars
<1>16. CASE T_ReadLevel
  BY <1>16 DEF T_ReadLevel, ctrlVars
<1>17. CASE T_ReadConn
  BY <1>17 DEF T_ReadConn, ctrlVars
<1>18. CASE T_ReadAct
  BY <1>18 DEF T_ReadAct, ctrlVars
<1>19. CASE T_Publish
  BY <1>19 DEF T_Publish, ctrlVars
<1>20. CASE T_Unlock
  BY <1>20 DEF T_Unlock, ctrlVars
<1>21. QED
  BY <1>1, <1>2, <1>3, <1>4, <1>5, <1>6, <1>7, <1>8, <1>9, <1>10, <1>11,
     <1>12, <1>13, <1>14, <1>15, <1>16, <1>17, <1>18, <1>19, <1>20
  DEF Next, ControllerSteps, TelemetrySteps, TelemetryReads

(***************************************************************************)
(* The controller thread's own variables.                                  *)
(***************************************************************************)
LEMMA RequestStep == IndInv /\ [Next]_vars => RequestInv'
<1> SUFFICES ASSUME IndInv, [Next]_vars PROVE RequestInv'
  OBVIOUS
<1> USE DEF IndInv, RequestInv, Decided
<1>1. CASE UNCHANGED vars
  BY <1>1 DEF vars, ctrlVars, telemVars
<1>2. ASSUME NEW r \in Requests, C_Receive(r) PROVE RequestInv'
  BY <1>2 DEF C_Receive, telemVars
<1>3. CASE C_Accept
  BY <1>3 DEF C_Accept, telemVars, SignalThen
<1>4. CASE C_Disconnect
  BY <1>4 DEF C_Disconnect, telemVars, SignalThen
<1>5. CASE C_Arm
  BY <1>5 DEF C_Arm, telemVars, SignalThen
<1>6. CASE C_CheckActuation
  BY <1>6 DEF C_CheckActuation, telemVars, ActStatus, ACT_OK, ACT_DNE
<1>7. CASE C_Drive
  BY <1>7 DEF C_Drive, telemVars
<1>8. CASE C_DriveFails
  BY <1>8 DEF C_DriveFails, telemVars
<1>9. CASE C_FollowUp
  BY <1>9 DEF C_FollowUp, telemVars, SignalThen
<1>10. CASE C_Lock
  BY <1>10 DEF C_Lock, telemVars
<1>11. CASE C_Signal
  BY <1>11 DEF C_Signal, telemVars, TypeOK
<1>12. CASE C_Reply
  BY <1>12 DEF C_Reply, telemVars
<1>13. CASE T_Lock
  BY <1>13 DEF T_Lock, ctrlVars, BeginOrWait
<1>14. CASE T_Timeout
  BY <1>14 DEF T_Timeout, ctrlVars
<1>15. CASE T_SpuriousWakeup
  BY <1>15 DEF T_SpuriousWakeup, ctrlVars
<1>16. CASE T_ReadLevel
  BY <1>16 DEF T_ReadLevel, ctrlVars
<1>17. CASE T_ReadConn
  BY <1>17 DEF T_ReadConn, ctrlVars
<1>18. CASE T_ReadAct
  BY <1>18 DEF T_ReadAct, ctrlVars
<1>19. CASE T_Publish
  BY <1>19 DEF T_Publish, ctrlVars
<1>20. CASE T_Unlock
  BY <1>20 DEF T_Unlock, ctrlVars
<1>21. QED
  BY <1>1, <1>2, <1>3, <1>4, <1>5, <1>6, <1>7, <1>8, <1>9, <1>10, <1>11,
     <1>12, <1>13, <1>14, <1>15, <1>16, <1>17, <1>18, <1>19, <1>20
  DEF Next, ControllerSteps, TelemetrySteps, TelemetryReads

(***************************************************************************)
(* Nothing changes the level between the check of a request and the drive: *)
(* the controller is the only writer.                                      *)
(***************************************************************************)
LEMMA CheckStep == IndInv /\ [Next]_vars => PermitInv'
<1> SUFFICES ASSUME IndInv, [Next]_vars PROVE PermitInv'
  OBVIOUS
<1> USE DEF IndInv, PermitInv
<1>1. CASE UNCHANGED vars
  BY <1>1 DEF vars, ctrlVars, telemVars
<1>2. ASSUME NEW r \in Requests, C_Receive(r) PROVE PermitInv'
  BY <1>2 DEF C_Receive, telemVars
<1>3. CASE C_Accept
  BY <1>3 DEF C_Accept, telemVars, SignalThen
<1>4. CASE C_Disconnect
  BY <1>4 DEF C_Disconnect, telemVars, SignalThen
<1>5. CASE C_Arm
  BY <1>5 DEF C_Arm, telemVars, SignalThen
<1>6. CASE C_CheckActuation
  BY <1>6 DEF C_CheckActuation, telemVars
<1>7. CASE C_Drive
  BY <1>7 DEF C_Drive, telemVars
<1>8. CASE C_DriveFails
  BY <1>8 DEF C_DriveFails, telemVars
<1>9. CASE C_FollowUp
  BY <1>9 DEF C_FollowUp, telemVars, SignalThen
<1>10. CASE C_Lock
  BY <1>10 DEF C_Lock, telemVars
<1>11. CASE C_Signal
  BY <1>11 DEF C_Signal, telemVars, TypeOK
<1>12. CASE C_Reply
  BY <1>12 DEF C_Reply, telemVars
<1>13. CASE T_Lock
  BY <1>13 DEF T_Lock, ctrlVars, BeginOrWait
<1>14. CASE T_Timeout
  BY <1>14 DEF T_Timeout, ctrlVars
<1>15. CASE T_SpuriousWakeup
  BY <1>15 DEF T_SpuriousWakeup, ctrlVars
<1>16. CASE T_ReadLevel
  BY <1>16 DEF T_ReadLevel, ctrlVars
<1>17. CASE T_ReadConn
  BY <1>17 DEF T_ReadConn, ctrlVars
<1>18. CASE T_ReadAct
  BY <1>18 DEF T_ReadAct, ctrlVars
<1>19. CASE T_Publish
  BY <1>19 DEF T_Publish, ctrlVars
<1>20. CASE T_Unlock
  BY <1>20 DEF T_Unlock, ctrlVars
<1>21. QED
  BY <1>1, <1>2, <1>3, <1>4, <1>5, <1>6, <1>7, <1>8, <1>9, <1>10, <1>11,
     <1>12, <1>13, <1>14, <1>15, <1>16, <1>17, <1>18, <1>19, <1>20
  DEF Next, ControllerSteps, TelemetrySteps, TelemetryReads

(***************************************************************************)
(* The flag is raised only with the mutex held, and whoever waits then is  *)
(* woken.                                                                  *)
(***************************************************************************)
LEMMA WakeupStep == IndInv /\ [Next]_vars => NoLostWakeup'
<1> SUFFICES ASSUME IndInv, [Next]_vars PROVE NoLostWakeup'
  OBVIOUS
<1> USE DEF IndInv, NoLostWakeup, MutexInv
<1>1. CASE UNCHANGED vars
  BY <1>1 DEF vars, ctrlVars, telemVars
<1>2. ASSUME NEW r \in Requests, C_Receive(r) PROVE NoLostWakeup'
  BY <1>2 DEF C_Receive, telemVars
<1>3. CASE C_Accept
  BY <1>3 DEF C_Accept, telemVars, SignalThen
<1>4. CASE C_Disconnect
  BY <1>4 DEF C_Disconnect, telemVars, SignalThen
<1>5. CASE C_Arm
  BY <1>5 DEF C_Arm, telemVars, SignalThen
<1>6. CASE C_CheckActuation
  BY <1>6 DEF C_CheckActuation, telemVars
<1>7. CASE C_Drive
  BY <1>7 DEF C_Drive, telemVars
<1>8. CASE C_DriveFails
  BY <1>8 DEF C_DriveFails, telemVars
<1>9. CASE C_FollowUp
  BY <1>9 DEF C_FollowUp, telemVars, SignalThen
<1>10. CASE C_Lock
  BY <1>10 DEF C_Lock, telemVars
<1>11. CASE C_Signal
  BY <1>11 DEF C_Signal, telemVars
<1>12. CASE C_Reply
  BY <1>12 DEF C_Reply, telemVars
<1>13. CASE T_Lock
  BY <1>13 DEF T_Lock, ctrlVars, BeginOrWait
<1>14. CASE T_Timeout
  BY <1>14 DEF T_Timeout, ctrlVars
<1>15. CASE T_SpuriousWakeup
  BY <1>15 DEF T_SpuriousWakeup, ctrlVars
<1>16. CASE T_ReadLevel
  BY <1>16 DEF T_ReadLevel, ctrlVars
<1>17. CASE T_ReadConn
  BY <1>17 DEF T_ReadConn, ctrlVars
<1>18. CASE T_ReadAct
  BY <1>18 DEF T_ReadAct, ctrlVars
<1>19. CASE T_Publish
  BY <1>19 DEF T_Publish, ctrlVars
<1>20. CASE T_Unlock
  BY <1>20 DEF T_Unlock, ctrlVars
<1>21. QED
  BY <1>1, <1>2, <1>3, <1>4, <1>5, <1>6, <1>7, <1>8, <1>9, <1>10, <1>11,
     <1>12, <1>13, <1>14, <1>15, <1>16, <1>17, <1>18, <1>19, <1>20
  DEF Next, ControllerSteps, TelemetrySteps, TelemetryReads

(***************************************************************************)
(* Every scan runs to its end.                                             *)
(***************************************************************************)
LEMMA ScanStep == IndInv /\ [Next]_vars => ScanInv'
<1> SUFFICES ASSUME IndInv, [Next]_vars PROVE ScanInv'
  OBVIOUS
<1> USE DEF IndInv, ScanInv
<1>1. CASE UNCHANGED vars
  BY <1>1 DEF vars, ctrlVars, telemVars
<1>2. ASSUME NEW r \in Requests, C_Receive(r) PROVE ScanInv'
  BY <1>2 DEF C_Receive, telemVars
<1>3. CASE C_Accept
  BY <1>3 DEF C_Accept, telemVars, SignalThen
<1>4. CASE C_Disconnect
  BY <1>4 DEF C_Disconnect, telemVars, SignalThen
<1>5. CASE C_Arm
  BY <1>5 DEF C_Arm, telemVars, SignalThen
<1>6. CASE C_CheckActuation
  BY <1>6 DEF C_CheckActuation, telemVars
<1>7. CASE C_Drive
  BY <1>7 DEF C_Drive, telemVars
<1>8. CASE C_DriveFails
  BY <1>8 DEF C_DriveFails, telemVars
<1>9. CASE C_FollowUp
  BY <1>9 DEF C_FollowUp, telemVars, SignalThen
<1>10. CASE C_Lock
  BY <1>10 DEF C_Lock, telemVars
<1>11. CASE C_Signal
  BY <1>11 DEF C_Signal, telemVars
<1>12. CASE C_Reply
  BY <1>12 DEF C_Reply, telemVars
<1>13. CASE T_Lock
  BY <1>13 DEF T_Lock, ctrlVars, BeginOrWait
<1>14. CASE T_Timeout
  BY <1>14 DEF T_Timeout, ctrlVars
<1>15. CASE T_SpuriousWakeup
  BY <1>15 DEF T_SpuriousWakeup, ctrlVars
<1>16. CASE T_ReadLevel
  BY <1>16 DEF T_ReadLevel, ctrlVars
<1>17. CASE T_ReadConn
  BY <1>17 DEF T_ReadConn, ctrlVars
<1>18. CASE T_ReadAct
  BY <1>18 DEF T_ReadAct, ctrlVars
<1>19. CASE T_Publish
  BY <1>19 DEF T_Publish, ctrlVars
<1>20. CASE T_Unlock
  BY <1>20 DEF T_Unlock, ctrlVars
<1>21. QED
  BY <1>1, <1>2, <1>3, <1>4, <1>5, <1>6, <1>7, <1>8, <1>9, <1>10, <1>11,
     <1>12, <1>13, <1>14, <1>15, <1>16, <1>17, <1>18, <1>19, <1>20
  DEF Next, ControllerSteps, TelemetrySteps, TelemetryReads

(***************************************************************************)
(* Types.                                                                  *)
(***************************************************************************)
LEMMA TypeStep == IndInv /\ [Next]_vars => TypeOK'
<1> SUFFICES ASSUME IndInv, [Next]_vars PROVE TypeOK'
  OBVIOUS
<1> USE DEF IndInv, TypeOK, CtrlLabels, TelemLabels
<1>1. CASE UNCHANGED vars
  BY <1>1 DEF vars, ctrlVars, telemVars
<1>2. ASSUME NEW r \in Requests, C_Receive(r) PROVE TypeOK'
  BY <1>2, StatusTypes DEF C_Receive, telemVars
<1>3. CASE C_Accept
  <2>1. level' \in Levels /\ conn' \in ConnStatus /\ act' \in [Actuators -> BOOLEAN]
    BY <1>3, StatusTypes DEF C_Accept, ConnStatus
  <2>2. Pad' \in PadStates
    BY <2>1 DEF Pad, PadStates
  <2>3. window' \subseteq PadStates
    BY <2>2, <1>3 DEF C_Accept, Observe
  <2>4. QED
    BY <2>1, <2>3, <1>3, StatusTypes DEF C_Accept, SignalThen, telemVars, ConnStatus
<1>4. CASE C_Disconnect
  <2>1. level' \in Levels /\ conn' \in ConnStatus /\ act' \in [Actuators -> BOOLEAN]
    BY <1>4, StatusTypes DEF C_Disconnect, ConnStatus
  <2>2. Pad' \in PadStates
    BY <2>1 DEF Pad, PadStates
  <2>3. window' \subseteq PadStates
    BY <2>2, <1>4 DEF C_Disconnect, Observe
  <2>4. QED
    BY <2>1, <2>3, <1>4, StatusTypes DEF C_Disconnect, SignalThen, telemVars, ConnStatus
<1>5. CASE C_Arm
  <2>1. level' \in Levels /\ conn' \in ConnStatus /\ act' \in [Actuators -> BOOLEAN]
    BY <1>5, StatusTypes DEF C_Arm, ArmStatus, ARM_OK, ARM_INV, ARM_DENIED
  <2>2. Pad' \in PadStates
    BY <2>1 DEF Pad, PadStates
  <2>3. window' \subseteq PadStates
    BY <2>2, <1>5 DEF C_Arm, Observe
  <2>4. QED
    BY <2>1, <2>3, <1>5, StatusTypes DEF C_Arm, SignalThen, telemVars, ArmStatus, ARM_OK, ARM_INV, ARM_DENIED
<1>6. CASE C_CheckActuation
  BY <1>6, StatusTypes DEF C_CheckActuation, telemVars
<1>7. CASE C_Drive
  <2>1. level' \in Levels /\ conn' \in ConnStatus /\ act' \in [Actuators -> BOOLEAN]
    BY <1>7 DEF C_Drive
  <2>2. Pad' \in PadStates
    BY <2>1 DEF Pad, PadStates
  <2>3. window' \subseteq PadStates
    BY <2>2, <1>7 DEF C_Drive, Observe
  <2>4. QED
    BY <2>1, <2>3, <1>7 DEF C_Drive, SignalThen, telemVars
<1>8. CASE C_DriveFails
  BY <1>8 DEF C_DriveFails, telemVars
<1>9. CASE C_FollowUp
  <2>1. level' \in Levels /\ conn' \in ConnStatus /\ act' \in [Actuators -> BOOLEAN]
    BY <1>9, StatusTypes DEF C_FollowUp, SignalThen
  <2>2. Pad' \in PadStates
    BY <2>1 DEF Pad, PadStates
  <2>3. window' \subseteq PadStates
    BY <2>2, <1>9 DEF C_FollowUp, Observe
  <2>4. QED
    BY <2>1, <2>3, <1>9, StatusTypes DEF C_FollowUp, SignalThen, telemVars, SignalThen
<1>10. CASE C_Lock
  BY <1>10 DEF C_Lock, telemVars
<1>11. CASE C_Signal
  BY <1>11 DEF C_Signal, telemVars
<1>12. CASE C_Reply
  BY <1>12, StatusTypes DEF C_Reply, telemVars
<1>13. CASE T_Lock
  <2>1. Pad \in PadStates
    BY DEF Pad, PadStates
  <2>2. QED
    BY <2>1, <1>13 DEF T_Lock, BeginOrWait, ctrlVars
<1>14. CASE T_Timeout
  BY <1>14 DEF T_Timeout, ctrlVars
<1>15. CASE T_SpuriousWakeup
  BY <1>15 DEF T_SpuriousWakeup, ctrlVars
<1>16. CASE T_ReadLevel
  BY <1>16 DEF T_ReadLevel, ctrlVars, PadStates
<1>17. CASE T_ReadConn
  BY <1>17 DEF T_ReadConn, ctrlVars, PadStates
<1>18. CASE T_ReadAct
  <2>1. snap' \in PadStates
    BY <1>18 DEF T_ReadAct, PadStates
  <2>2. next' \in Actuators
    BY <1>18, ActuatorAssumption DEF T_ReadAct, Actuators
  <2>3. QED
    BY <2>1, <2>2, <1>18 DEF T_ReadAct, ctrlVars
<1>19. CASE T_Publish
  BY <1>19 DEF T_Publish, ctrlVars
<1>20. CASE T_Unlock
  BY <1>20 DEF T_Unlock, ctrlVars
<1>21. QED
  BY <1>1, <1>2, <1>3, <1>4, <1>5, <1>6, <1>7, <1>8, <1>9, <1>10, <1>11,
     <1>12, <1>13, <1>14, <1>15, <1>16, <1>17, <1>18, <1>19, <1>20
  DEF Next, ControllerSteps, TelemetrySteps, TelemetryReads

(***************************************************************************)
(* Reading a field does not move Mixed: the field read is the field now.   *)
(***************************************************************************)
LEMMA ReadKeepsMixed ==
    ASSUME IndInv, T_ReadLevel \/ T_ReadConn \/ T_ReadAct \/ T_Publish
    PROVE  Mixed' = Mixed /\ Pad' = Pad
<1> DEFINE Same == /\ MixedLevel' = MixedLevel
                   /\ MixedConn' = MixedConn
                   /\ \A i \in Actuators : MixedAct(i)' = MixedAct(i)
<1> USE DEF LevelRead, ConnRead, ActsRead, MixedLevel, MixedConn, MixedAct
<1>1. Pad' = Pad
  BY DEF T_ReadLevel, T_ReadConn, T_ReadAct, T_Publish, Pad
<1>2. snap \in PadStates /\ next \in Actuators
  BY DEF IndInv, TypeOK
<1>3. ASSUME T_ReadLevel PROVE Same
  BY <1>2, <1>3 DEF T_ReadLevel, PadStates
<1>4. ASSUME T_ReadConn PROVE Same
  <2>1. 0 .. next' - 1 = {}
    BY <1>2, <1>4 DEF T_ReadConn, IndInv, ScanInv
  <2>2. QED
    BY <1>2, <1>4, <2>1 DEF T_ReadConn, PadStates
<1>5. ASSUME T_ReadAct PROVE Same
  <2>1. next \in Nat /\ NUM_ACTUATORS \in Nat
    BY <1>2, ActuatorAssumption DEF Actuators
  <2>2. ActsRead' = ActsRead \cup {next}
    BY <1>2, <1>5, <2>1 DEF T_ReadAct, Actuators
  <2>3. \A i \in Actuators : MixedAct(i)' = MixedAct(i)
    BY <1>2, <1>5, <2>2 DEF T_ReadAct, PadStates
  <2>4. MixedLevel' = MixedLevel /\ MixedConn' = MixedConn
    BY <1>2, <1>5 DEF T_ReadAct, PadStates
  <2>5. QED
    BY <2>3, <2>4
<1>6. ASSUME T_Publish PROVE Same
  BY <1>6 DEF T_Publish
<1>7. Same
  BY <1>3, <1>4, <1>5, <1>6
<1>8. QED
  BY <1>1, <1>7 DEF Mixed

(***************************************************************************)
(* Two pad states built field by field are equal when the fields are.      *)
(***************************************************************************)
LEMMA MixedIsPad ==
    ASSUME act \in [Actuators -> BOOLEAN]
    PROVE  Mixed = Pad <=> /\ MixedLevel = level
                           /\ MixedConn = conn
                           /\ \A i \in Actuators : MixedAct(i) = act[i]
<1>1. act = [i \in Actuators |-> act[i]]
  OBVIOUS
<1>2. [i \in Actuators |-> MixedAct(i)] = act <=> \A i \in Actuators : MixedAct(i) = act[i]
  BY <1>1
<1>3. QED
  BY <1>2 DEF Mixed, Pad

(***************************************************************************)
(* The same after a step, where only the pad has moved.                    *)
(***************************************************************************)
LEMMA MovedPad ==
    ASSUME act' \in [Actuators -> BOOLEAN], UNCHANGED <<pcT, snap, next>>
    PROVE  /\ (/\ LevelRead \/ level' = level
               /\ ConnRead \/ conn' = conn
               /\ \A i \in Actuators : i \in ActsRead \/ act'[i] = act[i])
                 => Mixed' = Mixed
           /\ (/\ MixedLevel' = level'
               /\ MixedConn' = conn'
               /\ \A i \in Actuators : MixedAct(i)' = act'[i])
                 => Mixed' = Pad'
<1> USE DEF LevelRead, ConnRead, ActsRead, MixedLevel, MixedConn, MixedAct
<1>1. ASSUME LevelRead \/ level' = level, ConnRead \/ conn' = conn,
             \A i \in Actuators : i \in ActsRead \/ act'[i] = act[i]
      PROVE  Mixed' = Mixed
  <2>1. MixedLevel' = MixedLevel /\ MixedConn' = MixedConn
    BY <1>1
  <2>2. \A i \in Actuators : MixedAct(i)' = MixedAct(i)
    BY <1>1
  <2>3. QED
    BY <2>1, <2>2 DEF Mixed
<1>2. ASSUME MixedLevel' = level', MixedConn' = conn',
             \A i \in Actuators : MixedAct(i)' = act'[i]
      PROVE  Mixed' = Pad'
  <2>1. act' = [i \in Actuators |-> act'[i]]
    OBVIOUS
  <2>2. [i \in Actuators |-> MixedAct(i)'] = act'
    BY <1>2, <2>1
  <2>3. QED
    BY <1>2, <2>2 DEF Mixed, Pad
<1>3. QED
  BY <1>1, <1>2

(***************************************************************************)
(* A change by the controller while a snapshot is built: what is going to  *)
(* be reported is what it was before, or the pad's new state.              *)
(***************************************************************************)
LEMMA ChangeStaysReal ==
    ASSUME IndInv, Collecting, TypeOK',
           C_Accept \/ C_Disconnect \/ C_Arm \/ C_Drive \/ C_FollowUp
    PROVE  Mixed' \in window' /\ Pad' \in window'
<1> USE DEF LevelRead, ConnRead, ActsRead, MixedLevel, MixedConn, MixedAct
<1>1. window' = window \cup {Pad'} /\ UNCHANGED <<pcT, snap, next>>
  BY DEF C_Accept, C_Disconnect, C_Arm, C_Drive, C_FollowUp, Observe, telemVars
<1>2. act \in [Actuators -> BOOLEAN] /\ act' \in [Actuators -> BOOLEAN]
  BY DEF IndInv, TypeOK
<1>3. Mixed \in window
  BY DEF IndInv, WindowInv
<1>4. ASSUME ~Owes
      PROVE  MixedLevel = level /\ MixedConn = conn /\ \A i \in Actuators : MixedAct(i) = act[i]
  BY <1>2, <1>4, MixedIsPad DEF IndInv, FreshInv
<1>5. CASE C_Accept \/ C_Disconnect
  <2>1. ~Owes /\ UNCHANGED <<level, act>>
    BY <1>5 DEF C_Accept, C_Disconnect
  <2>2. Mixed' = Mixed \/ Mixed' = Pad'
    <3>1. CASE ConnRead
      BY <3>1, <2>1, <1>1, <1>2, MovedPad
    <3>2. CASE ~ConnRead
      BY <3>2, <2>1, <1>1, <1>2, <1>4, MovedPad
    <3>3. QED
      BY <3>1, <3>2
  <2>3. QED
    BY <2>2, <1>1, <1>3
<1>6. CASE C_Arm
  <2>1. ~Owes /\ UNCHANGED <<conn, act>>
    BY <1>6 DEF C_Arm
  <2>2. Mixed' = Mixed \/ Mixed' = Pad'
    <3>1. CASE LevelRead
      BY <3>1, <2>1, <1>1, <1>2, MovedPad
    <3>2. CASE ~LevelRead
      BY <3>2, <2>1, <1>1, <1>2, <1>4, MovedPad
    <3>3. QED
      BY <3>1, <3>2
  <2>3. QED
    BY <2>2, <1>1, <1>3
<1>7. CASE C_Drive
  <2>1. ~Owes /\ UNCHANGED <<level, conn>>
    BY <1>7 DEF C_Drive
  <2>2. \A i \in Actuators : i # req.id => act'[i] = act[i]
    BY <1>7, <1>2 DEF C_Drive
  <2>3. Mixed' = Mixed \/ Mixed' = Pad'
    <3>1. CASE req.id \in ActsRead
      BY <3>1, <2>1, <2>2, <1>1, <1>2, MovedPad
    <3>2. CASE req.id \notin ActsRead
      <4>1. \A i \in Actuators : MixedAct(i)' = act'[i]
        BY <3>2, <2>1, <2>2, <1>1, <1>4
      <4>2. MixedLevel' = level' /\ MixedConn' = conn'
        BY <2>1, <1>1, <1>4
      <4>3. QED
        BY <4>1, <4>2, <1>1, <1>2, MovedPad
    <3>3. QED
      BY <3>1, <3>2
  <2>4. QED
    BY <2>3, <1>1, <1>3
<1>8. CASE C_FollowUp
  <2>1. UNCHANGED <<conn, act>>
    BY <1>8 DEF C_FollowUp
  <2>2. Mixed' = Mixed \/ Mixed' = Pad'
    <3>1. CASE LevelRead
      BY <3>1, <2>1, <1>1, <1>2, MovedPad
    <3>2. CASE ~LevelRead
      <4>1. MixedLevel' = level' /\ MixedConn' = conn' /\ \A i \in Actuators : MixedAct(i)' = act'[i]
        BY <3>2, <1>1
      <4>2. QED
        BY <4>1, <1>1, <1>2, MovedPad
    <3>3. QED
      BY <3>1, <3>2
  <2>3. QED
    BY <2>2, <1>1, <1>3
<1>9. QED
  BY <1>5, <1>6, <1>7, <1>8

(***************************************************************************)
(* Steps that leave the pad, the snapshot and the window alone.            *)
(***************************************************************************)
LEMMA QuietStep ==
    ASSUME IndInv, UNCHANGED <<level, conn, act, pcT, snap, next, window>>, ~Owes' => ~Owes
    PROVE  WindowInv' /\ FreshInv'
BY DEF IndInv, WindowInv, FreshInv, Mixed, MixedLevel, MixedConn, MixedAct, LevelRead, ConnRead,
       ActsRead, Pad

(***************************************************************************)
(* What is reported is real, and stale only while a signal is owed.        *)
(***************************************************************************)
LEMMA WindowStep == IndInv /\ [Next]_vars => WindowInv' /\ FreshInv'
<1> SUFFICES ASSUME IndInv, [Next]_vars PROVE WindowInv' /\ FreshInv'
  OBVIOUS
<1>0. TypeOK'
  BY TypeStep
<1>1. CASE UNCHANGED vars
  BY <1>1, QuietStep DEF vars, ctrlVars, telemVars
<1>2. ASSUME NEW r \in Requests, C_Receive(r) PROVE WindowInv' /\ FreshInv'
  BY <1>2, QuietStep DEF C_Receive, telemVars
<1>3. CASE C_CheckActuation \/ C_DriveFails \/ C_Lock \/ C_Reply
  BY <1>3, QuietStep DEF C_CheckActuation, C_DriveFails, C_Lock, C_Reply, telemVars
<1>4. CASE C_Accept \/ C_Disconnect \/ C_Arm \/ C_Drive \/ C_FollowUp
  <2>1. pcT' = pcT
    BY <1>4 DEF C_Accept, C_Disconnect, C_Arm, C_Drive, C_FollowUp, telemVars
  <2>2. CASE Collecting
    <3>1. WindowInv'
      BY <2>2, <1>4, <1>0, ChangeStaysReal DEF WindowInv
    <3>2. FreshInv'
      <4>1. CASE Owes'
        BY <4>1 DEF FreshInv
      <4>2. CASE ~Owes'
        <5>1. C_Arm /\ level' = level
          BY <4>2, <1>4 DEF C_Accept, C_Disconnect, C_Arm, C_Drive, C_FollowUp, SignalThen
        <5>2. UNCHANGED <<level, conn, act, pcT, snap, next>> /\ ~Owes
          BY <5>1 DEF C_Arm, telemVars
        <5>3. Mixed' = Mixed /\ Pad' = Pad
          BY <5>2 DEF Mixed, MixedLevel, MixedConn, MixedAct, LevelRead, ConnRead, ActsRead, Pad
        <5>4. QED
          BY <5>2, <5>3, <2>2 DEF IndInv, FreshInv
      <4>3. QED
        BY <4>1, <4>2
    <3>3. QED
      BY <3>1, <3>2
  <2>3. CASE ~Collecting
    BY <2>1, <2>3 DEF WindowInv, FreshInv
  <2>4. QED
    BY <2>2, <2>3
<1>5. CASE C_Signal \/ T_Timeout \/ T_SpuriousWakeup \/ T_Unlock
  <2>1. ~Collecting'
    BY <1>5 DEF C_Signal, T_Timeout, T_SpuriousWakeup, T_Unlock, IndInv, MutexInv
  <2>2. QED
    BY <2>1 DEF WindowInv, FreshInv
<1>6. CASE T_Lock
  <2>1. CASE timedOut \/ updateRecorded
    <3>1. pcT' = "level" /\ window' = {Pad} /\ UNCHANGED <<level, conn, act>>
      BY <2>1, <1>6 DEF T_Lock, BeginOrWait
    <3>2. MixedLevel' = level' /\ MixedConn' = conn' /\ \A i \in Actuators : MixedAct(i)' = act'[i]
      BY <3>1 DEF MixedLevel, MixedConn, MixedAct, LevelRead, ConnRead, ActsRead
    <3>3. act' = [i \in Actuators |-> MixedAct(i)']
      BY <3>1, <3>2 DEF IndInv, TypeOK
    <3>4. Mixed' = Pad' /\ Pad' = Pad
      BY <3>1, <3>2, <3>3 DEF Mixed, Pad
    <3>5. QED
      BY <3>1, <3>4 DEF WindowInv, FreshInv
  <2>2. CASE ~(timedOut \/ updateRecorded)
    BY <2>2, <1>6 DEF T_Lock, BeginOrWait, WindowInv, FreshInv
  <2>3. QED
    BY <2>1, <2>2
<1>7. CASE TelemetryReads \/ T_Publish
  <2>1. Mixed' = Mixed /\ Pad' = Pad
    BY <1>7, ReadKeepsMixed DEF TelemetryReads
  <2>2. Collecting /\ UNCHANGED <<window, pcC>>
    BY <1>7 DEF TelemetryReads, T_ReadLevel, T_ReadConn, T_ReadAct, T_Publish,
                ctrlVars
  <2>3. QED
    BY <2>1, <2>2 DEF IndInv, WindowInv, FreshInv
<1>8. QED
  BY <1>1, <1>2, <1>3, <1>4, <1>5, <1>6, <1>7
  DEF Next, ControllerSteps, TelemetrySteps

(***************************************************************************)
(* The last snapshot is up to date whenever nothing is owed or recorded.   *)
(***************************************************************************)
LEMMA FinishedSnapshot ==
    ASSUME IndInv, pcT \in {"publish", "unlock"}
    PROVE  Mixed = snap
<1>1. snap \in PadStates
  BY DEF IndInv, TypeOK
<1>2. MixedLevel = snap.level /\ MixedConn = snap.conn /\ \A i \in Actuators : MixedAct(i) = snap.act[i]
  BY DEF MixedLevel, MixedConn, MixedAct, LevelRead, ConnRead, ActsRead
<1>3. [i \in Actuators |-> MixedAct(i)] = snap.act
  BY <1>1, <1>2 DEF PadStates
<1>4. QED
  BY <1>1, <1>2, <1>3 DEF Mixed, PadStates

(***************************************************************************)
(* A finished snapshot is stale only if a signal is owed; the signal then  *)
(* sets the flag again.                                                    *)
(***************************************************************************)
LEMMA UpdateStep == IndInv /\ [Next]_vars => NoLostUpdate'
<1> SUFFICES ASSUME IndInv, [Next]_vars PROVE NoLostUpdate'
  OBVIOUS
<1> USE DEF IndInv, NoLostUpdate, MutexInv
<1>1. CASE UNCHANGED vars
  BY <1>1 DEF vars, ctrlVars, telemVars, Pad
<1>2. ASSUME NEW r \in Requests, C_Receive(r) PROVE NoLostUpdate'
  BY <1>2 DEF C_Receive, telemVars, Pad
<1>3. CASE C_Accept
  BY <1>3 DEF C_Accept, telemVars, SignalThen
<1>4. CASE C_Disconnect
  BY <1>4 DEF C_Disconnect, telemVars, SignalThen
<1>5. CASE C_Arm
  BY <1>5 DEF C_Arm, telemVars, SignalThen, Pad
<1>6. CASE C_CheckActuation
  BY <1>6 DEF C_CheckActuation, telemVars, Pad
<1>7. CASE C_Drive
  BY <1>7 DEF C_Drive, telemVars
<1>8. CASE C_DriveFails
  BY <1>8 DEF C_DriveFails, telemVars, Pad
<1>9. CASE C_FollowUp
  BY <1>9 DEF C_FollowUp, telemVars, SignalThen
<1>10. CASE C_Lock
  BY <1>10 DEF C_Lock, telemVars, Pad
<1>11. CASE C_Signal
  BY <1>11 DEF C_Signal, telemVars, TypeOK
<1>12. CASE C_Reply
  BY <1>12 DEF C_Reply, telemVars, Pad
<1>13. CASE T_Lock
  BY <1>13 DEF T_Lock, ctrlVars, BeginOrWait, Pad
<1>14. CASE T_Timeout
  BY <1>14 DEF T_Timeout, ctrlVars, Pad
<1>15. CASE T_SpuriousWakeup
  BY <1>15 DEF T_SpuriousWakeup, ctrlVars, Pad
<1>16. CASE T_ReadLevel
  BY <1>16 DEF T_ReadLevel, ctrlVars, Pad
<1>17. CASE T_ReadConn
  BY <1>17 DEF T_ReadConn, ctrlVars, Pad
<1>18. CASE T_ReadAct
  BY <1>18 DEF T_ReadAct, ctrlVars, Pad
<1>19. CASE T_Publish
  BY <1>19 DEF T_Publish, ctrlVars, Pad
<1>20. CASE T_Unlock
  <2>1. snap = Mixed
    BY <1>20, FinishedSnapshot DEF T_Unlock
  <2>2. ~Owes => snap = Pad
    BY <2>1, <1>20 DEF T_Unlock, FreshInv
  <2>3. UNCHANGED <<Pad, snap, pcC>>
    BY <1>20 DEF T_Unlock, ctrlVars, Pad
  <2>4. QED
    BY <2>2, <2>3
<1>21. QED
  BY <1>1, <1>2, <1>3, <1>4, <1>5, <1>6, <1>7, <1>8, <1>9, <1>10, <1>11,
     <1>12, <1>13, <1>14, <1>15, <1>16, <1>17, <1>18, <1>19, <1>20
  DEF Next, ControllerSteps, TelemetrySteps, TelemetryReads

(***************************************************************************)
(* IndInv is inductive ...                                                 *)
(***************************************************************************)
LEMMA IndInvStep == IndInv /\ [Next]_vars => IndInv'
BY TypeStep, MutexStep, RequestStep, ScanStep, CheckStep, WindowStep, UpdateStep, WakeupStep
DEF IndInv

(***************************************************************************)
(* ... so it holds in every reachable state of the two threads.            *)
(***************************************************************************)
THEOREM IndInvAlways == Spec => []IndInv
BY InitIndInv, IndInvStep, PTL DEF Spec

(***************************************************************************)
(* Every variable keeps its type.                                          *)
(***************************************************************************)
THEOREM TypeCorrect == Spec => []TypeOK
<1>1. IndInv => TypeOK
  BY DEF IndInv
<1>2. QED
  BY <1>1, IndInvAlways, PTL

(***************************************************************************)
(* No update of the pad state is lost between the controller's signal      *)
(* (state.c:123) and the telemetry thread's clearing of the flag           *)
(* (telemetry.c:706).                                                      *)
(***************************************************************************)
THEOREM UpdatesNotLost == Spec => []NoLostUpdate
<1>1. IndInv => NoLostUpdate
  BY DEF IndInv
<1>2. QED
  BY <1>1, IndInvAlways, PTL

(***************************************************************************)
(* The telemetry thread never sleeps through a recorded update             *)
(* (telemetry.c:695).                                                      *)
(***************************************************************************)
THEOREM WakeupsNotLost == Spec => []NoLostWakeup
<1>1. IndInv => NoLostWakeup
  BY DEF IndInv
<1>2. QED
  BY <1>1, IndInvAlways, PTL

(***************************************************************************)
(* The snapshot telemetry_send_padstate builds field by field              *)
(* (telemetry.c:604) is a state the pad really was in meanwhile.           *)
(***************************************************************************)
THEOREM SnapshotsAreReal == Spec => []SnapshotReal
<1>1. IndInv => SnapshotReal
  <2> SUFFICES ASSUME IndInv, pcT \in {"publish", "unlock"} PROVE snap \in window
    BY DEF SnapshotReal
  <2>1. Mixed \in window
    BY DEF IndInv, WindowInv
  <2>2. QED
    BY <2>1, FinishedSnapshot
<1>2. QED
  BY <1>1, IndInvAlways, PTL

-----------------------------------------------------------------------------
(***************************************************************************)
(* The life of the threads: what was started is joined by the one that     *)
(* started it, at whatever point a cancellation strikes.                   *)
(***************************************************************************)
LEMMA InitLifeInv == LifeInit => LifeInv
BY DEF LifeInit, LifeInv, LifeTypeOK, PadstateTended, SocketTended, HandlerInOrder, MutexInherited,
       TelemStates, HandlerStates, CtrlLabels, TelemLabels

(***************************************************************************)
(* A step of the controller or its client that leaves update_mut alone.    *)
(***************************************************************************)
CtrlStep ==
    /\ pcC \in CtrlLabels \ {"lock", "signal"} /\ pcC' \in CtrlLabels \ {"signal"}
    /\ ret' \in {"accept", "recv", "update", "reply"}
    /\ UNCHANGED <<updateMut, pcT>>

LEMMA ControllerSteps_CtrlStep ==
    ASSUME LifeInv,
           \/ ClientSteps \/ C_Reply
           \/ C_Arm \/ C_CheckActuation \/ C_Drive \/ C_DriveFails \/ C_FollowUp
    PROVE  CtrlStep
<1> USE DEF CtrlStep, CtrlLabels, LifeInv, LifeTypeOK
<1>1. CASE C_Accept
  BY <1>1 DEF C_Accept, SignalThen, telemVars
<1>2. CASE C_Disconnect
  BY <1>2 DEF C_Disconnect, SignalThen, telemVars
<1>3. ASSUME NEW r \in Requests, C_Receive(r) PROVE CtrlStep
  BY <1>3 DEF C_Receive, telemVars
<1>4. CASE C_Reply
  BY <1>4 DEF C_Reply, telemVars
<1>5. CASE C_Arm
  BY <1>5 DEF C_Arm, SignalThen, telemVars
<1>6. CASE C_CheckActuation
  BY <1>6 DEF C_CheckActuation, telemVars
<1>7. CASE C_Drive
  BY <1>7 DEF C_Drive, telemVars
<1>8. CASE C_DriveFails
  BY <1>8 DEF C_DriveFails, telemVars
<1>9. CASE C_FollowUp
  BY <1>9 DEF C_FollowUp, SignalThen, telemVars
<1>10. QED
  BY <1>1, <1>2, <1>3, <1>4, <1>5, <1>6, <1>7, <1>8, <1>9 DEF ClientSteps

(***************************************************************************)
(* A step of the pad-state thread, and what it does to the mutex.          *)
(***************************************************************************)
PadstateStep ==
    /\ pcT \in TelemLabels /\ pcT' \in TelemLabels
    /\ \/ Collecting /\ Collecting' /\ updateMut' = updateMut
       \/ Collecting /\ ~Collecting' /\ updateMut' = Free
       \/ ~Collecting /\ Collecting' /\ updateMut = Free /\ updateMut' = "telemetry"
       \/ ~Collecting /\ ~Collecting' /\ updateMut' = updateMut
    /\ UNCHANGED <<pcC, ret>>

LEMMA TelemetrySteps_PadstateStep ==
    ASSUME T_Lock \/ TelemetryReads \/ T_Unlock \/ TimedWait \/ T_Publish
    PROVE  PadstateStep
<1> USE DEF PadstateStep, TelemLabels, ctrlVars
<1>1. CASE T_Lock
  BY <1>1 DEF T_Lock, BeginOrWait
<1>2. CASE TelemetryReads
  BY <1>2 DEF TelemetryReads, T_ReadLevel, T_ReadConn, T_ReadAct
<1>3. CASE T_Unlock
  BY <1>3 DEF T_Unlock
<1>4. CASE TimedWait
  BY <1>4 DEF TimedWait, T_Timeout, T_SpuriousWakeup
<1>5. CASE T_Publish
  BY <1>5 DEF T_Publish
<1>6. QED
  BY <1>1, <1>2, <1>3, <1>4, <1>5

(***************************************************************************)
(* The steps of PadServer keep the threads' order ...                      *)
(***************************************************************************)
LEMMA ServerKeepsLifeInv ==
    ASSUME LifeInv, ClientRuns \/ ControllerRuns \/ PadstateRuns
    PROVE  LifeInv'
<1> USE DEF LifeInv, LifeTypeOK, PadstateTended, SocketTended, HandlerInOrder, MutexInherited, life,
            Do
<1>1. CASE CtrlStep /\ UNCHANGED life
  BY <1>1 DEF CtrlStep
<1>2. CASE PadstateStep /\ UNCHANGED life
  BY <1>2 DEF PadstateStep, TelemLabels
<1>3. CASE Do(C_Lock)
  BY <1>3 DEF C_Lock, CtrlLabels, telemVars
<1>4. CASE Do(C_Signal)
  BY <1>4 DEF C_Signal, CtrlLabels, TelemLabels
<1>5. CASE ClientRuns
  <2>1. ClientSteps /\ UNCHANGED life
    BY <1>5 DEF ClientRuns
  <2>2. QED
    BY <2>1, <1>1, ControllerSteps_CtrlStep
<1>6. CASE ControllerRuns
  <2>1. \/ /\ C_Arm \/ C_CheckActuation \/ C_Drive \/ C_DriveFails \/ C_FollowUp \/ C_Reply
          /\ UNCHANGED life
        \/ Do(C_Lock)
        \/ Do(C_Signal)
    BY <1>6 DEF ControllerRuns
  <2>2. QED
    BY <2>1, <1>1, <1>3, <1>4, ControllerSteps_CtrlStep
<1>7. CASE PadstateRuns
  <2>1. (T_Lock \/ TelemetryReads \/ T_Unlock \/ TimedWait \/ T_Publish) /\ UNCHANGED life
    BY <1>7 DEF PadstateRuns
  <2>2. QED
    BY <2>1, <1>2, TelemetrySteps_PadstateStep
<1>8. QED
  BY <1>5, <1>6, <1>7

(***************************************************************************)
(* ... and so do births, deaths and the signal.                            *)
(***************************************************************************)
LEMMA LivesKeepLifeInv ==
    ASSUME LifeInv,
           \/ MainSteps \/ TelemetryThread \/ MockReturns
           \/ ControllerDies \/ PadstateDies
           \/ Sigint \/ HandlerSteps
    PROVE  LifeInv'
<1> USE DEF LifeInv, LifeTypeOK, PadstateTended, SocketTended, HandlerInOrder, MutexInherited, life,
            vars, ctrlVars, telemVars, TelemStates, HandlerStates, CtrlLabels, TelemLabels
<1>1. CASE MainSteps
  <2>1. CASE StartController
    BY <2>1 DEF StartController
  <2>2. CASE StartTelemetry
    BY <2>2 DEF StartTelemetry
  <2>3. CASE InitController
    BY <2>3 DEF InitController
  <2>4. CASE MainJoins
    BY <2>4 DEF MainJoins
  <2>5. QED
    BY <1>1, <2>1, <2>2, <2>3, <2>4 DEF MainSteps
<1>2. CASE TelemetryThread
  <2>1. CASE InitSocket
    <3>1. sock' <=> telem' = "spawn"
      BY <2>1, Zenon DEF InitSocket, Telem
    <3>2. sock' \in BOOLEAN
      BY <2>1 DEF InitSocket
    <3>3. telem = "init" /\ telem' \in {"spawn", "dead"}
      BY <2>1 DEF InitSocket, Telem
    <3>4. QED
      BY <2>1, <3>1, <3>2, <3>3 DEF InitSocket
  <2>2. CASE SpawnPadstate
    BY <2>2 DEF SpawnPadstate, Telem
  <2>3. CASE TelemetryDies
    BY <2>3 DEF TelemetryDies, Telem
  <2>4. CASE CancelPadstate
    BY <2>4 DEF CancelPadstate, Telem
  <2>5. CASE JoinPadstate
    BY <2>5 DEF JoinPadstate, Telem
  <2>6. CASE CloseSocket
    <3>1. ~sock' /\ sock' \in BOOLEAN
      BY <2>6, Zenon DEF CloseSocket
    <3>2. QED
      BY <2>6, <3>1 DEF CloseSocket, Telem
  <2>7. QED
    BY <1>2, <2>1, <2>2, <2>3, <2>4, <2>5, <2>6 DEF TelemetryThread
<1>3. CASE MockReturns
  BY <1>3 DEF MockReturns, Telem
<1>4. CASE ControllerDies
  BY <1>4 DEF ControllerDies
<1>5. CASE PadstateDies
  BY <1>5 DEF PadstateDies
<1>6. CASE Sigint
  BY <1>6 DEF Sigint, Handler
<1>7. CASE HandlerSteps
  <2>1. CASE CancelTelemetry
    BY <2>1 DEF CancelTelemetry, Handler
  <2>2. CASE JoinTelemetry
    BY <2>2 DEF JoinTelemetry, Handler
  <2>3. CASE CancelController
    BY <2>3 DEF CancelController, Handler
  <2>4. CASE JoinController
    BY <2>4 DEF JoinController, Handler
  <2>5. CASE Exit
    BY <2>5 DEF Exit
  <2>6. QED
    BY <1>7, <2>1, <2>2, <2>3, <2>4, <2>5 DEF HandlerSteps
<1>8. QED
  BY <1>1, <1>2, <1>3, <1>4, <1>5, <1>6, <1>7

LEMMA LifeInvStep == LifeInv /\ [LifeNext]_lifeVars => LifeInv'
<1>1. ASSUME LifeInv, LifeNext PROVE LifeInv'
  BY <1>1, ServerKeepsLifeInv, LivesKeepLifeInv DEF LifeNext
<1>2. ASSUME LifeInv, UNCHANGED lifeVars PROVE LifeInv'
  BY <1>2 DEF LifeInv, LifeTypeOK, PadstateTended, SocketTended, HandlerInOrder, MutexInherited,
      lifeVars, life, vars, ctrlVars, telemVars
<1>3. QED
  BY <1>1, <1>2

(***************************************************************************)
(* The inductive invariant holds in every execution, fair or not, with and *)
(* without a bad data file, whatever the second pthread_join does.         *)
(***************************************************************************)
THEOREM LifeInvAlways == LifeSpec => []LifeInv
BY InitLifeInv, LifeInvStep, PTL DEF LifeSpec

(***************************************************************************)
(* The pad-state thread never works with a closed socket or with arguments *)
(* of a function that has returned (telemetry.c:547, telemetry.c:558).     *)
(***************************************************************************)
THEOREM SocketIsThere == LifeSpec => []SocketOutlivesItsUser
<1>1. LifeInv => SocketOutlivesItsUser
  BY DEF LifeInv, LifeTypeOK, PadstateTended, SocketTended, SocketOutlivesItsUser
<1>2. QED
  BY <1>1, LifeInvAlways, PTL

(***************************************************************************)
(* int_handler exits behind its own cleanup (pad_server_main.c).           *)
(***************************************************************************)
THEOREM CleanExit == LifeSpec => []ExitAfterCleanup
<1>1. LifeInv => ExitAfterCleanup
  BY DEF LifeInv, LifeTypeOK, PadstateTended, SocketTended, HandlerInOrder, ExitAfterCleanup
<1>2. QED
  BY <1>1, LifeInvAlways, PTL

(***************************************************************************)
(* Why padstate_signal_update may wait for ever (state.c:121 promises that *)
(* it returns): once the pad-state thread is dead, a controller that wants *)
(* the mutex never goes past pthread_mutex_lock, and no cancellation ends  *)
(* it there.                                                               *)
(***************************************************************************)
THEOREM StuckForEver == LifeSpec => ControllerStuck
<1>1. ASSUME LifeInv, LifeNext, pcT = "dead", pcC = "lock"
      PROVE  pcC' = "lock"
  <2> USE <1>1 DEF life, vars, ctrlVars, telemVars
  <2>1. updateMut = "telemetry"
    BY DEF LifeInv, MutexInherited
  <2>2. CASE ClientRuns \/ ControllerRuns
    <3>1. ~C_Lock /\ ~C_Signal
      BY <2>1 DEF C_Lock, C_Signal
    <3>2. ~CtrlStep
      BY DEF CtrlStep
    <3>3. \/ ClientSteps \/ C_Reply
          \/ C_Arm \/ C_CheckActuation \/ C_Drive \/ C_DriveFails \/ C_FollowUp
      BY <2>2, <3>1 DEF ClientRuns, ControllerRuns, Do
    <3>4. QED
      BY <3>2, <3>3, ControllerSteps_CtrlStep
  <2>3. CASE PadstateRuns
    <3>1. T_Lock \/ TelemetryReads \/ T_Unlock \/ TimedWait \/ T_Publish
      BY <2>3 DEF PadstateRuns, Do
    <3>2. QED
      BY <3>1, TelemetrySteps_PadstateStep DEF PadstateStep
  <2>4. CASE MainSteps
    BY <2>4 DEF MainSteps, StartController, StartTelemetry, InitController, MainJoins
  <2>5. CASE TelemetryThread \/ MockReturns
    BY <2>5 DEF TelemetryThread, InitSocket, SpawnPadstate, TelemetryDies, CancelPadstate,
       JoinPadstate, CloseSocket, MockReturns
  <2>6. CASE ControllerDies \/ PadstateDies
    BY <2>6 DEF ControllerDies, PadstateDies
  <2>7. CASE Sigint \/ HandlerSteps
    BY <2>7 DEF Sigint, HandlerSteps, CancelTelemetry, JoinTelemetry, CancelController,
       JoinController, Exit
  <2>8. QED
    BY <2>2, <2>3, <2>4, <2>5, <2>6, <2>7 DEF LifeNext
<1>2. ASSUME LifeInv, [LifeNext]_lifeVars
      PROVE  [pcT = "dead" /\ pcC = "lock" => pcC' = "lock"]_lifeVars
  BY <1>1, <1>2
<1>3. QED
  BY <1>2, LifeInvAlways, PTL DEF LifeSpec, ControllerStuck

-----------------------------------------------------------------------------
(***************************************************************************)
(* The two threads implement PadCommands, for every number of actuators,   *)
(* every set of requests and every network: each step of PadServer is a    *)
(* step of PadCommands, or one it does not see.                            *)
(***************************************************************************)
USE DEF Decided, AbsLevel

(***************************************************************************)
(* An actuation asks for at most one level, so the level it leads to is    *)
(* the one padstate_change_level sets.                                     *)
(***************************************************************************)
LEMMA FollowUpIsLevelAfter ==
    ASSUME NEW lvl, NEW id, NEW s
    PROVE  /\ \A new \in FollowUp(lvl, id, s) : ChangeAllowed(lvl, new) => LevelAfter(lvl, id, s) = new
           /\ (\A new \in FollowUp(lvl, id, s) : ~ChangeAllowed(lvl, new))
                 => LevelAfter(lvl, id, s) = lvl
<1>1. \A a, b \in FollowUp(lvl, id, s) : a = b
  BY ActuatorAssumption DEF FollowUp
<1>2. ASSUME NEW new \in FollowUp(lvl, id, s), ChangeAllowed(lvl, new)
      PROVE  LevelAfter(lvl, id, s) = new
  <2>1. LevelAfter(lvl, id, s) \in FollowUp(lvl, id, s)
    BY <1>2 DEF LevelAfter
  <2>2. QED
    BY <2>1, <1>1
<1>3. QED
  BY <1>2 DEF LevelAfter

(***************************************************************************)
(* PadCommands and PadServer decide by the same rules.                     *)
(***************************************************************************)
LEMMA SameCodes ==
    /\ Commands!Levels = Levels /\ Commands!FiringSequence = FiringSequence
    /\ Commands!ARMED_PAD = ARMED_PAD /\ Commands!ARMED_VALVES = ARMED_VALVES
    /\ Commands!ARMED_IGNITION = ARMED_IGNITION
    /\ Commands!ARMED_DISCONNECTED = ARMED_DISCONNECTED
    /\ Commands!ARMED_LAUNCH = ARMED_LAUNCH
    /\ Commands!ARM_OK = ARM_OK /\ Commands!ARM_DENIED = ARM_DENIED /\ Commands!ARM_INV = ARM_INV
    /\ Commands!ACT_OK = ACT_OK /\ Commands!ACT_DENIED = ACT_DENIED
    /\ Commands!ACT_DNE = ACT_DNE /\ Commands!ACT_INV = ACT_INV
    /\ Commands!CONN_CONNECTED = CONN_CONNECTED
    /\ Commands!CONN_RECONNECTING = CONN_RECONNECTING
    /\ Commands!Actuators = Actuators
    /\ Commands!NoAnswer = NoRequest
<1>1. /\ Commands!ARMED_PAD = ARMED_PAD /\ Commands!ARMED_VALVES = ARMED_VALVES
      /\ Commands!ARMED_IGNITION = ARMED_IGNITION
      /\ Commands!ARMED_DISCONNECTED = ARMED_DISCONNECTED
      /\ Commands!ARMED_LAUNCH = ARMED_LAUNCH
  BY DEF Commands!ARMED_PAD, ARMED_PAD, Commands!ARMED_VALVES, ARMED_VALVES,
      Commands!ARMED_IGNITION, ARMED_IGNITION, Commands!ARMED_DISCONNECTED, ARMED_DISCONNECTED,
      Commands!ARMED_LAUNCH, ARMED_LAUNCH
<1>2. Commands!Levels = Levels /\ Commands!FiringSequence = FiringSequence
  BY <1>1 DEF Commands!Levels, Levels, Commands!FiringSequence, FiringSequence
<1>3. /\ Commands!ARM_OK = ARM_OK /\ Commands!ARM_DENIED = ARM_DENIED
      /\ Commands!ARM_INV = ARM_INV
  BY DEF Commands!ARM_OK, ARM_OK, Commands!ARM_DENIED, ARM_DENIED, Commands!ARM_INV, ARM_INV
<1>4. /\ Commands!ACT_OK = ACT_OK /\ Commands!ACT_DENIED = ACT_DENIED
      /\ Commands!ACT_DNE = ACT_DNE /\ Commands!ACT_INV = ACT_INV
  BY DEF Commands!ACT_OK, ACT_OK, Commands!ACT_DENIED, ACT_DENIED, Commands!ACT_DNE, ACT_DNE,
      Commands!ACT_INV, ACT_INV
<1>5. /\ Commands!CONN_CONNECTED = CONN_CONNECTED
      /\ Commands!CONN_RECONNECTING = CONN_RECONNECTING
      /\ Commands!Actuators = Actuators
      /\ Commands!NoAnswer = NoRequest
  BY DEF Commands!CONN_CONNECTED, CONN_CONNECTED, Commands!CONN_RECONNECTING, CONN_RECONNECTING,
      Commands!Actuators, Actuators, Commands!NoAnswer, NoRequest
<1>6. QED
  BY <1>1, <1>2, <1>3, <1>4, <1>5

(***************************************************************************)
(* So do the operators the rules are written with.                         *)
(***************************************************************************)
LEMMA SameRules ==
    ASSUME NEW lvl, NEW new, NEW id, NEW s
    PROVE  /\ Commands!ArmStatus(lvl, new) = ArmStatus(lvl, new)
           /\ Commands!ActStatus(lvl, id, s) = ActStatus(lvl, id, s)
           /\ Commands!LevelAfter(lvl, id, s) = LevelAfter(lvl, id, s)
<1>1. \A n : Commands!ChangeAllowed(lvl, n) = ChangeAllowed(lvl, n)
  BY SameCodes DEF Commands!ChangeAllowed, ChangeAllowed
<1>2. Commands!Solenoids = Solenoids
  BY DEF Commands!Solenoids, Solenoids
<1>3. Commands!Commandable(lvl) = Commandable(lvl)
  BY <1>2, SameCodes DEF Commands!Commandable, Commandable
<1>4. Commands!FollowUp(lvl, id, s) = FollowUp(lvl, id, s)
  BY SameCodes DEF Commands!FollowUp, FollowUp
<1>5. Commands!ArmStatus(lvl, new) = ArmStatus(lvl, new)
  BY <1>1, SameCodes DEF Commands!ArmStatus, ArmStatus
<1>6. Commands!ActStatus(lvl, id, s) = ActStatus(lvl, id, s)
  BY <1>3, SameCodes DEF Commands!ActStatus, ActStatus
<1>7. Commands!LevelAfter(lvl, id, s) = LevelAfter(lvl, id, s)
  BY <1>1, <1>4 DEF Commands!LevelAfter, LevelAfter
<1>8. QED
  BY <1>5, <1>6, <1>7

(***************************************************************************)
(* The server starts in a state of PadCommands.                            *)
(***************************************************************************)
LEMMA InitRefines == Init => Commands!Init
BY SameCodes DEF Init, Commands!Init

(***************************************************************************)
(* The answer PadCommands sees.                                            *)
(***************************************************************************)
AbsAnswer == IF Decided THEN [kind |-> "ack", req |-> req, status |-> status] ELSE NoRequest

(***************************************************************************)
(* Every step of PadServer, seen through the mapping.                      *)
(***************************************************************************)
LEMMA StepRefines == IndInv /\ [Next]_vars => [Commands!Next]_(Commands!vars)
<1> SUFFICES ASSUME IndInv, [Next]_vars PROVE Commands!Next \/ UNCHANGED Commands!vars
  OBVIOUS
<1>0. TypeOK /\ TypeOK' /\ RequestInv /\ PermitInv
  BY TypeStep DEF IndInv
<1>1. CASE UNCHANGED vars
  BY <1>1 DEF Commands!vars, vars, ctrlVars, AbsAnswer
<1>2. CASE C_Accept
  <2>1. conn = CONN_RECONNECTING /\ conn' = CONN_CONNECTED
    BY <1>0, <1>2 DEF C_Accept, RequestInv
  <2>2. UNCHANGED <<AbsLevel, act, AbsAnswer>>
    BY <1>2 DEF C_Accept, SignalThen, AbsAnswer
  <2>3. Commands!Connect
    BY <2>1, <2>2, SameCodes DEF Commands!Connect, AbsAnswer
  <2>4. QED
    BY <2>3 DEF Commands!Next
<1>3. CASE C_Disconnect
  <2>1. conn = CONN_CONNECTED /\ conn' = CONN_RECONNECTING /\ AbsAnswer = NoRequest
    BY <1>0, <1>3 DEF C_Disconnect, RequestInv, AbsAnswer
  <2>2. UNCHANGED <<AbsLevel, act, AbsAnswer>>
    BY <1>3 DEF C_Disconnect, SignalThen, AbsAnswer
  <2>3. Commands!Disconnect
    BY <2>1, <2>2, SameCodes DEF Commands!Disconnect, AbsAnswer
  <2>4. QED
    BY <2>3 DEF Commands!Next
<1>4. ASSUME NEW r \in Requests, C_Receive(r) PROVE UNCHANGED Commands!vars
  BY <1>4 DEF Commands!vars, C_Receive, AbsAnswer
<1>5. CASE C_Arm
  <2>1. req \in Requests /\ req.kind = "arm" /\ conn = CONN_CONNECTED /\ AbsAnswer = NoRequest
    BY <1>0, <1>5 DEF C_Arm, RequestInv, AbsAnswer
  <2>2. AbsAnswer' = Commands!Reply(req, ArmStatus(level, req.level))
    BY <1>5 DEF C_Arm, SignalThen, AbsAnswer, Commands!Reply
  <2>3. AbsLevel' = (IF ArmStatus(level, req.level) = ARM_OK THEN req.level ELSE level)
        /\ AbsLevel = level /\ UNCHANGED <<conn, act>>
    BY <1>5 DEF C_Arm, SignalThen
  <2>4. Commands!Arm(req)
    BY <2>1, <2>2, <2>3, SameRules, SameCodes DEF Commands!Arm, Commands!Ready, AbsAnswer
  <2>5. QED
    BY <2>1, <2>4 DEF Commands!Next
<1>6. CASE C_CheckActuation
  <2>1. req \in Requests /\ req.kind = "act" /\ conn = CONN_CONNECTED /\ AbsAnswer = NoRequest
    BY <1>0, <1>6 DEF C_CheckActuation, RequestInv, AbsAnswer
  <2>2. UNCHANGED <<AbsLevel, conn, act>> /\ AbsLevel = level
    BY <1>6 DEF C_CheckActuation
  <2>3. CASE ActStatus(level, req.id, req.state) = ACT_OK
    BY <2>1, <2>2, <2>3, <1>6 DEF Commands!vars, C_CheckActuation, AbsAnswer
  <2>4. CASE ActStatus(level, req.id, req.state) # ACT_OK
    <3>1. AbsAnswer' = Commands!Reply(req, ActStatus(level, req.id, req.state))
      BY <2>4, <1>6 DEF C_CheckActuation, AbsAnswer, Commands!Reply
    <3>2. Commands!Refuse(req)
      BY <2>1, <2>2, <2>4, <3>1, SameRules, SameCodes
      DEF Commands!Refuse, Commands!Ready, AbsAnswer
    <3>3. QED
      BY <2>1, <3>2 DEF Commands!Next
  <2>5. QED
    BY <2>3, <2>4
<1>7. CASE C_Drive
  <2>1. /\ req \in Requests /\ req.kind = "act" /\ status = ACT_OK
        /\ conn = CONN_CONNECTED /\ AbsAnswer = NoRequest
        /\ ActStatus(level, req.id, req.state) = ACT_OK
    BY <1>0, <1>7 DEF C_Drive, RequestInv, PermitInv, AbsAnswer
  <2>2. AbsAnswer' = Commands!Reply(req, ACT_OK)
    BY <2>1, <1>7 DEF C_Drive, AbsAnswer, Commands!Reply
  <2>3. AbsLevel = level /\ AbsLevel' = LevelAfter(level, req.id, req.state)
    BY <1>7 DEF C_Drive
  <2>4. Commands!Actuate(req)
    BY <2>1, <2>2, <2>3, <1>7, SameRules, SameCodes
    DEF Commands!Actuate, Commands!Ready, AbsAnswer, C_Drive
  <2>5. QED
    BY <2>1, <2>4 DEF Commands!Next
<1>8. CASE C_DriveFails
  BY <1>8 DEF Commands!vars, C_DriveFails, AbsAnswer
<1>9. CASE C_FollowUp
  <2>1. level' = LevelAfter(level, req.id, req.state)
    BY <1>9, FollowUpIsLevelAfter DEF C_FollowUp
  <2>2. AbsLevel' = AbsLevel
    BY <2>1, <1>9 DEF C_FollowUp, SignalThen
  <2>3. AbsAnswer' = AbsAnswer
    BY <1>9 DEF C_FollowUp, SignalThen, AbsAnswer
  <2>4. QED
    BY <2>2, <2>3, <1>9 DEF Commands!vars, C_FollowUp, AbsAnswer
<1>10. CASE C_Lock
  BY <1>10 DEF Commands!vars, C_Lock, AbsAnswer
<1>11. CASE C_Signal
  BY <1>11, <1>0 DEF Commands!vars, C_Signal, AbsAnswer, TypeOK
<1>12. CASE C_Reply
  <2>1. AbsAnswer # NoRequest /\ AbsAnswer' = NoRequest
    BY <1>12 DEF C_Reply, AbsAnswer, NoRequest
  <2>2. UNCHANGED <<AbsLevel, conn, act>>
    BY <1>12 DEF C_Reply
  <2>3. Commands!SendAnswer
    BY <2>1, <2>2, SameCodes DEF Commands!SendAnswer, AbsAnswer
  <2>4. QED
    BY <2>3 DEF Commands!Next
<1>13. CASE TelemetrySteps
  <2>1. UNCHANGED <<level, conn, act, ctrlVars>>
    BY <1>13 DEF TelemetrySteps, TelemetryReads, T_Lock, T_Timeout, T_SpuriousWakeup, T_ReadLevel,
                 T_ReadConn, T_ReadAct, T_Publish, T_Unlock
  <2>2. QED
    BY <2>1 DEF Commands!vars, ctrlVars, AbsAnswer
<1>14. QED
  BY <1>1, <1>2, <1>3, <1>4, <1>5, <1>6, <1>7, <1>8, <1>9, <1>10, <1>11, <1>12, <1>13
  DEF Next, ControllerSteps

(***************************************************************************)
(* The controller thread executes each request as one atomic step of       *)
(* PadCommands (state.c:142, state.c:238, controller.c:342).               *)
(***************************************************************************)
THEOREM ServerImplementsCommands == Spec => ImplementsPadCommands
<1>1. Init => Commands!Init
  BY InitRefines
<1>2. IndInv /\ [Next]_vars => [Commands!Next]_(Commands!vars)
  BY StepRefines
<1>3. QED
  BY <1>1, <1>2, IndInvAlways, PTL DEF Spec, Commands!Spec, ImplementsPadCommands
=============================================================================
