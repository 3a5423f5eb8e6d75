----------------------- MODULE ActuatorDriver_proofs -----------------------
(***************************************************************************)
(* What holds of the actuator drivers for any actuators, any limit on      *)
(* descriptors and any faults of the devices.                              *)
(***************************************************************************)
EXTENDS ActuatorDriver, TLAPS

USE DriverAssumption

LEMMA InitDriverInv == Init => DriverInv
<1> SUFFICES ASSUME Init PROVE DriverInv
  OBVIOUS
<1>1. DriverTypeOK
  <2>1. 0 \in 0 .. MaxFds /\ "none" \in {"none", "ok", "silence"}
    OBVIOUS
  <2>2. cmd \in [id : Ids, on : BOOLEAN]
    BY DEF Init
  <2> QED
    BY <2>1, <2>2 DEF Init, DriverTypeOK, Ids, Duties, Results, Labels
<1>2. pc = "idle" /\ \A a \in Gpio : pin[a] = recorded[a]
  BY DEF Init, Ids
<1> QED
  BY <1>1, <1>2 DEF DriverInv

\* Every step keeps the invariant.  Each action is a case of its own.
LEMMA NextDriverInv == DriverInv /\ [Next]_vars => DriverInv'
<1> SUFFICES ASSUME DriverInv, [Next]_vars PROVE DriverInv'
  OBVIOUS
<1> USE DEF DriverInv, DriverTypeOK, Ids, Duties, Results, Labels, Failed, Errno, At, GoTo,
            Return, Fault, Pulse, device
<1>1. ASSUME NEW a \in Ids, NEW on \in BOOLEAN, Command(a, on) PROVE DriverInv'
  BY <1>1 DEF Command
<1>2. CASE Open
  BY <1>2 DEF Open
<1>3. CASE OpenFails
  BY <1>3 DEF OpenFails
<1>4. CASE Write
  BY <1>4 DEF Write
<1>5. CASE WriteFails
  BY <1>5 DEF WriteFails
<1>6. CASE Close
  BY <1>6 DEF Close
<1>7. CASE CloseFails
  BY <1>7 DEF CloseFails
<1>8. CASE GetCharacteristics
  BY <1>8 DEF GetCharacteristics
<1>9. CASE SetCharacteristics
  BY <1>9 DEF SetCharacteristics
<1>10. CASE StartPwm
  BY <1>10 DEF StartPwm
<1>11. CASE PwmFails
  BY <1>11 DEF PwmFails
<1>12. CASE Record
  BY <1>12 DEF Record
<1>13. CASE GiveUp
  BY <1>13 DEF GiveUp
<1>14. CASE UNCHANGED vars
  BY <1>14 DEF vars
<1> QED
  BY <1>1, <1>2, <1>3, <1>4, <1>5, <1>6, <1>7, <1>8, <1>9, <1>10, <1>11, <1>12, <1>13, <1>14 DEF Next

\* The inductive invariant holds in every reachable state.
THEOREM DriverInvAlways == Spec => []DriverInv
  BY InitDriverInv, NextDriverInv, PTL DEF Spec

\* Type correctness of the drivers.
THEOREM DriverTypeCorrect == Spec => []DriverTypeOK
<1>1. DriverInv => DriverTypeOK
  BY DEF DriverInv
<1> QED
  BY <1>1, DriverInvAlways, PTL

\* An answered GPIO command has been carried out, whatever failed: the pin is
\* where the recorded state says, unless the last command was not answered.
THEOREM GpioAnswersAreTrue == Spec => []GpioAnswerMeansDriven
<1>1. DriverInv => GpioAnswerMeansDriven
  BY DEF DriverInv, GpioAnswerMeansDriven
<1> QED
  BY <1>1, DriverInvAlways, PTL

\* An answered GPIO command has given its descriptor back.
THEOREM GpioDescriptorsReturn == Spec => []GpioGivesBack
<1>1. DriverInv => GpioGivesBack
  BY DEF DriverInv, GpioGivesBack, Failed
<1> QED
  BY <1>1, DriverInvAlways, PTL

\* Only SetCharacteristics changes a duty, and it takes the others over from a
\* copy that is still the device's: driving one channel never changes another.
THEOREM ChannelsIndependent == Spec => OtherChannelKept
<1>1. DriverInv /\ [Next]_vars => [\A a \in Pwm : duty'[a] # duty[a] => cmd.id = a]_vars
  <2> SUFFICES ASSUME DriverInv, [Next]_vars, NEW a \in Pwm, duty'[a] # duty[a]
               PROVE  cmd.id = a
    OBVIOUS
  <2>1. SetCharacteristics
    BY DEF Next, vars, device, Command, Open, OpenFails, Write, WriteFails, Close, CloseFails,
           GetCharacteristics, StartPwm, PwmFails, Record, GiveUp
  <2> QED
    BY <2>1 DEF SetCharacteristics, At, DriverInv, DriverTypeOK
<1> QED
  BY <1>1, DriverInvAlways, PTL DEF Spec, OtherChannelKept
=============================================================================
