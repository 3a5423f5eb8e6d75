--------------------------- MODULE PadLadder_proofs ---------------------------
(***************************************************************************)
(* For every set of actuators and every set of requests: no rung of the    *)
(* arming ladder is skipped.                                               *)
(***************************************************************************)
EXTENDS PadLadder, TLAPS

(***************************************************************************)
(* A level that may follow another is at most one above it.                *)
(***************************************************************************)
LEMMA ChangeClimbsByOne ==
    ASSUME NEW lvl \in Levels, NEW new \in Levels, ChangeAllowed(lvl, new)
    PROVE  new <= lvl + 1
BY DEF ChangeAllowed, Levels, ARMED_PAD, ARMED_VALVES, ARMED_LAUNCH

(***************************************************************************)
(* So does the level an actuation leads to, and it is a level.             *)
(***************************************************************************)
LEMMA LevelAfterClimbsByOne ==
    ASSUME NEW lvl \in Levels, NEW id, NEW s
    PROVE  LevelAfter(lvl, id, s) \in Levels /\ LevelAfter(lvl, id, s) <= lvl + 1
<1> DEFINE Moves == {new \in FollowUp(lvl, id, s) : ChangeAllowed(lvl, new)}
<1>1. FollowUp(lvl, id, s) \subseteq Levels
  BY DEF FollowUp, Levels, ARMED_PAD, ARMED_IGNITION, ARMED_DISCONNECTED, ARMED_LAUNCH
<1>2. CASE \E new \in FollowUp(lvl, id, s) : ChangeAllowed(lvl, new)
  <2>1. LevelAfter(lvl, id, s) \in FollowUp(lvl, id, s) /\ ChangeAllowed(lvl, LevelAfter(lvl, id, s))
    BY <1>2 DEF LevelAfter
  <2>2. QED
    BY <2>1, <1>1, ChangeClimbsByOne
<1>3. CASE ~\E new \in FollowUp(lvl, id, s) : ChangeAllowed(lvl, new)
  BY <1>3 DEF LevelAfter, Levels, ARMED_PAD, ARMED_LAUNCH
<1>4. QED
  BY <1>2, <1>3

(***************************************************************************)
(* The inductive invariant: enough of the types, and the ladder.           *)
(***************************************************************************)
LadderInv ==
    /\ level \in Levels
    /\ act \in [Actuators -> BOOLEAN]
    /\ visited \subseteq Levels
    /\ NoRungSkipped

LEMMA LadderInvInit == LadderInit => LadderInv
BY DEF LadderInit, Init, LadderInv, NoRungSkipped, Levels, ARMED_PAD, ARMED_LAUNCH

(***************************************************************************)
(* Every step climbs at most one level.                                    *)
(***************************************************************************)
LEMMA StepClimbsByOne ==
    ASSUME level \in Levels, act \in [Actuators -> BOOLEAN], [Next]_vars
    PROVE  level' \in Levels /\ level' <= level + 1 /\ act' \in [Actuators -> BOOLEAN]
<1>0. level <= level + 1
  BY DEF Levels, ARMED_PAD, ARMED_LAUNCH
<1>1. CASE UNCHANGED vars
  BY <1>0, <1>1 DEF vars
<1>2. CASE Connect \/ Disconnect \/ SendAnswer
  BY <1>0, <1>2 DEF Connect, Disconnect, SendAnswer
<1>3. ASSUME NEW r \in Requests, Arm(r)
      PROVE  level' \in Levels /\ level' <= level + 1 /\ act' = act
  <2>1. CASE ArmStatus(level, r.level) = ARM_OK
    <3>1. r.level \in Levels /\ ChangeAllowed(level, r.level)
      BY <2>1 DEF ArmStatus, ARM_OK, ARM_INV, ARM_DENIED
    <3>2. QED
      BY <3>1, <2>1, <1>3, ChangeClimbsByOne DEF Arm
  <2>2. CASE ArmStatus(level, r.level) # ARM_OK
    BY <2>2, <1>3, <1>0 DEF Arm
  <2>3. QED
    BY <2>1, <2>2
<1>4. ASSUME NEW r \in Requests, Actuate(r)
      PROVE  level' \in Levels /\ level' <= level + 1 /\ act' \in [Actuators -> BOOLEAN]
  <2>1. act' \in [Actuators -> BOOLEAN]
    BY <1>4 DEF Actuate
  <2>2. QED
    BY <2>1, <1>4, LevelAfterClimbsByOne DEF Actuate
<1>5. ASSUME NEW r \in Requests, Refuse(r)
      PROVE  level' = level /\ act' = act
  BY <1>5 DEF Refuse
<1>6. QED
  BY <1>0, <1>1, <1>2, <1>3, <1>4, <1>5 DEF Next

LEMMA LadderInvStep == LadderInv /\ [LadderNext]_ladderVars => LadderInv'
<1> SUFFICES ASSUME LadderInv, [LadderNext]_ladderVars PROVE LadderInv'
  OBVIOUS
<1>1. CASE UNCHANGED ladderVars
  BY <1>1 DEF LadderInv, NoRungSkipped, ladderVars, vars
<1>2. CASE LadderNext
  <2>1. level' \in Levels /\ level' <= level + 1 /\ act' \in [Actuators -> BOOLEAN]
    BY <1>2, StepClimbsByOne DEF LadderNext, LadderInv
  <2>2. visited' \subseteq Levels
    BY <1>2, <2>1 DEF LadderNext, LadderInv, Levels, ARMED_PAD, ARMED_LAUNCH
  <2>3. NoRungSkipped'
    <3>1. CASE level' = ARMED_PAD
      BY <3>1, <1>2 DEF LadderNext, NoRungSkipped, ARMED_PAD
    <3>2. CASE level' # ARMED_PAD
      <4>1. visited' = visited \cup {level'}
        BY <3>2, <1>2 DEF LadderNext
      <4>2. ARMED_PAD .. level' \subseteq (ARMED_PAD .. level) \cup {level'}
        BY <2>1 DEF LadderInv, Levels, ARMED_PAD, ARMED_LAUNCH
      <4>3. QED
        BY <4>1, <4>2 DEF LadderInv, NoRungSkipped
    <3>3. QED
      BY <3>1, <3>2
  <2>4. QED
    BY <2>1, <2>2, <2>3 DEF LadderInv
<1>3. QED
  BY <1>1, <1>2

LEMMA LadderInvAlways == LadderSpec => []LadderInv
BY LadderInvInit, LadderInvStep, PTL DEF LadderSpec

(***************************************************************************)
(* state.c:142 and state.c:238 together never let the pad skip a level on  *)
(* the way up, for any actuators and any requests.                         *)
(***************************************************************************)
THEOREM LadderNeverSkips == LadderSpec => []NoRungSkipped
<1>1. LadderInv => NoRungSkipped
  BY DEF LadderInv
<1>2. QED
  BY <1>1, LadderInvAlways, PTL

(***************************************************************************)
(* What turned an actuator on: an accepted request to drive it, made at a  *)
(* level at which it was commandable.                                      *)
(***************************************************************************)
LEMMA TurnedOnByActuate ==
    ASSUME act \in [Actuators -> BOOLEAN], NEW i, i # ID_DUMP,
           Next, TurnsOn(i)
    PROVE  /\ i \in Commandable(level)
           /\ \E s : s # 0 /\ level' = LevelAfter(level, i, s)
<1>1. i \in Actuators /\ ~act[i] /\ act'[i]
  BY DEF TurnsOn
<1>2. PICK r \in Requests : Actuate(r)
  BY <1>1 DEF Next, Connect, Disconnect, SendAnswer, Arm, Refuse
<1>3. i = r.id
  BY <1>1, <1>2 DEF Actuate
<1>4. act'[i] = (r.state # 0)
  BY <1>1, <1>2, <1>3 DEF Actuate
<1>5. r.state # 0
  BY <1>1, <1>4
<1>6. level' = LevelAfter(level, i, r.state)
  BY <1>2, <1>3 DEF Actuate
<1>7. ActStatus(level, i, r.state) = ACT_OK
  BY <1>2, <1>3 DEF Actuate
<1>8. i \in Commandable(level)
  BY <1>7 DEF ActStatus, ACT_OK, ACT_DNE, ACT_INV, ACT_DENIED
<1>9. QED
  BY <1>5, <1>6, <1>8

(***************************************************************************)
(* Whatever the requests, and whichever ids the actuators have, the fire   *)
(* valve opens and the igniter fires only from the levels pad_actuate      *)
(* allows (state.c:271), each reached by climbing every rung below.        *)
(***************************************************************************)
THEOREM FireNeedsWholeLadder == LadderSpec => NoShortcutToFire
<1> DEFINE Shortcut ==
      /\ TurnsOn(ID_FIRE_VALVE) => visited = Levels
      /\ TurnsOn(ID_IGNITER) => ARMED_PAD .. ARMED_DISCONNECTED \subseteq visited
<1>1. LadderInv /\ [LadderNext]_ladderVars => [Shortcut]_ladderVars
  <2> SUFFICES ASSUME LadderInv, LadderNext PROVE Shortcut
    OBVIOUS
  <2>1. ASSUME TurnsOn(ID_FIRE_VALVE) PROVE visited = Levels
    <3>1. ID_FIRE_VALVE \in Commandable(level)
      BY <2>1, TurnedOnByActuate, ActuatorAssumption DEF LadderInv, LadderNext
    <3>2. level = ARMED_LAUNCH
      BY <3>1, ActuatorAssumption
      DEF LadderInv, Commandable, Solenoids, Special, Levels, ARMED_PAD, ARMED_VALVES,
          ARMED_IGNITION, ARMED_DISCONNECTED, ARMED_LAUNCH
    <3>3. QED
      BY <3>2 DEF LadderInv, NoRungSkipped, Levels
  <2>2. ASSUME TurnsOn(ID_IGNITER) PROVE ARMED_PAD .. ARMED_DISCONNECTED \subseteq visited
    <3>1. ID_IGNITER \in Commandable(level)
      BY <2>2, TurnedOnByActuate, ActuatorAssumption DEF LadderInv, LadderNext
    <3>2. level >= ARMED_DISCONNECTED
      BY <3>1, ActuatorAssumption
      DEF LadderInv, Commandable, Solenoids, Special, Levels, ARMED_PAD, ARMED_VALVES,
          ARMED_IGNITION, ARMED_DISCONNECTED, ARMED_LAUNCH
    <3>3. QED
      BY <3>2 DEF LadderInv, NoRungSkipped, Levels, ARMED_PAD, ARMED_DISCONNECTED, ARMED_LAUNCH
  <2>3. QED
    BY <2>1, <2>2
<1>2. QED
  BY <1>1, LadderInvAlways, PTL DEF LadderSpec, NoShortcutToFire

(***************************************************************************)
(* From every level at which the quick disconnect may be commanded, to     *)
(* turn it on leads to ARMED_DISCONNECTED or leaves the pad above it: the  *)
(* level state.c:322 asks for is never refused.                            *)
(***************************************************************************)
LEMMA DisconnectAdvances ==
    ASSUME NEW lvl \in Levels, ID_QUICK_DISCONNECT \in Commandable(lvl), NEW s, s # 0
    PROVE  LevelAfter(lvl, ID_QUICK_DISCONNECT, s) >= ARMED_DISCONNECTED
<1> DEFINE F == FollowUp(lvl, ID_QUICK_DISCONNECT, s)
<1>1. lvl \in {ARMED_IGNITION, ARMED_DISCONNECTED, ARMED_LAUNCH}
  BY ActuatorAssumption
  DEF Commandable, Solenoids, Special, Levels, ARMED_PAD, ARMED_VALVES,
      ARMED_IGNITION, ARMED_DISCONNECTED, ARMED_LAUNCH
<1>2. CASE lvl = ARMED_IGNITION
  <2>1. F = {ARMED_DISCONNECTED}
    BY <1>2, ActuatorAssumption DEF FollowUp, ARMED_IGNITION, ARMED_DISCONNECTED, ARMED_LAUNCH
  <2>2. ChangeAllowed(lvl, ARMED_DISCONNECTED)
    BY <1>2 DEF ChangeAllowed, ARMED_IGNITION, ARMED_DISCONNECTED, ARMED_LAUNCH
  <2>3. LevelAfter(lvl, ID_QUICK_DISCONNECT, s) = ARMED_DISCONNECTED
    BY <2>1, <2>2 DEF LevelAfter
  <2>4. QED
    BY <2>3 DEF ARMED_DISCONNECTED
<1>3. CASE lvl \in {ARMED_DISCONNECTED, ARMED_LAUNCH}
  <2>1. F = {}
    BY <1>3, ActuatorAssumption DEF FollowUp, ARMED_IGNITION, ARMED_DISCONNECTED, ARMED_LAUNCH
  <2>2. LevelAfter(lvl, ID_QUICK_DISCONNECT, s) = lvl
    BY <2>1 DEF LevelAfter
  <2>3. QED
    BY <1>3, <2>2 DEF ARMED_DISCONNECTED, ARMED_LAUNCH
<1>4. QED
  BY <1>1, <1>2, <1>3

(***************************************************************************)
(* Likewise the igniter, which leads to ARMED_LAUNCH (state.c:336).        *)
(***************************************************************************)
LEMMA IgniterAdvances ==
    ASSUME NEW lvl \in Levels, ID_IGNITER \in Commandable(lvl), NEW s, s # 0
    PROVE  LevelAfter(lvl, ID_IGNITER, s) = ARMED_LAUNCH
<1> DEFINE F == FollowUp(lvl, ID_IGNITER, s)
<1>1. lvl \in {ARMED_DISCONNECTED, ARMED_LAUNCH}
  BY ActuatorAssumption
  DEF Commandable, Solenoids, Special, Levels, ARMED_PAD, ARMED_VALVES,
      ARMED_IGNITION, ARMED_DISCONNECTED, ARMED_LAUNCH
<1>2. CASE lvl = ARMED_DISCONNECTED
  <2>1. F = {ARMED_LAUNCH}
    BY <1>2, ActuatorAssumption DEF FollowUp, ARMED_IGNITION, ARMED_DISCONNECTED, ARMED_LAUNCH
  <2>2. ChangeAllowed(lvl, ARMED_LAUNCH)
    BY <1>2 DEF ChangeAllowed, ARMED_DISCONNECTED, ARMED_LAUNCH
  <2>3. QED
    BY <2>1, <2>2 DEF LevelAfter
<1>3. CASE lvl = ARMED_LAUNCH
  <2>1. F = {}
    BY <1>3, ActuatorAssumption DEF FollowUp, ARMED_IGNITION, ARMED_DISCONNECTED, ARMED_LAUNCH
  <2>2. QED
    BY <1>3, <2>1 DEF LevelAfter
<1>4. QED
  BY <1>1, <1>2, <1>3

(***************************************************************************)
(* Whatever the requests and whichever ids the actuators have, the quick   *)
(* disconnect and the igniter take the pad to their own level whenever     *)
(* they are turned on: the result of padstate_change_level that            *)
(* pad_actuate throws away (state.c:322, state.c:336) is never a refusal.  *)
(***************************************************************************)
THEOREM ActuationsAdvance == LadderSpec => ActuationAdvances
<1> DEFINE Advance ==
      /\ TurnsOn(ID_QUICK_DISCONNECT) => level' >= ARMED_DISCONNECTED
      /\ TurnsOn(ID_IGNITER) => level' = ARMED_LAUNCH
<1>1. LadderInv /\ [LadderNext]_ladderVars => [Advance]_vars
  <2> SUFFICES ASSUME LadderInv, [LadderNext]_ladderVars, ~UNCHANGED vars PROVE Advance
    OBVIOUS
  <2>1. Next
    BY DEF LadderNext, ladderVars
  <2>2. ASSUME TurnsOn(ID_QUICK_DISCONNECT) PROVE level' >= ARMED_DISCONNECTED
    BY <2>1, <2>2, TurnedOnByActuate, DisconnectAdvances, ActuatorAssumption DEF LadderInv
  <2>3. ASSUME TurnsOn(ID_IGNITER) PROVE level' = ARMED_LAUNCH
    BY <2>1, <2>3, TurnedOnByActuate, IgniterAdvances, ActuatorAssumption DEF LadderInv
  <2>4. QED
    BY <2>2, <2>3
<1>2. QED
  BY <1>1, LadderInvAlways, PTL DEF LadderSpec, ActuationAdvances
=============================================================================
