------------------------------ MODULE PadLadder ------------------------------
(***************************************************************************)
(* PadCommands with a history variable: the arming levels the pad has been *)
(* at since it was last at ARMED_PAD.  It says what the interlock as a     *)
(* whole achieves, over any sequence of requests, connections and losses.  *)
(***************************************************************************)
EXTENDS PadCommands

VARIABLE visited

ladderVars == <<vars, visited>>

LadderInit == Init /\ visited = {ARMED_PAD}

LadderNext ==
    /\ Next
    /\ visited' = IF level' = ARMED_PAD THEN {ARMED_PAD} ELSE visited \cup {level'}

LadderSpec == LadderInit /\ [][LadderNext]_ladderVars

(***************************************************************************)
(* No level of the ladder is ever skipped on the way up, whether it is     *)
(* climbed by arming requests or by actuating the quick disconnect and the *)
(* igniter, and however often it was climbed down in between.              *)
(***************************************************************************)
NoRungSkipped == ARMED_PAD .. level \subseteq visited

(***************************************************************************)
(* The fire valve opens, and the igniter fires, only after every level     *)
(* below has been passed since the pad was last disarmed.                  *)
(***************************************************************************)
NoShortcutToFire ==
    [][/\ TurnsOn(ID_FIRE_VALVE) => visited = Levels
       /\ TurnsOn(ID_IGNITER) => ARMED_PAD .. ARMED_DISCONNECTED \subseteq visited]_ladderVars
=============================================================================
