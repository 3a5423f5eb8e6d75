---------------------------- MODULE MCPadLadder ----------------------------
(***************************************************************************)
(* One actuator of each kind, ids 0 .. 4, and requests for all of them in  *)
(* both states, for an id and for levels that do not exist.                *)
(***************************************************************************)
EXTENDS PadLadder

OneXV == {1, 2}      \* a solenoid valve, and the fire valve

MCRequests ==
    [kind : {"act"}, id : 0 .. 5, state : 0 .. 2] \cup [kind : {"arm"}, level : (0 .. 5) \cup {255}]
=============================================================================
