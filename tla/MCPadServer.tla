----------------------------- MODULE MCPadServer -----------------------------
(***************************************************************************)
(* Instances of PadServer for TLC.  Ids 0 .. NUM_ACTUATORS - 1 exist, one  *)
(* more is requested to get ACT_DNE.                                       *)
(***************************************************************************)
EXTENDS PadServer

ActRequest(ids, states) == [kind : {"act"}, id : ids, state : states]
ArmRequest(levels)      == [kind : {"arm"}, level : levels]

NoXV == {}

\* Igniter, quick disconnect and dump valve exist.  The level is raised to
\* ARMED_DISCONNECTED and ARMED_LAUNCH by actuation only.
MCRequests == ActRequest({0, 1}, {0, 1}) \cup ActRequest({2}, {0, 2}) \cup ActRequest({3}, {0})
              \cup ArmRequest(0 .. 2)
=============================================================================
