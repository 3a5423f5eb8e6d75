---------------------------- MODULE MCTelemClient ----------------------------
(***************************************************************************)
(* Two levels, and a reading that is no level.                             *)
(***************************************************************************)
EXTENDS TelemClient

MCLevels   == {0, 1}
MCReadings == {7}
=============================================================================
