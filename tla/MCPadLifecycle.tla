--------------------------- MODULE MCPadLifecycle ---------------------------
(***************************************************************************)
(* The dump valve, which any level commands: what matters here is who      *)
(* holds the mutex when a thread dies, and what the listeners hear.        *)
(***************************************************************************)
EXTENDS PadLifecycle

NoXV == {}

MCRequests == [kind : {"act"}, id : {0}, state : {0, 1}]
=============================================================================
