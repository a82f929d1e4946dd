---------------------------- MODULE MCP2pDebug ----------------------------
(* The checks of the program, with a shorter pool. *)
EXTENDS P2pDebug
=============================================================================
