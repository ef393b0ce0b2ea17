---------------------------- MODULE MCPitrAgent ----------------------------
(* PitrAgent for TLC.                                                       *)
EXTENDS PitrAgent
=============================================================================
