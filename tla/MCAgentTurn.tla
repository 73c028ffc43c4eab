---------------------------- MODULE MCAgentTurn ----------------------------
(* Values of AgentTurn's constants for TLC. *)
EXTENDS AgentTurn

CONSTANT m1
=============================================================================
