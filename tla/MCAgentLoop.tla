----------------------------- MODULE MCAgentLoop -----------------------------
(* A loop under a budget and one without, for TLC.                         *)
EXTENDS AgentLoop

CONSTANTS a1, a2
=============================================================================
