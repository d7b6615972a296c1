----------------------------- MODULE MCAgentLoop -----------------------------
(* The agent loop and the write gate it drives, interleaved, for TLC.          *)
EXTENDS AgentLoop

CONSTANT r1
=============================================================================
