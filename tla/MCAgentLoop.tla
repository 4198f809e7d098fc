---------------------------- MODULE MCAgentLoop -----------------------------
(* Small instances of AgentLoop: one tool of each kind.                    *)
EXTENDS AgentLoop, TLC

CONSTANTS note, signoff
=============================================================================
