---------------------------- MODULE MCAgentStream ----------------------------
EXTENDS AgentStream
CONSTANTS r1, r2
=============================================================================
