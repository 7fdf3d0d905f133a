----------------------------- MODULE MCAgentAccess -----------------------------
EXTENDS AgentAccess

CONSTANTS owner, member, home, other
===============================================================================
