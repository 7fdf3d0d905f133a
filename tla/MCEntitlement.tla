----------------------------- MODULE MCEntitlement -----------------------------
EXTENDS Entitlement

CONSTANTS caller, boss

\* An agent with every tool, and one whose tools belong to one module.
MCAgentTools == {TOOLS, {"contactRead", "contactEventsRead", "contactEventWrite"}}
===============================================================================
