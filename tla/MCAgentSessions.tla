-------------------------- MODULE MCAgentSessions --------------------------
EXTENDS AgentSessions
=============================================================================
