------------------------------ MODULE MCAgentRuns ------------------------------
EXTENDS AgentRuns

MCPolicies == {{"started", "ended", "attention"}, {"started", "attention"}}
=============================================================================
