----------------------------- MODULE MCAgentParts -----------------------------
(* Seven parts around the engine that share no variable, checked in one run:  *)
(* the turns of a run with their tool calls, its task graph, the team         *)
(* coordinator, the rule books, the ACP server, the model catalog, and a call *)
(* of an MCP server. Which of them moves is chosen at the start and the others*)
(* rest (see MCHubData).                                                      *)
EXTENDS ToolTurn, TaskGraph, Teams, Decisions, AcpServer, Catalog, McpClient

VARIABLE part \* the component that moves

agentVars == <<part, turnVars, taskVars, teamVars, decisionVars, acpVars, catalogVars,
               mcpVars>>

AgentInit ==
  /\ part \in {"turn", "tasks", "team", "decisions", "acp", "catalog", "mcp"}
  /\ TurnInit /\ TaskInit /\ TeamInit /\ DecisionInit /\ AcpInit
  /\ CatalogInit /\ McpInit
  /\ part # "mcp" => way = "stdio" /\ purpose = "call" /\ listing = "with"

MoveTurn ==
  /\ part = "turn" /\ TurnNext
  /\ UNCHANGED <<part, taskVars, teamVars, decisionVars, acpVars, catalogVars, mcpVars>>
MoveTasks ==
  /\ part = "tasks" /\ TaskNext
  /\ UNCHANGED <<part, turnVars, teamVars, decisionVars, acpVars, catalogVars, mcpVars>>
MoveTeam ==
  /\ part = "team" /\ TeamNext
  /\ UNCHANGED <<part, turnVars, taskVars, decisionVars, acpVars, catalogVars, mcpVars>>
MoveDecisions ==
  /\ part = "decisions" /\ DecisionNext
  /\ UNCHANGED <<part, turnVars, taskVars, teamVars, acpVars, catalogVars, mcpVars>>
MoveAcp ==
  /\ part = "acp" /\ AcpNext
  /\ UNCHANGED <<part, turnVars, taskVars, teamVars, decisionVars, catalogVars, mcpVars>>
MoveCatalog ==
  /\ part = "catalog" /\ CatalogNext
  /\ UNCHANGED <<part, turnVars, taskVars, teamVars, decisionVars, acpVars, mcpVars>>
MoveMcp ==
  /\ part = "mcp" /\ McpNext
  /\ UNCHANGED <<part, turnVars, taskVars, teamVars, decisionVars, acpVars, catalogVars>>

AgentNext == MoveTurn \/ MoveTasks \/ MoveTeam \/ MoveDecisions \/ MoveAcp
             \/ MoveCatalog \/ MoveMcp

AgentSpec == AgentInit /\ [][AgentNext]_agentVars
-------------------------------------------------------------------------------
\* One call the default mode asks about and the sandbox does not, one it refuses.
CallRisk == [c \in ToolCalls |-> IF c = 1 THEN "high" ELSE "critical"]
CallHeuristic == [c \in ToolCalls |-> IF c = 1 THEN "allow" ELSE "ask"]
RequestPermission == [a \in ApiRequests |-> "write"]
===============================================================================
