------------------------------- MODULE MCLibrary -------------------------------
(* Seven parts of the engine that share no variable, checked in one run: the  *)
(* event feed (with the broadcast it implements), the sessions with their     *)
(* checkpoints, the compaction of a context, the subagents, the slash commands*)
(* and their assets, the building of a prompt, and the hook rules. Which of   *)
(* them moves is chosen at the start and the others rest (see MCHubData).     *)
EXTENDS EventFeedRefinement, Sessions, Compaction, Subagents, SlashCommands, PromptContext,
        HookRules

CONSTANTS s1, s2

\* The assets of the instance. Two skills have one title, two styles one name.
SlashAssets ==
  {Asset("command", "project", "fix", ""), Asset("command", "home1", "help", ""),
   Asset("command", "user", "help", ""),
   Asset("skill", "project", "plan", "fix"), Asset("skill", "project1", "plan", ""),
   Asset("skill", "user", "fix", ""),
   Asset("style", "project2", "default", ""), Asset("style", "user", "brief", "default")}

\* The plugins. The first two have one id; the first has no skills to offer.
SlashPlugins == <<[id |-> 1, root |-> "home1", offers |-> {"command"}],
                  [id |-> 1, root |-> "project1", offers |-> {"skill"}],
                  [id |-> 2, root |-> "project2", offers |-> {"style"}]>>

SlashInstallations == {{2, 3}, {1, 2, 3}}

VARIABLE part \* the component that moves

libraryVars == <<part, feedVars, sessionVars, compactionVars, agentVars, slashVars,
                 promptVars, hookRules>>

\* Where the parts that start in one of several states start when they rest.
AtRest ==
  /\ part # "feed" => policy = "drop_oldest"
  /\ part # "slash" => installed = {2, 3} /\ \A a \in Assets : disk[a] = 0

LibraryInit ==
  /\ part \in {"feed", "sessions", "compaction", "agents", "slash", "prompt", "hooks"}
  /\ Init /\ SessionInit /\ CompactionInit /\ AgentInit /\ SlashInit /\ PromptInit
  /\ HookInit
  /\ AtRest

MoveFeed ==
  /\ part = "feed" /\ Next
  /\ UNCHANGED <<part, sessionVars, compactionVars, agentVars, slashVars,
                 promptVars, hookRules>>
MoveSessions ==
  /\ part = "sessions" /\ SessionNext
  /\ UNCHANGED <<part, feedVars, compactionVars, agentVars, slashVars,
                 promptVars, hookRules>>
MoveCompaction ==
  /\ part = "compaction" /\ CompactionNext
  /\ UNCHANGED <<part, feedVars, sessionVars, agentVars, slashVars,
                 promptVars, hookRules>>
MoveAgents ==
  /\ part = "agents" /\ AgentNext
  /\ UNCHANGED <<part, feedVars, sessionVars, compactionVars, slashVars,
                 promptVars, hookRules>>
MoveSlash ==
  /\ part = "slash" /\ SlashNext
  /\ UNCHANGED <<part, feedVars, sessionVars, compactionVars, agentVars,
                 promptVars, hookRules>>
MovePrompt ==
  /\ part = "prompt" /\ PromptNext
  /\ UNCHANGED <<part, feedVars, sessionVars, compactionVars, agentVars,
                 slashVars, hookRules>>
MoveHooks ==
  /\ part = "hooks" /\ HookNext
  /\ UNCHANGED <<part, feedVars, sessionVars, compactionVars, agentVars,
                 slashVars, promptVars>>
LibraryNext ==
  \/ MoveFeed \/ MoveSessions \/ MoveCompaction \/ MoveAgents
  \/ MoveSlash \/ MovePrompt \/ MoveHooks

LibrarySpec == LibraryInit /\ [][LibraryNext]_libraryVars
===============================================================================
