------------------------------ MODULE Subagents ------------------------------
(* The subagent runner (extensions/subagents/runner.go): it resolves a name to *)
(* a definition, narrows the tools, makes a worktree, executes and writes a    *)
(* transcript. Resolve reads one directory after the other, without a lock,    *)
(* and stops at the first scope that knows the name; Discover reads all of     *)
(* them and lets the later scope overwrite the earlier. RunBatch runs its      *)
(* requests at the same time on one runner; two runners (two processes) of a   *)
(* project share its directories and the place of its transcripts, and each    *)
(* counts for itself.                                                          *)
EXTENDS Naturals, FiniteSets, TLC, SequencesExt

CONSTANTS Runners, Width,                  \* the runners; bound: requests of a batch
          MaxTogether,                     \* bound: runs under way together
          MaxBatches, MaxSecond, MaxEdits  \* bounds

ASSUME SubagentAssumption == {Width, MaxTogether, MaxBatches, MaxSecond, MaxEdits} \subseteq Nat

\* The directories in the order Resolve reads them; those of the plugins were
\* found by NewRunner.
AgentDirs == <<"project", "plugin1", "plugin2", "user">>

\* What is in a directory that has files, in the order of their names: one of
\* them names the agent another one is named after.
Shell == [file |-> "explore", agent |-> "explore", allowed |-> {"Bash"}, denied |-> {}]
Posing == [file |-> "poser", agent |-> "explore", allowed |-> {}, denied |-> {"Read"}]
Reviewer == [file |-> "reviewer", agent |-> "reviewer", allowed |-> {"Read", "Bash"},
             denied |-> {"Bash"}]
Contents == <<Shell, Posing, Reviewer>>

Builtin == [file |-> "builtin", agent |-> "explore", allowed |-> {"Read"}, denied |-> {}]
NoAgent == [file |-> "none", agent |-> "none", allowed |-> {}, denied |-> {}]

Calls == Runners \X (1..Width)

VARIABLES
  agentFiles,  \* directory -> its files, or that it cannot be listed
  numbers,     \* runner -> sequence
  runs,        \* call -> how far it is
  batchOf,     \* runner -> its batch: the requests, and what it returned
  transcripts, \* path -> whose record it holds
  batches, edits \* counts

agentVars == <<agentFiles, numbers, runs, batchOf, transcripts, batches, edits>>

NotRunning == [step |-> "none"]

AgentInit ==
  /\ agentFiles = [d \in ToSet(AgentDirs) |-> [listable |-> TRUE, files |-> <<>>]]
  /\ numbers = [r \in Runners |-> 0]
  /\ runs = [c \in Calls |-> NotRunning]
  /\ batchOf = [r \in Runners |-> [requests |-> <<>>, returned |-> <<>>]]
  /\ transcripts = <<>>
  /\ batches = 0 /\ edits = 0
-------------------------------------------------------------------------------
(* discoverAgentDefinitionsInDir: the later file of a name wins; what the      *)
(* plugin's manifest allows is asked of the name of the file.                  *)
AllowsFile(d, f) == d = "plugin2" => f.file = "poser"

InDir(d, agent) ==
  LET mine == {i \in DOMAIN agentFiles[d].files :
                 /\ agentFiles[d].files[i].agent = agent
                 /\ AllowsFile(d, agentFiles[d].files[i])}
  IN IF mine = {} THEN NoAgent ELSE agentFiles[d].files[Max(mine)]

\* discoverPluginDefinitions: the first plugin that has it.
FirstOf(one, other) == IF one = NoAgent THEN other ELSE one
FromPlugins(agent) == FirstOf(InDir("plugin1", agent), InDir("plugin2", agent))

\* builtinDefinitions
BuiltIn(agent) == IF agent = Builtin.agent THEN Builtin ELSE NoAgent

\* Discover: each scope overwrites the ones before it.
Overwritten(old, new) == IF new = NoAgent THEN old ELSE new
Discovered(agent) ==
  Overwritten(Overwritten(Overwritten(BuiltIn(agent), InDir("user", agent)),
                          FromPlugins(agent)),
              InDir("project", agent))

\* Edits that no run of a batch can notice any more are left out.
EditAgents(d, state) ==
  /\ batches < MaxBatches \/ \E c \in Calls : runs[c].step = "resolve"
  /\ edits < MaxEdits /\ edits' = edits + 1 /\ agentFiles[d] # state
  /\ agentFiles' = [agentFiles EXCEPT ![d] = state]
  /\ runs' = [c \in Calls |-> IF runs[c].step = "resolve"
                              THEN [runs[c] EXCEPT !.disturbed = TRUE] ELSE runs[c]]
  /\ UNCHANGED <<numbers, batchOf, transcripts, batches>>
-------------------------------------------------------------------------------
(* A batch starts all its runs; a single Run is a batch of one. An agent that  *)
(* is itself a subagent is refused before anything is done.                    *)
RunBatch(r, requests) ==
  /\ batches < MaxBatches /\ batches' = batches + 1
  /\ \A i \in 1..Width : runs[<<r, i>>].step = "none"
  /\ Cardinality({c \in Calls : runs[c].step # "none"}) + Len(requests) <= MaxTogether
  /\ batchOf' = [batchOf EXCEPT ![r] = [requests |-> requests, returned |-> <<>>]]
  /\ runs' = [c \in Calls |->
                IF c[1] # r \/ c[2] > Len(requests) THEN runs[c]
                ELSE [step |-> "resolve", agent |-> requests[c[2]].agent, batch |-> batches',
                      request |-> requests[c[2]].tools, left |-> AgentDirs,
                      found |-> NoAgent, disturbed |-> FALSE]]
  /\ UNCHANGED <<agentFiles, numbers, transcripts, edits>>

Ends(c, result) == runs' = [runs EXCEPT ![c] = [step |-> "done", result |-> result]]
Failed == [ok |-> FALSE]

\* mergeAllowedTools; an empty list stands for no list at all.
MergedTools(definition, request) ==
  LET common == CASE definition.allowed = {} -> request
                  [] request = {} -> definition.allowed
                  [] OTHER -> definition.allowed \cap request
  IN common \ definition.denied

\* Resolve has its definition: the tools are merged and the worktree comes next.
Settle(c, definition) ==
  IF definition = NoAgent THEN Ends(c, Failed)
  ELSE runs' = [runs EXCEPT ![c] =
         [step |-> "worktree", agent |-> runs[c].agent, batch |-> runs[c].batch,
          request |-> runs[c].request, definition |-> definition,
          tools |-> MergedTools(definition, runs[c].request),
          asListed |-> runs[c].disturbed \/ definition = Discovered(runs[c].agent)]]

\* One directory; both plugins are read before either is used.
ReadDirectory(c) ==
  /\ runs[c].step = "resolve" /\ runs[c].left # <<>>
  /\ LET d == Head(runs[c].left)
         found == FirstOf(runs[c].found, InDir(d, runs[c].agent))
     IN CASE ~agentFiles[d].listable -> Ends(c, Failed)
          [] agentFiles[d].listable /\ found # NoAgent /\ d # "plugin1" -> Settle(c, found)
          [] OTHER -> runs' = [runs EXCEPT ![c].left = Tail(@), ![c].found = found]
  /\ UNCHANGED <<agentFiles, numbers, batchOf, transcripts, batches, edits>>

TakeBuiltin(c) ==
  /\ runs[c].step = "resolve" /\ runs[c].left = <<>>
  /\ Settle(c, BuiltIn(runs[c].agent))
  /\ UNCHANGED <<agentFiles, numbers, batchOf, transcripts, batches, edits>>

\* createWorktreeDir takes a number, also when the directory then cannot be made.
MakeWorktree(c) ==
  /\ runs[c].step = "worktree"
  /\ numbers' = [numbers EXCEPT ![c[1]] = @ + 1]
  /\ \/ runs' = [runs EXCEPT ![c].step = "execute"]
     \/ Ends(c, Failed)
  /\ UNCHANGED <<agentFiles, batchOf, transcripts, batches, edits>>

\* The executor fails, or it is done at a second, which names the session of the
\* transcript; of seconds it only matters whether two are the same.
Execute(c, second) ==
  /\ runs[c].step = "execute"
  /\ \/ Ends(c, Failed)
     \/ runs' = [runs EXCEPT ![c] = [step |-> "transcript", agent |-> runs[c].definition.agent,
                                     batch |-> runs[c].batch, request |-> runs[c].request,
                                     definition |-> runs[c].definition, tools |-> runs[c].tools,
                                     asListed |-> runs[c].asListed, session |-> second]]
  /\ UNCHANGED <<agentFiles, numbers, batchOf, transcripts, batches, edits>>

\* Mutant: the transcript goes by the number that is there, without taking one.
TakeNumber_Current(r) == numbers[r]
\* nextSequence
TakeNumber(r) == numbers[r] + 1

WriteTranscript(c) ==
  /\ runs[c].step = "transcript"
  /\ LET number == TakeNumber(c[1])
         path == <<runs[c].session, runs[c].agent, number>>
     IN /\ numbers' = [numbers EXCEPT ![c[1]] = number]
        /\ \/ /\ transcripts' =
                   [p \in DOMAIN transcripts \cup {path} |->
                      IF p = path THEN [by |-> c, batch |-> runs[c].batch]
                      ELSE transcripts[p]]
              /\ Ends(c, [ok |-> TRUE, path |-> path, batch |-> runs[c].batch,
                          agent |-> runs[c].agent, request |-> runs[c].request,
                          definition |-> runs[c].definition, tools |-> runs[c].tools,
                          asListed |-> runs[c].asListed])
           \/ UNCHANGED transcripts /\ Ends(c, Failed)
  /\ UNCHANGED <<agentFiles, batchOf, batches, edits>>

\* All have ended: their results in the order of the requests, or only the errors.
JoinBatch(r) ==
  LET n == Len(batchOf[r].requests)
      all == [i \in 1..n |-> runs[<<r, i>>].result]
  IN /\ n > 0 /\ \A i \in 1..n : runs[<<r, i>>].step = "done"
     /\ batchOf' = [batchOf EXCEPT ![r].returned =
                      IF \A i \in 1..n : all[i].ok THEN all ELSE <<>>]
     /\ runs' = [c \in Calls |-> IF c[1] = r THEN NotRunning ELSE runs[c]]
     /\ UNCHANGED <<agentFiles, numbers, transcripts, batches, edits>>

\* Requests of a batch are for one agent, the second of them with a list of tools.
Requests(agent, n) ==
  [i \in 1..n |-> [agent |-> agent, tools |-> IF i = 2 THEN {"Read"} ELSE {}]]

AgentNext ==
  \/ \E d \in ToSet(AgentDirs) :
       \/ EditAgents(d, [listable |-> TRUE, files |-> Contents])
       \/ EditAgents(d, [listable |-> FALSE, files |-> <<>>])
  \/ \E r \in Runners :
       \/ \E agent \in {"explore", "reviewer"}, n \in 1..Width :
            RunBatch(r, Requests(agent, n))
       \/ JoinBatch(r)
  \/ \E c \in Calls : \/ ReadDirectory(c) \/ TakeBuiltin(c) \/ MakeWorktree(c)
                      \/ \E second \in 0..MaxSecond : Execute(c, second)
                      \/ WriteTranscript(c)

AgentSpec == AgentInit /\ [][AgentNext]_agentVars
-------------------------------------------------------------------------------
\* What another runner may have written over: the same name and number.
Overwrote(c, result) ==
  transcripts[result.path].by[1] # c[1]

(* The transcript a result names is the run's own, however the runs of a batch *)
(* and other batches interleave, unless another runner came to the same path.  *)
OwnTranscript ==
  \A r \in Runners : \A i \in DOMAIN batchOf[r].returned :
    LET result == batchOf[r].returned[i]
    IN \/ transcripts[result.path] = [by |-> <<r, i>>, batch |-> result.batch]
       \/ Overwrote(<<r, i>>, result)

(* A run is given no tool that its definition or its caller does not allow.    *)
ToolsAreNarrowed ==
  \A r \in Runners : \A i \in DOMAIN batchOf[r].returned :
    LET result == batchOf[r].returned[i]
        wanted == batchOf[r].requests[i]
    IN /\ result.agent = wanted.agent
       /\ \A t \in result.tools : /\ result.definition.allowed = {} \/ t \in result.definition.allowed
                                  /\ wanted.tools = {} \/ t \in wanted.tools
                                  /\ t \notin result.definition.denied

(* What a batch returns is accounted for: result i answers request i, was run  *)
(* with the definition Discover lists (no file having changed meanwhile), with *)
(* tools both sides allow, and its transcript is in its place.                 *)
AgentsAreAccounted ==
  /\ OwnTranscript /\ ToolsAreNarrowed
  /\ \A r \in Runners : \A i \in DOMAIN batchOf[r].returned : batchOf[r].returned[i].asListed
===============================================================================
