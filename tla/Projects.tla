------------------------------- MODULE Projects -------------------------------
(* A project of a workspace, its configuration, one of its conversations with *)
(* the executions it queues, and the resources these name: models and a rule. *)
(* (handlers_projects.go, handlers_project_conversations_config.go,           *)
(* handlers_conversation_by_id.go, handlers_composer_input.go,                *)
(* handlers_resource_configs.go and the stores below them.)                   *)
(*                                                                            *)
(* A request reads, one statement after the other and without a lock, changes *)
(* one table or, under the lock, the memory, and last writes the memory to    *)
(* the tables. Whatever it read may be old when it acts on it. That write is  *)
(* one step here; ExecutionStore takes it apart.                              *)
EXTENDS Naturals, FiniteSets, Sequences, TLC

CONSTANTS ProjectRequests,  \* bound: requests at work at the same time
          ModelConfigs, NoModel, Rule, \* the resources; NoModel where none is chosen
          Offered,          \* the configurations that are put
          MaxProjectCalls,  \* bound: requests
          MaxQueued,        \* bound: executions of the conversation
          MaxProjectFaults  \* bound: writes of a project or configuration that fail

VARIABLES
  resource,     \* model or rule -> "on", "off", or "gone"
  project,      \* its row: none, or the default model
  config,       \* the row of its configuration: none, or one
  conversation, \* in memory: none, or its model, whether it has the rule, the active run
  row,          \* the conversation in the sessions table
  jobs,         \* its executions: model and "queued", "pending" or "done"
  request,      \* per request: what it does, how far it is and what it read
  crossed,      \* ghost: <<what, item>> where a request acted on an item changed since it
                \* had read it, or met one of the other surprises named below
  removed,      \* ghost: the resources whose removal was answered
  projectCalls, projectFaults \* requests and failed writes so far

projectVars == <<resource, project, config, conversation, row, jobs, request, crossed,
                 removed, projectCalls, projectFaults>>

Resources == ModelConfigs \cup {Rule}
Items == {"project", "config", "conversation", "row", "resource"}
Configs == [models : SUBSET ModelConfigs, default : ModelConfigs \cup {NoModel},
            rule : BOOLEAN]

ASSUME ProjectAssumption ==
  /\ NoModel \notin ModelConfigs /\ Offered \subseteq Configs
  /\ MaxProjectCalls \in Nat /\ MaxQueued \in Nat /\ MaxProjectFaults \in Nat

\* defaultProjectConfig: what a project without a row of its own has.
DefaultConfig(p) ==
  [models |-> {p.default} \ {NoModel}, default |-> p.default, rule |-> FALSE]
\* getProjectConfigFromStore, for the copy of the project a request has.
ConfigOf(p) == IF config = {} THEN DefaultConfig(p) ELSE CHOOSE c \in config : TRUE
\* normalizeProjectConfigForStorage: the default is one of the models.
Normalized(c) == [c EXCEPT !.models = @ \cup ({c.default} \ {NoModel})]

\* validateProjectConfigResourceReferences.
ReferencesHold(c) ==
  /\ \A m \in c.models : resource[m] = "on"
  /\ c.rule => resource[Rule] = "on"
  /\ c.default # NoModel => c.default \in c.models
\* validateConversationResourceSelection.
SelectionHolds(c, model, rule) ==
  /\ model \in c.models /\ resource[model] = "on"
  /\ rule => c.rule /\ resource[Rule] = "on"

\* A request: what it does and how far it is, the items it read and those of them that are
\* old, and what it carries of them and of its input.
AtEase ==
  [do |-> "nothing", step |-> "idle", read |-> {}, old |-> {}, project |-> {},
   config |-> DefaultConfig([default |-> NoModel]), seed |-> {}, model |-> NoModel,
   rule |-> "keep", resource |-> Rule, to |-> "on"]
-------------------------------------------------------------------------------
ProjectInit ==
  /\ resource = [x \in Resources |-> "on"]
  /\ \E c \in {k \in Configs : k.models = ModelConfigs /\ k.default # NoModel /\ k.rule} :
       \E made, talking \in BOOLEAN :
         /\ talking => made
         /\ project = IF made THEN {[default |-> c.default]} ELSE {}
         /\ config = IF made THEN {c} ELSE {}
         /\ conversation = IF talking THEN {[model |-> c.default, rule |-> TRUE,
                                             active |-> 0]} ELSE {}
  /\ row = conversation /\ jobs = <<>>
  /\ request = [r \in ProjectRequests |-> AtEase]
  /\ crossed = {} /\ removed = {} /\ projectCalls = 0 /\ projectFaults = 0

Changed == {x \in Items : CASE x = "project" -> project' # project
                            [] x = "config" -> config' # config
                            [] x = "conversation" -> conversation' # conversation
                            [] x = "row" -> row' # row
                            [] x = "resource" -> resource' # resource}

\* Request r goes on as q; for the others what they read and it changed is old.
GoOn(r, q) ==
  request' = [s \in ProjectRequests |->
                IF s = r THEN q
                ELSE [request[s] EXCEPT !.old = @ \cup (request[s].read \cap Changed)]]
Answer(r) == GoOn(r, AtEase)
ReadBy(r, items, step) == [request[r] EXCEPT !.read = @ \cup items, !.step = step]

Notes(surprises) == crossed' = crossed \cup surprises
\* A request acts: what of the items it read is old by now is noted.
Acts(r) == Notes({<<request[r].do, x>> : x \in request[r].old})

Begin(r) ==
  /\ request[r].step = "idle" /\ projectCalls < MaxProjectCalls
  /\ projectCalls' = projectCalls + 1
At(r, do, step) == request[r].do = do /\ request[r].step = step
Opened(do, step, items) == [AtEase EXCEPT !.do = do, !.step = step, !.read = items]

Tables == <<project, config>>
Memory == <<conversation, jobs>>

\* syncExecutionDomainBestEffort: the memory goes to the tables, and the answer is out.
PersistMemory(r) ==
  /\ request[r].step = "acted"
  /\ row' = conversation
  /\ UNCHANGED <<resource, project, config, conversation, jobs, crossed, removed,
                 projectCalls, projectFaults>>
  /\ Answer(r)
-------------------------------------------------------------------------------
(* Projects.                                                                  *)

\* POST /projects, and the import of a directory: the project, then its configuration.
CreateProject(r) ==
  /\ Begin(r) /\ project = {} /\ row = {} /\ conversation = {} /\ removed = {}
  /\ \A s \in ProjectRequests : request[s].step = "idle" \* an id of its own
  /\ project' = {[default |-> NoModel]}
  /\ UNCHANGED <<resource, config, conversation, row, jobs, crossed, removed, projectFaults>>
  /\ GoOn(r, Opened("create project", "project", {"project"}))

\* A configuration that cannot be saved takes the project back.
CreateConfig(r) ==
  /\ At(r, "create project", "project") /\ Acts(r)
  /\ \/ /\ config' = {DefaultConfig([default |-> NoModel])}
        /\ UNCHANGED <<project, conversation, jobs, projectFaults>>
     \/ /\ projectFaults < MaxProjectFaults /\ projectFaults' = projectFaults + 1
        /\ project' = {} /\ config' = {} /\ conversation' = {} /\ jobs' = <<>>
  /\ UNCHANGED <<resource, row, removed, projectCalls>>
  /\ Answer(r)

\* DELETE /projects/{id}: both rows in one transaction, ...
DeleteProject(r) ==
  /\ Begin(r) /\ project # {}
  /\ project' = {} /\ config' = {}
  /\ UNCHANGED <<resource, Memory, row, crossed, removed, projectFaults>>
  /\ GoOn(r, Opened("delete project", "rows", {}))

\* ... and then its conversations and executions in memory.
PurgeConversations(r) ==
  /\ At(r, "delete project", "rows")
  /\ conversation' = {} /\ jobs' = <<>>
  /\ UNCHANGED <<resource, Tables, row, crossed, removed, projectCalls, projectFaults>>
  /\ GoOn(r, ReadBy(r, {}, "acted"))

\* PUT /projects/{id}/config reads the project and checks what the configuration names, ...
PutConfig(r, c) ==
  /\ Begin(r) /\ project # {} /\ ReferencesHold(c)
  /\ UNCHANGED <<resource, Tables, Memory, row, crossed, removed, projectFaults>>
  /\ GoOn(r, [Opened("put config", "checked", {"project"}) EXCEPT !.config = c])

\* ... saves the configuration, ...
SaveConfig(r) ==
  /\ At(r, "put config", "checked") /\ Acts(r)
  /\ config' = {Normalized(request[r].config)}
  /\ UNCHANGED <<resource, project, Memory, row, removed, projectCalls, projectFaults>>
  /\ GoOn(r, ReadBy(r, {"config"}, "config"))

\* ... then the project as it was read, with the new default: one that was deleted
\* meanwhile is there again. When this write fails the configuration stays.
SaveProject(r) ==
  /\ At(r, "put config", "config")
  /\ UNCHANGED <<resource, config, Memory, row, removed, projectCalls>>
  /\ \/ /\ project' = {[default |-> request[r].config.default]}
        /\ Acts(r) /\ GoOn(r, ReadBy(r, {"project"}, "project"))
        /\ UNCHANGED projectFaults
     \/ /\ projectFaults < MaxProjectFaults /\ projectFaults' = projectFaults + 1
        /\ UNCHANGED project /\ Notes({<<"put config", "failed">>}) /\ Answer(r)

SyncConversations_OnlyExecutions(model) == conversation' = conversation

SyncConversations(model) == conversation' = {[c EXCEPT !.model = model] : c \in conversation}

\* applyLatestModelConfigToExecutionLocked for every execution that has not ended; the
\* active one is started over. Without a default, or with one that is off, nothing.
SyncExecutions(model) ==
  jobs' = [i \in DOMAIN jobs |->
             IF jobs[i].state = "done" \/ conversation = {} THEN jobs[i]
             ELSE [model |-> model,
                   state |-> IF \E c \in conversation : c.active = i THEN "pending"
                             ELSE jobs[i].state]]

\* syncProjectConversationsModelConfig, under the lock.
SyncModel(r) ==
  LET model == request[r].config.default
      usable == model # NoModel /\ resource[model] = "on"
  IN  /\ At(r, "put config", "project")
      /\ SyncConversations(model)
      /\ IF usable THEN SyncExecutions(model) ELSE UNCHANGED jobs
      /\ Notes({<<"put config", x>> : x \in request[r].old}
               \cup IF usable THEN {} ELSE {<<"put config", "no default">>})
      /\ UNCHANGED <<resource, Tables, row, removed, projectCalls, projectFaults>>
      /\ GoOn(r, ReadBy(r, {}, "acted"))
-------------------------------------------------------------------------------
(* The conversation.                                                          *)

\* POST /projects/{id}/sessions: the project, its configuration, the conversation.
CreateConversation(r) ==
  /\ Begin(r) /\ project # {} /\ conversation = {} /\ row = {}
  /\ \A s \in ProjectRequests : request[s].step = "idle" \* an id of its own
  /\ UNCHANGED <<resource, Tables, Memory, row, crossed, removed, projectFaults>>
  /\ GoOn(r, [Opened("create", "project", {"project"}) EXCEPT !.project = project])

ReadConfig(r) ==
  /\ At(r, "create", "project")
  /\ UNCHANGED <<resource, Tables, Memory, row, crossed, removed, projectCalls,
                 projectFaults>>
  /\ LET p == CHOOSE q \in request[r].project : TRUE
         c == ConfigOf(p)
     IN  GoOn(r, [ReadBy(r, {"config"}, "config") EXCEPT
                    !.config = [c EXCEPT !.default = IF @ = NoModel THEN p.default ELSE @]])

InsertConversation(r) ==
  /\ At(r, "create", "config") /\ Acts(r)
  /\ LET c == request[r].config
     IN  conversation' = {[model |-> c.default, rule |-> c.rule, active |-> 0]}
  /\ UNCHANGED <<resource, Tables, jobs, row, removed, projectCalls, projectFaults>>
  /\ GoOn(r, ReadBy(r, {}, "acted"))

\* loadConversationByIDSeed: from memory, or else from the table, ...
LoadSeed(r, do, model, rule) ==
  /\ Begin(r) /\ conversation \cup row # {}
  /\ Notes(IF conversation = {} THEN {<<do, "unsaved">>} ELSE {})
  /\ UNCHANGED <<resource, Tables, Memory, row, removed, projectFaults>>
  /\ LET q == IF conversation # {}
              THEN [Opened(do, "seed", {"conversation"}) EXCEPT !.seed = conversation]
              ELSE [Opened(do, "row", {"conversation", "row"}) EXCEPT !.seed = row]
     IN  GoOn(r, [q EXCEPT !.model = model, !.rule = rule])

\* ... and then it is put into the memory.
StoreSeed(r) ==
  /\ request[r].step = "row" /\ Acts(r)
  /\ conversation' = request[r].seed
  /\ UNCHANGED <<resource, Tables, jobs, row, removed, projectCalls, projectFaults>>
  /\ GoOn(r, ReadBy(r, {}, "seed"))

\* PATCH /sessions/{id}, a model, the rule, or neither but the name: the project must exist,
\* and a new selection, with what the seed has of the rest, must be allowed.
PatchConversation(r, model, rule) == LoadSeed(r, "patch", model, rule)

Chosen(r) ==
  LET s == CHOOSE c \in request[r].seed : TRUE
  IN  [model |-> IF request[r].model = NoModel THEN s.model ELSE request[r].model,
       rule |-> IF request[r].rule = "keep" THEN s.rule ELSE request[r].rule = "on"]
CheckPatch(r) ==
  /\ At(r, "patch", "seed")
  /\ UNCHANGED <<resource, Tables, Memory, row, crossed, removed, projectCalls,
                 projectFaults>>
  /\ LET selects == request[r].model # NoModel \/ request[r].rule # "keep"
         ok == \E p \in project : selects => SelectionHolds(ConfigOf(p), Chosen(r).model,
                                                           Chosen(r).rule)
     IN  IF ok THEN GoOn(r, ReadBy(r, {"project", "config"}, "checked")) ELSE Answer(r)

\* Under the lock; a conversation that is no longer there is put back as it was read. Only
\* what the request names is set.
ApplyPatch(r) ==
  /\ At(r, "patch", "checked") /\ Acts(r)
  /\ conversation' =
       {[c EXCEPT !.model = IF request[r].model = NoModel THEN @ ELSE request[r].model,
                  !.rule = IF request[r].rule = "keep" THEN @ ELSE request[r].rule = "on"] :
          c \in IF conversation = {} THEN request[r].seed ELSE conversation}
  /\ UNCHANGED <<resource, Tables, jobs, row, removed, projectCalls, projectFaults>>
  /\ GoOn(r, ReadBy(r, {}, "acted"))

\* DELETE /sessions/{id}: with its executions.
DeleteConversation(r) == LoadSeed(r, "delete", NoModel, "keep")
RemoveConversation(r) ==
  /\ At(r, "delete", "seed") /\ Acts(r)
  /\ conversation' = {} /\ jobs' = <<>>
  /\ UNCHANGED <<resource, Tables, row, removed, projectCalls, projectFaults>>
  /\ GoOn(r, ReadBy(r, {}, "acted"))

\* GET /projects/{id}/sessions: the project, the rows of the sessions table, ...
ListConversations(r) ==
  /\ Begin(r) /\ project # {}
  /\ UNCHANGED <<resource, Tables, Memory, row, crossed, removed, projectFaults>>
  /\ GoOn(r, Opened("list", "project", {"project"}))

ReadRows(r) ==
  /\ At(r, "list", "project")
  /\ Notes({<<"list", "unsaved">> : x \in row \ conversation})
  /\ UNCHANGED <<resource, Tables, Memory, row, removed, projectCalls, projectFaults>>
  /\ IF row = {} THEN Answer(r)
     ELSE GoOn(r, [ReadBy(r, {"row", "conversation"}, "rows") EXCEPT !.seed = row])

\* ... and each row takes the place of the conversation in memory, the active execution
\* with it.
OverwriteMemory(r) ==
  /\ At(r, "list", "rows") /\ Acts(r)
  /\ conversation' = request[r].seed
  /\ UNCHANGED <<resource, Tables, jobs, row, removed, projectCalls, projectFaults>>
  /\ Answer(r)
-------------------------------------------------------------------------------
(* Its executions.                                                            *)

\* ConversationInputSubmitHandler: the conversation in memory, then the rest.
Submit(r, model) ==
  /\ Begin(r) /\ conversation # {} /\ Len(jobs) < MaxQueued
  /\ UNCHANGED <<resource, Tables, Memory, row, crossed, removed, projectFaults>>
  /\ GoOn(r, [Opened("submit", "seed", {"conversation"}) EXCEPT !.seed = conversation,
                                                               !.model = model])

\* The model: named in the input, else the conversation's, else the default.
ResolvedModel(r, c) == IF Chosen(r).model = NoModel THEN c.default ELSE Chosen(r).model
CheckSubmit(r) ==
  LET models == {ResolvedModel(r, ConfigOf(p)) : p \in project}
      ok == \E p \in project :
              LET c == ConfigOf(p)
              IN  /\ ResolvedModel(r, c) # NoModel
                  /\ SelectionHolds(c, ResolvedModel(r, c), Chosen(r).rule)
  IN  /\ At(r, "submit", "seed")
      /\ UNCHANGED <<resource, Tables, Memory, row, crossed, removed, projectCalls,
                     projectFaults>>
      /\ IF ok THEN GoOn(r, [ReadBy(r, {"project", "config"}, "checked") EXCEPT
                              !.model = CHOOSE m \in models : TRUE])
         ELSE Answer(r)

Enqueue(r) ==
  /\ At(r, "submit", "checked")
  /\ UNCHANGED <<resource, Tables, row, removed, projectCalls, projectFaults>>
  /\ IF conversation = {} THEN UNCHANGED <<Memory, crossed>> /\ Answer(r)
     ELSE /\ Acts(r)
          /\ LET free == \E c \in conversation : c.active = 0
             IN  /\ jobs' = Append(jobs, [model |-> request[r].model,
                                          state |-> IF free THEN "pending" ELSE "queued"])
                 /\ conversation' = IF free
                      THEN {[c EXCEPT !.active = Len(jobs')] : c \in conversation}
                      ELSE conversation
          /\ GoOn(r, ReadBy(r, {}, "acted"))

\* An execution ends: the first one queued takes its place if it was the active one.
EndExecution(r, i) ==
  /\ Begin(r) /\ i \in DOMAIN jobs /\ jobs[i].state = "pending"
  /\ LET queued == {k \in DOMAIN jobs : jobs[k].state = "queued"}
         next == IF queued = {} THEN 0 ELSE CHOOSE k \in queued : \A l \in queued : k <= l
         hands == \E c \in conversation : c.active = i
     IN  /\ jobs' = [k \in DOMAIN jobs |->
                       IF k = i THEN [jobs[k] EXCEPT !.state = "done"]
                       ELSE IF hands /\ k = next THEN [jobs[k] EXCEPT !.state = "pending"]
                       ELSE jobs[k]]
         /\ conversation' = IF hands THEN {[c EXCEPT !.active = next] : c \in conversation}
                            ELSE conversation
  /\ UNCHANGED <<resource, Tables, row, crossed, removed, projectFaults>>
  /\ GoOn(r, Opened("end", "acted", {}))
-------------------------------------------------------------------------------
(* Resources.                                                                 *)

\* PATCH of a resource, here its switch: the whole record is read and written.
PatchResource(r, x, to) ==
  /\ Begin(r) /\ resource[x] # "gone"
  /\ UNCHANGED <<resource, Tables, Memory, row, crossed, removed, projectFaults>>
  /\ GoOn(r, [Opened("patch resource", "record", {"resource"}) EXCEPT !.resource = x,
                                                                      !.to = to])
SaveResource(r) ==
  /\ At(r, "patch resource", "record") /\ Acts(r)
  /\ resource' = [resource EXCEPT ![request[r].resource] = request[r].to]
  /\ UNCHANGED <<Tables, Memory, row, removed, projectCalls, projectFaults>>
  /\ Answer(r)

RemoveResource(r, x) ==
  /\ Begin(r) /\ resource[x] # "gone"
  /\ resource' = [resource EXCEPT ![x] = "gone"] /\ removed' = removed \cup {x}
  /\ UNCHANGED <<Tables, Memory, row, crossed, projectFaults>>
  /\ Answer(r)

ProjectNext ==
  \E r \in ProjectRequests :
    \/ CreateProject(r) \/ CreateConfig(r) \/ DeleteProject(r) \/ PurgeConversations(r)
    \/ \E c \in Offered : PutConfig(r, c)
    \/ SaveConfig(r) \/ SaveProject(r) \/ SyncModel(r)
    \/ CreateConversation(r) \/ ReadConfig(r) \/ InsertConversation(r)
    \/ \E m \in ModelConfigs : PatchConversation(r, m, "keep")
    \/ \E v \in {"on", "off", "keep"} : PatchConversation(r, NoModel, v)
    \/ StoreSeed(r) \/ CheckPatch(r) \/ ApplyPatch(r)
    \/ DeleteConversation(r) \/ RemoveConversation(r)
    \/ ListConversations(r) \/ ReadRows(r) \/ OverwriteMemory(r)
    \/ \E m \in ModelConfigs \cup {NoModel} : Submit(r, m)
    \/ CheckSubmit(r) \/ Enqueue(r)
    \/ \E i \in 1..MaxQueued : EndExecution(r, i)
    \/ \E x \in Resources, to \in {"on", "off"} : PatchResource(r, x, to)
    \/ SaveResource(r) \/ \E x \in Resources : RemoveResource(r, x)
    \/ PersistMemory(r)

ProjectSpec == ProjectInit /\ [][ProjectNext]_projectVars
-------------------------------------------------------------------------------
Quiet == \A r \in ProjectRequests : request[r].step = "idle"
Crossed(who, items) == crossed \cap (who \X items) # {}

\* A configuration was saved for a project changed meanwhile, or only half of it was.
ConfigCrossed == Crossed({"create project", "put config"}, {"project", "config", "failed"})
\* An old conversation was put back.
PutBack(by) == Crossed(by, {"project", "conversation", "row", "unsaved"})

\* With no request under way the records agree, except where one of the requests named here
\* acted on what another had changed since it read it, or found the table behind the memory:
\* a deleted project leaves nothing, the conversation's model and those of its executions
\* are ones the project has, the table is the memory, the execution that runs is the active
\* one, and what was removed is gone. (No handler of the hub checks a revision.)
AgreeUnlessCrossed ==
  Quiet =>
    /\ project = {} /\ config # {} => ConfigCrossed
    /\ project = {} /\ (conversation # {} \/ row # {}) =>
         PutBack({"create", "patch", "list"})
    /\ ConfigCrossed \/ \A p \in project, c \in config : p.default = c.default
    /\ \/ \A c \in conversation, p \in project :
            c.model \in ConfigOf(p).models \cup {NoModel}
       \/ ConfigCrossed \/ Crossed({"create", "patch"}, {"project", "config"})
       \/ PutBack({"list", "patch"})
    /\ row = conversation \/ PutBack({"list", "patch"})
    /\ \/ \A i \in DOMAIN jobs, p \in project :
            jobs[i].state = "done" \/ jobs[i].model \in ConfigOf(p).models
       \/ ConfigCrossed \/ Crossed({"put config"}, {"no default"})
       \/ Crossed({"submit"}, {"config"})
    /\ \/ \A i \in DOMAIN jobs : jobs[i].state = "pending"
                               <=> \E c \in conversation : c.active = i
       \/ PutBack({"list", "patch"})
    /\ \A x \in removed : resource[x] = "gone" \/ <<"patch resource", "resource">> \in crossed
===============================================================================
