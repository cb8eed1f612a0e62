---------------------------- MODULE ProjectsProofs ----------------------------
(* Proofs about three parts that share no variable. The first is a project,   *)
(* its configuration, its conversation and their resources, for every number  *)
(* of requests, resources, executions and failed writes: what each request    *)
(* knows of the items it has read, as long as nobody changed them, and what   *)
(* of the agreement is still to come while requests are under way. The second *)
(* is the building of a run's prompt, from the layers of settings and the     *)
(* documents. The third is the slash commands: what the loaders keep of the   *)
(* assets at every place, and what a command runs.                            *)
EXTENDS Projects, PromptContext, SlashCommands, TLAPS, SequenceTheorems, FiniteSetTheorems,
        WellFoundedInduction

\* What a request has still to do that leaves the records apart until then.
Deletes(r) == request[r].do = "delete" /\ request[r].step \in {"row", "seed"}
Purges(r) == At(r, "delete project", "rows")
Persists(r) == request[r].step = "acted"
Saves(r) == At(r, "put config", "config")
Syncs(r) == request[r].do = "put config" /\ request[r].step \in {"config", "project"}
Creates(r) == At(r, "create project", "project")
Deleting == \E r \in ProjectRequests : Deletes(r)
Purging == \E r \in ProjectRequests : Purges(r)
Unpersisted == \E r \in ProjectRequests : Persists(r)
Saving == \E r \in ProjectRequests : Saves(r)
Syncing == \E r \in ProjectRequests : Syncs(r)
Creating == \E r \in ProjectRequests : Creates(r)

\* A table of one conversation, whatever else it keeps of it.
AtMostOne(S) == \A x, y \in S : x = y
Talks(S) == AtMostOne(S) /\ \A c \in S : {"model", "active"} \subseteq DOMAIN c
Selections == ModelConfigs \cup {NoModel}
JobRecords == [model : Selections, state : {"queued", "pending", "done"}]

\* A request as it is made, and what it carries at its steps.
RequestFields == {"do", "step", "read", "old", "project", "config", "seed", "model", "rule",
                  "resource", "to"}
WellFormed(q) ==
  /\ DOMAIN q = RequestFields
  /\ q.config \in Configs /\ q.model \in Selections /\ q.resource \in Resources
  /\ AtMostOne(q.project) /\ q.project \subseteq [default : Selections]
  /\ Talks(q.seed)
  /\ q.step = "idle" => q.do = "nothing"
  /\ q.step = "row" => q.do \in {"patch", "delete"} /\ q.seed # {}

\* The records: one project at most, one configuration, one conversation.
RecordTypes ==
  /\ DOMAIN resource = Resources /\ removed \subseteq Resources
  /\ AtMostOne(project) /\ project \subseteq [default : Selections]
  /\ AtMostOne(config) /\ config \subseteq Configs
  /\ \A c \in config : c.default \in c.models \cup {NoModel}
  /\ Talks(conversation) /\ Talks(row)
  /\ jobs \in Seq(JobRecords) /\ (conversation = {} => jobs = <<>>)

\* The item is as request r has read it.
Fresh(r, x) == x \in request[r].read /\ x \notin request[r].old

\* What a request knows of the items it has read, as long as nobody changed them.
PutHolds(r) ==
  /\ At(r, "create project", "project") =>
       /\ "project" \in request[r].read
       /\ Fresh(r, "project") => project = {[default |-> NoModel]}
  /\ At(r, "put config", "checked") =>
       /\ "project" \in request[r].read
       /\ Fresh(r, "project") => project # {}
  /\ Syncs(r) =>
       /\ "config" \in request[r].read
       /\ Fresh(r, "config") => config = {Normalized(request[r].config)}

\* The default a new conversation gets.
FirstModel(p) ==
  IF ConfigOf(p).default = NoModel THEN p.default ELSE ConfigOf(p).default
CreateHolds(r) ==
  /\ At(r, "create", "project") =>
       /\ "project" \in request[r].read /\ request[r].project # {}
       /\ Fresh(r, "project") => request[r].project = project
  /\ At(r, "create", "config") =>
       /\ {"project", "config"} \subseteq request[r].read
       /\ Fresh(r, "project") => project # {}
       /\ Fresh(r, "project") /\ Fresh(r, "config") =>
            \A p \in project : request[r].config.default = FirstModel(p)

PatchHolds(r) ==
  /\ At(r, "patch", "row") => "conversation" \in request[r].read /\ PutBack({"patch"})
  /\ request[r].do = "patch" /\ request[r].step \in {"seed", "checked"} =>
       /\ "conversation" \in request[r].read
       /\ Fresh(r, "conversation") => conversation # {} \/ PutBack({"patch"})
  /\ At(r, "patch", "checked") /\ request[r].model # NoModel =>
       /\ {"project", "config"} \subseteq request[r].read
       /\ Fresh(r, "project") /\ Fresh(r, "config") =>
            \A p \in project : request[r].model \in ConfigOf(p).models

ListHolds(r) ==
  /\ request[r].do = "list" /\ request[r].step \in {"project", "rows"} =>
       /\ "project" \in request[r].read
       /\ Fresh(r, "project") => project # {}
  /\ At(r, "list", "rows") =>
       /\ "conversation" \in request[r].read /\ request[r].seed # {}
       /\ Fresh(r, "conversation") => conversation = request[r].seed \/ PutBack({"list"})

SubmitHolds(r) ==
  At(r, "submit", "checked") =>
    /\ "config" \in request[r].read
    /\ Fresh(r, "config") =>
         ConfigCrossed \/ \A p \in project : request[r].model \in ConfigOf(p).models

ResourceHolds(r) ==
  At(r, "patch resource", "record") =>
    /\ "resource" \in request[r].read
    /\ Fresh(r, "resource") => resource[request[r].resource] # "gone"

RequestHolds(r) ==
  /\ WellFormed(request[r]) /\ PutHolds(r) /\ CreateHolds(r) /\ PatchHolds(r)
  /\ ListHolds(r) /\ SubmitHolds(r) /\ ResourceHolds(r)

\* While a project or a conversation is made there is none to be put back.
MakesNew(r) == \/ Creates(r)
               \/ request[r].do = "create" /\ request[r].step \in {"project", "config"}
PutsBack(r) == \/ request[r].do \in {"create project", "create", "patch", "delete"}
               \/ At(r, "list", "rows")
NewHolds(r) ==
  MakesNew(r) => /\ conversation = {} /\ row = {}
                 /\ \A s \in ProjectRequests \ {r} : ~PutsBack(s)

\* The parts of the property, with what is still to come.
ConfigRests ==
  /\ project = {} /\ config # {} => ConfigCrossed
  /\ project # {} /\ config = {} => ConfigCrossed \/ Creating
  /\ ConfigCrossed \/ Saving \/ \A p \in project, c \in config : p.default = c.default
RowsRest ==
  /\ project = {} /\ conversation # {} =>
       PutBack({"create", "patch", "list"}) \/ Purging \/ Deleting
  /\ project = {} /\ row # {} =>
       PutBack({"create", "patch", "list"}) \/ Purging \/ Deleting \/ Unpersisted
  /\ row = conversation \/ PutBack({"list", "patch"}) \/ Deleting \/ Unpersisted
ModelRests ==
  \/ \A c \in conversation, p \in project : c.model \in ConfigOf(p).models \cup {NoModel}
  \/ ConfigCrossed \/ Crossed({"create", "patch"}, {"project", "config"})
  \/ PutBack({"list", "patch"}) \/ Syncing \/ Deleting
JobsRest ==
  \/ \A i \in 1..Len(jobs), p \in project :
       jobs[i].state = "done" \/ jobs[i].model \in ConfigOf(p).models
  \/ ConfigCrossed \/ Crossed({"put config"}, {"no default"})
  \/ Crossed({"submit"}, {"config"}) \/ Syncing
ActiveRuns ==
  \/ \A c \in conversation :
       /\ c.active \in 0..Len(jobs)
       /\ \A i \in 1..Len(jobs) : jobs[i].state = "pending" <=> c.active = i
  \/ PutBack({"list", "patch"}) \/ Deleting
RemovedRest ==
  \A x \in removed : resource[x] = "gone" \/ <<"patch resource", "resource">> \in crossed

Records == /\ RecordTypes /\ ConfigRests /\ RowsRest /\ ModelRests /\ JobsRest
           /\ ActiveRuns /\ RemovedRest
ProjectInv ==
  Records /\ \A r \in ProjectRequests : RequestHolds(r) /\ NewHolds(r)
-------------------------------------------------------------------------------
(* The operators of the model, and what the other requests keep.              *)

\* The one member of a set is what CHOOSE takes of it.
LEMMA TheOnly ==
  ASSUME NEW S, AtMostOne(S), NEW x \in S
  PROVE  (CHOOSE y \in S : TRUE) = x /\ S = {x}
PROOF
<1>1. (CHOOSE y \in S : TRUE) \in S
  OBVIOUS
<1> QED BY <1>1 DEF AtMostOne

\* The configurations the hub makes itself are configurations.
LEMMA ConfigFacts ==
  /\ \A p \in [default : Selections] :
       /\ DefaultConfig(p) \in Configs /\ DefaultConfig(p).default = p.default
       /\ DefaultConfig(p).models = {p.default} \ {NoModel}
  /\ \A c \in Configs :
       /\ Normalized(c) \in Configs /\ Normalized(c).default = c.default
       /\ Normalized(c).models = c.models \cup ({c.default} \ {NoModel})
  /\ \A c \in Configs, d \in Selections :
       [c EXCEPT !.default = d] \in Configs /\ [c EXCEPT !.default = d].default = d
PROOF
<1> USE DEF Configs, Selections
<1>1. \A p \in [default : Selections] :
        /\ DefaultConfig(p) \in Configs /\ DefaultConfig(p).default = p.default
        /\ DefaultConfig(p).models = {p.default} \ {NoModel}
  BY DEF DefaultConfig
<1>2. \A c \in Configs :
        /\ Normalized(c) \in Configs /\ Normalized(c).default = c.default
        /\ Normalized(c).models = c.models \cup ({c.default} \ {NoModel})
  BY DEF Normalized
<1>3. \A c \in Configs, d \in Selections :
        [c EXCEPT !.default = d] \in Configs /\ [c EXCEPT !.default = d].default = d
  OBVIOUS
<1> QED BY <1>1, <1>2, <1>3

\* The configuration of a project is the saved one, or else the one of its default.
LEMMA ConfigOfIs ==
  ASSUME AtMostOne(config), NEW p
  PROVE  /\ config = {} => ConfigOf(p) = DefaultConfig(p)
         /\ \A c \in config : ConfigOf(p) = c
PROOF
<1>1. ASSUME NEW c \in config PROVE ConfigOf(p) = c
  BY <1>1, TheOnly DEF ConfigOf
<1> QED BY <1>1 DEF ConfigOf

\* The same of the next state.
LEMMA ConfigOfNext ==
  ASSUME AtMostOne(config'), NEW p
  PROVE  /\ config' = {} => ConfigOf(p)' = DefaultConfig(p)
         /\ \A c \in config' : ConfigOf(p)' = c
PROOF
<1>1. ASSUME NEW c \in config' PROVE ConfigOf(p)' = c
  BY <1>1, TheOnly DEF ConfigOf
<1> QED BY <1>1 DEF ConfigOf

\* A configuration has its default among its models.
LEMMA ConfigOfHas ==
  ASSUME RecordTypes, NEW p \in [default : Selections]
  PROVE  /\ ConfigOf(p) \in Configs
         /\ ConfigOf(p).default \in ConfigOf(p).models \cup {NoModel}
PROOF
<1>1. CASE config = {}
  <2>1. ConfigOf(p) = DefaultConfig(p)
    BY <1>1, ConfigOfIs DEF RecordTypes
  <2> QED BY <2>1, ConfigFacts
<1>2. CASE config # {}
  <2>1. PICK c \in config : TRUE
    BY <1>2
  <2>2. ConfigOf(p) = c
    BY <2>1, ConfigOfIs DEF RecordTypes
  <2> QED BY <2>1, <2>2 DEF RecordTypes
<1> QED BY <1>1, <1>2

\* What has been crossed once stays so.
LEMMA CrossedStays ==
  ASSUME crossed \subseteq crossed', NEW who, NEW items
  PROVE  Crossed(who, items) => Crossed(who, items)'
PROOF
<1> QED BY DEF Crossed

\* A surprise that was noted is one of those a conjunct allows.
LEMMA CrossedBy ==
  ASSUME NEW a, NEW b, <<a, b>> \in crossed', NEW who, NEW items, a \in who, b \in items
  PROVE  Crossed(who, items)'
PROOF
<1> QED BY DEF Crossed

\* The surprises each exception is made of.
LEMMA SurpriseIs ==
  /\ \A a \in {"create project", "put config"}, b \in {"project", "config", "failed"} :
       <<a, b>> \in crossed' => ConfigCrossed'
  /\ \A a \in {"create", "patch", "list"},
        b \in {"project", "conversation", "row", "unsaved"} :
       <<a, b>> \in crossed' => PutBack({"create", "patch", "list"})'
  /\ \A a \in {"list", "patch"}, b \in {"project", "conversation", "row", "unsaved"} :
       <<a, b>> \in crossed' => PutBack({"list", "patch"})'
  /\ \A a \in {"create", "patch"}, b \in {"project", "config"} :
       <<a, b>> \in crossed' => Crossed({"create", "patch"}, {"project", "config"})'
  /\ <<"put config", "no default">> \in crossed' => Crossed({"put config"}, {"no default"})'
  /\ <<"submit", "config">> \in crossed' => Crossed({"submit"}, {"config"})'
PROOF
<1>1. ASSUME NEW who, NEW items
      PROVE  \A a \in who, b \in items : <<a, b>> \in crossed' => Crossed(who, items)'
  BY CrossedBy
<1>2. \A a \in {"create project", "put config"}, b \in {"project", "config", "failed"} :
       <<a, b>> \in crossed' => ConfigCrossed'
  BY <1>1 DEF ConfigCrossed
<1>3. \A a \in {"create", "patch", "list"},
         b \in {"project", "conversation", "row", "unsaved"} :
       <<a, b>> \in crossed' => PutBack({"create", "patch", "list"})'
  BY <1>1 DEF PutBack
<1>4. \A a \in {"list", "patch"}, b \in {"project", "conversation", "row", "unsaved"} :
       <<a, b>> \in crossed' => PutBack({"list", "patch"})'
  BY <1>1 DEF PutBack
<1>5. \A a \in {"create", "patch"}, b \in {"project", "config"} :
       <<a, b>> \in crossed' => Crossed({"create", "patch"}, {"project", "config"})'
  BY <1>1
<1>6. <<"put config", "no default">> \in crossed' => Crossed({"put config"}, {"no default"})'
  BY <1>1
<1>7. <<"submit", "config">> \in crossed' => Crossed({"submit"}, {"config"})'
  BY <1>1
<1> QED BY <1>2, <1>3, <1>4, <1>5, <1>6, <1>7

\* Who may put back an old conversation in one place may in a wider one.
LEMMA WiderCrossed ==
  /\ PutBack({"patch"}) => PutBack({"list", "patch"}) /\ PutBack({"create", "patch", "list"})
  /\ PutBack({"list"}) => PutBack({"list", "patch"}) /\ PutBack({"create", "patch", "list"})
PROOF
<1> QED BY DEF PutBack, Crossed

\* What a request is, when it is another one that goes on: its own, but for what is old.
Untouched(s) ==
  /\ DOMAIN request'[s] = RequestFields
  /\ request'[s].do = request[s].do /\ request'[s].step = request[s].step
  /\ request'[s].read = request[s].read /\ request'[s].project = request[s].project
  /\ request'[s].config = request[s].config /\ request'[s].seed = request[s].seed
  /\ request'[s].model = request[s].model /\ request'[s].resource = request[s].resource
  /\ Fresh(s, "project")' => Fresh(s, "project") /\ project' = project
  /\ Fresh(s, "config")' => Fresh(s, "config") /\ config' = config
  /\ Fresh(s, "conversation")' => Fresh(s, "conversation") /\ conversation' = conversation
  /\ Fresh(s, "resource")' => Fresh(s, "resource") /\ resource' = resource

\* The request that steps is the one it goes on as, the others are untouched.
LEMMA RequestGoesOn ==
  ASSUME \A s \in ProjectRequests : DOMAIN request[s] = RequestFields,
         NEW r \in ProjectRequests, NEW q, GoOn(r, q)
  PROVE  request'[r] = q /\ \A s \in ProjectRequests \ {r} : Untouched(s)
PROOF
<1>1. request'[r] = q
  BY DEF GoOn
<1>2. ASSUME NEW s \in ProjectRequests \ {r} PROVE Untouched(s)
  <2> DEFINE old == request[s].old \cup (request[s].read \cap Changed)
  <2>1. request'[s] = [request[s] EXCEPT !.old = old]
    BY <1>2 DEF GoOn
  <2>2. /\ DOMAIN request'[s] = RequestFields
        /\ request'[s].do = request[s].do /\ request'[s].step = request[s].step
        /\ request'[s].read = request[s].read /\ request'[s].project = request[s].project
        /\ request'[s].config = request[s].config /\ request'[s].seed = request[s].seed
        /\ request'[s].model = request[s].model
        /\ request'[s].resource = request[s].resource
        /\ request'[s].old = old
    BY <1>2, <2>1 DEF RequestFields
  <2>3. \A x : Fresh(s, x)' => Fresh(s, x) /\ x \notin Changed
    BY <2>2 DEF Fresh
  <2>4. /\ "project" \notin Changed => project' = project
        /\ "config" \notin Changed => config' = config
        /\ "conversation" \notin Changed => conversation' = conversation
        /\ "resource" \notin Changed => resource' = resource
    BY DEF Changed, Items
  <2> QED BY <2>2, <2>3, <2>4 DEF Untouched
<1> QED BY <1>1, <1>2

\* What the other requests know stays true of what is still as they read it.
LEMMA OthersHold ==
  ASSUME NEW s \in ProjectRequests, RequestHolds(s), Untouched(s), RecordTypes, RecordTypes',
         crossed \subseteq crossed',
         \/ project' = project \/ project' = {} \/ (project # {} /\ config # {})
         \/ ConfigCrossed' \/ ~At(s, "submit", "checked")
  PROVE  RequestHolds(s)'
PROOF
<1>1. WellFormed(request[s])'
  BY DEF RequestHolds, WellFormed, Untouched
<1>2. PutHolds(s)'
  BY DEF RequestHolds, Untouched, PutHolds, At, Syncs
<1>3. CreateHolds(s)'
  <2>1. Fresh(s, "project")' /\ Fresh(s, "config")' =>
          \A p \in project' : FirstModel(p)' = FirstModel(p)
    BY DEF Untouched, FirstModel, ConfigOf
  <2>2. At(s, "create", "project")' =>
          /\ "project" \in request'[s].read /\ request'[s].project # {}
          /\ Fresh(s, "project")' => request'[s].project = project'
    BY DEF RequestHolds, Untouched, CreateHolds, At
  <2>3. At(s, "create", "config")' =>
          /\ {"project", "config"} \subseteq request'[s].read
          /\ Fresh(s, "project")' => project' # {}
          /\ Fresh(s, "project")' /\ Fresh(s, "config")' =>
               \A p \in project' : request'[s].config.default = FirstModel(p)'
    BY <2>1 DEF RequestHolds, Untouched, CreateHolds, At
  <2> QED BY <2>2, <2>3 DEF CreateHolds
<1>4. PatchHolds(s)'
  <2>1. PutBack({"patch"}) => PutBack({"patch"})'
    BY CrossedStays DEF PutBack
  <2>2. Fresh(s, "project")' /\ Fresh(s, "config")' =>
          \A p \in project' : ConfigOf(p)' = ConfigOf(p)
    BY DEF Untouched, ConfigOf
  <2> QED BY <2>1, <2>2 DEF RequestHolds, Untouched, PatchHolds, At
<1>5. ListHolds(s)'
  <2>1. PutBack({"list"}) => PutBack({"list"})'
    BY CrossedStays DEF PutBack
  <2> QED BY <2>1 DEF RequestHolds, Untouched, ListHolds, At
<1>6. SubmitHolds(s)'
  <2> SUFFICES ASSUME At(s, "submit", "checked"), Fresh(s, "config")'
               PROVE  \/ ConfigCrossed'
                      \/ \A p \in project' : request'[s].model \in ConfigOf(p)'.models
    BY DEF RequestHolds, Untouched, SubmitHolds, At
  <2>1. config' = config /\ Fresh(s, "config")
    BY DEF Untouched
  <2>2. \/ ConfigCrossed
        \/ \A p \in project : request[s].model \in ConfigOf(p).models
    BY <2>1 DEF RequestHolds, SubmitHolds
  <2>3. ConfigCrossed => ConfigCrossed'
    BY CrossedStays DEF ConfigCrossed
  <2>4. \A p : ConfigOf(p)' = ConfigOf(p)
    BY <2>1 DEF ConfigOf
  <2>5. CASE project # {} /\ config # {}
    <3>1. PICK c \in config, p \in project : TRUE
      BY <2>5
    <3>2. \A q : ConfigOf(q)' = c /\ ConfigOf(q) = c
      BY <2>4, <3>1, ConfigOfIs DEF RecordTypes
    <3> QED BY <2>2, <2>3, <3>1, <3>2 DEF RequestHolds, SubmitHolds, Untouched, At
  <2>6. CASE project' = project \/ project' = {} \/ ConfigCrossed'
    BY <2>2, <2>3, <2>4, <2>6 DEF RequestHolds, SubmitHolds, Untouched, At
  <2> QED BY <2>5, <2>6 DEF Untouched, At
<1>7. ResourceHolds(s)'
  BY DEF RequestHolds, Untouched, ResourceHolds, At
<1> QED BY <1>1, <1>2, <1>3, <1>4, <1>5, <1>6, <1>7 DEF RequestHolds

\* A record that is made stays alone while the others go on.
LEMMA NewStays ==
  ASSUME NEW r \in ProjectRequests, NEW s \in ProjectRequests \ {r}, NewHolds(s),
         \A t \in ProjectRequests \ {r} : Untouched(t),
         MakesNew(s) => conversation' = {} /\ row' = {} /\ ~PutsBack(r)'
  PROVE  NewHolds(s)'
PROOF
<1> SUFFICES ASSUME MakesNew(s)'
             PROVE  /\ conversation' = {} /\ row' = {}
                    /\ \A t \in ProjectRequests \ {s} : ~PutsBack(t)'
  BY DEF NewHolds
<1>1. MakesNew(s)
  BY DEF MakesNew, Creates, At, Untouched
<1>2. ASSUME NEW t \in ProjectRequests \ {s, r} PROVE ~PutsBack(t)'
  <2>1. ~PutsBack(t)
    BY <1>1 DEF NewHolds
  <2> QED BY <2>1 DEF PutsBack, At, Untouched
<1> QED BY <1>1, <1>2

\* What is still to come of the others is still to come.
LEMMA PendingGoes ==
  ASSUME NEW r \in ProjectRequests, \A s \in ProjectRequests \ {r} : Untouched(s)
  PROVE  /\ Deleting => Deleting' \/ Deletes(r)
         /\ Purging => Purging' \/ Purges(r)
         /\ Unpersisted => Unpersisted' \/ Persists(r)
         /\ Saving => Saving' \/ Saves(r)
         /\ Syncing => Syncing' \/ Syncs(r)
         /\ Creating => Creating' \/ Creates(r)
PROOF
<1>1. Deleting => Deleting' \/ Deletes(r)
  BY DEF Deleting, Deletes, Untouched
<1>2. Purging => Purging' \/ Purges(r)
  BY DEF Purging, Purges, At, Untouched
<1>3. Unpersisted => Unpersisted' \/ Persists(r)
  BY DEF Unpersisted, Persists, Untouched
<1>4. Saving => Saving' \/ Saves(r)
  BY DEF Saving, Saves, At, Untouched
<1>5. Syncing => Syncing' \/ Syncs(r)
  BY DEF Syncing, Syncs, Untouched
<1>6. Creating => Creating' \/ Creates(r)
  BY DEF Creating, Creates, At, Untouched
<1> QED BY <1>1, <1>2, <1>3, <1>4, <1>5, <1>6

\* A request others wait for.
Holds(r) == Deletes(r) \/ Purges(r) \/ Persists(r) \/ Syncs(r) \/ Creates(r)

\* All that was noted stays noted.
LEMMA NotedStays ==
  ASSUME crossed \subseteq crossed'
  PROVE  /\ ConfigCrossed => ConfigCrossed'
         /\ PutBack({"create", "patch", "list"}) => PutBack({"create", "patch", "list"})'
         /\ PutBack({"list", "patch"}) => PutBack({"list", "patch"})'
         /\ Crossed({"create", "patch"}, {"project", "config"})
              => Crossed({"create", "patch"}, {"project", "config"})'
         /\ Crossed({"put config"}, {"no default"}) => Crossed({"put config"}, {"no default"})'
         /\ Crossed({"submit"}, {"config"}) => Crossed({"submit"}, {"config"})'
PROOF
<1> QED BY CrossedStays DEF ConfigCrossed, PutBack

\* A step that only reads leaves the records as they are.
LEMMA ReadingRests ==
  ASSUME Records, NEW r \in ProjectRequests, \A s \in ProjectRequests \ {r} : Untouched(s),
         ~Holds(r), crossed \subseteq crossed',
         UNCHANGED <<resource, project, config, conversation, row, jobs, removed>>
  PROVE  Records'
PROOF
<1>1. /\ Deleting => Deleting'
      /\ Purging => Purging'
      /\ Unpersisted => Unpersisted'
      /\ Saving => Saving'
      /\ Syncing => Syncing'
      /\ Creating => Creating'
  BY PendingGoes DEF Holds, Saves, Syncs, At
<1>2. RecordTypes'
  BY DEF Records, RecordTypes
<1>3. ConfigRests'
  BY <1>1, NotedStays DEF Records, ConfigRests
<1>4. RowsRest'
  BY <1>1, NotedStays DEF Records, RowsRest
<1>5. \A p : ConfigOf(p)' = ConfigOf(p)
  BY DEF ConfigOf
<1>6. ModelRests'
  BY <1>1, <1>5, NotedStays DEF Records, ModelRests
<1>7. JobsRest'
  BY <1>1, <1>5, NotedStays DEF Records, JobsRest
<1>8. ActiveRuns'
  BY <1>1, NotedStays DEF Records, ActiveRuns
<1>9. RemovedRest'
  BY DEF Records, RemovedRest
<1> QED BY <1>2, <1>3, <1>4, <1>6, <1>7, <1>8, <1>9 DEF Records

\* The same for all other requests.
LEMMA ReadingHolds ==
  ASSUME ProjectInv, NEW r \in ProjectRequests,
         \A s \in ProjectRequests \ {r} : Untouched(s),
         ~Holds(r), crossed \subseteq crossed',
         UNCHANGED <<resource, project, config, conversation, row, jobs, removed>>,
         RequestHolds(r)', NewHolds(r)',
         PutsBack(r)' => PutsBack(r) \/ conversation \cup row # {}
                         \/ \A s \in ProjectRequests \ {r} : ~MakesNew(s)
  PROVE  ProjectInv'
PROOF
<1>1. Records'
  BY ReadingRests DEF ProjectInv
<1>2. ASSUME NEW s \in ProjectRequests \ {r} PROVE RequestHolds(s)' /\ NewHolds(s)'
  <2>0. RequestHolds(s) /\ Untouched(s) /\ RecordTypes /\ RecordTypes' /\ project' = project
    BY <1>1 DEF ProjectInv, Records
  <2>1. RequestHolds(s)'
    BY <2>0, OthersHold
  <2>2. MakesNew(s) => ~PutsBack(r) /\ conversation = {} /\ row = {}
    BY DEF ProjectInv, NewHolds
  <2>3. NewHolds(s)'
    BY <2>2, NewStays DEF ProjectInv
  <2> QED BY <2>1, <2>3
<1> QED BY <1>1, <1>2 DEF ProjectInv
-------------------------------------------------------------------------------
(* The steps that only read.                                                  *)

\* What a request has in its hands when it has answered and when it begins.
LEMMA AtEaseIs ==
  /\ WellFormed(AtEase) /\ AtEase.step = "idle" /\ AtEase.do = "nothing"
  /\ DOMAIN AtEase = RequestFields /\ AtEase.old = {} /\ AtEase.project = {}
  /\ AtEase.config \in Configs /\ AtEase.seed = {} /\ AtEase.model = NoModel
  /\ AtEase.resource \in Resources
PROOF
<1>1. DefaultConfig([default |-> NoModel]) \in Configs
  BY ConfigFacts DEF Selections
<1> QED BY <1>1 DEF AtEase, WellFormed, RequestFields, Selections, Resources, AtMostOne, Talks

Begun(q, do, step, items) ==
  /\ WellFormed(q) /\ DOMAIN q = RequestFields /\ q.do = do /\ q.step = step
  /\ q.read = items /\ q.old = {} /\ q.project = {} /\ q.seed = {} /\ q.model = NoModel

\* What a request has in its hands when it has just begun.
LEMMA OpenedIs ==
  ASSUME NEW do, NEW step, step \notin {"idle", "row"}, NEW items
  PROVE  Begun(Opened(do, step, items), do, step, items)
PROOF
<1> DEFINE q == Opened(do, step, items)
<1>1. /\ DOMAIN q = RequestFields /\ q.do = do /\ q.step = step /\ q.read = items
      /\ q.old = {} /\ q.project = {} /\ q.config \in Configs /\ q.seed = {}
      /\ q.model = NoModel /\ q.resource \in Resources
  BY AtEaseIs DEF Opened, RequestFields
<1> HIDE DEF q
<1>2. WellFormed(q)
  BY <1>1 DEF WellFormed, Selections, AtMostOne, Talks
<1>3. Begun(q, do, step, items)
  BY <1>1, <1>2 DEF Begun
<1> QED BY <1>3 DEF q

\* What ReadBy changes.
LEMMA ReadByIs ==
  ASSUME NEW r, DOMAIN request[r] = RequestFields, NEW items, NEW step
  PROVE  LET q == ReadBy(r, items, step)
         IN /\ DOMAIN q = RequestFields /\ q.do = request[r].do /\ q.step = step
            /\ q.read = request[r].read \cup items /\ q.old = request[r].old
            /\ q.project = request[r].project /\ q.config = request[r].config
            /\ q.seed = request[r].seed /\ q.model = request[r].model
            /\ q.resource = request[r].resource
PROOF
<1> QED BY DEF ReadBy, RequestFields

\* It leaves a request well formed.
LEMMA ReadByFits ==
  ASSUME NEW r, WellFormed(request[r]), NEW items, NEW step, step \notin {"idle", "row"}
  PROVE  WellFormed(ReadBy(r, items, step))
PROOF
<1> DEFINE q == ReadBy(r, items, step)
<1>1. /\ DOMAIN q = RequestFields /\ q.step = step
      /\ q.project = request[r].project /\ q.config = request[r].config
      /\ q.seed = request[r].seed /\ q.model = request[r].model
      /\ q.resource = request[r].resource
  BY ReadByIs DEF WellFormed
<1> HIDE DEF q
<1>2. WellFormed(q)
  BY <1>1 DEF WellFormed
<1> QED BY <1>2 DEF q

\* What a request does says what it relies on.
LEMMA OnlyItsOwn ==
  ASSUME NEW r \in ProjectRequests, WellFormed(request'[r])
  PROVE  LET do == request'[r].do
         IN /\ do \in {"create project", "put config"} /\ PutHolds(r)' => RequestHolds(r)'
            /\ do = "create" /\ CreateHolds(r)' => RequestHolds(r)'
            /\ do = "patch" /\ PatchHolds(r)' => RequestHolds(r)'
            /\ do = "list" /\ ListHolds(r)' => RequestHolds(r)'
            /\ do = "submit" /\ SubmitHolds(r)' => RequestHolds(r)'
            /\ do = "patch resource" /\ ResourceHolds(r)' => RequestHolds(r)'
            /\ do \in {"delete", "delete project", "nothing", "end"} => RequestHolds(r)'
            /\ request'[r].step \in {"idle", "acted"} => RequestHolds(r)'
PROOF
<1> DEFINE do == request'[r].do
           acted == request'[r].step \in {"idle", "acted"}
<1>1. do \notin {"create project", "put config"} \/ acted => PutHolds(r)'
  BY DEF PutHolds, At, Syncs
<1>2. do # "create" \/ acted => CreateHolds(r)'
  BY DEF CreateHolds, At
<1>3. do # "patch" \/ acted => PatchHolds(r)'
  BY DEF PatchHolds, At
<1>4. do # "list" \/ acted => ListHolds(r)'
  BY DEF ListHolds, At
<1>5. do # "submit" \/ acted => SubmitHolds(r)'
  BY DEF SubmitHolds, At
<1>6. do # "patch resource" \/ acted => ResourceHolds(r)'
  BY DEF ResourceHolds, At
<1> QED BY <1>1, <1>2, <1>3, <1>4, <1>5, <1>6 DEF RequestHolds

\* A request that answers.
LEMMA AnswerHolds ==
  ASSUME NEW r \in ProjectRequests, request'[r] = AtEase
  PROVE  RequestHolds(r)' /\ ~MakesNew(r)' /\ ~PutsBack(r)'
PROOF
<1>1. WellFormed(request'[r]) /\ request'[r].step = "idle" /\ request'[r].do = "nothing"
  BY AtEaseIs
<1> QED BY <1>1, OnlyItsOwn DEF PutsBack, MakesNew, Creates, At

\* The fields of the requests of an invariant state.
LEMMA RequestsFit ==
  ASSUME ProjectInv
  PROVE  \A s \in ProjectRequests : WellFormed(request[s]) /\ DOMAIN request[s] = RequestFields
PROOF
<1> QED BY DEF ProjectInv, RequestHolds, WellFormed

\* PUT of a configuration begins: the project is read.
LEMMA PutConfigKeeps ==
  ASSUME ProjectInv, NEW r \in ProjectRequests, NEW c \in Offered, PutConfig(r, c)
  PROVE  ProjectInv'
PROOF
<1> DEFINE q == [Opened("put config", "checked", {"project"}) EXCEPT !.config = c]
<1>1. request'[r] = q /\ \A s \in ProjectRequests \ {r} : Untouched(s)
  BY RequestsFit, RequestGoesOn DEF PutConfig
<1>2. /\ q.do = "put config" /\ q.step = "checked" /\ q.read = {"project"}
      /\ WellFormed(q)
  <2> DEFINE o == Opened("put config", "checked", {"project"})
  <2>1. Begun(o, "put config", "checked", {"project"})
    BY OpenedIs
  <2>2. c \in Configs
    BY ProjectAssumption
  <2> HIDE DEF o
  <2>3. WellFormed([o EXCEPT !.config = c])
    BY <2>1, <2>2 DEF Begun, WellFormed, RequestFields
  <2>4. /\ [o EXCEPT !.config = c].do = "put config"
        /\ [o EXCEPT !.config = c].step = "checked"
        /\ [o EXCEPT !.config = c].read = {"project"}
    BY <2>1 DEF Begun, RequestFields
  <2> QED BY <2>3, <2>4 DEF o
<1> HIDE DEF q
<1>3. RequestHolds(r)'
  <2>1. PutHolds(r)'
    BY <1>1, <1>2 DEF PutHolds, At, Syncs, PutConfig, Tables
  <2> QED BY <1>1, <1>2, <2>1, OnlyItsOwn
<1>4. ~MakesNew(r)' /\ ~PutsBack(r)' /\ ~Holds(r)
  BY <1>1, <1>2 DEF MakesNew, PutsBack, Creates, At, Holds, Deletes, Purges, Persists, Syncs,
                    PutConfig, Begin, ProjectInv, RequestHolds, WellFormed
<1>5. /\ crossed \subseteq crossed'
      /\ UNCHANGED <<resource, project, config, conversation, row, jobs, removed>>
  BY DEF PutConfig, Tables, Memory
<1> QED BY <1>1, <1>3, <1>4, <1>5, ReadingHolds DEF NewHolds

\* A request that begins held nothing.
LEMMA BeginIs ==
  ASSUME ProjectInv, NEW r \in ProjectRequests, Begin(r)
  PROVE  ~Holds(r) /\ ~MakesNew(r) /\ ~PutsBack(r)
PROOF
<1>1. request[r].step = "idle" /\ request[r].do = "nothing"
  BY DEF Begin, ProjectInv, RequestHolds, WellFormed
<1> QED BY <1>1 DEF Holds, MakesNew, PutsBack, Creates, At, Deletes, Purges, Persists, Syncs

\* A conversation begins to be made: there is no other request.
LEMMA CreateConversationKeeps ==
  ASSUME ProjectInv, NEW r \in ProjectRequests, CreateConversation(r)
  PROVE  ProjectInv'
PROOF
<1> DEFINE o == Opened("create", "project", {"project"})
           q == [o EXCEPT !.project = project]
<1>1. request'[r] = q /\ \A s \in ProjectRequests \ {r} : Untouched(s)
  BY RequestsFit, RequestGoesOn DEF CreateConversation
<1>2. Begun(o, "create", "project", {"project"})
  BY OpenedIs
<1> HIDE DEF o
<1>3. q.do = "create" /\ q.step = "project" /\ q.read = {"project"} /\ q.project = project
  BY <1>2 DEF Begun, RequestFields
<1>4. WellFormed(q)
  BY <1>2 DEF Begun, WellFormed, RequestFields, ProjectInv, Records, RecordTypes
<1> HIDE DEF q
<1>5. /\ crossed \subseteq crossed'
      /\ UNCHANGED <<resource, project, config, conversation, row, jobs, removed>>
  BY DEF CreateConversation, Tables, Memory
<1>6. RequestHolds(r)'
  <2>1. CreateHolds(r)'
    BY <1>1, <1>3, <1>5 DEF CreateHolds, At, CreateConversation
  <2> QED BY <1>1, <1>3, <1>4, <2>1, OnlyItsOwn
<1>7. \A s \in ProjectRequests : ~MakesNew(s) /\ ~PutsBack(s)
  <2> SUFFICES ASSUME NEW s \in ProjectRequests PROVE ~MakesNew(s) /\ ~PutsBack(s)
    OBVIOUS
  <2>1. request[s].step = "idle" /\ request[s].do = "nothing"
    BY DEF CreateConversation, ProjectInv, RequestHolds, WellFormed
  <2> QED BY <2>1 DEF MakesNew, PutsBack, Creates, At
<1>8. NewHolds(r)'
  BY <1>1, <1>5, <1>7 DEF NewHolds, PutsBack, At, Untouched, CreateConversation
<1>9. ~Holds(r)
  BY BeginIs DEF CreateConversation
<1> QED BY <1>1, <1>5, <1>6, <1>7, <1>8, <1>9, ReadingHolds

\* The configuration is read for a new conversation, or its default made up.
LEMMA ReadConfigKeeps ==
  ASSUME ProjectInv, NEW r \in ProjectRequests, ReadConfig(r)
  PROVE  ProjectInv'
PROOF
<1> PICK p : p = CHOOSE x \in request[r].project : TRUE
  OBVIOUS
<1> PICK c : c = ConfigOf(p)
  OBVIOUS
<1> DEFINE d == IF c.default = NoModel THEN p.default ELSE c.default
           o == ReadBy(r, {"config"}, "config")
           q == [o EXCEPT !.config = [c EXCEPT !.default = d]]
<1>0. /\ WellFormed(request[r]) /\ DOMAIN request[r] = RequestFields
      /\ request[r].do = "create" /\ request[r].step = "project"
      /\ RecordTypes /\ CreateHolds(r) /\ NewHolds(r)
  BY RequestsFit DEF ReadConfig, At, ProjectInv, Records, RequestHolds
<1>1. request'[r] = q /\ \A s \in ProjectRequests \ {r} : Untouched(s)
  <2>1. GoOn(r, q)
    BY DEF ReadConfig
  <2> QED BY <2>1, RequestsFit, RequestGoesOn
<1>2. request[r].project # {} /\ "project" \in request[r].read
  BY <1>0 DEF CreateHolds, At
<1>3. p \in request[r].project /\ request[r].project = {p} /\ p \in [default : Selections]
  BY <1>0, <1>2, TheOnly DEF WellFormed
<1>4. c \in Configs /\ d \in Selections
  <2>1. c \in Configs
    BY <1>0, <1>3, ConfigOfHas
  <2> QED BY <1>3, <2>1 DEF Configs, Selections
<1>5. [c EXCEPT !.default = d] \in Configs /\ [c EXCEPT !.default = d].default = d
  BY <1>4, ConfigFacts
<1>6. /\ WellFormed(o) /\ DOMAIN o = RequestFields /\ o.do = "create" /\ o.step = "config"
      /\ o.read = request[r].read \cup {"config"} /\ o.old = request[r].old
  BY <1>0, ReadByIs, ReadByFits
<1> DEFINE e == [c EXCEPT !.default = d]
<1> HIDE DEF o, e
<1>7. q = [o EXCEPT !.config = e]
  BY DEF e
<1> HIDE DEF q
<1>8. /\ q.do = "create" /\ q.step = "config" /\ q.read = request[r].read \cup {"config"}
      /\ q.old = request[r].old /\ q.config = e
  BY <1>6, <1>7 DEF RequestFields
<1>9. WellFormed(q)
  BY <1>5, <1>6, <1>7 DEF WellFormed, RequestFields, e
<1>10. /\ crossed \subseteq crossed'
       /\ UNCHANGED <<resource, project, config, conversation, row, jobs, removed>>
  BY DEF ReadConfig, Tables, Memory
<1>11. RequestHolds(r)'
  <2>1. Fresh(r, "project")' => project' = {p}
    BY <1>0, <1>1, <1>2, <1>3, <1>8, <1>10 DEF Fresh, CreateHolds, At
  <2>2. FirstModel(p)' = d
    <3>1. ConfigOf(p)' = c
      BY <1>10 DEF ConfigOf
    <3> QED BY <3>1 DEF FirstModel
  <2>3. q.config.default = d
    BY <1>5, <1>8 DEF e
  <2>4. CreateHolds(r)'
    BY <1>1, <1>2, <1>8, <2>1, <2>2, <2>3 DEF CreateHolds, At
  <2> QED BY <1>1, <1>8, <1>9, <2>4, OnlyItsOwn
<1>12. ~Holds(r)
  BY <1>0 DEF Holds, Creates, At, Deletes, Purges, Persists, Syncs
<1>13. MakesNew(r) /\ PutsBack(r)
  BY <1>0 DEF MakesNew, PutsBack
<1>14. NewHolds(r)'
  BY <1>0, <1>1, <1>10, <1>13 DEF NewHolds, PutsBack, At, Untouched
<1> QED BY <1>1, <1>10, <1>11, <1>12, <1>13, <1>14, ReadingHolds

\* A conversation is looked up in memory or in the table.
LEMMA LoadSeedKeeps ==
  ASSUME ProjectInv, NEW r \in ProjectRequests, NEW do \in {"patch", "delete"},
         NEW model \in Selections, NEW rule, LoadSeed(r, do, model, rule)
  PROVE  ProjectInv'
PROOF
<1> DEFINE step == IF conversation # {} THEN "seed" ELSE "row"
           read == IF conversation # {} THEN {"conversation"} ELSE {"conversation", "row"}
           seed == IF conversation # {} THEN conversation ELSE row
           o == Opened(do, step, read)
           q == [[o EXCEPT !.seed = seed] EXCEPT !.model = model, !.rule = rule]
<1>1. GoOn(r, q)
  BY DEF LoadSeed
<1>2. request'[r] = q /\ \A s \in ProjectRequests \ {r} : Untouched(s)
  BY <1>1, RequestsFit, RequestGoesOn
<1>3. /\ DOMAIN o = RequestFields /\ o.do = do /\ o.step = step /\ o.read = read
      /\ o.old = {} /\ o.project = {} /\ o.config \in Configs /\ o.seed = {}
      /\ o.model = NoModel /\ o.resource \in Resources
  BY AtEaseIs DEF Opened, RequestFields
<1> HIDE DEF o
<1>4. /\ DOMAIN q = RequestFields /\ q.do = do /\ q.step = step /\ q.read = read
      /\ q.project = {} /\ q.config \in Configs /\ q.seed = seed
      /\ q.model = model /\ q.resource \in Resources
  BY <1>3 DEF RequestFields
<1> HIDE DEF q
<1>5. WellFormed(q)
  <2>1. Talks(seed)
    BY DEF ProjectInv, Records, RecordTypes
  <2>2. seed # {}
    BY DEF LoadSeed
  <2> HIDE DEF seed
  <2> QED BY <1>4, <2>1, <2>2 DEF WellFormed, AtMostOne
<1>6. /\ crossed \subseteq crossed'
      /\ UNCHANGED <<resource, project, config, conversation, row, jobs, removed>>
  BY DEF LoadSeed, Tables, Memory, Notes
<1>7. conversation = {} /\ do = "patch" => PutBack({"patch"})'
  <2> SUFFICES ASSUME conversation = {}, do = "patch" PROVE PutBack({"patch"})'
    OBVIOUS
  <2>1. <<"patch", "unsaved">> \in crossed'
    BY DEF LoadSeed, Notes
  <2> QED BY <2>1, CrossedBy DEF PutBack
<1>8. RequestHolds(r)'
  <2>1. CASE do = "patch"
    <3>1. PatchHolds(r)'
      BY <1>2, <1>4, <1>6, <1>7, <2>1 DEF PatchHolds, At
    <3> QED BY <1>2, <1>4, <1>5, <2>1, <3>1, OnlyItsOwn
  <2>2. CASE do = "delete"
    BY <1>2, <1>4, <1>5, <2>2, OnlyItsOwn
  <2> QED BY <2>1, <2>2
<1>9. ~MakesNew(r)' /\ ~Holds(r)
  BY <1>2, <1>4, BeginIs DEF LoadSeed, MakesNew, Creates, At
<1>10. conversation \cup row # {}
  BY DEF LoadSeed
<1> QED BY <1>2, <1>6, <1>8, <1>9, <1>10, ReadingHolds DEF NewHolds

\* A patch is checked against the project and its configuration.
LEMMA CheckPatchKeeps ==
  ASSUME ProjectInv, NEW r \in ProjectRequests, CheckPatch(r)
  PROVE  ProjectInv'
PROOF
<1> DEFINE o == ReadBy(r, {"project", "config"}, "checked")
<1>0. /\ WellFormed(request[r]) /\ DOMAIN request[r] = RequestFields
      /\ request[r].do = "patch" /\ request[r].step = "seed"
      /\ RecordTypes /\ PatchHolds(r)
  BY RequestsFit DEF CheckPatch, At, ProjectInv, Records, RequestHolds
<1>1. /\ crossed \subseteq crossed'
      /\ UNCHANGED <<resource, project, config, conversation, row, jobs, removed>>
  BY DEF CheckPatch, Tables, Memory
<1>2. ~Holds(r) /\ PutsBack(r)
  BY <1>0 DEF Holds, PutsBack, Creates, At, Deletes, Purges, Persists, Syncs
<1>3. CASE Answer(r)
  <2>1. request'[r] = AtEase /\ \A s \in ProjectRequests \ {r} : Untouched(s)
    BY <1>3, RequestsFit, RequestGoesOn DEF Answer
  <2> QED BY <1>1, <1>2, <2>1, AnswerHolds, ReadingHolds DEF NewHolds
<1>4. CASE /\ GoOn(r, o)
           /\ \E p \in project :
                request[r].model # NoModel \/ request[r].rule # "keep"
                  => SelectionHolds(ConfigOf(p), Chosen(r).model, Chosen(r).rule)
  <2>1. request'[r] = o /\ \A s \in ProjectRequests \ {r} : Untouched(s)
    BY <1>4, RequestsFit, RequestGoesOn
  <2>2. /\ WellFormed(o) /\ o.do = "patch" /\ o.step = "checked"
        /\ o.read = request[r].read \cup {"project", "config"} /\ o.old = request[r].old
        /\ o.model = request[r].model
    BY <1>0, ReadByIs, ReadByFits
  <2> HIDE DEF o
  <2>3. request[r].model # NoModel =>
          \A p \in project : request[r].model \in ConfigOf(p).models
    <3> SUFFICES ASSUME request[r].model # NoModel, NEW p \in project
                 PROVE  request[r].model \in ConfigOf(p).models
      OBVIOUS
    <3>1. SelectionHolds(ConfigOf(p), Chosen(r).model, Chosen(r).rule)
      BY <1>0, <1>4 DEF RecordTypes, AtMostOne
    <3>2. Chosen(r).model = request[r].model
      BY DEF Chosen
    <3> QED BY <3>1, <3>2 DEF SelectionHolds
  <2>4. \A p : ConfigOf(p)' = ConfigOf(p)
    BY <1>1 DEF ConfigOf
  <2>5. PatchHolds(r)'
    <3>1. PutBack({"patch"}) => PutBack({"patch"})'
      BY <1>1, CrossedStays DEF PutBack
    <3>2. /\ "conversation" \in request[r].read
          /\ Fresh(r, "conversation") => conversation # {} \/ PutBack({"patch"})
      BY <1>0 DEF PatchHolds
    <3>3. Fresh(r, "conversation")' => Fresh(r, "conversation")
      BY <2>1, <2>2, <3>2 DEF Fresh
    <3>4. request'[r].model # NoModel =>
            \A p \in project' : request'[r].model \in ConfigOf(p)'.models
      BY <1>1, <2>1, <2>2, <2>3, <2>4
    <3> QED BY <1>1, <2>1, <2>2, <3>1, <3>2, <3>3, <3>4 DEF PatchHolds, At
  <2>6. RequestHolds(r)'
    BY <2>1, <2>2, <2>5, OnlyItsOwn
  <2>7. ~MakesNew(r)'
    BY <2>1, <2>2 DEF MakesNew, Creates, At
  <2> QED BY <1>1, <1>2, <2>1, <2>6, <2>7, ReadingHolds DEF NewHolds
<1> QED BY <1>3, <1>4 DEF CheckPatch

\* A listing reads the project.
LEMMA ListConversationsKeeps ==
  ASSUME ProjectInv, NEW r \in ProjectRequests, ListConversations(r)
  PROVE  ProjectInv'
PROOF
<1> DEFINE q == Opened("list", "project", {"project"})
<1>1. request'[r] = q /\ \A s \in ProjectRequests \ {r} : Untouched(s)
  BY RequestsFit, RequestGoesOn DEF ListConversations
<1>2. Begun(q, "list", "project", {"project"})
  BY OpenedIs
<1> HIDE DEF q
<1>3. /\ crossed \subseteq crossed'
      /\ UNCHANGED <<resource, project, config, conversation, row, jobs, removed>>
  BY DEF ListConversations, Tables, Memory
<1>4. RequestHolds(r)'
  <2>1. ListHolds(r)'
    BY <1>1, <1>2, <1>3 DEF Begun, ListHolds, At, ListConversations
  <2> QED BY <1>1, <1>2, <2>1, OnlyItsOwn DEF Begun
<1>5. ~MakesNew(r)' /\ ~PutsBack(r)' /\ ~Holds(r)
  BY <1>1, <1>2, BeginIs DEF Begun, MakesNew, PutsBack, Creates, At, ListConversations
<1> QED BY <1>1, <1>3, <1>4, <1>5, ReadingHolds DEF NewHolds

\* A listing reads the table.
LEMMA ReadRowsKeeps ==
  ASSUME ProjectInv, NEW r \in ProjectRequests, ReadRows(r)
  PROVE  ProjectInv'
PROOF
<1> DEFINE o == ReadBy(r, {"row", "conversation"}, "rows")
           q == [o EXCEPT !.seed = row]
<1>0. /\ WellFormed(request[r]) /\ DOMAIN request[r] = RequestFields
      /\ request[r].do = "list" /\ request[r].step = "project"
      /\ RecordTypes /\ ListHolds(r)
  BY RequestsFit DEF ReadRows, At, ProjectInv, Records, RequestHolds
<1>1. /\ crossed \subseteq crossed'
      /\ UNCHANGED <<resource, project, config, conversation, row, jobs, removed>>
  BY DEF ReadRows, Tables, Memory, Notes
<1>2. ~Holds(r)
  BY <1>0 DEF Holds, Creates, At, Deletes, Purges, Persists, Syncs
<1>3. CASE row = {} /\ Answer(r)
  <2>1. request'[r] = AtEase /\ \A s \in ProjectRequests \ {r} : Untouched(s)
    BY <1>3, RequestsFit, RequestGoesOn DEF Answer
  <2> QED BY <1>1, <1>2, <2>1, AnswerHolds, ReadingHolds DEF NewHolds
<1>4. CASE row # {} /\ GoOn(r, q)
  <2>1. request'[r] = q /\ \A s \in ProjectRequests \ {r} : Untouched(s)
    BY <1>4, RequestsFit, RequestGoesOn
  <2>2. /\ WellFormed(o) /\ DOMAIN o = RequestFields /\ o.do = "list" /\ o.step = "rows"
        /\ o.read = request[r].read \cup {"row", "conversation"} /\ o.old = request[r].old
    BY <1>0, ReadByIs, ReadByFits
  <2> HIDE DEF o
  <2>3. /\ q.do = "list" /\ q.step = "rows" /\ q.seed = row /\ q.old = request[r].old
        /\ q.read = request[r].read \cup {"row", "conversation"}
    BY <2>2 DEF RequestFields
  <2>4. WellFormed(q)
    BY <1>0, <2>2 DEF WellFormed, RequestFields, RecordTypes
  <2> HIDE DEF q
  <2>5. conversation = row \/ PutBack({"list"})'
    <3>1. CASE row \ conversation = {}
      BY <1>0, <1>4, <3>1 DEF RecordTypes, Talks, AtMostOne
    <3>2. CASE row \ conversation # {}
      <4>1. <<"list", "unsaved">> \in crossed'
        BY <3>2 DEF ReadRows, Notes
      <4> QED BY <4>1, CrossedBy DEF PutBack
    <3> QED BY <3>1, <3>2
  <2>6. RequestHolds(r)'
    <3>1. "project" \in request[r].read /\ (Fresh(r, "project") => project # {})
      BY <1>0 DEF ListHolds
    <3>2. Fresh(r, "project")' => Fresh(r, "project")
      BY <2>1, <2>3, <3>1 DEF Fresh
    <3>3. ListHolds(r)'
      BY <1>1, <1>4, <2>1, <2>3, <2>5, <3>1, <3>2 DEF ListHolds, At
    <3> QED BY <2>1, <2>3, <2>4, <3>3, OnlyItsOwn
  <2>7. ~MakesNew(r)'
    BY <2>1, <2>3 DEF MakesNew, Creates, At
  <2> QED BY <1>1, <1>2, <1>4, <2>1, <2>6, <2>7, ReadingHolds DEF NewHolds
<1> QED BY <1>3, <1>4 DEF ReadRows

\* A submission reads the conversation.
LEMMA SubmitKeeps ==
  ASSUME ProjectInv, NEW r \in ProjectRequests, NEW model \in Selections, Submit(r, model)
  PROVE  ProjectInv'
PROOF
<1> DEFINE o == Opened("submit", "seed", {"conversation"})
           q == [o EXCEPT !.seed = conversation, !.model = model]
<1>1. request'[r] = q /\ \A s \in ProjectRequests \ {r} : Untouched(s)
  <2>1. GoOn(r, q)
    BY DEF Submit
  <2> QED BY <2>1, RequestsFit, RequestGoesOn
<1>2. Begun(o, "submit", "seed", {"conversation"})
  BY OpenedIs
<1> HIDE DEF o
<1>3. /\ DOMAIN q = RequestFields /\ q.do = "submit" /\ q.step = "seed"
      /\ q.seed = conversation /\ q.model = model /\ q.config = o.config
      /\ q.resource = o.resource /\ q.project = {}
  BY <1>2 DEF Begun, RequestFields
<1> HIDE DEF q
<1>4. WellFormed(q)
  <2>1. Talks(conversation)
    BY DEF ProjectInv, Records, RecordTypes
  <2> QED BY <1>2, <1>3, <2>1 DEF Begun, WellFormed, AtMostOne
<1>5. /\ crossed \subseteq crossed'
      /\ UNCHANGED <<resource, project, config, conversation, row, jobs, removed>>
  BY DEF Submit, Tables, Memory
<1>6. RequestHolds(r)'
  <2>1. SubmitHolds(r)'
    BY <1>1, <1>3 DEF SubmitHolds, At
  <2> QED BY <1>1, <1>3, <1>4, <2>1, OnlyItsOwn
<1>7. ~MakesNew(r)' /\ ~PutsBack(r)' /\ ~Holds(r)
  BY <1>1, <1>3, BeginIs DEF MakesNew, PutsBack, Creates, At, Submit
<1> QED BY <1>1, <1>5, <1>6, <1>7, ReadingHolds DEF NewHolds

\* A submission is checked against the project and its configuration.
LEMMA CheckSubmitKeeps ==
  ASSUME ProjectInv, NEW r \in ProjectRequests, CheckSubmit(r)
  PROVE  ProjectInv'
PROOF
<1>0. /\ WellFormed(request[r]) /\ DOMAIN request[r] = RequestFields
      /\ request[r].do = "submit" /\ request[r].step = "seed" /\ RecordTypes
  BY RequestsFit DEF CheckSubmit, At, ProjectInv, Records, RequestHolds
<1>1. /\ crossed \subseteq crossed'
      /\ UNCHANGED <<resource, project, config, conversation, row, jobs, removed>>
  BY DEF CheckSubmit, Tables, Memory
<1>2. ~Holds(r)
  BY <1>0 DEF Holds, Creates, At, Deletes, Purges, Persists, Syncs
<1>3. CASE Answer(r)
  <2>1. request'[r] = AtEase /\ \A s \in ProjectRequests \ {r} : Untouched(s)
    BY <1>3, RequestsFit, RequestGoesOn DEF Answer
  <2> QED BY <1>1, <1>2, <2>1, AnswerHolds, ReadingHolds DEF NewHolds
<1> DEFINE models == {ResolvedModel(r, ConfigOf(p)) : p \in project}
           m == CHOOSE x \in models : TRUE
           o == ReadBy(r, {"project", "config"}, "checked")
           q == [o EXCEPT !.model = m]
<1>4. CASE /\ GoOn(r, q)
           /\ \E p \in project :
                LET c == ConfigOf(p)
                IN  /\ ResolvedModel(r, c) # NoModel
                    /\ SelectionHolds(c, ResolvedModel(r, c), Chosen(r).rule)
  <2>1. request'[r] = q /\ \A s \in ProjectRequests \ {r} : Untouched(s)
    BY <1>4, RequestsFit, RequestGoesOn
  <2>2. PICK p \in project : ResolvedModel(r, ConfigOf(p)) \in ConfigOf(p).models
    BY <1>4 DEF SelectionHolds
  <2>3. project = {p}
    BY <1>0, TheOnly DEF RecordTypes
  <2>4. m = ResolvedModel(r, ConfigOf(p))
    BY <2>3
  <2>5. m \in ConfigOf(p).models /\ m \in Selections
    <3>1. ConfigOf(p) \in Configs
      BY <1>0, <2>2, ConfigOfHas DEF RecordTypes
    <3> QED BY <2>2, <2>4, <3>1 DEF Configs, Selections
  <2>6. /\ WellFormed(o) /\ DOMAIN o = RequestFields /\ o.do = "submit"
        /\ o.step = "checked" /\ o.read = request[r].read \cup {"project", "config"}
    BY <1>0, ReadByIs, ReadByFits
  <2> PICK n : n = m
    OBVIOUS
  <2>7. q = [o EXCEPT !.model = n]
    OBVIOUS
  <2> HIDE DEF o, m, q
  <2>8. /\ q.do = "submit" /\ q.step = "checked" /\ q.model = n
        /\ q.read = request[r].read \cup {"project", "config"}
    BY <2>6, <2>7 DEF RequestFields
  <2>9. WellFormed(q)
    BY <2>5, <2>6, <2>7 DEF WellFormed, RequestFields
  <2>10. \A x : ConfigOf(x)' = ConfigOf(x)
    BY <1>1 DEF ConfigOf
  <2>11. SubmitHolds(r)'
    <3>1. \A x \in project' : n \in ConfigOf(x)'.models
      BY <1>1, <2>3, <2>5, <2>10
    <3> QED BY <2>1, <2>8, <3>1 DEF SubmitHolds, At
  <2>12. RequestHolds(r)' /\ ~MakesNew(r)' /\ ~PutsBack(r)'
    BY <2>1, <2>8, <2>9, <2>11, OnlyItsOwn DEF MakesNew, PutsBack, Creates, At
  <2> QED BY <1>1, <1>2, <2>1, <2>12, ReadingHolds DEF NewHolds
<1> QED BY <1>3, <1>4 DEF CheckSubmit

\* A resource is read, to be written back.
LEMMA PatchResourceKeeps ==
  ASSUME ProjectInv, NEW r \in ProjectRequests, NEW x \in Resources, NEW to,
         PatchResource(r, x, to)
  PROVE  ProjectInv'
PROOF
<1> DEFINE o == Opened("patch resource", "record", {"resource"})
           q == [o EXCEPT !.resource = x, !.to = to]
<1>1. request'[r] = q /\ \A s \in ProjectRequests \ {r} : Untouched(s)
  BY RequestsFit, RequestGoesOn DEF PatchResource
<1>2. Begun(o, "patch resource", "record", {"resource"})
  BY OpenedIs
<1> HIDE DEF o
<1>3. /\ q.do = "patch resource" /\ q.step = "record" /\ q.read = {"resource"}
      /\ q.resource = x
  BY <1>2 DEF Begun, RequestFields
<1>4. WellFormed(q)
  BY <1>2 DEF Begun, WellFormed, RequestFields
<1> HIDE DEF q
<1>5. /\ crossed \subseteq crossed'
      /\ UNCHANGED <<resource, project, config, conversation, row, jobs, removed>>
  BY DEF PatchResource, Tables, Memory
<1>6. RequestHolds(r)'
  <2>1. ResourceHolds(r)'
    BY <1>1, <1>3, <1>5 DEF ResourceHolds, At, PatchResource
  <2> QED BY <1>1, <1>3, <1>4, <2>1, OnlyItsOwn
<1>7. ~MakesNew(r)' /\ ~PutsBack(r)' /\ ~Holds(r)
  BY <1>1, <1>3, BeginIs DEF MakesNew, PutsBack, Creates, At, PatchResource
<1> QED BY <1>1, <1>5, <1>6, <1>7, ReadingHolds DEF NewHolds
-------------------------------------------------------------------------------
(* The steps that write.                                                      *)

\* The parts of the records a step has nothing to do with.
LEMMA PartsStay ==
  ASSUME Records, NEW r \in ProjectRequests, \A s \in ProjectRequests \ {r} : Untouched(s),
         crossed \subseteq crossed'
  PROVE  /\ project' = project /\ config' = config /\ ~Saves(r) /\ ~Creates(r) => ConfigRests'
         /\ /\ project' = project /\ conversation' = conversation /\ row' = row
            /\ ~Purges(r) /\ ~Deletes(r) /\ ~Persists(r)
            => RowsRest'
         /\ /\ project' = project /\ config' = config /\ conversation' = conversation
            /\ ~Syncs(r) /\ ~Deletes(r)
            => ModelRests'
         /\ project' = project /\ config' = config /\ jobs' = jobs /\ ~Syncs(r) => JobsRest'
         /\ conversation' = conversation /\ jobs' = jobs /\ ~Deletes(r) => ActiveRuns'
         /\ resource' = resource /\ removed' = removed => RemovedRest'
PROOF
<1>1. project' = project /\ config' = config /\ ~Saves(r) /\ ~Creates(r) => ConfigRests'
  BY PendingGoes, NotedStays DEF Records, ConfigRests
<1>2. /\ project' = project /\ conversation' = conversation /\ row' = row
      /\ ~Purges(r) /\ ~Deletes(r) /\ ~Persists(r)
      => RowsRest'
  BY PendingGoes, NotedStays DEF Records, RowsRest
<1>3. config' = config => \A p : ConfigOf(p)' = ConfigOf(p)
  BY DEF ConfigOf
<1>4. /\ project' = project /\ config' = config /\ conversation' = conversation
      /\ ~Syncs(r) /\ ~Deletes(r)
      => ModelRests'
  BY <1>3, PendingGoes, NotedStays DEF Records, ModelRests
<1>5. project' = project /\ config' = config /\ jobs' = jobs /\ ~Syncs(r) => JobsRest'
  BY <1>3, PendingGoes, NotedStays DEF Records, JobsRest
<1>6. conversation' = conversation /\ jobs' = jobs /\ ~Deletes(r) => ActiveRuns'
  BY PendingGoes, NotedStays DEF Records, ActiveRuns
<1>7. resource' = resource /\ removed' = removed => RemovedRest'
  BY DEF Records, RemovedRest
<1> QED BY <1>1, <1>2, <1>4, <1>5, <1>6, <1>7

\* A step that writes, once its own request and the records are seen to.
LEMMA WritingHolds ==
  ASSUME ProjectInv, NEW r \in ProjectRequests,
         \A s \in ProjectRequests \ {r} : Untouched(s),
         crossed \subseteq crossed', Records', RequestHolds(r)', NewHolds(r)',
         \/ project' = project \/ project' = {} \/ (project # {} /\ config # {})
         \/ ConfigCrossed' \/ \A s \in ProjectRequests \ {r} : ~At(s, "submit", "checked"),
         \A s \in ProjectRequests \ {r} :
           MakesNew(s) => conversation' = {} /\ row' = {} /\ ~PutsBack(r)'
  PROVE  ProjectInv'
PROOF
<1>1. ASSUME NEW s \in ProjectRequests \ {r} PROVE RequestHolds(s)' /\ NewHolds(s)'
  <2>1. RequestHolds(s) /\ Untouched(s) /\ RecordTypes /\ RecordTypes' /\ NewHolds(s)
    BY DEF ProjectInv, Records
  <2>2. RequestHolds(s)'
    BY <2>1, OthersHold
  <2>3. NewHolds(s)'
    BY <2>1, NewStays
  <2> QED BY <2>2, <2>3
<1> QED BY <1>1 DEF ProjectInv

\* While another makes something new there is nothing to put back and nobody who would.
LEMMA AnotherMakes ==
  ASSUME ProjectInv, NEW r \in ProjectRequests, NEW s \in ProjectRequests \ {r}, MakesNew(s)
  PROVE  conversation = {} /\ row = {} /\ ~PutsBack(r)
PROOF
<1> QED BY DEF ProjectInv, NewHolds

\* A project is made, without its configuration yet.
LEMMA CreateProjectKeeps ==
  ASSUME ProjectInv, NEW r \in ProjectRequests, CreateProject(r)
  PROVE  ProjectInv'
PROOF
<1> DEFINE q == Opened("create project", "project", {"project"})
<1>1. request'[r] = q /\ \A s \in ProjectRequests \ {r} : Untouched(s)
  BY RequestsFit, RequestGoesOn DEF CreateProject
<1>2. Begun(q, "create project", "project", {"project"})
  BY OpenedIs
<1> HIDE DEF q
<1>3. /\ project = {} /\ row = {} /\ conversation = {} /\ project' = {[default |-> NoModel]}
      /\ crossed \subseteq crossed'
      /\ UNCHANGED <<resource, config, conversation, row, jobs, removed>>
  BY DEF CreateProject
<1>4. \A s \in ProjectRequests : ~MakesNew(s) /\ ~PutsBack(s) /\ request[s].step = "idle"
  <2> SUFFICES ASSUME NEW s \in ProjectRequests
               PROVE  ~MakesNew(s) /\ ~PutsBack(s) /\ request[s].step = "idle"
    OBVIOUS
  <2>1. request[s].step = "idle" /\ request[s].do = "nothing"
    BY DEF CreateProject, ProjectInv, RequestHolds, WellFormed
  <2> QED BY <2>1 DEF MakesNew, PutsBack, Creates, At
<1>5. RequestHolds(r)'
  <2>1. PutHolds(r)'
    BY <1>1, <1>2, <1>3 DEF Begun, PutHolds, At, Syncs
  <2> QED BY <1>1, <1>2, <2>1, OnlyItsOwn DEF Begun
<1>6. NewHolds(r)'
  BY <1>1, <1>3, <1>4 DEF NewHolds, PutsBack, At, Untouched
<1>7. Records'
  <2>1. RecordTypes'
    BY <1>3 DEF ProjectInv, Records, RecordTypes, AtMostOne, Selections
  <2>2. ConfigRests'
    <3>1. Creating'
      BY <1>1, <1>2 DEF Begun, Creating, Creates, At
    <3>2. config # {} => ConfigCrossed'
      BY <1>3, NotedStays DEF ProjectInv, Records, ConfigRests
    <3> QED BY <1>3, <3>1, <3>2 DEF ConfigRests
  <2>3. RowsRest' /\ ModelRests' /\ ActiveRuns'
    BY <1>3 DEF RowsRest, ModelRests, ActiveRuns
  <2>4. JobsRest'
    <3>1. jobs' = <<>>
      BY <1>3 DEF ProjectInv, Records, RecordTypes
    <3> QED BY <3>1 DEF JobsRest
  <2>5. RemovedRest'
    BY <1>1, <1>3, PartsStay DEF ProjectInv
  <2> QED BY <2>1, <2>2, <2>3, <2>4, <2>5 DEF Records
<1>8. \A s \in ProjectRequests \ {r} : ~At(s, "submit", "checked")
  BY <1>4 DEF At
<1> QED BY <1>1, <1>3, <1>4, <1>5, <1>6, <1>7, <1>8, WritingHolds

\* What a request that acts notes of a thing that is old.
LEMMA ActsNotes ==
  ASSUME NEW r, Acts(r), NEW x, x \in request[r].read, ~Fresh(r, x)
  PROVE  <<request[r].do, x>> \in crossed'
PROOF
<1> QED BY DEF Acts, Notes, Fresh

\* The configuration of a new project is made, or the project taken back.
LEMMA CreateConfigKeeps ==
  ASSUME ProjectInv, NEW r \in ProjectRequests, CreateConfig(r)
  PROVE  ProjectInv'
PROOF
<1>0. /\ request[r].do = "create project" /\ request[r].step = "project"
      /\ Creates(r) /\ MakesNew(r) /\ PutHolds(r) /\ Records
  BY DEF CreateConfig, At, ProjectInv, RequestHolds, MakesNew, Creates
<1>1. request'[r] = AtEase /\ \A s \in ProjectRequests \ {r} : Untouched(s)
  BY RequestsFit, RequestGoesOn DEF CreateConfig, Answer
<1>2. crossed \subseteq crossed' /\ UNCHANGED <<resource, row, removed>>
  BY DEF CreateConfig, Acts, Notes
<1>3. conversation = {} /\ row = {} /\ jobs = <<>>
  BY <1>0 DEF ProjectInv, NewHolds, Records, RecordTypes
<1>4. conversation' = {} /\ jobs' = <<>>
  BY <1>3 DEF CreateConfig
<1>5. Fresh(r, "project") \/ ConfigCrossed'
  <2> SUFFICES ASSUME ~Fresh(r, "project") PROVE ConfigCrossed'
    OBVIOUS
  <2>1. Acts(r) /\ "project" \in request[r].read
    BY <1>0 DEF CreateConfig, PutHolds, At
  <2>2. <<"create project", "project">> \in crossed'
    BY <1>0, <2>1, ActsNotes
  <2> QED BY <2>2, SurpriseIs
<1>6. Fresh(r, "project") => project = {[default |-> NoModel]}
  BY <1>0 DEF PutHolds, At
<1>7. \/ project' = project /\ config' = {DefaultConfig([default |-> NoModel])}
      \/ project' = {} /\ config' = {}
  BY DEF CreateConfig
<1>8. RecordTypes'
  <2>1. [default |-> NoModel] \in [default : Selections]
    BY DEF Selections
  <2>2. <<>> \in Seq(JobRecords)
    OBVIOUS
  <2>3. \A c \in config' : c.default \in c.models \cup {NoModel}
    BY <1>7, <2>1, ConfigFacts
  <2>4. AtMostOne(project') /\ project' \subseteq [default : Selections]
    BY <1>0, <1>7 DEF Records, RecordTypes, AtMostOne
  <2>5. AtMostOne(config') /\ config' \subseteq Configs
    BY <1>7, <2>1, ConfigFacts DEF AtMostOne
  <2> QED BY <1>0, <1>2, <1>3, <1>4, <2>2, <2>3, <2>4, <2>5
          DEF Records, RecordTypes, Talks, AtMostOne
<1>9. ConfigRests'
  <2>1. /\ [default |-> NoModel].default = NoModel
        /\ [default |-> NoModel] \in [default : Selections]
    BY DEF Selections
  <2>2. DefaultConfig([default |-> NoModel]).default = NoModel
    BY <2>1, ConfigFacts
  <2> QED BY <1>5, <1>6, <1>7, <2>1, <2>2 DEF ConfigRests
<1>10. RowsRest' /\ ModelRests' /\ ActiveRuns'
  BY <1>2, <1>3, <1>4 DEF RowsRest, ModelRests, ActiveRuns
<1>11. JobsRest'
  BY <1>4 DEF JobsRest
<1>12. RemovedRest'
  BY <1>0, <1>1, <1>2, PartsStay
<1>13. Records'
  BY <1>8, <1>9, <1>10, <1>11, <1>12 DEF Records
<1> QED BY <1>1, <1>2, <1>3, <1>4, <1>7, <1>13, AnswerHolds, WritingHolds DEF NewHolds

\* An old conversation put back by one of these was put back by one of those.
LEMMA WiderNext ==
  /\ PutBack({"patch"})' => PutBack({"list", "patch"})' /\ PutBack({"create", "patch", "list"})'
  /\ PutBack({"list"})' => PutBack({"list", "patch"})' /\ PutBack({"create", "patch", "list"})'
PROOF
<1> QED BY DEF PutBack, Crossed

\* A project goes with its configuration; its conversation is still to follow.
LEMMA DeleteProjectKeeps ==
  ASSUME ProjectInv, NEW r \in ProjectRequests, DeleteProject(r)
  PROVE  ProjectInv'
PROOF
<1> DEFINE q == Opened("delete project", "rows", {})
<1>1. request'[r] = q /\ \A s \in ProjectRequests \ {r} : Untouched(s)
  BY RequestsFit, RequestGoesOn DEF DeleteProject
<1>2. Begun(q, "delete project", "rows", {})
  BY OpenedIs
<1> HIDE DEF q
<1>3. /\ project' = {} /\ config' = {} /\ crossed \subseteq crossed' /\ crossed' = crossed
      /\ conversation' = conversation /\ jobs' = jobs /\ row' = row
      /\ resource' = resource /\ removed' = removed
  BY DEF DeleteProject, Memory
<1>4. ~Holds(r) /\ Records
  BY BeginIs DEF DeleteProject, ProjectInv
<1>5. RequestHolds(r)' /\ ~MakesNew(r)' /\ ~PutsBack(r)'
  BY <1>1, <1>2, OnlyItsOwn DEF Begun, MakesNew, PutsBack, Creates, At
<1>6. Records'
  <2>1. RecordTypes'
    BY <1>3, <1>4 DEF Records, RecordTypes, AtMostOne
  <2>2. ConfigRests' /\ ModelRests' /\ JobsRest'
    BY <1>3 DEF ConfigRests, ModelRests, JobsRest
  <2>3. RowsRest'
    <3>1. Purging'
      BY <1>1, <1>2 DEF Begun, Purging, Purges, At
    <3> QED BY <1>1, <1>3, <1>4, <3>1, PendingGoes, NotedStays DEF Records, RowsRest, Holds
  <2>4. ActiveRuns' /\ RemovedRest'
    BY <1>1, <1>3, <1>4, PartsStay DEF Holds
  <2> QED BY <2>1, <2>2, <2>3, <2>4 DEF Records
<1>7. \A s \in ProjectRequests \ {r} :
        MakesNew(s) => conversation' = {} /\ row' = {} /\ ~PutsBack(r)'
  BY <1>3, <1>5, AnotherMakes
<1> QED BY <1>1, <1>3, <1>5, <1>6, <1>7, WritingHolds DEF NewHolds

\* A request that has acted has still to write the memory to the tables.
LEMMA ActedIs ==
  ASSUME ProjectInv, NEW r \in ProjectRequests, request'[r] = ReadBy(r, {}, "acted")
  PROVE  RequestHolds(r)' /\ ~MakesNew(r)' /\ Unpersisted' /\ (PutsBack(r)' => PutsBack(r))
PROOF
<1> DEFINE q == ReadBy(r, {}, "acted")
<1>1. WellFormed(q) /\ q.do = request[r].do /\ q.step = "acted"
  BY RequestsFit, ReadByIs, ReadByFits
<1> HIDE DEF q
<1>2. request'[r] = q
  BY DEF q
<1>3. RequestHolds(r)' /\ ~MakesNew(r)'
  BY <1>1, <1>2, OnlyItsOwn DEF MakesNew, Creates, At
<1>4. Unpersisted' /\ (PutsBack(r)' => PutsBack(r))
  BY <1>1, <1>2 DEF Unpersisted, Persists, PutsBack, At
<1> QED BY <1>3, <1>4

\* The conversation of a deleted project goes.
LEMMA PurgeConversationsKeeps ==
  ASSUME ProjectInv, NEW r \in ProjectRequests, PurgeConversations(r)
  PROVE  ProjectInv'
PROOF
<1>0. Records /\ request[r].do = "delete project" /\ request[r].step = "rows"
  BY DEF PurgeConversations, At, ProjectInv
<1>1. request'[r] = ReadBy(r, {}, "acted") /\ \A s \in ProjectRequests \ {r} : Untouched(s)
  BY RequestsFit, RequestGoesOn DEF PurgeConversations
<1>2. /\ conversation' = {} /\ jobs' = <<>> /\ crossed \subseteq crossed'
      /\ project' = project /\ config' = config /\ row' = row
      /\ resource' = resource /\ removed' = removed
  BY DEF PurgeConversations, Tables
<1>3. RequestHolds(r)' /\ ~MakesNew(r)' /\ Unpersisted' /\ ~PutsBack(r)'
  BY <1>0, <1>1, ActedIs DEF PutsBack, At
<1>4. ~Saves(r) /\ ~Creates(r)
  BY <1>0 DEF Saves, Creates, At
<1>5. Records'
  <2>1. RecordTypes'
    <3>1. <<>> \in Seq(JobRecords)
      OBVIOUS
    <3> QED BY <1>0, <1>2, <3>1 DEF Records, RecordTypes, Talks, AtMostOne
  <2>2. ConfigRests' /\ RemovedRest'
    BY <1>0, <1>1, <1>2, <1>4, PartsStay
  <2>3. RowsRest' /\ ModelRests' /\ ActiveRuns'
    BY <1>2, <1>3 DEF RowsRest, ModelRests, ActiveRuns
  <2>4. JobsRest'
    BY <1>2 DEF JobsRest
  <2> QED BY <2>1, <2>2, <2>3, <2>4 DEF Records
<1>6. \A s \in ProjectRequests \ {r} :
        MakesNew(s) => conversation' = {} /\ row' = {} /\ ~PutsBack(r)'
  BY <1>2, <1>3, AnotherMakes
<1> QED BY <1>1, <1>2, <1>3, <1>5, <1>6, WritingHolds DEF NewHolds

\* A configuration is saved, with the project's default still to follow.
LEMMA SaveConfigKeeps ==
  ASSUME ProjectInv, NEW r \in ProjectRequests, SaveConfig(r)
  PROVE  ProjectInv'
PROOF
<1> DEFINE q == ReadBy(r, {"config"}, "config")
<1>0. /\ Records /\ request[r].do = "put config" /\ request[r].step = "checked"
      /\ PutHolds(r) /\ WellFormed(request[r]) /\ DOMAIN request[r] = RequestFields /\ Acts(r)
  BY RequestsFit DEF SaveConfig, At, ProjectInv, RequestHolds
<1>1. request'[r] = q /\ \A s \in ProjectRequests \ {r} : Untouched(s)
  BY RequestsFit, RequestGoesOn DEF SaveConfig
<1>2. /\ crossed \subseteq crossed' /\ config' = {Normalized(request[r].config)}
      /\ project' = project /\ row' = row /\ conversation' = conversation /\ jobs' = jobs
      /\ resource' = resource /\ removed' = removed
  BY DEF SaveConfig, Memory, Acts, Notes
<1>3. /\ WellFormed(q) /\ q.do = "put config" /\ q.step = "config"
      /\ q.read = request[r].read \cup {"config"} /\ q.config = request[r].config
  <2>1. WellFormed(request[r]) /\ DOMAIN request[r] = RequestFields
    BY <1>0
  <2>2. WellFormed(q)
    BY <2>1, ReadByFits
  <2>3. /\ q.do = request[r].do /\ q.step = "config"
        /\ q.read = request[r].read \cup {"config"} /\ q.config = request[r].config
    BY <2>1, ReadByIs
  <2> QED BY <1>0, <2>2, <2>3
<1> HIDE DEF q
<1>4. RequestHolds(r)' /\ ~MakesNew(r)' /\ ~PutsBack(r)' /\ Saving' /\ Syncing'
  <2>1. PutHolds(r)'
    BY <1>1, <1>2, <1>3 DEF PutHolds, At, Syncs
  <2>2. RequestHolds(r)'
    BY <1>1, <1>3, <2>1, OnlyItsOwn
  <2>3. Saving' /\ Syncing'
    BY <1>1, <1>3 DEF Saving, Saves, Syncing, Syncs, At
  <2> QED BY <1>1, <1>3, <2>2, <2>3 DEF MakesNew, PutsBack, Creates, At
<1>5. project # {} \/ ConfigCrossed'
  <2>1. "project" \in request[r].read /\ (Fresh(r, "project") => project # {})
    BY <1>0 DEF PutHolds, At
  <2>2. ~Fresh(r, "project") => <<"put config", "project">> \in crossed'
    BY <1>0, <2>1, ActsNotes
  <2> QED BY <2>1, <2>2, SurpriseIs
<1>6. Records'
  <2>1. RecordTypes'
    <3>1. /\ Normalized(request[r].config) \in Configs
          /\ Normalized(request[r].config).default
               \in Normalized(request[r].config).models \cup {NoModel}
      BY <1>0, ConfigFacts DEF WellFormed
    <3> QED BY <1>0, <1>2, <3>1 DEF Records, RecordTypes, AtMostOne
  <2>2. ConfigRests'
    BY <1>2, <1>4, <1>5 DEF ConfigRests
  <2>3. ModelRests' /\ JobsRest'
    BY <1>4 DEF ModelRests, JobsRest
  <2>4. RowsRest' /\ ActiveRuns' /\ RemovedRest'
    <3>1. ~Purges(r) /\ ~Deletes(r) /\ ~Persists(r)
      BY <1>0 DEF Purges, Deletes, Persists, At
    <3> QED BY <1>0, <1>1, <1>2, <3>1, PartsStay
  <2> QED BY <2>1, <2>2, <2>3, <2>4 DEF Records
<1>7. \A s \in ProjectRequests \ {r} :
        MakesNew(s) => conversation' = {} /\ row' = {} /\ ~PutsBack(r)'
  BY <1>2, <1>4, AnotherMakes
<1> QED BY <1>1, <1>2, <1>4, <1>6, <1>7, WritingHolds DEF NewHolds

\* The project is saved with the new default, or that fails.
LEMMA SaveProjectKeeps ==
  ASSUME ProjectInv, NEW r \in ProjectRequests, SaveProject(r)
  PROVE  ProjectInv'
PROOF
<1>0. /\ Records /\ request[r].do = "put config" /\ request[r].step = "config"
      /\ PutHolds(r) /\ WellFormed(request[r]) /\ DOMAIN request[r] = RequestFields
  BY RequestsFit DEF SaveProject, At, ProjectInv, RequestHolds
<1>1. /\ crossed \subseteq crossed' /\ config' = config
      /\ row' = row /\ conversation' = conversation /\ jobs' = jobs
      /\ resource' = resource /\ removed' = removed
  BY DEF SaveProject, Memory, Acts, Notes
<1>2. ~Purges(r) /\ ~Deletes(r) /\ ~Persists(r)
  BY <1>0 DEF Purges, Deletes, Persists, At
<1>3. \A s \in ProjectRequests \ {r} : MakesNew(s) => conversation' = {} /\ row' = {}
  BY <1>1, AnotherMakes
<1> DEFINE q == ReadBy(r, {"project"}, "project")
<1>4. CASE /\ project' = {[default |-> request[r].config.default]}
           /\ Acts(r) /\ GoOn(r, q)
  <2>1. request'[r] = q /\ \A s \in ProjectRequests \ {r} : Untouched(s)
    BY <1>4, RequestsFit, RequestGoesOn
  <2>2. /\ WellFormed(q) /\ q.do = "put config" /\ q.step = "project" /\ q.old = request[r].old
        /\ q.read = request[r].read \cup {"project"} /\ q.config = request[r].config
    <3>1. WellFormed(request[r]) /\ DOMAIN request[r] = RequestFields
      BY <1>0
    <3>2. WellFormed(q)
      BY <3>1, ReadByFits
    <3>3. /\ q.do = request[r].do /\ q.step = "project" /\ q.old = request[r].old
          /\ q.read = request[r].read \cup {"project"} /\ q.config = request[r].config
      BY <3>1, ReadByIs
    <3> QED BY <1>0, <3>2, <3>3
  <2> HIDE DEF q
  <2>3. /\ "config" \in request[r].read
        /\ Fresh(r, "config") => config = {Normalized(request[r].config)}
    BY <1>0 DEF PutHolds, Syncs
  <2>4. RequestHolds(r)' /\ ~MakesNew(r)' /\ ~PutsBack(r)' /\ Syncing'
    <3>1. Fresh(r, "config")' => Fresh(r, "config")
      BY <2>1, <2>2, <2>3 DEF Fresh
    <3>2. PutHolds(r)'
      BY <1>1, <2>1, <2>2, <2>3, <3>1 DEF PutHolds, At, Syncs
    <3>3. RequestHolds(r)'
      BY <2>1, <2>2, <3>2, OnlyItsOwn
    <3> QED BY <2>1, <2>2, <3>3 DEF MakesNew, PutsBack, Creates, At, Syncing, Syncs
  <2>5. Fresh(r, "config") \/ ConfigCrossed'
    <3>1. ~Fresh(r, "config") => <<"put config", "config">> \in crossed'
      BY <1>0, <1>4, <2>3, ActsNotes
    <3> QED BY <3>1, SurpriseIs
  <2>6. request[r].config \in Configs /\ request[r].config.default \in Selections
    BY <1>0 DEF WellFormed, Configs, Selections
  <2>7. Records'
    <3>1. RecordTypes'
      <4>1. AtMostOne(project') /\ project' \subseteq [default : Selections]
        BY <1>4, <2>6 DEF AtMostOne
      <4> QED BY <1>0, <1>1, <4>1 DEF Records, RecordTypes
    <3>2. ConfigRests'
      <4>1. Normalized(request[r].config).default = request[r].config.default
        BY <2>6, ConfigFacts
      <4>2. \A p \in project' : p.default = request[r].config.default
        BY <1>4
      <4> QED BY <1>1, <1>4, <2>3, <2>5, <4>1, <4>2 DEF ConfigRests
    <3>3. RowsRest'
      BY <1>0, <1>1, <1>2, <1>4, <2>1, PendingGoes, NotedStays DEF Records, RowsRest
    <3>4. ModelRests' /\ JobsRest'
      BY <2>4 DEF ModelRests, JobsRest
    <3>5. ActiveRuns' /\ RemovedRest'
      BY <1>0, <1>1, <1>2, <2>1, PartsStay
    <3> QED BY <3>1, <3>2, <3>3, <3>4, <3>5 DEF Records
  <2>8. ConfigCrossed' \/ (project # {} /\ config # {})
    <3>1. project = {} /\ config # {} => ConfigCrossed'
      BY <1>0, <1>1, NotedStays DEF Records, ConfigRests
    <3> QED BY <2>3, <2>5, <3>1
  <2> QED BY <1>1, <1>3, <2>1, <2>4, <2>7, <2>8, WritingHolds DEF NewHolds
<1>5. CASE project' = project /\ Notes({<<"put config", "failed">>}) /\ Answer(r)
  <2>1. request'[r] = AtEase /\ \A s \in ProjectRequests \ {r} : Untouched(s)
    BY <1>5, RequestsFit, RequestGoesOn DEF Answer
  <2>2. ConfigCrossed'
    <3>1. <<"put config", "failed">> \in crossed'
      BY <1>5 DEF Notes
    <3> QED BY <3>1, SurpriseIs
  <2>3. RequestHolds(r)' /\ ~MakesNew(r)' /\ ~PutsBack(r)'
    BY <2>1, AnswerHolds
  <2>4. Records'
    <3>1. RecordTypes'
      BY <1>0, <1>1, <1>5 DEF Records, RecordTypes
    <3>2. ConfigRests' /\ ModelRests' /\ JobsRest'
      BY <2>2 DEF ConfigRests, ModelRests, JobsRest
    <3>3. RowsRest' /\ ActiveRuns' /\ RemovedRest'
      BY <1>0, <1>1, <1>2, <1>5, <2>1, PartsStay
    <3> QED BY <3>1, <3>2, <3>3 DEF Records
  <2> QED BY <1>1, <1>3, <1>5, <2>1, <2>3, <2>4, WritingHolds DEF NewHolds
<1> QED BY <1>4, <1>5 DEF SaveProject

\* A function over the places of a list is a list again.
LEMMA JobsMapped ==
  ASSUME jobs \in Seq(JobRecords), NEW new, new = [i \in DOMAIN jobs |-> new[i]],
         \A i \in 1..Len(jobs) : new[i] \in JobRecords
  PROVE  new \in Seq(JobRecords) /\ Len(new) = Len(jobs)
PROOF
<1>1. DOMAIN jobs = 1..Len(jobs) /\ Len(jobs) \in Nat
  OBVIOUS
<1>2. new \in [1..Len(jobs) -> JobRecords]
  BY <1>1
<1> QED BY <1>1, <1>2

\* The conversation and its executions take the new default.
LEMMA SyncModelKeeps ==
  ASSUME ProjectInv, NEW r \in ProjectRequests, SyncModel(r)
  PROVE  ProjectInv'
PROOF
<1> PICK model : model = request[r].config.default
  OBVIOUS
<1> DEFINE usable == model # NoModel /\ resource[model] = "on"
<1>0. /\ Records /\ RecordTypes /\ request[r].do = "put config" /\ request[r].step = "project"
      /\ PutHolds(r) /\ WellFormed(request[r])
  BY RequestsFit DEF SyncModel, At, ProjectInv, Records, RequestHolds
<1>1. request'[r] = ReadBy(r, {}, "acted") /\ \A s \in ProjectRequests \ {r} : Untouched(s)
  BY RequestsFit, RequestGoesOn DEF SyncModel
<1>2. /\ crossed \subseteq crossed' /\ project' = project /\ config' = config /\ row' = row
      /\ resource' = resource /\ removed' = removed
  BY DEF SyncModel, Tables, Notes
<1>3. conversation' = {[c EXCEPT !.model = model] : c \in conversation}
  BY DEF SyncModel, SyncConversations
<1>4. /\ usable => jobs' = [i \in DOMAIN jobs |->
             IF jobs[i].state = "done" \/ conversation = {} THEN jobs[i]
             ELSE [model |-> model,
                   state |-> IF \E c \in conversation : c.active = i THEN "pending"
                             ELSE jobs[i].state]]
      /\ ~usable => jobs' = jobs
  BY DEF SyncModel, SyncExecutions
<1>5. /\ \A x \in request[r].old : <<"put config", x>> \in crossed'
      /\ ~usable => <<"put config", "no default">> \in crossed'
  BY DEF SyncModel, Notes
<1>6. /\ request[r].config \in Configs /\ model \in Selections
      /\ Normalized(request[r].config).default = model
      /\ model \in Normalized(request[r].config).models \cup {NoModel}
  <2>1. request[r].config \in Configs
    BY <1>0 DEF WellFormed
  <2> QED BY <2>1, ConfigFacts DEF Configs, Selections
<1> HIDE DEF usable
<1>7. config = {Normalized(request[r].config)} \/ ConfigCrossed'
  <2>1. "config" \in request[r].read
        /\ (Fresh(r, "config") => config = {Normalized(request[r].config)})
    BY <1>0 DEF PutHolds, Syncs
  <2>2. ~Fresh(r, "config") => <<"put config", "config">> \in crossed'
    BY <1>5, <2>1 DEF Fresh
  <2> QED BY <2>1, <2>2, SurpriseIs
<1>8. RequestHolds(r)' /\ ~MakesNew(r)' /\ ~PutsBack(r)' /\ Unpersisted'
  BY <1>0, <1>1, ActedIs DEF PutsBack, At
<1>9. ~Purges(r) /\ ~Deletes(r) /\ ~Persists(r) /\ ~Saves(r) /\ ~Creates(r)
  BY <1>0 DEF Purges, Deletes, Persists, Saves, Creates, At
<1>10. /\ conversation' = {} <=> conversation = {}
       /\ \A d \in conversation' : \E c \in conversation :
            d = [c EXCEPT !.model = model] /\ d.model = model /\ d.active = c.active
       /\ Talks(conversation')
  <2>1. \A c \in conversation : {"model", "active"} \subseteq DOMAIN c
    BY <1>0 DEF RecordTypes, Talks
  <2>2. \A d \in conversation' : \E c \in conversation :
          d = [c EXCEPT !.model = model] /\ d.model = model /\ d.active = c.active
    BY <1>3, <2>1
  <2>3. \A d \in conversation' : {"model", "active"} \subseteq DOMAIN d
    BY <1>3, <2>1
  <2>4. AtMostOne(conversation')
    BY <1>0, <1>3 DEF RecordTypes, Talks, AtMostOne
  <2>5. conversation' = {} <=> conversation = {}
    BY <1>3
  <2> QED BY <2>2, <2>3, <2>4, <2>5 DEF Talks
<1>11. /\ jobs' \in Seq(JobRecords) /\ Len(jobs') = Len(jobs)
       /\ \A i \in 1..Len(jobs) :
            \/ usable /\ jobs[i].state # "done" /\ conversation # {} /\ jobs'[i].model = model
               /\ jobs'[i].state = IF \E c \in conversation : c.active = i THEN "pending"
                                   ELSE jobs[i].state
            \/ jobs'[i] = jobs[i] /\ (~usable \/ jobs[i].state = "done" \/ conversation = {})
  <2>0. jobs \in Seq(JobRecords)
    BY <1>0 DEF RecordTypes
  <2>1. jobs \in Seq(JobRecords) /\ DOMAIN jobs = 1..Len(jobs)
    BY <2>0
  <2>2. CASE ~usable
    BY <1>4, <2>1, <2>2
  <2>3. CASE usable
    <3>1. \A i \in 1..Len(jobs) :
            \/ jobs[i].state # "done" /\ conversation # {} /\ jobs'[i].model = model
               /\ jobs'[i].state = IF \E c \in conversation : c.active = i THEN "pending"
                                   ELSE jobs[i].state
            \/ jobs'[i] = jobs[i] /\ (jobs[i].state = "done" \/ conversation = {})
      BY <1>4, <2>1, <2>3
    <3>2. \A i \in 1..Len(jobs) : jobs[i] \in JobRecords
      BY <2>1
    <3>3. \A i \in 1..Len(jobs) : jobs'[i] \in JobRecords
      BY <1>4, <1>6, <2>1, <2>3, <3>2 DEF JobRecords
    <3>4. jobs' = [i \in DOMAIN jobs |-> jobs'[i]]
      BY <1>4, <2>3
    <3> QED BY <2>1, <2>3, <3>1, <3>3, <3>4, JobsMapped
  <2> QED BY <2>2, <2>3
<1>12. Records'
  <2>1. RecordTypes'
    <3>1. conversation' = {} => jobs' = <<>>
      <4>1. conversation' = {} => jobs = <<>>
        BY <1>0, <1>10 DEF RecordTypes
      <4>2. jobs = <<>> => Len(jobs) = 0
        OBVIOUS
      <4>3. jobs' \in Seq(JobRecords) /\ Len(jobs') = Len(jobs)
        BY <1>11
      <4>4. Len(jobs') = 0 => jobs' = <<>>
        BY <4>3, EmptySeq
      <4> QED BY <4>1, <4>2, <4>3, <4>4
    <3> QED BY <1>0, <1>2, <1>10, <1>11, <3>1 DEF RecordTypes
  <2>2. ConfigRests' /\ RemovedRest'
    BY <1>0, <1>1, <1>2, <1>9, PartsStay
  <2>3. RowsRest'
    <3>1. /\ Deleting => Deleting'
          /\ Purging => Purging'
      BY <1>1, <1>9, PendingGoes
    <3> QED BY <1>0, <1>2, <1>8, <1>10, <3>1, NotedStays DEF Records, RowsRest
  <2>4. \A p : config = {Normalized(request[r].config)} =>
                 ConfigOf(p)' = Normalized(request[r].config)
    BY <1>2, ConfigOfNext DEF AtMostOne
  <2>5. ModelRests'
    BY <1>6, <1>7, <1>10, <2>4 DEF ModelRests
  <2>6. JobsRest'
    <3>1. CASE ~usable
      BY <1>5, <3>1, SurpriseIs DEF JobsRest
    <3>2. CASE usable
      <4>1. model # NoModel
        BY <3>2 DEF usable
      <4>2. \A i \in 1..Len(jobs') : jobs'[i].state = "done" \/ jobs'[i].model = model
        <5>1. conversation = {} => Len(jobs) = 0
          <6>1. conversation = {} => jobs = <<>>
            BY <1>0 DEF RecordTypes
          <6> QED BY <6>1
        <5> QED BY <1>11, <3>2, <5>1
      <4> QED BY <1>6, <1>7, <2>4, <4>1, <4>2 DEF JobsRest
    <3> QED BY <3>1, <3>2
  <2>7. ActiveRuns'
    <3>1. CASE PutBack({"list", "patch"}) \/ Deleting
      BY <1>1, <1>2, <1>9, <3>1, PendingGoes, NotedStays DEF ActiveRuns
    <3>2. CASE \A c \in conversation :
                 /\ c.active \in 0..Len(jobs)
                 /\ \A i \in 1..Len(jobs) : jobs[i].state = "pending" <=> c.active = i
      <4>1. ASSUME NEW d \in conversation'
            PROVE  /\ d.active \in 0..Len(jobs')
                   /\ \A i \in 1..Len(jobs') : jobs'[i].state = "pending" <=> d.active = i
        <5>1. PICK c \in conversation : d.active = c.active
          BY <1>10
        <5>2. conversation = {c}
          BY <1>0 DEF RecordTypes, Talks, AtMostOne
        <5>3. ASSUME NEW i \in 1..Len(jobs)
              PROVE  jobs'[i].state = "pending" <=> c.active = i
          BY <1>11, <3>2, <5>2
        <5> QED BY <1>11, <3>2, <5>1, <5>3
      <4> QED BY <4>1 DEF ActiveRuns
    <3> QED BY <1>0, <3>1, <3>2 DEF Records, ActiveRuns
  <2> QED BY <2>1, <2>2, <2>3, <2>5, <2>6, <2>7 DEF Records
<1>13. \A s \in ProjectRequests \ {r} :
         MakesNew(s) => conversation' = {} /\ row' = {} /\ ~PutsBack(r)'
  BY <1>2, <1>8, <1>10, AnotherMakes
<1> QED BY <1>1, <1>2, <1>8, <1>12, <1>13, WritingHolds DEF NewHolds

\* A new conversation is put into the memory.
LEMMA InsertConversationKeeps ==
  ASSUME ProjectInv, NEW r \in ProjectRequests, InsertConversation(r)
  PROVE  ProjectInv'
PROOF
<1> PICK c : c = request[r].config
  OBVIOUS
<1>0. /\ Records /\ RecordTypes /\ request[r].do = "create" /\ request[r].step = "config"
      /\ CreateHolds(r) /\ Acts(r) /\ MakesNew(r) /\ NewHolds(r)
  BY RequestsFit DEF InsertConversation, At, ProjectInv, Records, RequestHolds, MakesNew
<1>1. request'[r] = ReadBy(r, {}, "acted") /\ \A s \in ProjectRequests \ {r} : Untouched(s)
  BY RequestsFit, RequestGoesOn DEF InsertConversation
<1>2. /\ crossed \subseteq crossed' /\ project' = project /\ config' = config /\ row' = row
      /\ jobs' = jobs /\ resource' = resource /\ removed' = removed
  BY DEF InsertConversation, Tables, Acts, Notes
<1>3. conversation' = {[model |-> c.default, rule |-> c.rule, active |-> 0]}
  BY DEF InsertConversation
<1>4. conversation = {} /\ row = {} /\ jobs = <<>>
  BY <1>0 DEF NewHolds, RecordTypes
<1>5. RequestHolds(r)' /\ ~MakesNew(r)' /\ Unpersisted'
  BY <1>1, ActedIs
<1>6. ~Purges(r) /\ ~Deletes(r) /\ ~Persists(r) /\ ~Saves(r) /\ ~Syncs(r) /\ ~Creates(r)
  BY <1>0 DEF Purges, Deletes, Persists, Saves, Syncs, Creates, At
<1>7. /\ {"project", "config"} \subseteq request[r].read
      /\ Fresh(r, "project") => project # {}
      /\ Fresh(r, "project") /\ Fresh(r, "config") =>
           \A p \in project : c.default = FirstModel(p)
  BY <1>0 DEF CreateHolds, At
<1>8. /\ ~Fresh(r, "project") => <<"create", "project">> \in crossed'
      /\ ~Fresh(r, "config") => <<"create", "config">> \in crossed'
  BY <1>0, <1>7, ActsNotes
<1>9. ModelRests'
  <2>1. CASE ~Fresh(r, "project") \/ ~Fresh(r, "config")
    BY <1>8, <2>1, SurpriseIs DEF ModelRests
  <2>2. CASE ConfigCrossed
    BY <1>2, <2>2, NotedStays DEF ModelRests
  <2>3. CASE Saving
    <3>1. Syncing
      BY <2>3 DEF Saving, Saves, Syncing, Syncs, At
    <3> QED BY <1>1, <1>6, <3>1, PendingGoes DEF ModelRests
  <2>4. CASE /\ Fresh(r, "project") /\ Fresh(r, "config")
             /\ \A p \in project, d \in config : p.default = d.default
    <3>1. ASSUME NEW p \in project PROVE c.default \in ConfigOf(p).models \cup {NoModel}
      <4>1. c.default = FirstModel(p) /\ p \in [default : Selections]
        BY <1>0, <1>7, <2>4 DEF RecordTypes
      <4>2. ConfigOf(p).default \in ConfigOf(p).models \cup {NoModel}
        BY <1>0, <4>1, ConfigOfHas
      <4>3. ConfigOf(p).default = p.default
        <5>1. CASE config = {}
          BY <1>0, <4>1, <5>1, ConfigOfIs, ConfigFacts DEF RecordTypes
        <5>2. CASE config # {}
          <6>1. PICK d \in config : TRUE
            BY <5>2
          <6> QED BY <1>0, <2>4, <6>1, ConfigOfIs DEF RecordTypes
        <5> QED BY <5>1, <5>2
      <4> QED BY <4>1, <4>2, <4>3 DEF FirstModel
    <3>2. \A p : ConfigOf(p)' = ConfigOf(p)
      BY <1>2 DEF ConfigOf
    <3> QED BY <1>2, <1>3, <3>1, <3>2 DEF ModelRests
  <2> QED BY <1>0, <2>1, <2>2, <2>3, <2>4 DEF Records, ConfigRests
<1>10. Records'
  <2>1. RecordTypes'
    <3>1. Talks(conversation')
      BY <1>3 DEF Talks, AtMostOne
    <3> QED BY <1>0, <1>2, <1>3, <3>1 DEF RecordTypes
  <2>2. ConfigRests' /\ RemovedRest' /\ JobsRest'
    BY <1>0, <1>1, <1>2, <1>6, PartsStay
  <2>3. RowsRest'
    <3>1. project = {} => PutBack({"create", "patch", "list"})'
      BY <1>7, <1>8, SurpriseIs
    <3> QED BY <1>2, <1>4, <1>5, <3>1 DEF RowsRest
  <2>4. ActiveRuns'
    <3>1. Len(jobs') = 0
      BY <1>2, <1>4
    <3> QED BY <1>3, <3>1 DEF ActiveRuns
  <2> QED BY <1>9, <2>1, <2>2, <2>3, <2>4 DEF Records
<1>11. \A s \in ProjectRequests \ {r} : ~MakesNew(s)
  <2>1. PutsBack(r)
    BY <1>0 DEF PutsBack
  <2> QED BY <2>1, AnotherMakes
<1> QED BY <1>1, <1>2, <1>5, <1>10, <1>11, WritingHolds DEF NewHolds

\* A conversation is put back from the table: surprising, or to be deleted.
LEMMA StoreSeedKeeps ==
  ASSUME ProjectInv, NEW r \in ProjectRequests, StoreSeed(r)
  PROVE  ProjectInv'
PROOF
<1> DEFINE q == ReadBy(r, {}, "seed")
<1>0. /\ Records /\ RecordTypes /\ request[r].step = "row" /\ PatchHolds(r)
      /\ WellFormed(request[r]) /\ DOMAIN request[r] = RequestFields
  BY RequestsFit DEF StoreSeed, ProjectInv, Records, RequestHolds
<1>1. request'[r] = q /\ \A s \in ProjectRequests \ {r} : Untouched(s)
  BY RequestsFit, RequestGoesOn DEF StoreSeed
<1>2. /\ crossed \subseteq crossed' /\ project' = project /\ config' = config /\ row' = row
      /\ jobs' = jobs /\ resource' = resource /\ removed' = removed
      /\ conversation' = request[r].seed
  BY DEF StoreSeed, Tables, Acts, Notes
<1>3. /\ request[r].do \in {"patch", "delete"} /\ request[r].seed # {}
      /\ Talks(request[r].seed)
  BY <1>0 DEF WellFormed
<1>4. /\ WellFormed(q) /\ q.do = request[r].do /\ q.step = "seed"
      /\ request[r].read \subseteq q.read
  <2>1. WellFormed(q)
    BY <1>0, ReadByFits
  <2>2. q.do = request[r].do /\ q.step = "seed" /\ request[r].read \subseteq q.read
    BY <1>0, ReadByIs
  <2> QED BY <2>1, <2>2
<1> HIDE DEF q
<1>5. RequestHolds(r)' /\ (PutBack({"patch"})' \/ Deleting')
  <2>1. CASE request[r].do = "patch"
    <3>1. "conversation" \in request[r].read /\ PutBack({"patch"})
      BY <1>0, <2>1 DEF PatchHolds, At
    <3>2. PutBack({"patch"})'
      BY <1>2, <3>1, CrossedStays DEF PutBack
    <3>3. PatchHolds(r)'
      BY <1>1, <1>4, <3>1, <3>2 DEF PatchHolds, At
    <3> QED BY <1>1, <1>4, <2>1, <3>2, <3>3, OnlyItsOwn
  <2>2. CASE request[r].do = "delete"
    <3>1. RequestHolds(r)'
      BY <1>1, <1>4, <2>2, OnlyItsOwn
    <3>2. Deleting'
      BY <1>1, <1>4, <2>2 DEF Deleting, Deletes
    <3> QED BY <3>1, <3>2
  <2> QED BY <1>3, <2>1, <2>2
<1>6. ~MakesNew(r)' /\ PutsBack(r)
  BY <1>1, <1>3, <1>4 DEF MakesNew, Creates, At, PutsBack
<1>7. ~Purges(r) /\ ~Persists(r) /\ ~Saves(r) /\ ~Syncs(r) /\ ~Creates(r)
  BY <1>0 DEF Purges, Persists, Saves, Syncs, Creates, At
<1>8. \/ PutBack({"list", "patch"})' /\ PutBack({"create", "patch", "list"})'
      \/ Deleting'
  BY <1>5, WiderNext
<1>9. Records'
  <2>1. RecordTypes'
    BY <1>0, <1>2, <1>3 DEF RecordTypes
  <2>2. ConfigRests' /\ JobsRest' /\ RemovedRest'
    BY <1>0, <1>1, <1>2, <1>7, PartsStay
  <2>3. RowsRest' /\ ModelRests' /\ ActiveRuns'
    BY <1>8 DEF RowsRest, ModelRests, ActiveRuns
  <2> QED BY <2>1, <2>2, <2>3 DEF Records
<1>10. \A s \in ProjectRequests \ {r} : ~MakesNew(s)
  BY <1>6, AnotherMakes
<1> QED BY <1>1, <1>2, <1>5, <1>6, <1>9, <1>10, WritingHolds DEF NewHolds

\* A patch is applied to the conversation, or to the one that was read.
LEMMA ApplyPatchKeeps ==
  ASSUME ProjectInv, NEW r \in ProjectRequests, ApplyPatch(r)
  PROVE  ProjectInv'
PROOF
<1> PICK model : model = request[r].model
  OBVIOUS
<1> PICK base : base = IF conversation = {} THEN request[r].seed ELSE conversation
  OBVIOUS
<1>0. /\ Records /\ RecordTypes /\ request[r].do = "patch" /\ request[r].step = "checked"
      /\ PatchHolds(r) /\ Acts(r) /\ WellFormed(request[r])
  BY RequestsFit DEF ApplyPatch, At, ProjectInv, Records, RequestHolds
<1>1. request'[r] = ReadBy(r, {}, "acted") /\ \A s \in ProjectRequests \ {r} : Untouched(s)
  BY RequestsFit, RequestGoesOn DEF ApplyPatch
<1>2. /\ crossed \subseteq crossed' /\ project' = project /\ config' = config /\ row' = row
      /\ jobs' = jobs /\ resource' = resource /\ removed' = removed
  BY DEF ApplyPatch, Tables, Acts, Notes
<1> DEFINE new(c) ==
      [c EXCEPT !.model = IF model = NoModel THEN @ ELSE model,
                !.rule = IF request[r].rule = "keep" THEN @ ELSE request[r].rule = "on"]
<1>3. conversation' = {new(c) : c \in base}
  BY DEF ApplyPatch
<1>4. RequestHolds(r)' /\ ~MakesNew(r)' /\ Unpersisted'
  BY <1>1, ActedIs
<1>5. ~Purges(r) /\ ~Deletes(r) /\ ~Persists(r) /\ ~Saves(r) /\ ~Syncs(r) /\ ~Creates(r)
  BY <1>0 DEF Purges, Deletes, Persists, Saves, Syncs, Creates, At
<1>6. Talks(base)
  BY <1>0 DEF RecordTypes, WellFormed
<1>7. \A d \in conversation' : \E c \in base :
        /\ d.model = (IF model = NoModel THEN c.model ELSE model) /\ d.active = c.active
        /\ DOMAIN d = DOMAIN c
  BY <1>3, <1>6 DEF Talks
<1>8. Talks(conversation')
  <2>1. AtMostOne(conversation')
    <3> HIDE DEF new
    <3> QED BY <1>3, <1>6 DEF Talks, AtMostOne
  <2>2. \A d \in conversation' : {"model", "active"} \subseteq DOMAIN d
    BY <1>6, <1>7 DEF Talks
  <2> QED BY <2>1, <2>2 DEF Talks
<1> HIDE DEF new
<1>9. base # {} => conversation' # {}
  BY <1>3
<1>10. conversation = {} =>
         PutBack({"list", "patch"})' /\ PutBack({"create", "patch", "list"})'
  <2>1. /\ "conversation" \in request[r].read
        /\ Fresh(r, "conversation") => conversation # {} \/ PutBack({"patch"})
    BY <1>0 DEF PatchHolds
  <2>2. ~Fresh(r, "conversation") => <<"patch", "conversation">> \in crossed'
    BY <1>0, <2>1, ActsNotes
  <2>3. PutBack({"patch"}) =>
          PutBack({"list", "patch"})' /\ PutBack({"create", "patch", "list"})'
    BY <1>2, NotedStays, WiderCrossed
  <2> QED BY <2>1, <2>2, <2>3, SurpriseIs
<1>11. conversation # {} => base = conversation
  OBVIOUS
<1>12. RecordTypes'
  <2>1. conversation' = {} => jobs' = <<>>
    BY <1>0, <1>2, <1>9, <1>11 DEF RecordTypes
  <2> QED BY <1>0, <1>2, <1>8, <2>1 DEF RecordTypes
<1>13. RowsRest'
  <2>1. (Deleting => Deleting') /\ (Purging => Purging')
    BY <1>1, <1>5, PendingGoes
  <2> QED BY <1>0, <1>2, <1>4, <1>10, <2>1, NotedStays DEF Records, RowsRest
<1>14. ModelRests'
  <2>1. CASE conversation = {}
    BY <1>10, <2>1 DEF ModelRests
  <2>2. CASE conversation # {} /\ model = NoModel
    <3>1. \A d \in conversation' : \E c \in conversation : d.model = c.model
      BY <1>7, <1>11, <2>2
    <3>2. \A p : ConfigOf(p)' = ConfigOf(p)
      BY <1>2 DEF ConfigOf
    <3>3. (Syncing => Syncing') /\ (Deleting => Deleting')
      BY <1>1, <1>5, PendingGoes
    <3> QED BY <1>0, <1>2, <3>1, <3>2, <3>3, NotedStays DEF Records, ModelRests
  <2>3. CASE model # NoModel
    <3>1. /\ {"project", "config"} \subseteq request[r].read
          /\ Fresh(r, "project") /\ Fresh(r, "config") =>
               \A p \in project : model \in ConfigOf(p).models
      BY <1>0, <2>3 DEF PatchHolds, At
    <3>2. /\ ~Fresh(r, "project") => <<"patch", "project">> \in crossed'
          /\ ~Fresh(r, "config") => <<"patch", "config">> \in crossed'
      BY <1>0, <3>1, ActsNotes
    <3>3. \A p : ConfigOf(p)' = ConfigOf(p)
      BY <1>2 DEF ConfigOf
    <3>4. \A d \in conversation' : d.model = model
      BY <1>7, <2>3
    <3>5. CASE ~Fresh(r, "project") \/ ~Fresh(r, "config")
      BY <3>2, <3>5, SurpriseIs DEF ModelRests
    <3>6. CASE Fresh(r, "project") /\ Fresh(r, "config")
      BY <1>2, <3>1, <3>3, <3>4, <3>6 DEF ModelRests
    <3> QED BY <3>5, <3>6
  <2> QED BY <2>1, <2>2, <2>3
<1>15. ActiveRuns'
  <2>1. CASE conversation = {}
    BY <1>10, <2>1 DEF ActiveRuns
  <2>2. CASE conversation # {}
    <3>1. \A d \in conversation' : \E c \in conversation : d.active = c.active
      BY <1>7, <1>11, <2>2
    <3>2. Deleting => Deleting'
      BY <1>1, <1>5, PendingGoes
    <3> QED BY <1>0, <1>2, <3>1, <3>2, NotedStays DEF Records, ActiveRuns
  <2> QED BY <2>1, <2>2
<1>16. ConfigRests' /\ JobsRest' /\ RemovedRest'
  BY <1>0, <1>1, <1>2, <1>5, PartsStay
<1>17. Records'
  BY <1>12, <1>13, <1>14, <1>15, <1>16 DEF Records
<1>18. \A s \in ProjectRequests \ {r} : ~MakesNew(s)
  <2>1. PutsBack(r)
    BY <1>0 DEF PutsBack
  <2> QED BY <2>1, AnotherMakes
<1> QED BY <1>1, <1>2, <1>4, <1>17, <1>18, WritingHolds DEF NewHolds

\* The conversation goes with its executions.
LEMMA RemoveConversationKeeps ==
  ASSUME ProjectInv, NEW r \in ProjectRequests, RemoveConversation(r)
  PROVE  ProjectInv'
PROOF
<1>0. Records /\ request[r].do = "delete" /\ request[r].step = "seed"
  BY DEF RemoveConversation, At, ProjectInv
<1>1. request'[r] = ReadBy(r, {}, "acted") /\ \A s \in ProjectRequests \ {r} : Untouched(s)
  BY RequestsFit, RequestGoesOn DEF RemoveConversation
<1>2. /\ conversation' = {} /\ jobs' = <<>> /\ crossed \subseteq crossed'
      /\ project' = project /\ config' = config /\ row' = row
      /\ resource' = resource /\ removed' = removed
  BY DEF RemoveConversation, Tables, Acts, Notes
<1>3. RequestHolds(r)' /\ ~MakesNew(r)' /\ Unpersisted'
  BY <1>1, ActedIs
<1>4. ~Saves(r) /\ ~Creates(r)
  BY <1>0 DEF Saves, Creates, At
<1>5. Records'
  <2>1. RecordTypes'
    <3>1. <<>> \in Seq(JobRecords)
      OBVIOUS
    <3> QED BY <1>0, <1>2, <3>1 DEF Records, RecordTypes, Talks, AtMostOne
  <2>2. ConfigRests' /\ RemovedRest'
    BY <1>0, <1>1, <1>2, <1>4, PartsStay
  <2>3. RowsRest' /\ ModelRests' /\ ActiveRuns'
    BY <1>2, <1>3 DEF RowsRest, ModelRests, ActiveRuns
  <2>4. JobsRest'
    BY <1>2 DEF JobsRest
  <2> QED BY <2>1, <2>2, <2>3, <2>4 DEF Records
<1>6. \A s \in ProjectRequests \ {r} : ~MakesNew(s)
  <2>1. PutsBack(r)
    BY <1>0 DEF PutsBack
  <2> QED BY <2>1, AnotherMakes
<1> QED BY <1>1, <1>2, <1>3, <1>5, <1>6, WritingHolds DEF NewHolds

\* The row a listing has read takes the place of the conversation.
LEMMA OverwriteMemoryKeeps ==
  ASSUME ProjectInv, NEW r \in ProjectRequests, OverwriteMemory(r)
  PROVE  ProjectInv'
PROOF
<1>0. /\ Records /\ RecordTypes /\ request[r].do = "list" /\ request[r].step = "rows"
      /\ ListHolds(r) /\ Acts(r) /\ WellFormed(request[r])
  BY RequestsFit DEF OverwriteMemory, At, ProjectInv, Records, RequestHolds
<1>1. request'[r] = AtEase /\ \A s \in ProjectRequests \ {r} : Untouched(s)
  BY RequestsFit, RequestGoesOn DEF OverwriteMemory, Answer
<1>2. /\ crossed \subseteq crossed' /\ project' = project /\ config' = config /\ row' = row
      /\ jobs' = jobs /\ resource' = resource /\ removed' = removed
      /\ conversation' = request[r].seed
  BY DEF OverwriteMemory, Tables, Acts, Notes
<1>3. ~Holds(r)
  BY <1>0 DEF Holds, Purges, Deletes, Persists, Syncs, Creates, At
<1>4. RequestHolds(r)' /\ ~MakesNew(r)' /\ ~PutsBack(r)'
  BY <1>1, AnswerHolds
<1>5. \/ conversation' = conversation
      \/ PutBack({"list", "patch"})' /\ PutBack({"create", "patch", "list"})'
  <2>1. /\ "conversation" \in request[r].read
        /\ Fresh(r, "conversation") => conversation = request[r].seed \/ PutBack({"list"})
    BY <1>0 DEF ListHolds, At
  <2>2. ~Fresh(r, "conversation") => <<"list", "conversation">> \in crossed'
    BY <1>0, <2>1, ActsNotes
  <2>3. PutBack({"list"}) =>
          PutBack({"list", "patch"})' /\ PutBack({"create", "patch", "list"})'
    BY <1>2, NotedStays, WiderCrossed
  <2> QED BY <1>2, <2>1, <2>2, <2>3, SurpriseIs
<1>6. CASE conversation' = conversation
  BY <1>1, <1>2, <1>3, <1>4, <1>6, ReadingHolds DEF NewHolds
<1>7. CASE PutBack({"list", "patch"})' /\ PutBack({"create", "patch", "list"})'
  <2>1. RecordTypes'
    <3>1. request[r].seed # {} /\ Talks(request[r].seed)
      BY <1>0 DEF ListHolds, At, WellFormed
    <3> QED BY <1>0, <1>2, <3>1 DEF RecordTypes
  <2>2. RowsRest' /\ ModelRests' /\ ActiveRuns'
    BY <1>7 DEF RowsRest, ModelRests, ActiveRuns
  <2>3. ConfigRests' /\ JobsRest' /\ RemovedRest'
    <3>1. ~Saves(r) /\ ~Creates(r) /\ ~Syncs(r)
      BY <1>0 DEF Saves, Creates, Syncs, At
    <3> QED BY <1>0, <1>1, <1>2, <3>1, PartsStay
  <2>4. Records'
    BY <2>1, <2>2, <2>3 DEF Records
  <2>5. \A s \in ProjectRequests \ {r} : ~MakesNew(s)
    <3>1. PutsBack(r)
      BY <1>0 DEF PutsBack, At
    <3> QED BY <3>1, AnotherMakes
  <2> QED BY <1>1, <1>2, <1>4, <2>4, <2>5, WritingHolds DEF NewHolds
<1> QED BY <1>5, <1>6, <1>7

\* The memory is written to the tables: what was still to be written is.
LEMMA PersistMemoryKeeps ==
  ASSUME ProjectInv, NEW r \in ProjectRequests, PersistMemory(r)
  PROVE  ProjectInv'
PROOF
<1>0. Records /\ request[r].step = "acted"
  BY DEF PersistMemory, ProjectInv
<1>1. request'[r] = AtEase /\ \A s \in ProjectRequests \ {r} : Untouched(s)
  BY RequestsFit, RequestGoesOn DEF PersistMemory, Answer
<1>2. /\ row' = conversation /\ conversation' = conversation /\ crossed \subseteq crossed'
      /\ project' = project /\ config' = config /\ jobs' = jobs
      /\ resource' = resource /\ removed' = removed
  BY DEF PersistMemory
<1>3. RequestHolds(r)' /\ ~MakesNew(r)' /\ ~PutsBack(r)'
  BY <1>1, AnswerHolds
<1>4. ~Purges(r) /\ ~Deletes(r) /\ ~Saves(r) /\ ~Syncs(r) /\ ~Creates(r)
  BY <1>0 DEF Purges, Deletes, Saves, Syncs, Creates, At
<1>5. Records'
  <2>1. RecordTypes'
    BY <1>0, <1>2 DEF Records, RecordTypes
  <2>2. RowsRest'
    <3>1. (Deleting => Deleting') /\ (Purging => Purging')
      BY <1>1, <1>4, PendingGoes
    <3> QED BY <1>0, <1>2, <3>1, NotedStays DEF Records, RowsRest
  <2>3. ConfigRests' /\ ModelRests' /\ JobsRest' /\ ActiveRuns' /\ RemovedRest'
    BY <1>0, <1>1, <1>2, <1>4, PartsStay
  <2> QED BY <2>1, <2>2, <2>3 DEF Records
<1>6. \A s \in ProjectRequests \ {r} :
        MakesNew(s) => conversation' = {} /\ row' = {} /\ ~PutsBack(r)'
  BY <1>2, <1>3, AnotherMakes
<1> QED BY <1>1, <1>2, <1>3, <1>5, <1>6, WritingHolds DEF NewHolds

\* A resource is written back: one that was removed meanwhile is there again.
LEMMA SaveResourceKeeps ==
  ASSUME ProjectInv, NEW r \in ProjectRequests, SaveResource(r)
  PROVE  ProjectInv'
PROOF
<1> PICK x : x = request[r].resource
  OBVIOUS
<1>0. /\ Records /\ RecordTypes /\ request[r].do = "patch resource"
      /\ request[r].step = "record" /\ ResourceHolds(r) /\ Acts(r)
  BY DEF SaveResource, At, ProjectInv, Records, RequestHolds
<1>1. request'[r] = AtEase /\ \A s \in ProjectRequests \ {r} : Untouched(s)
  BY RequestsFit, RequestGoesOn DEF SaveResource, Answer
<1>2. /\ conversation' = conversation /\ row' = row /\ crossed \subseteq crossed'
      /\ project' = project /\ config' = config /\ jobs' = jobs /\ removed' = removed
      /\ resource' = [resource EXCEPT ![x] = request[r].to]
  BY DEF SaveResource, Tables, Memory, Acts, Notes
<1>3. RequestHolds(r)' /\ ~MakesNew(r)' /\ ~PutsBack(r)'
  BY <1>1, AnswerHolds
<1>4. ~Purges(r) /\ ~Deletes(r) /\ ~Persists(r) /\ ~Saves(r) /\ ~Syncs(r) /\ ~Creates(r)
  BY <1>0 DEF Purges, Deletes, Persists, Saves, Syncs, Creates, At
<1>5. resource[x] = "gone" => <<"patch resource", "resource">> \in crossed'
  <2>1. /\ "resource" \in request[r].read
        /\ Fresh(r, "resource") => resource[x] # "gone"
    BY <1>0 DEF ResourceHolds, At
  <2>2. ~Fresh(r, "resource") => <<"patch resource", "resource">> \in crossed'
    BY <1>0, <2>1, ActsNotes
  <2> QED BY <2>1, <2>2
<1>6. Records'
  <2>1. RecordTypes'
    BY <1>0, <1>2 DEF RecordTypes
  <2>2. RemovedRest'
    <3> SUFFICES ASSUME NEW y \in removed
                 PROVE  resource'[y] = "gone" \/ <<"patch resource", "resource">> \in crossed'
      BY <1>2 DEF RemovedRest
    <3>1. resource[y] = "gone" \/ <<"patch resource", "resource">> \in crossed'
      BY <1>0, <1>2 DEF Records, RemovedRest
    <3>2. y # x => resource'[y] = resource[y]
      BY <1>0, <1>2 DEF RecordTypes
    <3> QED BY <1>5, <3>1, <3>2
  <2>3. ConfigRests' /\ RowsRest' /\ ModelRests' /\ JobsRest' /\ ActiveRuns'
    BY <1>0, <1>1, <1>2, <1>4, PartsStay
  <2> QED BY <2>1, <2>2, <2>3 DEF Records
<1>7. \A s \in ProjectRequests \ {r} :
        MakesNew(s) => conversation' = {} /\ row' = {} /\ ~PutsBack(r)'
  BY <1>2, <1>3, AnotherMakes
<1> QED BY <1>1, <1>2, <1>3, <1>6, <1>7, WritingHolds DEF NewHolds

\* A resource is removed.
LEMMA RemoveResourceKeeps ==
  ASSUME ProjectInv, NEW r \in ProjectRequests, NEW x \in Resources, RemoveResource(r, x)
  PROVE  ProjectInv'
PROOF
<1>0. Records /\ RecordTypes /\ ~Holds(r)
  BY BeginIs DEF RemoveResource, ProjectInv, Records
<1>1. request'[r] = AtEase /\ \A s \in ProjectRequests \ {r} : Untouched(s)
  BY RequestsFit, RequestGoesOn DEF RemoveResource, Answer
<1>2. /\ conversation' = conversation /\ row' = row /\ crossed' = crossed
      /\ project' = project /\ config' = config /\ jobs' = jobs
      /\ removed' = removed \cup {x} /\ resource' = [resource EXCEPT ![x] = "gone"]
  BY DEF RemoveResource, Tables, Memory
<1>3. RequestHolds(r)' /\ ~MakesNew(r)' /\ ~PutsBack(r)'
  BY <1>1, AnswerHolds
<1>4. Records'
  <2>1. RecordTypes' /\ RemovedRest'
    BY <1>0, <1>2 DEF Records, RecordTypes, RemovedRest
  <2>2. ~Saves(r)
    BY <1>0 DEF Holds, Saves, Syncs, At
  <2>3. ConfigRests' /\ RowsRest' /\ ModelRests' /\ JobsRest' /\ ActiveRuns'
    BY <1>0, <1>1, <1>2, <2>2, PartsStay DEF Holds
  <2> QED BY <2>1, <2>3 DEF Records
<1>5. \A s \in ProjectRequests \ {r} :
        MakesNew(s) => conversation' = {} /\ row' = {} /\ ~PutsBack(r)'
  BY <1>2, <1>3, AnotherMakes
<1> QED BY <1>1, <1>2, <1>3, <1>4, <1>5, WritingHolds DEF NewHolds

\* An execution is queued, as the active one when there is none.
LEMMA EnqueueKeeps ==
  ASSUME ProjectInv, NEW r \in ProjectRequests, Enqueue(r)
  PROVE  ProjectInv'
PROOF
<1> PICK model : model = request[r].model
  OBVIOUS
<1>0. /\ Records /\ RecordTypes /\ request[r].do = "submit" /\ request[r].step = "checked"
      /\ SubmitHolds(r) /\ WellFormed(request[r])
  BY DEF Enqueue, At, ProjectInv, Records, RequestHolds
<1>1. /\ project' = project /\ config' = config /\ row' = row
      /\ resource' = resource /\ removed' = removed
  BY DEF Enqueue, Tables
<1>2. ~Purges(r) /\ ~Deletes(r) /\ ~Persists(r) /\ ~Saves(r) /\ ~Syncs(r) /\ ~Creates(r)
  BY <1>0 DEF Purges, Deletes, Persists, Saves, Syncs, Creates, At
<1>3. CASE conversation = {}
  <2>1. conversation' = conversation /\ jobs' = jobs /\ crossed' = crossed /\ Answer(r)
    BY <1>3 DEF Enqueue, Memory
  <2>2. request'[r] = AtEase /\ \A s \in ProjectRequests \ {r} : Untouched(s)
    BY <2>1, RequestsFit, RequestGoesOn DEF Answer
  <2> QED BY <1>1, <1>2, <2>1, <2>2, AnswerHolds, ReadingHolds DEF NewHolds, Holds
<1>4. CASE conversation # {}
  <2> PICK free \in BOOLEAN : free <=> \E c \in conversation : c.active = 0
    OBVIOUS
  <2> PICK n \in Nat : n = Len(jobs)
    BY <1>0 DEF RecordTypes
  <2>0. jobs \in Seq(JobRecords)
    BY <1>0 DEF RecordTypes
  <2>1. request'[r] = ReadBy(r, {}, "acted") /\ \A s \in ProjectRequests \ {r} : Untouched(s)
    BY <1>4, RequestsFit, RequestGoesOn DEF Enqueue
  <2>2. Acts(r) /\ crossed \subseteq crossed'
    BY <1>4 DEF Enqueue, Acts, Notes
  <2>3. /\ jobs' \in Seq(JobRecords) /\ Len(jobs') = n + 1
        /\ \A i \in 1..n : jobs'[i] = jobs[i]
        /\ jobs'[n + 1].model = model
        /\ jobs'[n + 1].state = IF free THEN "pending" ELSE "queued"
    <3> PICK st : st = IF free THEN "pending" ELSE "queued"
      OBVIOUS
    <3> PICK job : job = [model |-> model, state |-> st]
      OBVIOUS
    <3>1. jobs' = Append(jobs, job)
      BY <1>4 DEF Enqueue
    <3>2. job \in JobRecords /\ job.model = model /\ job.state = st
      BY <1>0 DEF JobRecords, WellFormed
    <3> QED BY <2>0, <3>1, <3>2
  <2>4. conversation' = IF free THEN {[c EXCEPT !.active = Len(jobs')] : c \in conversation}
                        ELSE conversation
    BY <1>4 DEF Enqueue
  <2>5. /\ conversation' # {} /\ Talks(conversation')
        /\ \A d \in conversation' : \E c \in conversation :
             /\ d.model = c.model
             /\ d.active = IF free THEN n + 1 ELSE c.active
    <3>1. CASE ~free
      BY <1>0, <1>4, <2>4, <3>1 DEF RecordTypes
    <3>2. CASE free
      <4>1. conversation' = {[c EXCEPT !.active = n + 1] : c \in conversation}
        BY <2>3, <2>4, <3>2
      <4>2. \A c \in conversation : {"model", "active"} \subseteq DOMAIN c
        BY <1>0 DEF RecordTypes, Talks
      <4>3. \A d \in conversation' : \E c \in conversation :
              d.model = c.model /\ d.active = n + 1 /\ DOMAIN d = DOMAIN c
        BY <4>1, <4>2
      <4>4. AtMostOne(conversation') /\ conversation' # {}
        <5> DEFINE new(c) == [c EXCEPT !.active = n + 1]
        <5>1. conversation' = {new(c) : c \in conversation} /\ AtMostOne(conversation)
          BY <1>0, <4>1 DEF RecordTypes, Talks
        <5> HIDE DEF new
        <5> QED BY <1>4, <5>1 DEF AtMostOne
      <4> QED BY <3>2, <4>2, <4>3, <4>4 DEF Talks
    <3> QED BY <3>1, <3>2
  <2>6. RequestHolds(r)' /\ ~MakesNew(r)' /\ Unpersisted'
    BY <2>1, ActedIs
  <2>7. /\ Deleting => Deleting'
        /\ Purging => Purging'
        /\ Syncing => Syncing'
    BY <1>2, <2>1, PendingGoes
  <2>8. Records'
    <3>1. RecordTypes'
      BY <1>0, <1>1, <2>3, <2>5 DEF RecordTypes
    <3>2. RowsRest'
      BY <1>0, <1>1, <1>4, <2>2, <2>6, <2>7, NotedStays DEF Records, RowsRest
    <3>3. \A p : ConfigOf(p)' = ConfigOf(p)
      BY <1>1 DEF ConfigOf
    <3>4. ModelRests'
      <4>1. \A d \in conversation' : \E c \in conversation : d.model = c.model
        BY <2>5
      <4> QED BY <1>0, <1>1, <2>2, <2>7, <3>3, <4>1, NotedStays DEF Records, ModelRests
    <3>5. JobsRest'
      <4>1. \/ \A p \in project : model \in ConfigOf(p).models
            \/ ConfigCrossed' \/ Crossed({"submit"}, {"config"})'
        <5>1. /\ "config" \in request[r].read
              /\ Fresh(r, "config") =>
                   ConfigCrossed \/ \A p \in project : model \in ConfigOf(p).models
          BY <1>0 DEF SubmitHolds, At
        <5>2. ~Fresh(r, "config") => <<"submit", "config">> \in crossed'
          BY <1>0, <2>2, <5>1, ActsNotes
        <5> QED BY <2>2, <5>1, <5>2, NotedStays, SurpriseIs
      <4>2. CASE \A i \in 1..n, p \in project :
                   jobs[i].state = "done" \/ jobs[i].model \in ConfigOf(p).models
        <5>1. CASE \A p \in project : model \in ConfigOf(p).models
          <6>1. \A i \in 1..n + 1, p \in project :
                  jobs'[i].state = "done" \/ jobs'[i].model \in ConfigOf(p).models
            BY <2>3, <4>2, <5>1
          <6> QED BY <1>1, <2>3, <3>3, <6>1 DEF JobsRest
        <5> QED BY <4>1, <5>1 DEF JobsRest
      <4> QED BY <1>0, <2>2, <2>7, <4>2, NotedStays DEF Records, JobsRest
    <3>6. ActiveRuns'
      <4>1. CASE \A c \in conversation :
                   /\ c.active \in 0..n
                   /\ \A i \in 1..n : jobs[i].state = "pending" <=> c.active = i
        <5>1. ASSUME NEW d \in conversation'
              PROVE  /\ d.active \in 0..n + 1
                     /\ \A i \in 1..n + 1 : jobs'[i].state = "pending" <=> d.active = i
          <6>1. PICK c \in conversation : d.active = IF free THEN n + 1 ELSE c.active
            BY <2>5
          <6>2. conversation = {c}
            BY <1>0 DEF RecordTypes, Talks, AtMostOne
          <6>3. free <=> c.active = 0
            BY <6>2
          <6> QED BY <2>3, <4>1, <6>1, <6>3
        <5> QED BY <2>3, <5>1 DEF ActiveRuns
      <4> QED BY <1>0, <2>2, <2>7, <4>1, NotedStays DEF Records, ActiveRuns
    <3>7. ConfigRests' /\ RemovedRest'
      BY <1>0, <1>1, <1>2, <2>1, <2>2, PartsStay
    <3> QED BY <3>1, <3>2, <3>4, <3>5, <3>6, <3>7 DEF Records
  <2>9. \A s \in ProjectRequests \ {r} : ~MakesNew(s)
    BY <1>4, AnotherMakes
  <2> QED BY <1>1, <2>1, <2>2, <2>6, <2>8, <2>9, WritingHolds DEF NewHolds
<1> QED BY <1>3, <1>4

\* A set of numbers has a least one.
LEMMA FirstOf ==
  ASSUME NEW S, S \subseteq Nat, S # {}
  PROVE  \E x \in S : \A y \in S : x <= y
PROOF
<1> DEFINE R == {ss \in Nat \X Nat : ss[1] < ss[2]}
<1>1. IsWellFoundedOn(R, Nat)
  BY NatLessThanWellFounded DEF OpToRel
<1>2. \E x \in S : \A y \in S : <<y, x>> \notin R
  <2> HIDE DEF R
  <2> QED BY <1>1, WFMin
<1>3. \A x, y \in Nat : <<y, x>> \notin R => x <= y
  OBVIOUS
<1> HIDE DEF R
<1> QED BY <1>2, <1>3

\* An execution ends and hands over to the first one queued.
LEMMA EndExecutionKeeps ==
  ASSUME ProjectInv, NEW r \in ProjectRequests, NEW i \in 1..MaxQueued, EndExecution(r, i)
  PROVE  ProjectInv'
PROOF
<1> PICK n \in Nat : n = Len(jobs)
  BY DEF ProjectInv, Records, RecordTypes
<1> DEFINE queued == {k \in 1..n : jobs[k].state = "queued"}
           next == IF queued = {} THEN 0 ELSE CHOOSE k \in queued : \A l \in queued : k <= l
<1> PICK hands \in BOOLEAN : hands <=> \E c \in conversation : c.active = i
  OBVIOUS
<1>0. /\ Records /\ RecordTypes /\ ~Holds(r) /\ jobs \in Seq(JobRecords)
      /\ DOMAIN jobs = 1..n /\ i \in 1..n /\ jobs[i].state = "pending"
  BY BeginIs DEF EndExecution, ProjectInv, Records, RecordTypes
<1>1. next \in 0..n /\ (next # 0 => jobs[next].state = "queued")
  <2>1. CASE queued = {}
    BY <2>1
  <2>2. CASE queued # {}
    <3>1. \E k \in queued : \A l \in queued : k <= l
      <4>1. queued \subseteq Nat
        OBVIOUS
      <4> HIDE DEF queued
      <4> QED BY <2>2, <4>1, FirstOf
    <3>2. next \in queued
      BY <2>2, <3>1
    <3> QED BY <3>2
  <2> QED BY <2>1, <2>2
<1>2. /\ jobs' = [k \in 1..n |->
                    IF k = i THEN [jobs[k] EXCEPT !.state = "done"]
                    ELSE IF hands /\ k = next THEN [jobs[k] EXCEPT !.state = "pending"]
                    ELSE jobs[k]]
      /\ conversation' = IF hands THEN {[c EXCEPT !.active = next] : c \in conversation}
                         ELSE conversation
  BY <1>0 DEF EndExecution
<1>3. /\ project' = project /\ config' = config /\ row' = row /\ crossed' = crossed
      /\ resource' = resource /\ removed' = removed
  BY DEF EndExecution, Tables
<1> PICK m : m = next
  OBVIOUS
<1>4. /\ m \in 0..n /\ (m # 0 => jobs[m].state = "queued")
      /\ conversation' = IF hands THEN {[c EXCEPT !.active = m] : c \in conversation}
                         ELSE conversation
      /\ jobs' = [k \in 1..n |->
                    IF k = i THEN [jobs[k] EXCEPT !.state = "done"]
                    ELSE IF hands /\ k = m THEN [jobs[k] EXCEPT !.state = "pending"]
                    ELSE jobs[k]]
  BY <1>1, <1>2
<1> HIDE DEF next
<1>5. /\ jobs' \in Seq(JobRecords) /\ Len(jobs') = n
      /\ \A k \in 1..n : /\ jobs'[k].model = jobs[k].model
                         /\ jobs'[k].state = IF k = i THEN "done"
                                             ELSE IF hands /\ k = m THEN "pending"
                                             ELSE jobs[k].state
  <2>1. \A k \in 1..n : jobs[k] \in JobRecords
    BY <1>0
  <2>2. \A k \in 1..n : /\ jobs'[k] \in JobRecords /\ jobs'[k].model = jobs[k].model
                        /\ jobs'[k].state = IF k = i THEN "done"
                                            ELSE IF hands /\ k = m THEN "pending"
                                            ELSE jobs[k].state
    BY <1>4, <2>1 DEF JobRecords
  <2>3. jobs' = [k \in DOMAIN jobs |-> jobs'[k]]
    BY <1>0, <1>4
  <2> QED BY <1>0, <2>2, <2>3, JobsMapped
<1>6. request'[r] = Opened("end", "acted", {}) /\ \A s \in ProjectRequests \ {r} : Untouched(s)
  BY RequestsFit, RequestGoesOn DEF EndExecution
<1>7. RequestHolds(r)' /\ ~MakesNew(r)' /\ ~PutsBack(r)' /\ Unpersisted'
  <2>1. Begun(Opened("end", "acted", {}), "end", "acted", {})
    BY OpenedIs
  <2> QED BY <1>6, <2>1, OnlyItsOwn
             DEF Begun, MakesNew, Creates, At, PutsBack, Unpersisted, Persists
<1>8. /\ Talks(conversation') /\ (conversation' = {} <=> conversation = {})
      /\ \A d \in conversation' : \E c \in conversation :
           d.model = c.model /\ d.active = IF hands THEN m ELSE c.active
  <2>1. CASE ~hands
    BY <1>0, <1>4, <2>1 DEF RecordTypes
  <2>2. CASE hands
    <3> DEFINE new(c) == [c EXCEPT !.active = m]
    <3>1. conversation' = {new(c) : c \in conversation} /\ AtMostOne(conversation)
      BY <1>0, <1>4, <2>2 DEF RecordTypes, Talks
    <3>2. \A c \in conversation : {"model", "active"} \subseteq DOMAIN c
      BY <1>0 DEF RecordTypes, Talks
    <3>3. \A d \in conversation' : \E c \in conversation :
            d.model = c.model /\ d.active = m /\ DOMAIN d = DOMAIN c
      BY <3>1, <3>2
    <3> HIDE DEF new
    <3>4. AtMostOne(conversation') /\ (conversation' = {} <=> conversation = {})
      BY <3>1 DEF AtMostOne
    <3> QED BY <2>2, <3>2, <3>3, <3>4 DEF Talks
  <2> QED BY <2>1, <2>2
<1>9. /\ Deleting => Deleting'
      /\ Purging => Purging'
      /\ Syncing => Syncing'
  BY <1>0, <1>6, PendingGoes DEF Holds
<1>10. Records'
  <2>1. RecordTypes'
    <3>1. conversation # {}
      <4>1. n # 0
        BY <1>0
      <4> QED BY <1>0, <4>1 DEF RecordTypes
    <3> QED BY <1>0, <1>3, <1>5, <1>8, <3>1 DEF RecordTypes
  <2>2. RowsRest'
    BY <1>0, <1>3, <1>7, <1>8, <1>9, NotedStays DEF Records, RowsRest
  <2>3. \A p : ConfigOf(p)' = ConfigOf(p)
    BY <1>3 DEF ConfigOf
  <2>4. ModelRests'
    <3>1. \A d \in conversation' : \E c \in conversation : d.model = c.model
      BY <1>8
    <3> QED BY <1>0, <1>3, <1>9, <2>3, <3>1, NotedStays DEF Records, ModelRests
  <2>5. JobsRest'
    <3>1. CASE \A k \in 1..n, p \in project :
                 jobs[k].state = "done" \/ jobs[k].model \in ConfigOf(p).models
      <4>1. \A k \in 1..n, p \in project :
              jobs'[k].state = "done" \/ jobs'[k].model \in ConfigOf(p).models
        BY <1>4, <1>5, <3>1
      <4> QED BY <1>3, <1>5, <2>3, <4>1 DEF JobsRest
    <3> QED BY <1>0, <1>3, <1>9, <3>1, NotedStays DEF Records, JobsRest
  <2>6. ActiveRuns'
    <3>1. CASE \A c \in conversation :
                 /\ c.active \in 0..n
                 /\ \A k \in 1..n : jobs[k].state = "pending" <=> c.active = k
      <4>1. ASSUME NEW d \in conversation'
            PROVE  /\ d.active \in 0..n
                   /\ \A k \in 1..n : jobs'[k].state = "pending" <=> d.active = k
        <5>1. PICK c \in conversation : d.active = IF hands THEN m ELSE c.active
          BY <1>8
        <5>2. conversation = {c}
          BY <1>0 DEF RecordTypes, Talks, AtMostOne
        <5>3. hands /\ c.active = i
          BY <1>0, <3>1, <5>2
        <5> QED BY <1>0, <1>4, <1>5, <3>1, <5>1, <5>3
      <4> QED BY <1>5, <4>1 DEF ActiveRuns
    <3> QED BY <1>0, <1>3, <1>9, <3>1, NotedStays DEF Records, ActiveRuns
  <2>7. ConfigRests' /\ RemovedRest'
    <3>1. ~Saves(r) /\ ~Creates(r)
      BY <1>0 DEF Holds, Saves, Syncs, At
    <3> QED BY <1>0, <1>3, <1>6, <3>1, PartsStay
  <2> QED BY <2>1, <2>2, <2>4, <2>5, <2>6, <2>7 DEF Records
<1>11. \A s \in ProjectRequests \ {r} :
         MakesNew(s) => conversation' = {} /\ row' = {} /\ ~PutsBack(r)'
  BY <1>3, <1>7, <1>8, AnotherMakes
<1> QED BY <1>3, <1>6, <1>7, <1>10, <1>11, WritingHolds DEF NewHolds
-------------------------------------------------------------------------------
\* The initial states.
LEMMA RecordsBegin ==
  ASSUME ProjectInit
  PROVE  ProjectInv
PROOF
<1>1. \A r \in ProjectRequests : request[r] = AtEase
  BY DEF ProjectInit
<1>2. \A r \in ProjectRequests : RequestHolds(r) /\ NewHolds(r)
  <2> SUFFICES ASSUME NEW r \in ProjectRequests PROVE RequestHolds(r) /\ NewHolds(r)
    OBVIOUS
  <2>1. WellFormed(request[r]) /\ request[r].step = "idle" /\ request[r].do = "nothing"
    BY <1>1, AtEaseIs
  <2> QED BY <2>1 DEF RequestHolds, PutHolds, CreateHolds, PatchHolds, ListHolds, SubmitHolds,
                      ResourceHolds, NewHolds, MakesNew, Creates, Syncs, At
<1>3. PICK c \in Configs, made \in BOOLEAN, talking \in BOOLEAN :
        /\ c.models = ModelConfigs /\ c.default # NoModel
        /\ talking => made
        /\ project = IF made THEN {[default |-> c.default]} ELSE {}
        /\ config = IF made THEN {c} ELSE {}
        /\ conversation = IF talking THEN {[model |-> c.default, rule |-> TRUE,
                                            active |-> 0]} ELSE {}
  BY DEF ProjectInit
<1>4. /\ row = conversation /\ jobs = <<>> /\ removed = {}
      /\ resource = [x \in Resources |-> "on"]
  BY DEF ProjectInit
<1>5. c.default \in ModelConfigs /\ c.default \in Selections
  BY <1>3 DEF Configs, Selections
<1>6. /\ \A d \in conversation : made /\ d.model = c.default /\ d.active = 0
      /\ Talks(conversation)
  <2> PICK d : d = [model |-> c.default, rule |-> TRUE, active |-> 0]
    OBVIOUS
  <2>1. d.model = c.default /\ d.active = 0 /\ {"model", "active"} \subseteq DOMAIN d
    OBVIOUS
  <2>2. conversation \subseteq {d} /\ (conversation # {} => made)
    BY <1>3
  <2> QED BY <2>1, <2>2 DEF Talks, AtMostOne
<1>7. made => \A p : ConfigOf(p) = c
  BY <1>3, ConfigOfIs DEF AtMostOne
<1>8. RecordTypes
  <2>1. jobs \in Seq(JobRecords)
    BY <1>4
  <2>2. AtMostOne(project) /\ project \subseteq [default : Selections]
    BY <1>3, <1>5 DEF AtMostOne
  <2>3. AtMostOne(config) /\ config \subseteq Configs
        /\ \A d \in config : d.default \in d.models \cup {NoModel}
    BY <1>3, <1>5 DEF AtMostOne
  <2> QED BY <1>4, <1>6, <2>1, <2>2, <2>3 DEF RecordTypes
<1>9. ConfigRests /\ RowsRest
  <2>1. (project = {} <=> ~made) /\ (config = {} <=> ~made) /\ (~made => conversation = {})
    BY <1>3
  <2>2. \A p \in project, d \in config : p.default = d.default
    BY <1>3
  <2> QED BY <1>4, <2>1, <2>2 DEF ConfigRests, RowsRest
<1>10. ModelRests /\ JobsRest /\ ActiveRuns /\ RemovedRest
  <2>1. Len(jobs) = 0
    BY <1>4
  <2>2. \A d \in conversation : \A p : d.model \in ConfigOf(p).models
    BY <1>3, <1>5, <1>6, <1>7
  <2> QED BY <1>4, <1>6, <2>1, <2>2 DEF ModelRests, JobsRest, ActiveRuns, RemovedRest
<1> QED BY <1>2, <1>8, <1>9, <1>10 DEF ProjectInv, Records

\* Every step keeps the invariant.
LEMMA RecordsGoOn ==
  ASSUME ProjectInv, [ProjectNext]_projectVars
  PROVE  ProjectInv'
PROOF
<1>1. CASE UNCHANGED projectVars
  <2>1. /\ resource' = resource /\ project' = project /\ config' = config
        /\ conversation' = conversation /\ row' = row /\ jobs' = jobs
        /\ request' = request /\ crossed' = crossed /\ removed' = removed
    BY <1>1 DEF projectVars
  <2>2. \A r : Deletes(r)' = Deletes(r) /\ Purges(r)' = Purges(r) /\ Persists(r)' = Persists(r)
               /\ Saves(r)' = Saves(r) /\ Syncs(r)' = Syncs(r) /\ Creates(r)' = Creates(r)
    BY <2>1 DEF Deletes, Purges, Persists, Saves, Syncs, Creates, At
  <2>3. /\ Deleting' = Deleting /\ Purging' = Purging /\ Unpersisted' = Unpersisted
        /\ Saving' = Saving /\ Syncing' = Syncing /\ Creating' = Creating
    BY <2>2 DEF Deleting, Purging, Unpersisted, Saving, Syncing, Creating
  <2>4. /\ \A p : ConfigOf(p)' = ConfigOf(p) /\ FirstModel(p)' = FirstModel(p)
        /\ \A who, items : Crossed(who, items)' = Crossed(who, items)
        /\ \A by : PutBack(by)' = PutBack(by)
        /\ ConfigCrossed' = ConfigCrossed
    BY <2>1 DEF ConfigOf, FirstModel, Crossed, PutBack, ConfigCrossed
  <2>5. Records'
    <3>1. RecordTypes' /\ ConfigRests' /\ RowsRest' /\ RemovedRest'
      BY <2>1, <2>3, <2>4
         DEF ProjectInv, Records, RecordTypes, ConfigRests, RowsRest, RemovedRest
    <3>2. ModelRests' /\ JobsRest' /\ ActiveRuns'
      BY <2>1, <2>3, <2>4 DEF ProjectInv, Records, ModelRests, JobsRest, ActiveRuns
    <3> QED BY <3>1, <3>2 DEF Records
  <2>6. ASSUME NEW r \in ProjectRequests PROVE RequestHolds(r)' /\ NewHolds(r)'
    <3>0. RequestHolds(r) /\ NewHolds(r)
      BY DEF ProjectInv
    <3>1. WellFormed(request[r])' /\ PutHolds(r)' /\ CreateHolds(r)'
      BY <2>1, <2>2, <2>4, <3>0 DEF RequestHolds, PutHolds, CreateHolds, At, Fresh
    <3>2. PatchHolds(r)' /\ ListHolds(r)' /\ SubmitHolds(r)' /\ ResourceHolds(r)'
      BY <2>1, <2>4, <3>0 DEF RequestHolds, PatchHolds, ListHolds, SubmitHolds, ResourceHolds,
                              At, Fresh
    <3>3. NewHolds(r)'
      BY <2>1, <2>2, <3>0 DEF NewHolds, MakesNew, PutsBack, At
    <3> QED BY <3>1, <3>2, <3>3 DEF RequestHolds
  <2> QED BY <2>5, <2>6 DEF ProjectInv
<1>2. ASSUME NEW r \in ProjectRequests,
             \/ CreateProject(r) \/ CreateConfig(r) \/ DeleteProject(r)
             \/ PurgeConversations(r) \/ \E c \in Offered : PutConfig(r, c)
             \/ SaveConfig(r) \/ SaveProject(r) \/ SyncModel(r)
      PROVE  ProjectInv'
  BY <1>2, CreateProjectKeeps, CreateConfigKeeps, DeleteProjectKeeps, PurgeConversationsKeeps,
     PutConfigKeeps, SaveConfigKeeps, SaveProjectKeeps, SyncModelKeeps
<1>3. ASSUME NEW r \in ProjectRequests,
             \/ CreateConversation(r) \/ ReadConfig(r) \/ InsertConversation(r)
             \/ \E m \in ModelConfigs : PatchConversation(r, m, "keep")
             \/ \E v \in {"on", "off", "keep"} : PatchConversation(r, NoModel, v)
             \/ StoreSeed(r) \/ CheckPatch(r) \/ ApplyPatch(r) \/ DeleteConversation(r)
      PROVE  ProjectInv'
  <2>1. CASE \/ \E m \in ModelConfigs : LoadSeed(r, "patch", m, "keep")
             \/ \E v \in {"on", "off", "keep"} : LoadSeed(r, "patch", NoModel, v)
             \/ LoadSeed(r, "delete", NoModel, "keep")
    BY <2>1, LoadSeedKeeps DEF Selections
  <2> QED BY <1>3, <2>1, CreateConversationKeeps, ReadConfigKeeps, InsertConversationKeeps,
             StoreSeedKeeps, CheckPatchKeeps, ApplyPatchKeeps
             DEF PatchConversation, DeleteConversation
<1>4. ASSUME NEW r \in ProjectRequests,
             \/ RemoveConversation(r) \/ ListConversations(r) \/ ReadRows(r)
             \/ OverwriteMemory(r) \/ \E m \in ModelConfigs \cup {NoModel} : Submit(r, m)
             \/ CheckSubmit(r) \/ Enqueue(r) \/ \E i \in 1..MaxQueued : EndExecution(r, i)
             \/ \E x \in Resources, to \in {"on", "off"} : PatchResource(r, x, to)
             \/ SaveResource(r) \/ \E x \in Resources : RemoveResource(r, x)
             \/ PersistMemory(r)
      PROVE  ProjectInv'
  BY <1>4, RemoveConversationKeeps, ListConversationsKeeps, ReadRowsKeeps, OverwriteMemoryKeeps,
     SubmitKeeps, CheckSubmitKeeps, EnqueueKeeps, EndExecutionKeeps, PatchResourceKeeps,
     SaveResourceKeeps, RemoveResourceKeeps, PersistMemoryKeeps DEF Selections
<1> QED BY <1>1, <1>2, <1>3, <1>4 DEF ProjectNext

\* When no request is under way nothing is still to come.
LEMMA RecordsMeet ==
  ASSUME ProjectInv
  PROVE  AgreeUnlessCrossed
PROOF
<1> SUFFICES ASSUME Quiet PROVE AgreeUnlessCrossed
  BY DEF AgreeUnlessCrossed
<1>1. \A r \in ProjectRequests : request[r].step = "idle" /\ request[r].do = "nothing"
  BY DEF Quiet, ProjectInv, RequestHolds, WellFormed
<1>2. ~Deleting /\ ~Purging /\ ~Unpersisted /\ ~Saving /\ ~Syncing /\ ~Creating
  BY <1>1 DEF Deleting, Deletes, Purging, Purges, Unpersisted, Persists, Saving, Saves,
              Syncing, Syncs, Creating, Creates, At
<1>3. Records /\ RecordTypes
  BY DEF ProjectInv, Records
<1>4. DOMAIN jobs = 1..Len(jobs)
  BY <1>3 DEF RecordTypes
<1>5. /\ project = {} /\ config # {} => ConfigCrossed
      /\ ConfigCrossed \/ \A p \in project, c \in config : p.default = c.default
  BY <1>2, <1>3 DEF Records, ConfigRests
<1>6. /\ project = {} /\ (conversation # {} \/ row # {}) => PutBack({"create", "patch", "list"})
      /\ row = conversation \/ PutBack({"list", "patch"})
  BY <1>2, <1>3 DEF Records, RowsRest
<1>7. \/ \A c \in conversation, p \in project : c.model \in ConfigOf(p).models \cup {NoModel}
      \/ ConfigCrossed \/ Crossed({"create", "patch"}, {"project", "config"})
      \/ PutBack({"list", "patch"})
  BY <1>2, <1>3 DEF Records, ModelRests
<1>8. \/ \A i \in DOMAIN jobs, p \in project :
           jobs[i].state = "done" \/ jobs[i].model \in ConfigOf(p).models
      \/ ConfigCrossed \/ Crossed({"put config"}, {"no default"})
      \/ Crossed({"submit"}, {"config"})
  BY <1>2, <1>3, <1>4 DEF Records, JobsRest
<1>9. \/ \A i \in DOMAIN jobs : jobs[i].state = "pending"
                              <=> \E c \in conversation : c.active = i
      \/ PutBack({"list", "patch"})
  <2> SUFFICES ASSUME ~PutBack({"list", "patch"}), NEW i \in 1..Len(jobs)
               PROVE  jobs[i].state = "pending" <=> \E c \in conversation : c.active = i
    BY <1>4
  <2>1. \A c \in conversation : jobs[i].state = "pending" <=> c.active = i
    BY <1>2, <1>3 DEF Records, ActiveRuns
  <2>2. conversation # {}
    <3>1. Len(jobs) # 0
      BY <1>3 DEF RecordTypes
    <3> QED BY <1>3, <3>1 DEF RecordTypes
  <2> QED BY <2>1, <2>2
<1>10. \A x \in removed :
         resource[x] = "gone" \/ <<"patch resource", "resource">> \in crossed
  BY <1>3 DEF Records, RemovedRest
<1> QED BY <1>5, <1>6, <1>7, <1>8, <1>9, <1>10 DEF AgreeUnlessCrossed

\* However the requests on a project, its conversation and the resources interleave, when none
\* is under way the records agree but for what a request named in the exceptions did to items
\* another had changed.
THEOREM RecordsAgree == ProjectSpec => []AgreeUnlessCrossed
PROOF
<1>1. ProjectInit => ProjectInv
  BY RecordsBegin
<1>2. ProjectInv /\ [ProjectNext]_projectVars => ProjectInv'
  BY RecordsGoOn
<1>3. ProjectInv => AgreeUnlessCrossed
  BY RecordsMeet
<1> QED BY <1>1, <1>2, <1>3, PTL DEF ProjectSpec
-------------------------------------------------------------------------------
(* What holds of 0 and from each number to the next.                          *)

\* A set of numbers that has 0 and with each number the next has them all.
LEMMA Stepwise ==
  ASSUME NEW n \in Nat, NEW S, 0 \in S, \A i \in 0..n : i # n /\ i \in S => i + 1 \in S
  PROVE  0..n \subseteq S
PROOF
<1> SUFFICES ASSUME (0..n) \ S # {} PROVE FALSE
  OBVIOUS
<1>1. PICK x \in (0..n) \ S : \A y \in (0..n) \ S : x <= y
  <2>1. (0..n) \ S \subseteq Nat
    OBVIOUS
  <2> QED BY <2>1, FirstOf
<1>2. x # 0 /\ x - 1 \in 0..n /\ x - 1 # n
  BY <1>1
<1>3. x - 1 \in S
  BY <1>1, <1>2
<1>4. x - 1 + 1 \in S
  BY <1>2, <1>3
<1> QED BY <1>1, <1>4

-------------------------------------------------------------------------------
(* The documents of a prompt, for any number of directories, any budget and   *)
(* any sizes.                                                                 *)

Stages == {"settings", "merged", "documents", "rules", "sections", "done", "failed"}
Picked == [dir : Nat, name : {"override", "agents", "claude"}]
Block == [doc : Picked, told : Nat, whole : BOOLEAN]
PlaceDocs == [blocks : Seq(Block), used : Nat, ended : BOOLEAN]

DocTypes ==
  /\ stage \in Stages /\ looked \in Nat /\ readDocs \in Nat
  /\ picked \in Seq(Picked) /\ docs \in Seq(PlaceDocs)

\* The property, of one place.
PlaceKeeps(d) ==
  /\ d.used <= DocMaxBytes
  /\ \A i \in 1..Len(d.blocks) :
       /\ d.blocks[i].doc.name \notin Excludes
       /\ i < Len(d.blocks) =>
            d.blocks[i].whole /\ d.blocks[i].doc.dir < d.blocks[i + 1].doc.dir
  /\ d.ended => \/ d.blocks # <<>> /\ ~d.blocks[Len(d.blocks)].whole
                \/ d.used + Separator >= DocMaxBytes

\* Nothing is looked for or read before the settings are merged.
NothingYet == stage \in {"settings", "merged"} => docs = <<>> /\ picked = <<>> /\ looked = 0

\* What is picked goes down from the root and is not excluded.
PickedDown ==
  \A i \in 1..Len(picked) :
    /\ picked[i].name \notin Excludes /\ picked[i].dir <= looked
    /\ \A j \in 1..Len(picked) : i < j => picked[i].dir < picked[j].dir

\* While a place is read its blocks are of documents read, and whole.
ReadSoFar(d) ==
  /\ readDocs <= Len(picked)
  /\ d.blocks # <<>> => \E k \in 1..readDocs : d.blocks[Len(d.blocks)].doc = picked[k]
  /\ ~d.ended => \A i \in 1..Len(d.blocks) : d.blocks[i].whole
PlaceAtWork == Reading => docs # <<>> /\ ReadSoFar(docs[Len(docs)])

AllKeep == \A p \in 1..Len(docs) : PlaceKeeps(docs[p])

DocInv == DocTypes /\ NothingYet /\ PickedDown /\ PlaceAtWork /\ AllKeep

\* One document more keeps to the budget.
LEMMA OneMore ==
  ASSUME DocInv, Reading, NEW d \in PlaceDocs, PlaceKeeps(d), ReadSoFar(d), ~d.ended,
         readDocs < Len(picked), NEW size \in Nat, NEW i, i = readDocs + 1, readDocs' = i,
         UNCHANGED <<picked, merged>>, NEW e, e = WithDocument(d, i, size)
  PROVE  e \in PlaceDocs /\ PlaceKeeps(e)' /\ ReadSoFar(e)'
PROOF
<1>1. PICK n : n = Len(d.blocks)
  OBVIOUS
<1>2. PICK separator : separator = IF i > 1 \/ d.blocks # <<>> THEN Separator ELSE 0
  OBVIOUS
<1>3. PICK remaining : remaining = DocMaxBytes - d.used - separator
  OBVIOUS
<1>4. PICK mark : mark = IF Suffix >= remaining THEN remaining ELSE Suffix
  OBVIOUS
<1>5. PICK told : told = IF size <= remaining THEN size ELSE remaining - mark
  OBVIOUS
<1>6. PICK block : block = [doc |-> picked[i], told |-> told, whole |-> size <= remaining]
  OBVIOUS
<1>7. e = IF d.used >= DocMaxBytes THEN [d EXCEPT !.ended = TRUE]
          ELSE IF size = 0 THEN d
          ELSE IF d.used + separator >= DocMaxBytes THEN [d EXCEPT !.ended = TRUE]
          ELSE [blocks |-> Append(d.blocks, block),
                used |-> d.used + separator + told + (IF size <= remaining THEN 0 ELSE mark),
                ended |-> size > remaining]
  BY <1>1, <1>2, <1>3, <1>4, <1>5, <1>6 DEF WithDocument
<1>8. /\ DocMaxBytes \in Nat \ {0} /\ Separator \in Nat /\ Suffix \in Nat
      /\ readDocs \in Nat /\ picked \in Seq(Picked) /\ Len(picked) \in Nat
      /\ d.used \in Nat /\ d.blocks \in Seq(Block) /\ n \in Nat /\ d.ended = FALSE
  BY <1>1, PromptAssumption DEF DocInv, DocTypes, PlaceDocs
<1>9. i \in 1..Len(picked) /\ picked[i] \in Picked /\ separator \in Nat /\ separator <= Separator
  BY <1>1, <1>2, <1>8
<1>10. Excludes' = Excludes /\ readDocs' = i /\ picked' = picked
  BY DEF Excludes
<1>11. readDocs' <= Len(picked)
  BY <1>1, <1>8, <1>10
<1>12. d.blocks # <<>> => \E k \in 1..i : d.blocks[n].doc = picked[k]
  BY <1>1, <1>8 DEF ReadSoFar
<1>13. \A j \in 1..n : d.blocks[j].whole
  BY <1>1, <1>8 DEF ReadSoFar
<1>14. CASE e = [d EXCEPT !.ended = TRUE] /\ d.used + Separator >= DocMaxBytes
  <2>1. e.blocks = d.blocks /\ e.used = d.used /\ e.ended = TRUE /\ e \in PlaceDocs
    BY <1>14 DEF PlaceDocs
  <2>2. PlaceKeeps(e)'
    BY <1>10, <1>14, <2>1 DEF PlaceKeeps
  <2>3. ReadSoFar(e)'
    BY <1>1, <1>10, <1>11, <1>12, <2>1 DEF ReadSoFar
  <2> QED BY <2>1, <2>2, <2>3
<1>15. CASE e = d
  <2>1. PlaceKeeps(e)'
    BY <1>10, <1>15 DEF PlaceKeeps
  <2>2. ReadSoFar(e)'
    BY <1>1, <1>10, <1>11, <1>12, <1>13, <1>15 DEF ReadSoFar
  <2> QED BY <1>15, <2>1, <2>2
<1>16. CASE /\ d.used + separator < DocMaxBytes
            /\ e = [blocks |-> Append(d.blocks, block),
                    used |-> d.used + separator + told + (IF size <= remaining THEN 0 ELSE mark),
                    ended |-> size > remaining]
  <2>15. PICK over : over = IF size <= remaining THEN 0 ELSE mark
    OBVIOUS
  <2>16. d.used + separator < DocMaxBytes
    BY <1>16
  <2>17. PICK used : used = d.used
    OBVIOUS
  <2>18. /\ used \in Nat /\ DocMaxBytes \in Nat /\ separator \in Nat
         /\ remaining = DocMaxBytes - used - separator /\ used + separator < DocMaxBytes
    BY <1>3, <1>8, <1>9, <2>16, <2>17
  <2>19. remaining \in Nat /\ remaining + used + separator = DocMaxBytes
    BY <2>18
  <2>1. remaining \in Nat /\ mark \in Nat /\ mark <= remaining /\ told \in Nat
        /\ over \in Nat /\ told + over <= remaining
    BY <1>4, <1>5, <1>8, <2>15, <2>19
  <2>2. block \in Block
    BY <1>6, <1>9, <2>1 DEF Block
  <2>3. PICK bs : bs = Append(d.blocks, block)
    OBVIOUS
  <2>4. /\ bs \in Seq(Block) /\ Len(bs) = n + 1 /\ bs[n + 1] = block
        /\ \A j \in 1..n : bs[j] = d.blocks[j]
    BY <1>1, <1>8, <2>2, <2>3, AppendProperties
  <2>23. PICK all : all = used + separator + told + over
    OBVIOUS
  <2>20. PICK cut \in BOOLEAN : cut <=> ~(size <= remaining)
    OBVIOUS
  <2>21. (size > remaining) = cut
    BY <2>1, <2>20
  <2>5. e = [blocks |-> bs, used |-> all, ended |-> cut]
    BY <1>16, <2>3, <2>15, <2>17, <2>23, <2>21, Zenon
  <2>22. e.used = all /\ e.blocks = bs /\ e.ended = cut
    BY <2>5
  <2>6. all \in Nat /\ all <= DocMaxBytes
    BY <2>1, <2>18, <2>19, <2>23
  <2>7. e \in PlaceDocs
    BY <2>4, <2>5, <2>6 DEF PlaceDocs
  <2>8. block.doc = picked[i] /\ block.whole = (size <= remaining) /\ block.doc.name \notin Excludes
    BY <1>6, <1>9 DEF DocInv, PickedDown
  <2>9. \A j \in 1..n : d.blocks[j].doc.name \notin Excludes
        /\ (j < n => d.blocks[j].doc.dir < d.blocks[j + 1].doc.dir)
    BY <1>1 DEF PlaceKeeps
  <2>10. n # 0 => d.blocks[n].doc.dir < block.doc.dir
    <3> SUFFICES ASSUME n # 0 PROVE d.blocks[n].doc.dir < block.doc.dir
      OBVIOUS
    <3>1. PICK k \in 1..readDocs : d.blocks[n].doc = picked[k]
      BY <1>1, <1>8 DEF ReadSoFar
    <3>2. k \in 1..Len(picked) /\ k < i
      BY <1>1, <1>8, <1>9, <3>1
    <3> QED BY <1>9, <2>8, <3>1, <3>2 DEF DocInv, PickedDown
  <2>11. ASSUME NEW j \in 1..n + 1
         PROVE  /\ bs[j].doc.name \notin Excludes
                /\ j < n + 1 => bs[j].whole /\ bs[j].doc.dir < bs[j + 1].doc.dir
    <3>1. CASE j = n + 1
      BY <1>8, <2>4, <2>8, <3>1
    <3>2. CASE j = n
      BY <1>8, <1>13, <2>4, <2>9, <2>10, <3>2
    <3>3. CASE j \in 1..n /\ j < n
      <4>1. j + 1 \in 1..n
        BY <1>8, <3>3
      <4> QED BY <1>13, <2>4, <2>9, <3>3, <4>1
    <3> QED BY <1>8, <3>1, <3>2, <3>3
  <2>12. bs # <<>>
    BY <1>8, <2>4
  <2>13. PlaceKeeps(e)'
    <3>1. e.ended => bs # <<>> /\ ~bs[Len(bs)].whole
      BY <2>4, <2>8, <2>12, <2>20, <2>22
    <3> QED BY <1>10, <2>4, <2>6, <2>11, <2>22, <3>1 DEF PlaceKeeps
  <2>14. ReadSoFar(e)'
    <3>1. i \in 1..i /\ bs[Len(bs)].doc = picked[i]
      BY <1>9, <2>4, <2>8
    <3>2. ~e.ended => \A j \in 1..n + 1 : bs[j].whole
      <4> SUFFICES ASSUME size <= remaining, NEW j \in 1..n + 1 PROVE bs[j].whole
        BY <2>20, <2>22
      <4>1. j \in 1..n \/ j = n + 1
        BY <1>8
      <4> QED BY <1>13, <2>4, <2>8, <4>1
    <3> QED BY <1>10, <1>11, <2>4, <2>22, <3>1, <3>2 DEF ReadSoFar
  <2> QED BY <2>7, <2>13, <2>14
<1>17. d.used >= DocMaxBytes \/ d.used + separator >= DocMaxBytes =>
         d.used + Separator >= DocMaxBytes
  BY <1>8, <1>9
<1>18. ~(d.used + separator >= DocMaxBytes) => d.used + separator < DocMaxBytes
  BY <1>8, <1>9
<1> QED BY <1>7, <1>14, <1>15, <1>16, <1>17, <1>18

\* A document is picked.
LEMMA PickStep ==
  ASSUME DocInv, NEW there, PickDocument(there)
  PROVE  DocInv'
PROOF
<1>1. PICK free, l : free = {k \in 1..Len(Names) : Names[k] \in there \ Excludes} /\ l = looked + 1
  OBVIOUS
<1>2. /\ stage = "documents" /\ l \in Directories /\ looked' = l
      /\ picked' = IF free = {} THEN picked
                   ELSE Append(picked, [dir |-> l, name |-> Names[Lowest(free)]])
      /\ UNCHANGED <<stage, merged, readDocs, docs>>
  BY <1>1 DEF PickDocument
<1>3. /\ DocTypes /\ looked \in Nat /\ picked \in Seq(Picked) /\ Len(picked) \in Nat
      /\ Depth \in Nat
  BY PromptAssumption DEF DocInv, DocTypes
<1>4. l \in Nat /\ l > looked /\ l <= Depth /\ Excludes' = Excludes
  BY <1>1, <1>2, <1>3 DEF Directories, Excludes
<1>5. ~Reading'
  BY <1>2, <1>3, <1>4 DEF Reading
<1>6. AllKeep'
  BY <1>2, <1>4 DEF DocInv, AllKeep, PlaceKeeps
<1>7. PickedDown' /\ picked' \in Seq(Picked)
  <2>1. CASE free = {}
    <3>1. \A i \in 1..Len(picked) : picked[i] \in Picked
      BY <1>3
    <3>2. \A i \in 1..Len(picked) : picked[i].dir \in Nat
      BY <3>1 DEF Picked
    <3> QED BY <1>2, <1>3, <1>4, <2>1, <3>2 DEF DocInv, PickedDown
  <2>2. CASE free # {}
    <3>1. free \subseteq 1..3
      BY <1>1 DEF Names
    <3>12. free \subseteq Nat
      BY <3>1
    <3>2. PICK k \in free : \A j \in free : k <= j
      BY <2>2, <3>12, FirstOf
    <3>3. Lowest(free) \in free
      BY <3>2, Zenon DEF Lowest
    <3>4. PICK x : x = [dir |-> l, name |-> Names[Lowest(free)]]
      OBVIOUS
    <3>5. x.dir = l /\ x.name \notin Excludes /\ x \in Picked
      <4>1. Names[Lowest(free)] \notin Excludes
        BY <1>1, <3>3
      <4>2. Names[Lowest(free)] \in {"override", "agents", "claude"}
        <5>1. \A m \in 1..3 : Names[m] \in {"override", "agents", "claude"}
          BY DEF Names
        <5> QED BY <3>1, <3>3, <5>1
      <4> QED BY <1>4, <3>4, <4>1, <4>2 DEF Picked
    <3>6. PICK n, w : n = Len(picked) /\ w = picked'
      OBVIOUS
    <3>7. /\ n \in Nat /\ w \in Seq(Picked) /\ Len(w) = n + 1 /\ w[n + 1] = x
          /\ \A i \in 1..n : w[i] = picked[i]
      BY <1>2, <1>3, <2>2, <3>4, <3>5, <3>6, AppendProperties
    <3>8. \A i \in 1..n : picked[i].name \notin Excludes /\ picked[i].dir <= looked
                         /\ picked[i].dir \in Nat
      <4>1. \A i \in 1..n : picked[i] \in Picked
        BY <1>3, <3>6
      <4> QED BY <3>6, <4>1 DEF DocInv, PickedDown, Picked
    <3>9. \A i \in 1..n + 1 :
            w[i].name \notin Excludes /\ w[i].dir <= l /\ (i # n + 1 => i \in 1..n /\ w[i].dir < l)
      <4> SUFFICES ASSUME NEW i \in 1..n + 1
                   PROVE  /\ w[i].name \notin Excludes /\ w[i].dir <= l
                          /\ i # n + 1 => i \in 1..n /\ w[i].dir < l
        OBVIOUS
      <4>1. CASE i = n + 1
        BY <1>4, <3>5, <3>7, <4>1
      <4>2. CASE i \in 1..n
        BY <1>3, <1>4, <3>7, <3>8, <4>2
      <4> QED BY <3>7, <4>1, <4>2
    <3>10. ASSUME NEW i \in 1..n + 1, NEW j \in 1..n + 1, i < j
           PROVE  w[i].dir < w[j].dir
      <4>1. i \in 1..n
        BY <3>7, <3>10
      <4>2. CASE j = n + 1
        BY <3>5, <3>7, <3>9, <4>1, <4>2
      <4>3. CASE j # n + 1
        BY <3>6, <3>7, <3>9, <3>10, <4>1, <4>3 DEF DocInv, PickedDown
      <4> QED BY <4>2, <4>3
    <3>11. picked' = w /\ Len(w) = n + 1 /\ looked' = l
      BY <1>2, <3>6, <3>7
    <3> QED BY <1>4, <3>7, <3>9, <3>10, <3>11 DEF PickedDown
  <2> QED BY <2>1, <2>2
<1>8. DocTypes' /\ NothingYet'
  BY <1>2, <1>3, <1>4, <1>7 DEF DocTypes, NothingYet
<1> QED BY <1>5, <1>6, <1>7, <1>8 DEF DocInv, PlaceAtWork

\* A document is read.
LEMMA ReadDocStep ==
  ASSUME DocInv, NEW size \in Nat, ReadDocument(size)
  PROVE  DocInv'
PROOF
<1>1. PICK n, i, d, e : /\ n = Len(docs) /\ i = readDocs + 1 /\ d = docs[n]
                        /\ e = WithDocument(d, i, size)
  OBVIOUS
<1>2. /\ Reading /\ readDocs < Len(picked) /\ ~d.ended /\ readDocs' = i
      /\ docs' = [docs EXCEPT ![n] = e]
      /\ UNCHANGED <<stage, merged, picked, looked>>
  BY <1>1 DEF ReadDocument, LastOf
<1>3. DocTypes /\ docs \in Seq(PlaceDocs) /\ docs # <<>> /\ ReadSoFar(d) /\ readDocs \in Nat
  BY <1>1, <1>2 DEF DocInv, DocTypes, PlaceAtWork
<1>4. n \in Nat /\ n \in 1..n /\ i \in Nat
  BY <1>1, <1>3, EmptySeq
<1>5. d \in PlaceDocs /\ PlaceKeeps(d)
  BY <1>1, <1>3, <1>4 DEF DocInv, AllKeep
<1>6. e \in PlaceDocs /\ PlaceKeeps(e)' /\ ReadSoFar(e)'
  BY <1>1, <1>2, <1>3, <1>5, OneMore
<1>7. /\ docs' \in Seq(PlaceDocs) /\ Len(docs') = n /\ docs'[n] = e
      /\ \A p \in 1..n : p # n => docs'[p] = docs[p]
  BY <1>1, <1>2, <1>3, <1>4, <1>6, ExceptSeq
<1>8. Excludes' = Excludes
  BY <1>2 DEF Excludes
<1>9. AllKeep'
  <2>1. ASSUME NEW p \in 1..n, NEW c, c = docs'[p] PROVE PlaceKeeps(c)'
    <3>1. CASE p = n
      BY <1>6, <1>7, <2>1, <3>1
    <3>2. CASE p # n
      <4>1. PlaceKeeps(c)
        BY <1>1, <1>7, <2>1, <3>2 DEF DocInv, AllKeep
      <4> QED BY <1>8, <4>1 DEF PlaceKeeps
    <3> QED BY <3>1, <3>2
  <2> QED BY <1>7, <2>1 DEF AllKeep
<1>10. docs' # <<>>
  BY <1>4, <1>7, EmptySeq
<1>11. PlaceAtWork'
  BY <1>6, <1>7, <1>10 DEF PlaceAtWork
<1>12. PickedDown' /\ DocTypes' /\ NothingYet'
  BY <1>2, <1>3, <1>4, <1>7, <1>8 DEF DocInv, PickedDown, DocTypes, NothingYet, Reading
<1> QED BY <1>9, <1>11, <1>12 DEF DocInv

\* The reading of a place begins or ends.
LEMMA PlaceStep ==
  ASSUME DocInv, BeginDocuments \/ EndDocuments
  PROVE  DocInv'
PROOF
<1>1. DocTypes /\ docs \in Seq(PlaceDocs) /\ Depth \in Nat /\ looked \in Nat /\ readDocs \in Nat
      /\ picked \in Seq(Picked) /\ DocMaxBytes \in Nat
  BY PromptAssumption DEF DocInv, DocTypes
<1>2. CASE BeginDocuments
  <2>1. /\ stage = "documents" /\ looked = Depth /\ looked' = Depth + 1 /\ readDocs' = 0
        /\ docs' = Append(docs, NoDocs) /\ UNCHANGED <<stage, merged, picked>>
    BY <1>2 DEF BeginDocuments
  <2>2. PICK n : n = Len(docs)
    OBVIOUS
  <2>3. NoDocs \in PlaceDocs /\ Len(NoDocs.blocks) = 0 /\ NoDocs.blocks = <<>>
        /\ NoDocs.used = 0 /\ NoDocs.ended = FALSE
    <3>1. <<>> \in Seq(Block) /\ Len(<<>>) = 0
      OBVIOUS
    <3> QED BY <3>1 DEF NoDocs, PlaceDocs
  <2>4. /\ n \in Nat /\ docs' \in Seq(PlaceDocs) /\ Len(docs') = n + 1 /\ docs'[n + 1] = NoDocs
        /\ \A p \in 1..n : docs'[p] = docs[p]
    BY <1>1, <2>1, <2>2, <2>3, AppendProperties
  <2>5. Excludes' = Excludes /\ looked' >= looked
    BY <1>1, <2>1 DEF Excludes
  <2>6. PlaceKeeps(NoDocs)'
    BY <1>1, <2>3 DEF PlaceKeeps
  <2>7. ReadSoFar(NoDocs)'
    BY <1>1, <2>1, <2>3 DEF ReadSoFar
  <2>8. AllKeep'
    <3>1. ASSUME NEW p \in 1..n + 1, NEW c, c = docs'[p] PROVE PlaceKeeps(c)'
      <4>1. CASE p = n + 1
        BY <2>4, <2>6, <3>1, <4>1
      <4>2. CASE p \in 1..n
        <5>1. PlaceKeeps(c)
          BY <2>2, <2>4, <3>1, <4>2 DEF DocInv, AllKeep
        <5> QED BY <2>5, <5>1 DEF PlaceKeeps
      <4> QED BY <2>4, <4>1, <4>2
    <3> QED BY <2>4, <3>1 DEF AllKeep
  <2>9. docs' # <<>>
    BY <2>4
  <2>10. PlaceAtWork'
    BY <2>4, <2>7, <2>9 DEF PlaceAtWork
  <2>11. DocTypes' /\ NothingYet'
    BY <1>1, <2>1, <2>4 DEF DocTypes, NothingYet
  <2>12. PickedDown'
    <3>1. \A i \in 1..Len(picked) : picked[i].dir \in Nat
      <4>1. \A i \in 1..Len(picked) : picked[i] \in Picked
        BY <1>1
      <4> QED BY <4>1 DEF Picked
    <3> QED BY <1>1, <2>1, <2>5, <3>1 DEF DocInv, PickedDown
  <2> QED BY <2>8, <2>10, <2>11, <2>12 DEF DocInv
<1>3. CASE EndDocuments
  <2>1. /\ stage = "documents" /\ looked' = 0 /\ readDocs' = 0 /\ picked' = <<>>
        /\ stage' \in {"rules", "documents"} /\ UNCHANGED <<merged, docs>>
    BY <1>3 DEF EndDocuments, Reading
  <2>2. Excludes' = Excludes /\ <<>> \in Seq(Picked) /\ Len(<<>>) = 0
    BY <2>1 DEF Excludes
  <2>3. AllKeep'
    BY <2>1, <2>2 DEF DocInv, AllKeep, PlaceKeeps
  <2>4. ~Reading'
    BY <1>1, <2>1, PromptAssumption DEF Reading
  <2>5. DocTypes' /\ NothingYet'
    BY <1>1, <2>1, <2>2 DEF DocTypes, NothingYet, Stages
  <2>6. PickedDown'
    BY <2>1, <2>2 DEF PickedDown
  <2> QED BY <2>3, <2>4, <2>5, <2>6 DEF DocInv, PlaceAtWork
<1> QED BY <1>2, <1>3

\* Steps that leave the documents alone, and the settings once there are documents.
LEMMA DocsStand ==
  ASSUME DocInv, UNCHANGED <<looked, readDocs, picked, docs>>,
         stage' = stage \/ (stage' \in Stages /\ ~Reading'),
         merged' = merged \/ stage \in {"settings", "merged"},
         stage' \in {"settings", "merged"} => stage \in {"settings", "merged"}
  PROVE  DocInv'
PROOF
<1>1. DocTypes' /\ NothingYet'
  BY DEF DocInv, DocTypes, NothingYet
<1>2. CASE merged' = merged
  <2>1. Excludes' = Excludes
    BY <1>2 DEF Excludes
  <2>2. AllKeep' /\ PickedDown'
    BY <2>1 DEF DocInv, AllKeep, PlaceKeeps, PickedDown
  <2>3. PlaceAtWork'
    BY DEF DocInv, PlaceAtWork, ReadSoFar, Reading
  <2> QED BY <1>1, <2>2, <2>3 DEF DocInv
<1>3. CASE stage \in {"settings", "merged"}
  <2>1. docs' = <<>> /\ picked' = <<>> /\ Len(<<>>) = 0
    BY <1>3 DEF DocInv, NothingYet
  <2>2. AllKeep' /\ PickedDown'
    BY <2>1 DEF AllKeep, PickedDown
  <2>3. PlaceAtWork'
    BY <1>3 DEF PlaceAtWork, Reading
  <2> QED BY <1>1, <2>2, <2>3 DEF DocInv
<1> QED BY <1>2, <1>3

-------------------------------------------------------------------------------
(* The merge of the settings.                                                 *)

\* No list says a thing twice.
Once(s) == \A i, j \in 1..Len(s) : s[i] = s[j] => i = j
DenyValues ==
  {v \in [kind : {"none", "text", "list"}, items : Seq(Nat)] :
     Once(v.items) /\ (v.kind # "list" => v.items = <<>>)}
OtherValues ==
  [kind : {"none", "text", "list"}, items : Seq({"override", "agents", "claude"})]
Nodes == [kind : {"none", "text", "map"}, deny : DenyValues, excludes : OtherValues]
LayerNames == {"user", "project", "local", "cli", "managed"}
Mergeds == [value : Nodes, top : Seq(LayerNames), deny : Seq(LayerNames),
            excludes : Seq(LayerNames)]

\* f goes on by g from x, to n; and g stays within X.
Unfolds(f, n, x, g) == f[0] = x /\ \A i \in 1..n : f[i] = g[<<i, f[i - 1]>>]
StaysIn(g, n, X) == \A i \in 1..n : \A y \in X : g[<<i, y>>] \in X

\* A function by recursion over the numbers to n.
LEMMA Recursion ==
  ASSUME NEW n \in Nat, NEW X, NEW x \in X, NEW g, StaysIn(g, n, X)
  PROVE  \E f \in [0..n -> X] : Unfolds(f, n, x, g)
PROOF
<1> USE DEF Unfolds, StaysIn
<1> DEFINE Made(f, k) == /\ f \in [0..k -> X] /\ f[0] = x
                         /\ \A i \in 1..k : f[i] = g[<<i, f[i - 1]>>]
           S == {k \in 0..n : \E f : Made(f, k)}
<1>1. 0 \in S
  <2>1. PICK f : f = [i \in 0..0 |-> x]
    OBVIOUS
  <2>2. f \in [0..0 -> X] /\ f[0] = x /\ 1..0 = {}
    BY <2>1
  <2>3. Made(f, 0)
    BY <2>2
  <2> QED BY <2>3
<1>2. ASSUME NEW k \in 0..n, k # n, k \in S PROVE k + 1 \in S
  <2>1. PICK f : Made(f, k)
    BY <1>2
  <2>2. PICK q : q = k + 1
    OBVIOUS
  <2>3. q \in 1..n /\ k \in 0..k /\ q \in 0..n
    BY <1>2, <2>2
  <2>4. PICK y : y = g[<<q, f[k]>>]
    OBVIOUS
  <2>5. y \in X
    BY <2>1, <2>3, <2>4
  <2>6. PICK h : h = [j \in 0..q |-> IF j = q THEN y ELSE f[j]]
    OBVIOUS
  <2>7. h \in [0..q -> X]
    <3>1. \A j \in 0..q : j # q => j \in 0..k
      BY <1>2, <2>2
    <3>2. \A j \in 0..q : (IF j = q THEN y ELSE f[j]) \in X
      BY <2>1, <2>5, <3>1
    <3> QED BY <2>6, <3>2
  <2>8. h[0] = x
    <3>1. 0 \in 0..q /\ 0 # q
      BY <2>3
    <3> QED BY <2>1, <2>6, <3>1
  <2>9. ASSUME NEW i \in 1..q PROVE h[i] = g[<<i, h[i - 1]>>]
    <3>1. i \in 0..q /\ i - 1 \in 0..q /\ i - 1 # q
      BY <2>3
    <3>2. h[i - 1] = f[i - 1]
      BY <2>6, <3>1
    <3>3. CASE i = q
      <4>1. h[i] = y /\ i - 1 = k
        BY <1>2, <2>2, <2>6, <3>1, <3>3
      <4> QED BY <2>4, <3>2, <3>3, <4>1
    <3>4. CASE i # q
      <4>1. i \in 1..k /\ h[i] = f[i]
        BY <1>2, <2>2, <2>6, <3>1, <3>4
      <4> QED BY <2>1, <3>2, <4>1
    <3> QED BY <3>3, <3>4
  <2>10. Made(h, q)
    BY <2>7, <2>8, <2>9
  <2> HIDE DEF Made
  <2> QED BY <2>2, <2>3, <2>10
<1> HIDE DEF Made
<1> HIDE DEF S
<1>3. 0..n \subseteq S
  BY <1>1, <1>2, Stepwise
<1>4. n \in S
  BY <1>3
<1>5. \E f : Made(f, n)
  BY <1>4 DEF S
<1> QED BY <1>5 DEF Made

\* Two lists joined: what is in one of them, once, first the first as it stands.
LEMMA JoinIs ==
  ASSUME NEW s \in Seq(Nat), NEW t \in Seq(Nat), Once(s), NEW u, u = UniquelyJoined(s, t)
  PROVE  /\ u \in Seq(Nat) /\ Once(u) /\ ItemsOf(u) = ItemsOf(s) \cup ItemsOf(t)
         /\ Len(s) <= Len(u) /\ \A i \in 1..Len(s) : u[i] = s[i]
PROOF
<1>1. PICK w, n, l : w = s \o t /\ n = Len(w) /\ l = Len(s)
  OBVIOUS
<1>2. /\ w \in Seq(Nat) /\ l \in Nat /\ Len(t) \in Nat /\ n = l + Len(t)
      /\ \A i \in 1..l : w[i] = s[i]
      /\ \A i \in 1..Len(t) : w[l + i] = t[i]
  BY <1>1, ConcatProperties
<1>3. PICK g : g = [p \in (1..n) \X Seq(Nat) |->
                      IF w[p[1]] \in ItemsOf(p[2]) THEN p[2] ELSE Append(p[2], w[p[1]])]
  OBVIOUS
<1>4. ASSUME NEW i \in 1..n, NEW y \in Seq(Nat)
      PROVE  /\ g[<<i, y>>] = IF w[i] \in ItemsOf(y) THEN y ELSE Append(y, w[i])
             /\ g[<<i, y>>] \in Seq(Nat)
  <2>1. w[i] \in Nat
    BY <1>1, <1>2
  <2>2. g[<<i, y>>] = IF w[i] \in ItemsOf(y) THEN y ELSE Append(y, w[i])
    BY <1>3
  <2> QED BY <2>1, <2>2
<1>5. PICK f \in [0..n -> Seq(Nat)] :
        f[0] = <<>> /\ \A i \in 1..n : f[i] = g[<<i, f[i - 1]>>]
  <2>1. n \in Nat /\ <<>> \in Seq(Nat) /\ StaysIn(g, n, Seq(Nat))
    BY <1>1, <1>2, <1>4 DEF StaysIn
  <2>2. \E f \in [0..n -> Seq(Nat)] : Unfolds(f, n, <<>>, g)
    BY <2>1, Recursion
  <2> QED BY <2>2 DEF Unfolds
<1>6. \A i \in 1..n :
        /\ f[i - 1] \in Seq(Nat)
        /\ f[i] = IF w[i] \in ItemsOf(f[i - 1]) THEN f[i - 1] ELSE Append(f[i - 1], w[i])
  <2> SUFFICES ASSUME NEW i \in 1..n
               PROVE  /\ f[i - 1] \in Seq(Nat)
                      /\ f[i] = IF w[i] \in ItemsOf(f[i - 1]) THEN f[i - 1]
                                ELSE Append(f[i - 1], w[i])
    OBVIOUS
  <2>1. i - 1 \in 0..n
    BY <1>1, <1>2
  <2> QED BY <1>4, <1>5, <2>1
<1> DEFINE Body(x, i) == IF i = 0 THEN <<>>
                         ELSE IF w[i] \in ItemsOf(x[i - 1]) THEN x[i - 1]
                         ELSE Append(x[i - 1], w[i])
<1>7. \A i \in 0..n : f[i] = Body(f, i)
  <2> SUFFICES ASSUME NEW i \in 0..n PROVE f[i] = Body(f, i)
    OBVIOUS
  <2>1. i = 0 \/ i \in 1..n
    BY <1>1, <1>2
  <2> QED BY <1>5, <1>6, <2>1
<1>8. f = [i \in 0..n |-> Body(f, i)]
  BY <1>7
<1>9. PICK h : h = CHOOSE x : x = [i \in 0..n |-> Body(x, i)]
  OBVIOUS
<1>10. u = h[n]
  BY <1>1, <1>9 DEF UniquelyJoined
<1>11. h = [i \in 0..n |-> Body(h, i)]
  <2> HIDE DEF Body
  <2>1. \E x : x = [i \in 0..n |-> Body(x, i)]
    BY <1>8, Zenon
  <2> QED BY <1>9, <2>1, Zenon
<1> DEFINE Fine(i) == /\ h[i] \in Seq(Nat) /\ Once(h[i])
                      /\ ItemsOf(h[i]) = {w[j] : j \in 1..i}
                      /\ i <= l => Len(h[i]) = i
                      /\ l <= i => l <= Len(h[i])
                      /\ \A j \in 1..Len(h[i]) : j <= l => h[i][j] = s[j]
           S == {i \in 0..n : Fine(i)}
<1>12. h[0] = <<>> /\ \A i \in 0..n : i # n =>
         h[i + 1] = IF w[i + 1] \in ItemsOf(h[i]) THEN h[i] ELSE Append(h[i], w[i + 1])
  <2>1. \A i \in 0..n : h[i] = Body(h, i)
    BY <1>11
  <2>2. 0 \in 0..n /\ \A i \in 0..n : i # n => i + 1 \in 0..n /\ i + 1 # 0 /\ i + 1 - 1 = i
    BY <1>1, <1>2
  <2>3. h[0] = <<>>
    BY <2>1, <2>2
  <2>4. ASSUME NEW i \in 0..n, i # n
        PROVE  h[i + 1] = IF w[i + 1] \in ItemsOf(h[i]) THEN h[i] ELSE Append(h[i], w[i + 1])
    <3>1. h[i + 1] = Body(h, i + 1) /\ i + 1 # 0 /\ i + 1 - 1 = i
      BY <2>1, <2>2, <2>4
    <3> QED BY <3>1
  <2> QED BY <2>3, <2>4
<1>13. 0 \in S
  <2>1. 0 \in 0..n /\ <<>> \in Seq(Nat) /\ Len(<<>>) = 0 /\ 1..0 = {}
    BY <1>1, <1>2
  <2> QED BY <1>2, <1>12, <2>1 DEF Once, ItemsOf
<1>14. ASSUME NEW i \in 0..n, i # n, i \in S PROVE i + 1 \in S
  <2>1. PICK a, b, q, c : a = h[i] /\ q = i + 1 /\ b = h[q] /\ c = w[q]
    OBVIOUS
  <2>9. i \in Nat /\ n \in Nat /\ q \in 1..n /\ q \in 0..n
    BY <1>1, <1>2, <1>14, <2>1
  <2>10. c \in Nat
    BY <1>1, <1>2, <2>1, <2>9
  <2>11. b = IF c \in ItemsOf(a) THEN a ELSE Append(a, c)
    BY <1>12, <1>14, <2>1
  <2>2. /\ i \in Nat /\ q \in 1..n /\ q \in 0..n /\ c \in Nat /\ n \in Nat
        /\ b = IF c \in ItemsOf(a) THEN a ELSE Append(a, c)
    BY <2>9, <2>10, <2>11
  <2>3. /\ a \in Seq(Nat) /\ Once(a) /\ ItemsOf(a) = {w[j] : j \in 1..i}
        /\ i <= l => Len(a) = i
        /\ l <= i => l <= Len(a)
        /\ \A j \in 1..Len(a) : j <= l => a[j] = s[j]
    BY <1>14, <2>1
  <2>4. {w[j] : j \in 1..q} = {w[j] : j \in 1..i} \cup {c}
    <3>1. 1..q = (1..i) \cup {q}
      BY <2>1, <2>2
    <3> QED BY <2>1, <3>1
  <2>5. PICK m : m = Len(a)
    OBVIOUS
  <2>6. m \in Nat
    BY <2>3, <2>5
  <2>7. CASE c \in ItemsOf(a)
    <3>1. b = a /\ ItemsOf(b) = {w[j] : j \in 1..q}
      BY <2>2, <2>3, <2>4, <2>7
    <3>2. l <= i
      <4> SUFFICES ASSUME ~(l <= i) PROVE FALSE
        OBVIOUS
      <4>1. q \in 1..l /\ m = i /\ i <= l
        BY <1>2, <2>1, <2>2, <2>3, <2>5
      <4>2. PICK j \in 1..m : a[j] = c
        BY <2>5, <2>7 DEF ItemsOf
      <4>3. j \in 1..l /\ a[j] = s[j] /\ j # q
        BY <2>1, <2>2, <2>3, <2>5, <4>1, <4>2, <1>2
      <4>4. s[q] = s[j]
        BY <1>2, <2>1, <4>1, <4>2, <4>3
      <4> QED BY <1>1, <4>1, <4>3, <4>4 DEF Once
    <3>3. l <= q /\ (q <= l => FALSE)
      BY <1>2, <2>1, <2>2, <3>2
    <3>4. Fine(q)
      BY <2>1, <2>3, <3>1, <3>2, <3>3
    <3> QED BY <2>1, <2>2, <3>4
  <2>8. CASE c \notin ItemsOf(a)
    <3>1. /\ b \in Seq(Nat) /\ Len(b) = m + 1 /\ b[m + 1] = c
          /\ \A j \in 1..m : b[j] = a[j]
      BY <2>2, <2>3, <2>5, <2>8, AppendProperties
    <3>2. \A j \in 1..m + 1 : j \in 1..m \/ j = m + 1
      BY <2>6
    <3>3. ItemsOf(b) = ItemsOf(a) \cup {c}
      <4>1. \A x \in ItemsOf(b) : x \in ItemsOf(a) \/ x = c
        BY <2>5, <3>1, <3>2 DEF ItemsOf
      <4>2. \A x \in ItemsOf(a) : x \in ItemsOf(b)
        BY <2>5, <2>6, <3>1 DEF ItemsOf
      <4>3. c \in ItemsOf(b)
        BY <2>6, <3>1 DEF ItemsOf
      <4> QED BY <4>1, <4>2, <4>3
    <3>4. Once(b)
      <4> SUFFICES ASSUME NEW j \in 1..m + 1, NEW k \in 1..m + 1, b[j] = b[k] PROVE j = k
        BY <3>1 DEF Once
      <4>1. \A j1 \in 1..m : a[j1] # c
        BY <2>5, <2>8 DEF ItemsOf
      <4>2. \A j1, k1 \in 1..m : a[j1] = a[k1] => j1 = k1
        BY <2>3, <2>5 DEF Once
      <4> QED BY <3>1, <3>2, <4>1, <4>2
    <3>5. /\ q <= l => Len(b) = q
          /\ l <= q => l <= Len(b)
      <4>1. i <= l \/ l <= i
        BY <1>2, <2>2
      <4>2. CASE i <= l
        BY <1>2, <2>1, <2>2, <2>3, <2>5, <3>1, <4>2
      <4>3. CASE l <= i
        BY <1>2, <2>1, <2>2, <2>3, <2>5, <2>6, <3>1, <4>3
      <4> QED BY <4>1, <4>2, <4>3
    <3>6. ASSUME NEW j \in 1..Len(b), j <= l PROVE b[j] = s[j]
      <4>1. CASE j \in 1..m
        BY <2>3, <2>5, <3>1, <3>6, <4>1
      <4>2. CASE j = m + 1
        <5>1. m < l
          BY <1>2, <2>6, <3>6, <4>2
        <5>2. i <= l
          BY <1>2, <2>2, <2>3, <2>5, <2>6, <5>1
        <5>3. m = i /\ q = m + 1 /\ q \in 1..l
          BY <1>2, <2>1, <2>2, <2>3, <2>5, <5>1, <5>2
        <5> QED BY <1>2, <2>1, <3>1, <4>2, <5>3
      <4> QED BY <3>1, <3>2, <4>1, <4>2
    <3>7. Fine(q)
      BY <2>1, <2>3, <2>4, <3>1, <3>3, <3>4, <3>5, <3>6
    <3> QED BY <2>1, <2>2, <3>7
  <2> QED BY <2>7, <2>8
<1>15. n \in S
  <2> HIDE DEF S, Fine, Body
  <2>1. n \in Nat /\ n \in 0..n
    BY <1>1, <1>2
  <2>2. 0..n \subseteq S
    BY <1>13, <1>14, <2>1, Stepwise
  <2> QED BY <2>1, <2>2
<1>16. Fine(n) /\ l <= n
  <2>1. l <= n
    BY <1>2
  <2>2. Fine(n)
    <3> HIDE DEF Fine
    <3> QED BY <1>15
  <2> QED BY <2>1, <2>2
<1>17. {w[j] : j \in 1..n} = ItemsOf(s) \cup ItemsOf(t)
  <2>1. ASSUME NEW j \in 1..n PROVE w[j] \in ItemsOf(s) \cup ItemsOf(t)
    <3>1. CASE j <= l
      BY <1>1, <1>2, <3>1 DEF ItemsOf
    <3>2. CASE j > l
      <4>1. PICK k : k = j - l
        OBVIOUS
      <4>2. k \in 1..Len(t) /\ j = l + k
        BY <1>2, <3>2, <4>1
      <4> QED BY <1>2, <4>2 DEF ItemsOf
    <3> QED BY <1>2, <3>1, <3>2
  <2>2. ASSUME NEW j \in 1..l PROVE s[j] \in {w[k] : k \in 1..n}
    <3>1. j \in 1..n /\ w[j] = s[j]
      BY <1>2
    <3> QED BY <3>1
  <2>3. ASSUME NEW j \in 1..Len(t) PROVE t[j] \in {w[k] : k \in 1..n}
    <3>1. l + j \in 1..n /\ w[l + j] = t[j]
      BY <1>2
    <3> QED BY <3>1
  <2>4. \A x \in ItemsOf(s) \cup ItemsOf(t) : x \in {w[k] : k \in 1..n}
    BY <1>1, <2>2, <2>3 DEF ItemsOf
  <2> QED BY <2>1, <2>4
<1> HIDE DEF Body, S
<1>18. \A i \in 1..l : i \in 1..Len(h[n]) /\ i <= l
  BY <1>2, <1>16
<1> QED BY <1>1, <1>10, <1>16, <1>17, <1>18
-------------------------------------------------------------------------------
(* What the layers amount to, one layer after the other.                      *)

\* The highest of numbers to n is one of them, and n + 1 is above them.
LEMMA HighestIs ==
  ASSUME NEW n \in Nat, NEW S, S \subseteq 1..n
  PROVE  /\ S # {} => Highest(S) \in S /\ \A j \in S : j <= Highest(S)
         /\ Highest(S) \in 0..n
         /\ Highest(S \cup {n + 1}) = n + 1
PROOF
<1>1. ASSUME S # {} PROVE Highest(S) \in S /\ \A j \in S : j <= Highest(S)
  <2>1. PICK T : T = {n - i : i \in S}
    OBVIOUS
  <2>2. T \subseteq Nat /\ T # {}
    <3>1. \A i \in S : i \in 1..n
      OBVIOUS
    <3>2. \A i \in S : n - i \in Nat
      BY <3>1
    <3> QED BY <1>1, <2>1, <3>2
  <2>3. PICK x \in T : \A y \in T : x <= y
    BY <2>2, FirstOf
  <2>4. PICK i \in S : x = n - i
    BY <2>1, <2>3
  <2>5. \A j \in S : j <= i
    <3> SUFFICES ASSUME NEW j \in S PROVE j <= i
      OBVIOUS
    <3>1. n - i <= n - j /\ i \in 1..n /\ j \in 1..n
      BY <2>1, <2>3, <2>4
    <3> QED BY <3>1
  <2> QED BY <1>1, <2>5 DEF Highest
<1>2. Highest(S) \in 0..n
  <2>1. CASE S = {}
    BY <2>1 DEF Highest
  <2>2. CASE S # {}
    <3>1. Highest(S) \in 1..n
      BY <1>1, <2>2
    <3> QED BY <3>1
  <2> QED BY <2>1, <2>2
<1>3. Highest(S \cup {n + 1}) = n + 1
  <2>1. PICK T, m : T = S \cup {n + 1} /\ m = n + 1
    OBVIOUS
  <2>2. m \in T /\ T # {} /\ \A j \in T : j \in Nat /\ j <= m
    BY <2>1
  <2>3. \A i \in T : (\A j \in T : j <= i) => i = m
    BY <2>1, <2>2
  <2>4. (CHOOSE i \in T : \A j \in T : j <= i) = m
    BY <2>2, <2>3
  <2> QED BY <2>1, <2>2, <2>4 DEF Highest
<1> QED BY <1>1, <1>2, <1>3

\* The lowest of numbers is one of them.
LEMMA LowestIs ==
  ASSUME NEW S, S \subseteq Nat, S # {}
  PROVE  Lowest(S) \in S /\ \A j \in S : Lowest(S) <= j
PROOF
<1>1. \E x \in S : \A y \in S : x <= y
  BY FirstOf
<1> QED BY <1>1 DEF Lowest

\* The layers that count with one layer more.
LEMMA CountingGrows ==
  ASSUME layered \in Seq(Nodes), NEW n \in Nat, n + 1 \in 1..Len(layered),
         NEW v, v = layered[n + 1]
  PROVE  /\ Counting(n) \subseteq 1..n
         /\ v.kind = "text" => Counting(n + 1) = {}
         /\ v.kind = "none" => Counting(n + 1) = Counting(n)
         /\ v.kind = "map" => Counting(n + 1) = Counting(n) \cup {n + 1}
PROOF
<1>1. PICK q : q = n + 1
  OBVIOUS
<1>2. q \in Nat /\ v = layered[q] /\ 1..q = (1..n) \cup {q} /\ q \notin 1..n
  BY <1>1
<1> DEFINE Texts(i) == {j \in 1..i : layered[j].kind = "text"}
<1>3. \A i \in Nat : Texts(i) \subseteq 1..i
  OBVIOUS
<1>4. \A i : Counting(i) = {j \in 1..i : j > Highest(Texts(i)) /\ layered[j].kind = "map"}
  BY DEF Counting
<1>5. CASE v.kind = "text"
  <2>1. Texts(q) = Texts(n) \cup {q}
    BY <1>2, <1>5
  <2> HIDE DEF Texts
  <2>2. Highest(Texts(q)) = q
    BY <1>1, <1>3, <2>1, HighestIs
  <2>3. \A j \in 1..q : ~(j > q)
    BY <1>2
  <2> QED BY <1>1, <1>4, <1>5, <2>2, <2>3
<1>6. CASE v.kind # "text"
  <2>1. Texts(q) = Texts(n)
    BY <1>2, <1>6
  <2> HIDE DEF Texts
  <2>2. PICK h : h = Highest(Texts(n))
    OBVIOUS
  <2>3. h \in 0..n
    BY <1>3, <2>2, HighestIs
  <2>4. q > h
    BY <1>1, <2>3
  <2>5. /\ Counting(n) = {j \in 1..n : j > h /\ layered[j].kind = "map"}
        /\ Counting(q) = {j \in 1..q : j > h /\ layered[j].kind = "map"}
    BY <1>4, <2>1, <2>2
  <2>6. v.kind = "none" => Counting(q) = Counting(n)
    BY <1>2, <2>5
  <2>7. v.kind = "map" => Counting(q) = Counting(n) \cup {q}
    BY <1>2, <2>4, <2>5
  <2> QED BY <1>1, <1>6, <2>5, <2>6, <2>7
<1> QED BY <1>4, <1>5, <1>6

\* The layers that exclude, and those that say something of what is denied.
LEMMA SayingGrows ==
  ASSUME layered \in Seq(Nodes), NEW n \in Nat, n + 1 \in 1..Len(layered),
         NEW v, v = layered[n + 1]
  PROVE  /\ Excluding(n) \subseteq 1..n /\ SayingDeny(n) \subseteq 1..n
         /\ v.kind = "text" => Excluding(n + 1) = {} /\ SayingDeny(n + 1) = {}
         /\ v.kind = "none" => Excluding(n + 1) = Excluding(n) /\ SayingDeny(n + 1) = SayingDeny(n)
         /\ v.kind = "map" =>
              /\ Excluding(n + 1) = IF v.excludes.kind = "none" THEN Excluding(n)
                                    ELSE Excluding(n) \cup {n + 1}
              /\ SayingDeny(n + 1) = IF v.deny.kind = "none" THEN SayingDeny(n)
                                     ELSE SayingDeny(n) \cup {n + 1}
PROOF
<1>1. PICK q : q = n + 1
  OBVIOUS
<1>2. /\ Counting(n) \subseteq 1..n
      /\ v.kind = "text" => Counting(q) = {}
      /\ v.kind = "none" => Counting(q) = Counting(n)
      /\ v.kind = "map" => Counting(q) = Counting(n) \cup {q}
  BY <1>1, CountingGrows
<1>3. v = layered[q]
  BY <1>1
<1> HIDE DEF Counting
<1>4. v.kind = "map" =>
        /\ Excluding(q) = IF v.excludes.kind = "none" THEN Excluding(n) ELSE Excluding(n) \cup {q}
        /\ SayingDeny(q) = IF v.deny.kind = "none" THEN SayingDeny(n) ELSE SayingDeny(n) \cup {q}
  BY <1>2, <1>3 DEF Excluding, SayingDeny
<1>5. v.kind = "text" => Excluding(q) = {} /\ SayingDeny(q) = {}
  BY <1>2 DEF Excluding, SayingDeny
<1>6. v.kind = "none" => Excluding(q) = Excluding(n) /\ SayingDeny(q) = SayingDeny(n)
  BY <1>2 DEF Excluding, SayingDeny
<1>7. Excluding(n) \subseteq 1..n /\ SayingDeny(n) \subseteq 1..n
  BY <1>2 DEF Excluding, SayingDeny
<1> QED BY <1>1, <1>4, <1>5, <1>6, <1>7

\* The layers whose deny lists count.
LEMMA DenyingGrows ==
  ASSUME layered \in Seq(Nodes), NEW n \in Nat, n + 1 \in 1..Len(layered),
         NEW v, v = layered[n + 1]
  PROVE  /\ Denying(n) \subseteq SayingDeny(n)
         /\ v.kind = "text" => Denying(n + 1) = {}
         /\ v.kind = "none" => Denying(n + 1) = Denying(n)
         /\ v.kind = "map" =>
              /\ v.deny.kind = "none" => Denying(n + 1) = Denying(n)
              /\ v.deny.kind = "text" => Denying(n + 1) = {}
              /\ v.deny.kind = "list" => Denying(n + 1) = Denying(n) \cup {n + 1}
PROOF
<1>1. PICK q : q = n + 1
  OBVIOUS
<1>2. /\ SayingDeny(n) \subseteq 1..n
      /\ v.kind = "text" => SayingDeny(q) = {}
      /\ v.kind = "none" => SayingDeny(q) = SayingDeny(n)
      /\ v.kind = "map" => SayingDeny(q) = IF v.deny.kind = "none" THEN SayingDeny(n)
                                           ELSE SayingDeny(n) \cup {q}
  BY <1>1, SayingGrows
<1>3. q \in Nat /\ v = layered[q] /\ q \notin 1..n
  BY <1>1
<1> DEFINE Texts(i) == {j \in SayingDeny(i) : layered[j].deny.kind = "text"}
<1>4. \A i : Denying(i) = {j \in SayingDeny(i) : j > Highest(Texts(i))}
  BY DEF Denying
<1>5. Denying(n) \subseteq SayingDeny(n)
  BY <1>4
<1>6. SayingDeny(q) = {} => Denying(q) = {}
  BY <1>4
<1>7. SayingDeny(q) = SayingDeny(n) => Denying(q) = Denying(n)
  BY <1>4
<1>8. ASSUME v.kind = "map", v.deny.kind = "text" PROVE Denying(q) = {}
  <2>1. SayingDeny(q) = SayingDeny(n) \cup {q}
    BY <1>2, <1>8
  <2>2. Texts(q) = Texts(n) \cup {q} /\ Texts(n) \subseteq 1..n
    BY <1>2, <1>3, <1>8, <2>1
  <2> HIDE DEF Texts
  <2>3. Highest(Texts(q)) = q
    BY <1>1, <2>2, HighestIs
  <2>4. \A j \in SayingDeny(q) : ~(j > q)
    BY <1>1, <1>2, <2>1
  <2> QED BY <1>4, <2>3, <2>4
<1>9. ASSUME v.kind = "map", v.deny.kind = "list" PROVE Denying(q) = Denying(n) \cup {q}
  <2>1. SayingDeny(q) = SayingDeny(n) \cup {q}
    BY <1>2, <1>9
  <2>2. Texts(q) = Texts(n) /\ Texts(n) \subseteq 1..n
    BY <1>2, <1>3, <1>9, <2>1
  <2> HIDE DEF Texts
  <2>3. PICK h : h = Highest(Texts(n))
    OBVIOUS
  <2>4. h \in 0..n /\ q > h
    <3>1. h \in 0..n
      BY <2>2, <2>3, HighestIs
    <3> QED BY <1>1, <3>1
  <2>5. /\ Denying(n) = {j \in SayingDeny(n) : j > h}
        /\ Denying(q) = {j \in SayingDeny(n) \cup {q} : j > h}
    BY <1>4, <2>1, <2>2, <2>3
  <2> QED BY <2>4, <2>5
<1> HIDE DEF Texts
<1> QED BY <1>1, <1>2, <1>5, <1>6, <1>7, <1>8, <1>9

-------------------------------------------------------------------------------
(* One layer more in the merge.                                               *)

\* What is denied is what the layers say that count, in their order.
Denied(n) == UNION {ItemsOf(layered[i].deny.items) : i \in Denying(n)}
DenyFits(d, n) ==
  /\ d.kind # "list" => Denying(n) = {}
  /\ ItemsOf(d.items) = Denied(n)
  /\ \A i, j \in 1..Len(d.items) : i < j => FirstSaid(n, d.items[i]) <= FirstSaid(n, d.items[j])

\* Where an item was first denied, with one layer more that denies.
LEMMA FirstGrows ==
  ASSUME NEW n \in Nat, Denying(n) \subseteq 1..n, Denying(n + 1) = Denying(n) \cup {n + 1},
         NEW x, x \in Denied(n) \cup ItemsOf(layered[n + 1].deny.items)
  PROVE  /\ FirstSaid(n + 1, x) \in 1..n + 1
         /\ x \in Denied(n) => FirstSaid(n + 1, x) = FirstSaid(n, x)
         /\ x \notin Denied(n) => FirstSaid(n + 1, x) = n + 1
PROOF
<1> DEFINE S(i) == {j \in Denying(i) : x \in ItemsOf(layered[j].deny.items)}
<1>1. PICK q, A, B : q = n + 1 /\ A = S(n) /\ B = S(n + 1)
  OBVIOUS
<1>2. /\ A \subseteq 1..n /\ A \subseteq B /\ B \subseteq A \cup {q} /\ q \in Nat
      /\ x \in ItemsOf(layered[q].deny.items) => q \in B
  BY <1>1
<1>3. A # {} <=> x \in Denied(n)
  BY <1>1 DEF Denied
<1>4. FirstSaid(n, x) = Lowest(A) /\ FirstSaid(q, x) = Lowest(B)
  BY <1>1 DEF FirstSaid
<1> HIDE DEF S
<1>5. CASE A # {}
  <2>1. A \subseteq Nat
    BY <1>2
  <2>2. PICK a : a = Lowest(A)
    OBVIOUS
  <2>3. a \in A /\ \A j \in A : a <= j
    BY <1>5, <2>1, <2>2, LowestIs
  <2>4. a \in 1..n /\ a < q
    BY <1>1, <1>2, <2>3
  <2>5. a \in B /\ \A j \in B : a <= j
    BY <1>2, <2>3, <2>4
  <2>6. \A i \in B : (\A j \in B : i <= j) => i = a
    <3> SUFFICES ASSUME NEW i \in B, \A j \in B : i <= j PROVE i = a
      OBVIOUS
    <3>1. i <= a /\ a <= i /\ (i \in 1..n \/ i = q)
      BY <1>2, <2>5
    <3> QED BY <1>2, <2>4, <3>1
  <2>7. Lowest(B) = a
    BY <2>5, <2>6 DEF Lowest
  <2> QED BY <1>1, <1>3, <1>4, <1>5, <2>2, <2>4, <2>7
<1>6. CASE A = {}
  <2>1. x \notin Denied(n) /\ x \in ItemsOf(layered[q].deny.items)
    BY <1>1, <1>3, <1>6
  <2>2. B = {q}
    BY <1>2, <1>6, <2>1
  <2>3. B \subseteq Nat /\ B # {}
    BY <1>2, <2>2
  <2>4. Lowest(B) \in B
    BY <2>3, LowestIs
  <2> QED BY <1>1, <1>4, <2>1, <2>2, <2>4
<1> QED BY <1>5, <1>6

\* A layer that denies adds its items behind those there are.
LEMMA DenyMore ==
  ASSUME NEW n \in Nat, Denying(n) \subseteq 1..n, Denying(n + 1) = Denying(n) \cup {n + 1},
         NEW d \in DenyValues, DenyFits(d, n), NEW s, s = d.items,
         NEW t \in Seq(Nat), t = layered[n + 1].deny.items,
         NEW u \in Seq(Nat), Once(u), ItemsOf(u) = ItemsOf(s) \cup ItemsOf(t),
         Len(s) <= Len(u), \A i \in 1..Len(s) : u[i] = s[i]
  PROVE  DenyFits(AList(u), n + 1)
PROOF
<1>1. PICK q, m, k : q = n + 1 /\ m = Len(s) /\ k = Len(u)
  OBVIOUS
<1>2. /\ s \in Seq(Nat) /\ m \in Nat /\ k \in Nat /\ m <= k /\ \A i \in 1..m : u[i] = s[i]
      /\ ItemsOf(u) = ItemsOf(s) \cup ItemsOf(t) /\ ItemsOf(s) = Denied(n)
      /\ \A i, j \in 1..m : i < j => FirstSaid(n, s[i]) <= FirstSaid(n, s[j])
  BY <1>1 DEF DenyValues, DenyFits
<1>3. \A x \in ItemsOf(u) :
        /\ FirstSaid(q, x) \in 1..q
        /\ x \in ItemsOf(s) => FirstSaid(q, x) = FirstSaid(n, x)
        /\ x \notin ItemsOf(s) => FirstSaid(q, x) = q
  BY <1>1, <1>2, FirstGrows
<1>4. Denied(q) = ItemsOf(u)
  <2>1. Denied(q) = Denied(n) \cup ItemsOf(t)
    BY <1>1 DEF Denied
  <2> QED BY <1>2, <2>1
<1>5. ASSUME NEW i \in 1..k, NEW j \in 1..k, i < j
      PROVE  FirstSaid(q, u[i]) <= FirstSaid(q, u[j])
  <2>1. u[i] \in ItemsOf(u) /\ u[j] \in ItemsOf(u)
    BY <1>1 DEF ItemsOf
  <2>2. CASE j <= m
    <3>1. i \in 1..m /\ j \in 1..m
      BY <1>2, <1>5, <2>2
    <3>2. u[i] = s[i] /\ u[j] = s[j] /\ u[i] \in ItemsOf(s) /\ u[j] \in ItemsOf(s)
      BY <1>1, <1>2, <3>1 DEF ItemsOf
    <3> QED BY <1>2, <1>3, <1>5, <2>1, <3>1, <3>2
  <2>3. CASE j > m
    <3>1. u[j] \notin ItemsOf(s)
      <4> SUFFICES ASSUME u[j] \in ItemsOf(s) PROVE FALSE
        OBVIOUS
      <4>1. PICK p \in 1..m : u[j] = s[p]
        BY <1>1 DEF ItemsOf
      <4>2. p \in 1..k /\ u[p] = u[j] /\ p # j
        BY <1>2, <2>3, <4>1
      <4> QED BY <1>1, <4>2 DEF Once
    <3>2. FirstSaid(q, u[j]) = q /\ FirstSaid(q, u[i]) \in 1..q
      BY <1>3, <2>1, <3>1
    <3> QED BY <1>1, <3>2
  <2> QED BY <1>2, <2>2, <2>3
<1>6. AList(u).kind = "list" /\ AList(u).items = u
  BY DEF AList
<1> QED BY <1>1, <1>4, <1>5, <1>6 DEF DenyFits

\* The merge of a layer's deny list.
LEMMA DenyStep ==
  ASSUME layered \in Seq(Nodes), NEW n \in Nat, n + 1 \in 1..Len(layered),
         NEW v, v = layered[n + 1], v.kind = "map",
         NEW d \in DenyValues, DenyFits(d, n), NEW e, e = MergedDeny(d, v.deny)
  PROVE  e \in DenyValues /\ DenyFits(e, n + 1)
PROOF
<1>1. PICK q, w, s : q = n + 1 /\ w = v.deny /\ s = d.items
  OBVIOUS
<1>2. v \in Nodes /\ w \in DenyValues
  <2>1. q \in 1..Len(layered) /\ v = layered[q]
    BY <1>1
  <2>2. v \in Nodes
    BY <2>1, ElementOfSeq
  <2> QED BY <1>1, <2>2 DEF Nodes
<1>3. /\ s \in Seq(Nat) /\ Once(s) /\ (d.kind # "list" => s = <<>>)
      /\ w.items \in Seq(Nat) /\ Once(w.items) /\ (w.kind # "list" => w.items = <<>>)
      /\ w.kind \in {"none", "text", "list"} /\ w = [kind |-> w.kind, items |-> w.items]
  BY <1>1, <1>2 DEF DenyValues
<1>4. /\ Denying(n) \subseteq 1..n
      /\ w.kind = "none" => Denying(q) = Denying(n)
      /\ w.kind = "text" => Denying(q) = {}
      /\ w.kind = "list" => Denying(q) = Denying(n) \cup {q}
  <2>1. Denying(n) \subseteq SayingDeny(n) /\ SayingDeny(n) \subseteq 1..n
    BY DenyingGrows, SayingGrows
  <2> QED BY <1>1, <2>1, DenyingGrows
<1>5. CASE w.kind = "none"
  <2>1. e = d /\ Denying(q) = Denying(n)
    BY <1>1, <1>4, <1>5 DEF MergedDeny
  <2>2. Denied(q) = Denied(n) /\ \A x : FirstSaid(q, x) = FirstSaid(n, x)
    BY <2>1 DEF Denied, FirstSaid
  <2> QED BY <1>1, <2>1, <2>2 DEF DenyFits
<1>6. CASE w.kind = "text"
  <2>1. e = w /\ Denying(q) = {} /\ w.items = <<>>
    BY <1>1, <1>3, <1>4, <1>6 DEF MergedDeny
  <2>2. Denied(q) = {} /\ ItemsOf(w.items) = {} /\ 1..Len(w.items) = {}
    BY <2>1 DEF Denied, ItemsOf
  <2>3. DenyFits(e, q)
    BY <2>1, <2>2 DEF DenyFits
  <2> QED BY <1>1, <1>2, <2>1, <2>3
<1>7. CASE w.kind = "list" /\ d.kind = "list"
  <2>1. PICK u : u = UniquelyJoined(s, w.items)
    OBVIOUS
  <2>2. e = AList(u)
    BY <1>1, <1>7, <2>1 DEF MergedDeny
  <2>3. /\ u \in Seq(Nat) /\ Once(u) /\ ItemsOf(u) = ItemsOf(s) \cup ItemsOf(w.items)
        /\ Len(s) <= Len(u) /\ \A i \in 1..Len(s) : u[i] = s[i]
    BY <1>3, <2>1, JoinIs
  <2>4. e \in DenyValues
    BY <2>2, <2>3 DEF AList, DenyValues
  <2>5. DenyFits(e, q)
    BY <1>1, <1>3, <1>4, <1>7, <2>2, <2>3, DenyMore
  <2> QED BY <1>1, <2>4, <2>5
<1>8. CASE w.kind = "list" /\ d.kind # "list"
  <2>1. e = w /\ w = AList(w.items)
    BY <1>1, <1>3, <1>8 DEF MergedDeny, AList
  <2>2. PICK u : u = w.items
    OBVIOUS
  <2>3. /\ u \in Seq(Nat) /\ Once(u) /\ ItemsOf(u) = ItemsOf(s) \cup ItemsOf(w.items)
        /\ Len(s) <= Len(u) /\ \A i \in 1..Len(s) : u[i] = s[i]
    <3>2. s = <<>> /\ Len(s) = 0 /\ 1..Len(s) = {} /\ ItemsOf(s) = {}
      BY <1>3, <1>8 DEF ItemsOf
    <3>3. u \in Seq(Nat) /\ Once(u) /\ Len(u) \in Nat
      BY <1>3, <2>2
    <3>4. ItemsOf(u) = ItemsOf(s) \cup ItemsOf(w.items)
      BY <2>2, <3>2
    <3>5. Len(s) <= Len(u) /\ \A i \in 1..Len(s) : u[i] = s[i]
      BY <3>2, <3>3
    <3> QED BY <3>3, <3>4, <3>5
  <2>4. DenyFits(AList(u), q)
    BY <1>1, <1>3, <1>4, <1>8, <2>3, DenyMore
  <2> QED BY <1>1, <1>2, <2>1, <2>2, <2>4
<1> QED BY <1>3, <1>5, <1>6, <1>7, <1>8

\* The layers up to n that say anything.
Speaking(n) == {i \in 1..n : layered[i].kind # "none"}
Below(trace, n) == \A k \in 1..Len(trace) : trace[k] \in {Layers[i] : i \in 1..n}

\* The property of what the first n layers make, with what an induction over n needs.
MergeFits(m, n) ==
  /\ m \in Mergeds
  /\ Below(m.top, n) /\ Below(m.deny, n) /\ Below(m.excludes, n)
  /\ m.value.kind = "map" <=> Counting(n) # {}
  /\ m.value.kind = "none" <=> Speaking(n) = {}
  /\ Speaking(n) # {} => LastOf(m.top) = Layers[Highest(Speaking(n))]
  /\ SayingDeny(n) # {} => LastOf(m.deny) = Layers[Highest(SayingDeny(n))]
  /\ Excluding(n) # {} => /\ m.value.excludes = layered[Highest(Excluding(n))].excludes
                          /\ LastOf(m.excludes) = Layers[Highest(Excluding(n))]
  /\ m.value.kind = "map" => DenyFits(m.value.deny, n)

\* A layer that is recorded is the last of the trace.
LEMMA RecordedIs ==
  ASSUME NEW n \in Nat, n + 1 \in 1..Len(Layers), NEW l, l = Layers[n + 1],
         NEW t \in Seq(LayerNames), NEW u, u = Recorded(t, l)
  PROVE  /\ u \in Seq(LayerNames)
         /\ Below(t, n) => LastOf(u) = l /\ Below(u, n + 1)
PROOF
<1>1. PICK q, m : q = n + 1 /\ m = Len(t)
  OBVIOUS
<1>2. q \in 1..5 /\ l \in LayerNames /\ l = Layers[q] /\ m \in Nat
  BY <1>1 DEF Layers, LayerNames
<1>3. \A i \in 1..n : Layers[i] # l
  <2>1. \A i, j \in 1..5 : i # j => Layers[i] # Layers[j]
    BY DEF Layers
  <2>2. \A i \in 1..n : i \in 1..5 /\ i # q
    BY <1>1, <1>2
  <2> QED BY <1>2, <2>1, <2>2
<1>4. u \in Seq(LayerNames)
  BY <1>2, AppendProperties DEF Recorded
<1>5. ASSUME Below(t, n) PROVE LastOf(u) = l /\ Below(u, n + 1)
  <2>1. l \notin ItemsOf(t)
    BY <1>3, <1>5 DEF Below, ItemsOf
  <2>2. /\ Len(u) = m + 1 /\ u[m + 1] = l /\ \A i \in 1..m : u[i] = t[i]
    <3>1. u = Append(t, l)
      BY <2>1 DEF Recorded
    <3> QED BY <1>1, <1>2, <3>1, AppendProperties
  <2>3. LastOf(u) = l
    BY <2>2 DEF LastOf
  <2>4. {Layers[i] : i \in 1..q} = {Layers[i] : i \in 1..n} \cup {l}
    <3>1. 1..q = (1..n) \cup {q}
      BY <1>1
    <3> QED BY <1>2, <3>1
  <2>5. \A k \in 1..m + 1 : k \in 1..m \/ k = m + 1
    BY <1>2
  <2>6. Below(u, q)
    BY <1>1, <1>5, <2>2, <2>4, <2>5 DEF Below
  <2> QED BY <1>1, <2>3, <2>6
<1> QED BY <1>4, <1>5

\* What mergeMap makes.
LEMMA MergeDoes ==
  ASSUME NEW m \in Mergeds, NEW l, NEW v \in Nodes, NEW e, e = MergeMap(m, l, v)
  PROVE  /\ v.kind = "none" => e = m
         /\ v.kind # "none" =>
              /\ e = [value |-> e.value, top |-> e.top, deny |-> e.deny, excludes |-> e.excludes]
              /\ e.top = Recorded(m.top, l)
              /\ e.deny = IF v.deny.kind # "none" THEN Recorded(m.deny, l) ELSE m.deny
              /\ e.excludes = IF v.excludes.kind # "none" THEN Recorded(m.excludes, l)
                              ELSE m.excludes
              /\ e.value = IF v.kind = "map" /\ m.value.kind = "map"
                           THEN MapNode(MergedDeny(m.value.deny, v.deny),
                                        MergedOther(m.value.excludes, v.excludes))
                           ELSE v
PROOF
<1>1. PICK a, b, c, d :
        /\ a = IF v.kind = "map" /\ m.value.kind = "map"
               THEN MapNode(MergedDeny(m.value.deny, v.deny),
                            MergedOther(m.value.excludes, v.excludes))
               ELSE v
        /\ b = Recorded(m.top, l)
        /\ c = IF v.deny.kind # "none" THEN Recorded(m.deny, l) ELSE m.deny
        /\ d = IF v.excludes.kind # "none" THEN Recorded(m.excludes, l) ELSE m.excludes
  OBVIOUS
<1>2. e = IF v.kind = "none" THEN m ELSE [value |-> a, top |-> b, deny |-> c, excludes |-> d]
  BY <1>1, Zenon DEF MergeMap
<1>3. CASE v.kind = "none"
  BY <1>2, <1>3
<1>4. CASE v.kind # "none"
  <2>1. e = [value |-> a, top |-> b, deny |-> c, excludes |-> d]
    BY <1>2, <1>4
  <2>2. e.value = a /\ e.top = b /\ e.deny = c /\ e.excludes = d
    BY <2>1
  <2> QED BY <1>1, <1>4, <2>1, <2>2
<1> QED BY <1>3, <1>4

\* The result of mergeMap is of its type.
LEMMA MergeTypes ==
  ASSUME NEW m \in Mergeds, NEW l \in LayerNames, NEW v \in Nodes,
         NEW e, e = MergeMap(m, l, v)
  PROVE  e \in Mergeds
PROOF
<1>1. CASE v.kind = "none"
  BY <1>1, MergeDoes
<1>2. CASE v.kind # "none"
  <2>1. \A t \in Seq(LayerNames) : Recorded(t, l) \in Seq(LayerNames)
    BY AppendProperties DEF Recorded
  <2>2. e.top \in Seq(LayerNames) /\ e.deny \in Seq(LayerNames) /\ e.excludes \in Seq(LayerNames)
    <3>1. m.top \in Seq(LayerNames) /\ m.deny \in Seq(LayerNames) /\ m.excludes \in Seq(LayerNames)
      BY DEF Mergeds
    <3> QED BY <1>2, <2>1, <3>1, MergeDoes
  <2>3. ASSUME NEW c \in DenyValues, NEW d \in DenyValues
        PROVE  MergedDeny(c, d) \in DenyValues
    <3>1. CASE d.kind = "list" /\ c.kind = "list"
      <4>1. PICK u : u = UniquelyJoined(c.items, d.items)
        OBVIOUS
      <4>2. c.items \in Seq(Nat) /\ d.items \in Seq(Nat) /\ Once(c.items)
        BY DEF DenyValues
      <4>3. u \in Seq(Nat) /\ Once(u)
        BY <4>1, <4>2, JoinIs
      <4>4. MergedDeny(c, d) = AList(u)
        BY <3>1, <4>1 DEF MergedDeny
      <4> QED BY <4>3, <4>4 DEF AList, DenyValues
    <3>2. CASE ~(d.kind = "list" /\ c.kind = "list")
      BY <3>2 DEF MergedDeny
    <3> QED BY <3>1, <3>2
  <2>4. e.value \in Nodes
    <3>1. m.value \in Nodes
      BY DEF Mergeds
    <3>2. PICK a, b : /\ a = MergedDeny(m.value.deny, v.deny)
                      /\ b = MergedOther(m.value.excludes, v.excludes)
      OBVIOUS
    <3>3. a \in DenyValues
      <4>1. m.value.deny \in DenyValues /\ v.deny \in DenyValues
        BY <3>1 DEF Nodes
      <4> QED BY <2>3, <3>2, <4>1
    <3>4. b \in OtherValues
      BY <3>1, <3>2 DEF Nodes, MergedOther
    <3>5. MapNode(a, b) \in Nodes
      BY <3>3, <3>4 DEF MapNode, Nodes
    <3>6. e.value = IF v.kind = "map" /\ m.value.kind = "map" THEN MapNode(a, b) ELSE v
      BY <1>2, <3>2, MergeDoes
    <3> QED BY <3>5, <3>6
  <2>5. e = [value |-> e.value, top |-> e.top, deny |-> e.deny, excludes |-> e.excludes]
    BY <1>2, MergeDoes
  <2> HIDE DEF Nodes
  <2> QED BY <2>2, <2>4, <2>5 DEF Mergeds
<1> QED BY <1>1, <1>2

\* The layers that speak, with one more.
LEMMA SpeakingGrows ==
  ASSUME layered \in Seq(Nodes), NEW n \in Nat, n + 1 \in 1..Len(layered),
         NEW v, v = layered[n + 1]
  PROVE  /\ Speaking(n) \subseteq 1..n
         /\ Speaking(n + 1) = IF v.kind = "none" THEN Speaking(n) ELSE Speaking(n) \cup {n + 1}
PROOF
<1>1. PICK q : q = n + 1
  OBVIOUS
<1>2. 1..q = (1..n) \cup {q} /\ v = layered[q]
  BY <1>1
<1>3. Speaking(q) = IF v.kind = "none" THEN Speaking(n) ELSE Speaking(n) \cup {q}
  BY <1>2 DEF Speaking
<1> QED BY <1>1, <1>3 DEF Speaking

\* A layer that says nothing changes nothing.
LEMMA FitsSilent ==
  ASSUME layered \in Seq(Nodes), NEW n \in Nat, n + 1 \in 1..Len(layered),
         layered[n + 1].kind = "none", NEW m, MergeFits(m, n)
  PROVE  MergeFits(m, n + 1)
PROOF
<1>1. PICK q : q = n + 1
  OBVIOUS
<1>2. /\ Counting(q) = Counting(n) /\ Excluding(q) = Excluding(n)
      /\ SayingDeny(q) = SayingDeny(n) /\ Denying(q) = Denying(n) /\ Speaking(q) = Speaking(n)
  BY <1>1, CountingGrows, SayingGrows, DenyingGrows, SpeakingGrows
<1>3. \A t : Below(t, n) => Below(t, q)
  <2>1. {Layers[i] : i \in 1..n} \subseteq {Layers[i] : i \in 1..q}
    BY <1>1
  <2> QED BY <2>1 DEF Below
<1>4. \A d : DenyFits(d, n) => DenyFits(d, q)
  <2>1. Denied(q) = Denied(n) /\ \A x : FirstSaid(q, x) = FirstSaid(n, x)
    BY <1>2 DEF Denied, FirstSaid
  <2> QED BY <1>2, <2>1 DEF DenyFits
<1> HIDE DEF Mergeds
<1> QED BY <1>1, <1>2, <1>3, <1>4 DEF MergeFits

\* Where the values of the first n layers come from.
Traces(e, n) ==
  /\ Below(e.top, n) /\ Below(e.deny, n) /\ Below(e.excludes, n)
  /\ LastOf(e.top) = Layers[Highest(Speaking(n))]
  /\ SayingDeny(n) # {} => LastOf(e.deny) = Layers[Highest(SayingDeny(n))]
  /\ Excluding(n) # {} => LastOf(e.excludes) = Layers[Highest(Excluding(n))]

\* The traces once a layer spoke.
LEMMA TracesFit ==
  ASSUME layered \in Seq(Nodes), NEW n \in Nat, n + 1 \in 1..Len(layered),
         n + 1 \in 1..Len(Layers), NEW v \in Nodes, v = layered[n + 1], v.kind # "none",
         NEW m, MergeFits(m, n), NEW l, l = Layers[n + 1], NEW e, e = MergeMap(m, l, v)
  PROVE  Traces(e, n + 1)
PROOF
<1>1. PICK q : q = n + 1
  OBVIOUS
<1>2. /\ m \in Mergeds
      /\ Below(m.top, n) /\ Below(m.deny, n) /\ Below(m.excludes, n)
      /\ SayingDeny(n) # {} => LastOf(m.deny) = Layers[Highest(SayingDeny(n))]
      /\ Excluding(n) # {} => LastOf(m.excludes) = Layers[Highest(Excluding(n))]
  BY DEF MergeFits
<1>3. m.top \in Seq(LayerNames) /\ m.deny \in Seq(LayerNames) /\ m.excludes \in Seq(LayerNames)
  BY <1>2 DEF Mergeds
<1>4. \A t : Below(t, n) => Below(t, q)
  <2>1. {Layers[i] : i \in 1..n} \subseteq {Layers[i] : i \in 1..q}
    BY <1>1
  <2> QED BY <2>1 DEF Below
<1>5. ASSUME NEW t \in Seq(LayerNames), Below(t, n)
      PROVE  LastOf(Recorded(t, l)) = l /\ Below(Recorded(t, l), q)
  BY <1>1, <1>5, RecordedIs
<1>6. /\ e.top = Recorded(m.top, l)
      /\ e.deny = IF v.deny.kind # "none" THEN Recorded(m.deny, l) ELSE m.deny
      /\ e.excludes = IF v.excludes.kind # "none" THEN Recorded(m.excludes, l)
                      ELSE m.excludes
  BY <1>2, MergeDoes
<1>7. /\ Below(e.top, q) /\ Below(e.deny, q) /\ Below(e.excludes, q) /\ LastOf(e.top) = l
      /\ v.deny.kind # "none" => LastOf(e.deny) = l
      /\ v.excludes.kind # "none" => LastOf(e.excludes) = l
  BY <1>2, <1>3, <1>4, <1>5, <1>6
<1>8. /\ Highest(Speaking(n) \cup {q}) = q /\ Highest(SayingDeny(n) \cup {q}) = q
      /\ Highest(Excluding(n) \cup {q}) = q
  <2>1. Speaking(n) \subseteq 1..n /\ SayingDeny(n) \subseteq 1..n /\ Excluding(n) \subseteq 1..n
    BY SayingGrows, SpeakingGrows
  <2> QED BY <1>1, <2>1, HighestIs
<1>9. /\ Speaking(q) = Speaking(n) \cup {q}
      /\ v.kind = "text" => Excluding(q) = {} /\ SayingDeny(q) = {}
      /\ v.kind = "map" =>
           /\ Excluding(q) = IF v.excludes.kind = "none" THEN Excluding(n)
                             ELSE Excluding(n) \cup {q}
           /\ SayingDeny(q) = IF v.deny.kind = "none" THEN SayingDeny(n)
                              ELSE SayingDeny(n) \cup {q}
  BY <1>1, SayingGrows, SpeakingGrows
<1>10. v.kind = "map" \/ v.kind = "text"
  BY DEF Nodes
<1>11. LastOf(e.top) = Layers[Highest(Speaking(q))] /\ l = Layers[q]
  BY <1>1, <1>7, <1>8, <1>9
<1>12. SayingDeny(q) # {} => LastOf(e.deny) = Layers[Highest(SayingDeny(q))]
  <2>1. CASE v.deny.kind = "none"
    BY <1>2, <1>6, <1>9, <1>10, <2>1
  <2>2. CASE v.deny.kind # "none"
    BY <1>7, <1>8, <1>9, <1>10, <1>11, <2>2
  <2> QED BY <2>1, <2>2
<1>13. Excluding(q) # {} => LastOf(e.excludes) = Layers[Highest(Excluding(q))]
  <2>1. CASE v.excludes.kind = "none"
    BY <1>2, <1>6, <1>9, <1>10, <2>1
  <2>2. CASE v.excludes.kind # "none"
    BY <1>7, <1>8, <1>9, <1>10, <1>11, <2>2
  <2> QED BY <2>1, <2>2
<1> QED BY <1>1, <1>7, <1>11, <1>12, <1>13 DEF Traces

\* What the value is once layer n spoke.
Values(w, n) ==
  /\ w.kind = layered[n].kind
  /\ Counting(n) # {} <=> layered[n].kind = "map"
  /\ Excluding(n) # {} => w.excludes = layered[Highest(Excluding(n))].excludes
  /\ layered[n].kind = "map" => DenyFits(w.deny, n)

\* The value once a layer spoke.
LEMMA ValueFits ==
  ASSUME layered \in Seq(Nodes), NEW n \in Nat, n + 1 \in 1..Len(layered),
         NEW v \in Nodes, v = layered[n + 1], v.kind # "none",
         NEW m, MergeFits(m, n), NEW l, NEW e, e = MergeMap(m, l, v), NEW w, w = e.value
  PROVE  Values(w, n + 1)
PROOF
<1>1. PICK q : q = n + 1
  OBVIOUS
<1>2. /\ m \in Mergeds
      /\ m.value.kind = "map" <=> Counting(n) # {}
      /\ Excluding(n) # {} => m.value.excludes = layered[Highest(Excluding(n))].excludes
      /\ m.value.kind = "map" => DenyFits(m.value.deny, n)
  BY DEF MergeFits
<1>3. v.kind = "map" \/ v.kind = "text"
  BY DEF Nodes
<1> DEFINE deep == v.kind = "map" /\ m.value.kind = "map"
<1>5. PICK a, b : /\ a = MergedDeny(m.value.deny, v.deny)
                  /\ b = MergedOther(m.value.excludes, v.excludes)
  OBVIOUS
<1>6. w = IF deep THEN MapNode(a, b) ELSE v
  BY <1>2, <1>5, MergeDoes
<1>7. MapNode(a, b).kind = "map" /\ MapNode(a, b).deny = a /\ MapNode(a, b).excludes = b
  BY DEF MapNode
<1>8. w.kind = v.kind
  BY <1>6, <1>7
<1>9. Counting(q) # {} <=> v.kind = "map"
  BY <1>1, <1>3, CountingGrows
<1>10. Excluding(n) \subseteq Counting(n) /\ SayingDeny(n) \subseteq Counting(n)
       /\ Denying(n) \subseteq SayingDeny(n)
  BY DEF Excluding, SayingDeny, Denying
<1>11. Excluding(q) # {} => w.excludes = layered[Highest(Excluding(q))].excludes
  <2>1. SUFFICES ASSUME Excluding(q) # {}
                 PROVE  w.excludes = layered[Highest(Excluding(q))].excludes
    OBVIOUS
  <2>2. /\ v.kind = "map"
        /\ Excluding(q) = IF v.excludes.kind = "none" THEN Excluding(n) ELSE Excluding(n) \cup {q}
        /\ Excluding(n) \subseteq 1..n
    BY <1>1, <1>3, <2>1, SayingGrows
  <2>3. CASE v.excludes.kind = "none"
    <3>1. Excluding(q) = Excluding(n) /\ m.value.kind = "map"
      BY <1>2, <1>10, <2>1, <2>2, <2>3
    <3>2. w.excludes = m.value.excludes
      BY <1>5, <1>6, <1>7, <2>2, <2>3, <3>1 DEF MergedOther
    <3> QED BY <1>2, <2>1, <3>1, <3>2
  <2>4. CASE v.excludes.kind # "none"
    <3>1. Highest(Excluding(q)) = q
      BY <1>1, <2>2, <2>4, HighestIs
    <3>2. w.excludes = v.excludes
      BY <1>5, <1>6, <1>7, <2>2, <2>4 DEF MergedOther
    <3> QED BY <1>1, <3>1, <3>2
  <2> QED BY <2>3, <2>4
<1>12. v.kind = "map" => DenyFits(w.deny, q)
  <2>1. SUFFICES ASSUME v.kind = "map" PROVE DenyFits(w.deny, q)
    OBVIOUS
  <2>2. CASE m.value.kind = "map"
    <3>1. m.value.deny \in DenyValues
      BY <1>2 DEF Mergeds, Nodes
    <3>2. w.deny = a
      BY <1>6, <1>7, <2>1, <2>2
    <3> QED BY <1>1, <1>2, <1>5, <2>1, <2>2, <3>1, <3>2, DenyStep
  <2>3. CASE m.value.kind # "map"
    <3>1. Denying(n) = {}
      BY <1>2, <1>10, <2>3
    <3>2. PICK d : d = NoValue
      OBVIOUS
    <3>3. d \in DenyValues /\ d.kind = "none" /\ d.items = <<>>
      BY <3>2 DEF NoValue, DenyValues, Once
    <3>4. DenyFits(d, n)
      <4>1. Denied(n) = {} /\ ItemsOf(d.items) = {} /\ 1..Len(d.items) = {}
        BY <3>1, <3>3 DEF Denied, ItemsOf
      <4> QED BY <3>1, <4>1 DEF DenyFits
    <3>5. PICK c : c = MergedDeny(d, v.deny)
      OBVIOUS
    <3>6. DenyFits(c, q)
      BY <1>1, <2>1, <3>3, <3>4, <3>5, DenyStep
    <3>7. c = v.deny
      <4>1. v.deny \in DenyValues
        BY DEF Nodes
      <4>2. v.deny.kind = "none" => v.deny = NoValue
        BY <4>1 DEF DenyValues, NoValue
      <4> QED BY <3>2, <3>3, <3>5, <4>2 DEF MergedDeny
    <3> QED BY <1>6, <2>3, <3>6, <3>7
  <2> QED BY <2>2, <2>3
<1> QED BY <1>1, <1>8, <1>9, <1>11, <1>12 DEF Values

\* One layer more.
LEMMA FitsStep ==
  ASSUME layered \in Seq(Nodes), NEW n \in Nat, n + 1 \in 1..Len(layered),
         n + 1 \in 1..Len(Layers), NEW m, MergeFits(m, n),
         NEW e, e = MergeMap(m, Layers[n + 1], layered[n + 1])
  PROVE  MergeFits(e, n + 1)
PROOF
<1>1. PICK q, l, v : q = n + 1 /\ l = Layers[q] /\ v = layered[q]
  OBVIOUS
<1>2. v \in Nodes
  <2>1. q \in 1..Len(layered)
    BY <1>1
  <2> QED BY <1>1, <2>1, ElementOfSeq
<1>3. m \in Mergeds
  BY DEF MergeFits
<1>4. l \in LayerNames
  <2>1. q \in 1..5
    BY <1>1 DEF Layers
  <2> QED BY <1>1, <2>1 DEF Layers, LayerNames
<1>5. CASE v.kind = "none"
  <2>1. e = m
    BY <1>1, <1>2, <1>3, <1>5, MergeDoes
  <2> QED BY <1>1, <1>5, <2>1, FitsSilent
<1>6. CASE v.kind # "none"
  <2>1. e \in Mergeds
    BY <1>1, <1>2, <1>3, <1>4, MergeTypes
  <2>2. /\ Below(e.top, q) /\ Below(e.deny, q) /\ Below(e.excludes, q)
        /\ LastOf(e.top) = Layers[Highest(Speaking(q))]
        /\ SayingDeny(q) # {} => LastOf(e.deny) = Layers[Highest(SayingDeny(q))]
        /\ Excluding(q) # {} => LastOf(e.excludes) = Layers[Highest(Excluding(q))]
    <3>1. e = MergeMap(m, l, v) /\ v = layered[n + 1] /\ l = Layers[n + 1]
      BY <1>1
    <3>2. Traces(e, n + 1)
      BY <1>2, <1>6, <3>1, TracesFit
    <3> QED BY <1>1, <3>2 DEF Traces
  <2>3. /\ e.value.kind = v.kind
        /\ Counting(q) # {} <=> v.kind = "map"
        /\ Excluding(q) # {} => e.value.excludes = layered[Highest(Excluding(q))].excludes
        /\ v.kind = "map" => DenyFits(e.value.deny, q)
    <3>1. e = MergeMap(m, l, v) /\ v = layered[n + 1]
      BY <1>1
    <3>2. PICK w : w = e.value
      OBVIOUS
    <3>3. Values(w, n + 1)
      BY <1>2, <1>6, <3>1, <3>2, ValueFits
    <3> QED BY <1>1, <3>2, <3>3 DEF Values
  <2>4. Speaking(q) # {}
    BY <1>1, <1>6, SpeakingGrows
  <2>5. MergeFits(e, q)
    BY <1>6, <2>1, <2>2, <2>3, <2>4 DEF MergeFits
  <2> QED BY <1>1, <2>5
<1> QED BY <1>5, <1>6

\* What Merge makes of the layers.
LEMMA MergeOfFits ==
  ASSUME layered \in Seq(Nodes), Len(layered) <= Len(Layers),
         NEW u, u = MergeOf(layered)
  PROVE  MergeFits(u, Len(layered))
PROOF
<1>1. PICK n : n = Len(layered)
  OBVIOUS
<1>2. n \in Nat /\ n \in 0..n /\ n <= 5
  BY <1>1 DEF Layers
<1>3. PICK g : g = [p \in (1..n) \X Mergeds |-> MergeMap(p[2], Layers[p[1]], layered[p[1]])]
  OBVIOUS
<1>4. ASSUME NEW i \in 1..n, NEW y \in Mergeds
      PROVE  /\ g[<<i, y>>] = MergeMap(y, Layers[i], layered[i])
             /\ g[<<i, y>>] \in Mergeds
  <2>1. g[<<i, y>>] = MergeMap(y, Layers[i], layered[i])
    <3> HIDE DEF Mergeds
    <3> QED BY <1>3
  <2>2. i \in 1..5 /\ i \in 1..Len(layered)
    BY <1>1, <1>2
  <2>3. layered[i] \in Nodes
    BY <2>2, ElementOfSeq
  <2>4. Layers[i] \in LayerNames
    BY <2>2 DEF Layers, LayerNames
  <2> QED BY <2>1, <2>3, <2>4, MergeTypes
<1>5. NothingMerged \in Mergeds /\ MergeFits(NothingMerged, 0)
  <2>1. NothingMerged.value = NoNode /\ NoNode.kind = "none"
    BY DEF NothingMerged, NoNode
  <2>2. NoNode \in Nodes
    BY DEF NoNode, NoValue, Nodes, DenyValues, OtherValues, Once
  <2>3. NothingMerged \in Mergeds
    <3> HIDE DEF Nodes
    <3> QED BY <2>2 DEF NothingMerged, Mergeds
  <2>4. 1..0 = {}
    OBVIOUS
  <2>5. /\ Counting(0) = {} /\ Excluding(0) = {} /\ SayingDeny(0) = {} /\ Speaking(0) = {}
    BY <2>4 DEF Counting, Excluding, SayingDeny, Speaking
  <2>6. Below(<<>>, 0)
    BY DEF Below
  <2>7. NothingMerged.top = <<>> /\ NothingMerged.deny = <<>> /\ NothingMerged.excludes = <<>>
    BY DEF NothingMerged
  <2> QED BY <2>1, <2>3, <2>5, <2>6, <2>7 DEF MergeFits
<1>6. PICK f \in [0..n -> Mergeds] : Unfolds(f, n, NothingMerged, g)
  <2>1. StaysIn(g, n, Mergeds)
    BY <1>4 DEF StaysIn
  <2> QED BY <1>2, <1>5, <2>1, Recursion
<1>7. \A i \in 1..n :
        /\ f[i - 1] \in Mergeds
        /\ f[i] = MergeMap(f[i - 1], Layers[i], layered[i])
  <2> SUFFICES ASSUME NEW i \in 1..n
               PROVE  /\ f[i - 1] \in Mergeds
                      /\ f[i] = MergeMap(f[i - 1], Layers[i], layered[i])
    OBVIOUS
  <2>1. i - 1 \in 0..n
    BY <1>2
  <2>2. f[i - 1] \in Mergeds
    BY <1>6, <2>1
  <2> QED BY <1>4, <1>6, <2>2 DEF Unfolds
<1> DEFINE Body(x, i) == IF i = 0 THEN NothingMerged
                         ELSE MergeMap(x[i - 1], Layers[i], layered[i])
<1>8. \A i \in 0..n : f[i] = Body(f, i)
  <2> SUFFICES ASSUME NEW i \in 0..n PROVE f[i] = Body(f, i)
    OBVIOUS
  <2>1. i = 0 \/ i \in 1..n
    BY <1>2
  <2> QED BY <1>6, <1>7, <2>1 DEF Unfolds
<1>9. f = [i \in 0..n |-> Body(f, i)]
  BY <1>8
<1>10. PICK h : h = CHOOSE x : x = [i \in 0..n |-> Body(x, i)]
  OBVIOUS
<1>11. u = h[n]
  BY <1>1, <1>10 DEF MergeOf
<1>12. h = [i \in 0..n |-> Body(h, i)]
  <2> HIDE DEF Body
  <2>1. \E x : x = [i \in 0..n |-> Body(x, i)]
    BY <1>9, Zenon
  <2> QED BY <1>10, <2>1, Zenon
<1> DEFINE S == {i \in 0..n : MergeFits(h[i], i)}
<1>13. h[0] = NothingMerged /\ \A i \in 0..n : i # n =>
         h[i + 1] = MergeMap(h[i], Layers[i + 1], layered[i + 1])
  <2>1. \A i \in 0..n : h[i] = Body(h, i)
    BY <1>12
  <2>2. 0 \in 0..n /\ \A i \in 0..n : i # n => i + 1 \in 0..n /\ i + 1 # 0 /\ i + 1 - 1 = i
    BY <1>2
  <2>3. h[0] = NothingMerged
    BY <2>1, <2>2
  <2>4. ASSUME NEW i \in 0..n, i # n
        PROVE  h[i + 1] = MergeMap(h[i], Layers[i + 1], layered[i + 1])
    <3>1. h[i + 1] = Body(h, i + 1) /\ i + 1 # 0 /\ i + 1 - 1 = i
      BY <2>1, <2>2, <2>4
    <3> QED BY <3>1
  <2> QED BY <2>3, <2>4
<1>14. 0 \in S
  BY <1>2, <1>5, <1>13
<1>15. ASSUME NEW i \in 0..n, i # n, i \in S PROVE i + 1 \in S
  <2>1. /\ i \in Nat /\ i + 1 \in 1..Len(layered) /\ i + 1 \in 0..n
    BY <1>1, <1>2, <1>15
  <2>2. i + 1 \in 1..Len(Layers)
    BY <1>1, <1>2, <2>1 DEF Layers
  <2>3. PICK e : e = h[i + 1]
    OBVIOUS
  <2>4. e = MergeMap(h[i], Layers[i + 1], layered[i + 1]) /\ MergeFits(h[i], i)
    BY <1>13, <1>15, <2>3
  <2>5. MergeFits(e, i + 1)
    BY <2>1, <2>2, <2>4, FitsStep
  <2> QED BY <2>1, <2>3, <2>5
<1>16. n \in S
  <2> HIDE DEF S, Body
  <2>1. 0..n \subseteq S
    BY <1>2, <1>14, <1>15, Stepwise
  <2> QED BY <1>2, <2>1
<1> QED BY <1>1, <1>11, <1>16

\* So the property holds of what Merge makes of the layers.
LEMMA MergedIsLayered ==
  ASSUME layered \in Seq(Nodes), Len(layered) <= Len(Layers), merged = MergeOf(layered)
  PROVE  SettingsAreLayered
PROOF
<1>1. PICK n, value, deny : n = Len(layered) /\ value = merged.value /\ deny = value.deny
  OBVIOUS
<1>2. MergeFits(merged, n)
  BY <1>1, MergeOfFits
<1>3. /\ value \in Nodes
      /\ value.kind = "map" <=> Counting(n) # {}
      /\ value.kind = "none" <=> Speaking(n) = {}
      /\ Speaking(n) # {} => LastOf(merged.top) = Layers[Highest(Speaking(n))]
      /\ SayingDeny(n) # {} => LastOf(merged.deny) = Layers[Highest(SayingDeny(n))]
      /\ Excluding(n) # {} => /\ value.excludes = layered[Highest(Excluding(n))].excludes
                              /\ LastOf(merged.excludes) = Layers[Highest(Excluding(n))]
      /\ value.kind = "map" => DenyFits(deny, n)
  BY <1>1, <1>2 DEF MergeFits, Mergeds
<1>4. deny \in DenyValues /\ deny.items \in Seq(Nat) /\ Once(deny.items)
  <2>1. deny \in DenyValues
    BY <1>1, <1>3 DEF Nodes
  <2> QED BY <2>1 DEF DenyValues
<1>5. value.kind = "map" =>
        /\ ItemsOf(deny.items) = UNION {ItemsOf(layered[i].deny.items) : i \in Denying(n)}
        /\ \A i, j \in 1..Len(deny.items) :
             i < j => /\ deny.items[i] # deny.items[j]
                      /\ FirstSaid(n, deny.items[i]) <= FirstSaid(n, deny.items[j])
  BY <1>3, <1>4 DEF DenyFits, Denied, Once
<1> QED BY <1>1, <1>3, <1>5 DEF SettingsAreLayered, Speaking

\* The settings keep their types, and what is merged is what Merge makes of all layers.
MergeInv ==
  /\ layered \in Seq(Nodes) /\ Len(layered) <= Len(Layers)
  /\ stage = "settings" => layered # <<>>
  /\ stage = "merged" => merged = MergeOf(layered)

\* What a source may hold is of its type.
LEMMA SourcesHoldNodes == SettingsValues \subseteq Nodes
PROOF
<1>1. NoValue \in DenyValues /\ AText \in DenyValues /\ NoValue \in OtherValues
  BY DEF NoValue, AText, DenyValues, OtherValues, Once
<1>2. \A s \in Seq({"override", "agents", "claude"}) : AList(s) \in OtherValues
  BY DEF AList, OtherValues
<1>3. \A s \in Seq(Nat) : Once(s) => AList(s) \in DenyValues
  BY DEF AList, DenyValues
<1>4. Once(<<1, 2>>) /\ Once(<<2>>) /\ Once(<<3, 1>>)
  BY DEF Once
<1>5. /\ AList(<<1, 2>>) \in DenyValues /\ AList(<<2>>) \in DenyValues
      /\ AList(<<3, 1>>) \in DenyValues
  <2>1. <<1, 2>> \in Seq(Nat) /\ <<2>> \in Seq(Nat) /\ <<3, 1>> \in Seq(Nat)
    OBVIOUS
  <2> QED BY <1>3, <1>4, <2>1, Zenon
<1>6. /\ AList(<<>>) \in OtherValues /\ AList(<<"override">>) \in OtherValues
      /\ AList(<<"agents">>) \in OtherValues
  <2> DEFINE N == {"override", "agents", "claude"}
  <2>1. <<>> \in Seq(N) /\ <<"override">> \in Seq(N) /\ <<"agents">> \in Seq(N)
    OBVIOUS
  <2> QED BY <1>2, <2>1, Zenon
<1>7. \A c \in DenyValues, d \in OtherValues : MapNode(c, d) \in Nodes
  BY DEF MapNode, Nodes
<1>8. NoNode \in Nodes /\ TextNode \in Nodes
  BY <1>1 DEF NoNode, TextNode, Nodes
<1> QED BY <1>1, <1>5, <1>6, <1>7, <1>8 DEF SettingsValues

\* A source of a layer is read.
LEMMA SourceStep ==
  ASSUME MergeInv, NEW v \in SettingsValues, ReadSource(v)
  PROVE  MergeInv'
PROOF
<1>1. PICK n, l, m, e, layer :
        /\ n = Len(layered) /\ l = Layers[n]
        /\ m = [NothingMerged EXCEPT !.value = LastOf(layered)]
        /\ e = MergeMap(m, l, v) /\ layer = e.value
  OBVIOUS
<1>2. /\ stage = "settings" /\ stage' = stage /\ merged' = merged
      /\ layered' = [layered EXCEPT ![n] = layer]
  BY <1>1 DEF ReadSource
<1>3. layered \in Seq(Nodes) /\ n <= 5 /\ layered # <<>>
  BY <1>1, <1>2 DEF MergeInv, Layers
<1>4. n \in 1..5 /\ n \in 1..Len(layered)
  BY <1>1, <1>3
<1>5. l \in LayerNames
  BY <1>1, <1>4 DEF Layers, LayerNames
<1>6. LastOf(layered) \in Nodes
  <2>1. layered[n] \in Nodes
    BY <1>3, <1>4, ElementOfSeq
  <2> QED BY <1>1, <2>1 DEF LastOf
<1>7. m \in Mergeds
  <2> HIDE DEF Nodes
  <2>1. m = [value |-> LastOf(layered), top |-> <<>>, deny |-> <<>>, excludes |-> <<>>]
    BY <1>1 DEF NothingMerged
  <2> QED BY <1>6, <2>1 DEF Mergeds
<1>8. v \in Nodes
  BY SourcesHoldNodes
<1>9. e \in Mergeds
  BY <1>1, <1>5, <1>7, <1>8, MergeTypes
<1>10. layer \in Nodes
  <2> HIDE DEF Nodes
  <2> QED BY <1>1, <1>9 DEF Mergeds
<1>11. layered' \in Seq(Nodes) /\ Len(layered') = n
  <2> HIDE DEF Nodes
  <2> QED BY <1>1, <1>2, <1>3, <1>4, <1>10, ExceptSeq
<1>12. layered' # <<>>
  BY <1>4, <1>11
<1> QED BY <1>2, <1>3, <1>11, <1>12 DEF MergeInv, Layers

\* The steps to the merge and behind it.
LEMMA LayersStep ==
  ASSUME MergeInv, NextLayer \/ MergeLayers \/ UseSettings
  PROVE  MergeInv'
PROOF
<1>1. CASE NextLayer
  <2>1. /\ layered' = Append(layered, NoNode) /\ Len(layered) < Len(Layers)
        /\ stage = "settings" /\ stage' = stage
    BY <1>1 DEF NextLayer
  <2>2. NoNode \in Nodes
    BY DEF NoNode, NoValue, Nodes, DenyValues, OtherValues, Once
  <2>3. layered \in Seq(Nodes)
    BY DEF MergeInv
  <2>4. layered' \in Seq(Nodes) /\ Len(layered') = Len(layered) + 1
    <3> HIDE DEF Nodes
    <3> QED BY <2>1, <2>2, <2>3, AppendProperties
  <2>5. Len(Layers) = 5 /\ Len(layered) \in Nat
    BY <2>3 DEF Layers
  <2>6. Len(layered') <= Len(Layers) /\ layered' # <<>>
    BY <2>1, <2>4, <2>5
  <2> QED BY <2>1, <2>4, <2>6 DEF MergeInv
<1>2. CASE MergeLayers
  <2>1. layered' = layered /\ stage' = "merged" /\ merged' = MergeOf(layered)
    BY <1>2 DEF MergeLayers
  <2>2. MergeOf(layered') = MergeOf(layered)
    BY <2>1 DEF MergeOf
  <2> QED BY <2>1, <2>2 DEF MergeInv
<1>3. CASE UseSettings
  <2>1. layered' = <<>> /\ stage' = "documents"
    BY <1>3 DEF UseSettings
  <2>2. layered' \in Seq(Nodes) /\ Len(layered') <= Len(Layers)
    BY <2>1 DEF Layers
  <2> QED BY <2>1, <2>2 DEF MergeInv
<1> QED BY <1>1, <1>2, <1>3

\* Steps that leave the settings alone.
LEMMA MergeStands ==
  ASSUME MergeInv, UNCHANGED <<layered, merged>>, stage' # "merged" \/ stage' = stage,
         stage' # "settings" \/ stage' = stage
  PROVE  MergeInv'
PROOF
<1>1. MergeOf(layered)' = MergeOf(layered)
  BY DEF MergeOf
<1> QED BY <1>1 DEF MergeInv

\* Every step keeps what is merged and what is read.
LEMMA PromptStep ==
  ASSUME MergeInv, DocInv, [PromptNext]_promptVars
  PROVE  MergeInv' /\ DocInv'
PROOF
<1>1. CASE \E v \in SettingsValues : ReadSource(v)
  <2>1. PICK v \in SettingsValues : ReadSource(v)
    BY <1>1
  <2>2. MergeInv'
    BY <2>1, SourceStep
  <2>3. /\ UNCHANGED <<looked, readDocs, picked, docs>> /\ stage' = stage /\ merged' = merged
    BY <2>1 DEF ReadSource
  <2>4. DocInv'
    BY <2>3, DocsStand
  <2> QED BY <2>2, <2>4
<1>2. CASE NextLayer \/ MergeLayers \/ UseSettings
  <2>1. MergeInv'
    BY <1>2, LayersStep
  <2>2. /\ UNCHANGED <<looked, readDocs, picked, docs>>
        /\ stage \in {"settings", "merged"} /\ stage' \in {"settings", "merged", "documents"}
    BY <1>2 DEF NextLayer, MergeLayers, UseSettings
  <2>3. looked = 0 /\ Depth + 1 # 0 /\ DocInv
    BY <2>2, PromptAssumption DEF DocInv, NothingYet
  <2>4. ~Reading' /\ stage' \in Stages
    BY <2>2, <2>3 DEF Reading, Stages
  <2>5. DocInv'
    BY <2>2, <2>4, DocsStand
  <2> QED BY <2>1, <2>5
<1>3. CASE \E there \in SUBSET ItemsOf(Names) : PickDocument(there)
  <2>1. PICK there : PickDocument(there)
    BY <1>3
  <2>2. DocInv'
    BY <2>1, PickStep
  <2>3. UNCHANGED <<stage, layered, merged>>
    BY <2>1 DEF PickDocument
  <2> QED BY <2>2, <2>3, MergeStands
<1>4. CASE BeginDocuments \/ EndDocuments
  <2>1. DocInv'
    BY <1>4, PlaceStep
  <2>2. UNCHANGED <<layered, merged>> /\ (stage' = stage \/ stage' = "rules")
    BY <1>4 DEF BeginDocuments, EndDocuments, Reading
  <2>3. MergeInv'
    BY <2>2, MergeStands
  <2> QED BY <2>1, <2>3
<1>5. CASE \E size \in DocSizes \cup {0} : ReadDocument(size)
  <2>1. PICK size \in DocSizes \cup {0} : ReadDocument(size)
    BY <1>5
  <2>2. size \in Nat
    BY <2>1, PromptAssumption
  <2>3. DocInv'
    BY <2>1, <2>2, ReadDocStep
  <2>4. UNCHANGED <<stage, layered, merged>>
    BY <2>1 DEF ReadDocument
  <2> QED BY <2>3, <2>4, MergeStands
<1>6. CASE \/ \E kinds \in [RuleFiles -> {"blank", "all", "matching", "other"}],
                 target \in BOOLEAN :
                LoadRules(kinds, target)
           \/ \E given, set, found \in SUBSET {"user", "imports"} : Assemble(given, set, found)
           \/ FailBuild
  <2>1. /\ UNCHANGED <<layered, merged, looked, readDocs, picked, docs>>
        /\ stage' \in {"sections", "done", "failed"}
    <3>1. CASE \E kinds, target : LoadRules(kinds, target)
      BY <3>1 DEF LoadRules
    <3>2. CASE \E given, set, found : Assemble(given, set, found)
      BY <3>2 DEF Assemble
    <3>3. CASE FailBuild
      BY <3>3 DEF FailBuild
    <3> QED BY <1>6, <3>1, <3>2, <3>3
  <2>2. stage' \in Stages /\ ~Reading'
    BY <2>1 DEF Stages, Reading
  <2>3. DocInv'
    BY <2>1, <2>2, DocsStand
  <2>4. MergeInv'
    BY <2>1, MergeStands
  <2> QED BY <2>3, <2>4
<1>7. CASE UNCHANGED promptVars
  <2>1. UNCHANGED <<stage, layered, merged, looked, readDocs, picked, docs>>
    BY <1>7 DEF promptVars
  <2>2. DocInv'
    BY <2>1, DocsStand
  <2>3. MergeInv'
    BY <2>1, MergeStands
  <2> QED BY <2>2, <2>3
<1> QED BY <1>1, <1>2, <1>3, <1>4, <1>5, <1>6, <1>7 DEF PromptNext

(* What a run is told is what its settings and documents say (builder.go,     *)
(* merge.go, context.go): for any number of directories, any budget and       *)
(* separator, any sizes of the documents, and whatever is found at each read. *)
THEOREM PromptStaysConfigured == PromptSpec => []PromptIsAsConfigured
PROOF
<1>1. PromptInit => MergeInv /\ DocInv
  <2> SUFFICES ASSUME PromptInit PROVE MergeInv /\ DocInv
    OBVIOUS
  <2>1. /\ stage = "settings" /\ layered = <<NoNode>> /\ looked = 0 /\ readDocs = 0
        /\ picked = <<>> /\ docs = <<>>
    BY DEF PromptInit
  <2>2. NoNode \in Nodes
    BY DEF NoNode, NoValue, Nodes, DenyValues, OtherValues, Once
  <2>3. MergeInv
    <3> HIDE DEF Nodes
    <3> QED BY <2>1, <2>2 DEF MergeInv, Layers
  <2>4. DocInv
    BY <2>1, PromptAssumption
       DEF DocInv, DocTypes, Stages, NothingYet, PickedDown, PlaceAtWork, Reading, AllKeep
  <2> QED BY <2>3, <2>4
<1>2. MergeInv /\ DocInv /\ [PromptNext]_promptVars => (MergeInv /\ DocInv)'
  BY PromptStep
<1>3. MergeInv /\ DocInv => PromptIsAsConfigured
  <2> SUFFICES ASSUME MergeInv, DocInv PROVE PromptIsAsConfigured
    OBVIOUS
  <2>1. SettingsAreLayered
    <3>1. CASE stage = "merged"
      BY <3>1, MergedIsLayered DEF MergeInv
    <3>2. CASE stage # "merged"
      BY <3>2 DEF SettingsAreLayered
    <3> QED BY <3>1, <3>2
  <2>2. DocumentsKeepBudget
    BY DEF DocInv, AllKeep, PlaceKeeps, DocumentsKeepBudget, LastOf
  <2> QED BY <2>1, <2>2 DEF PromptIsAsConfigured
<1> QED BY <1>1, <1>2, <1>3, PTL DEF PromptSpec
-------------------------------------------------------------------------------
(* The assets of a session, for any assets and any plugins that may be there. *)

PlaceNames == {"project", "user"} \cup {Plugins[i].root : i \in 1..Len(Plugins)}
InstalledAreThere == installed \subseteq 1..Len(Plugins)

\* The names that places have: those of the plugins are none of the others.
LEMMA PluginsAre ==
  ASSUME NEW i \in 1..Len(Plugins)
  PROVE  /\ Plugins[i].id \in 1..PluginNames /\ Plugins[i].root \in STRING
         /\ Plugins[i].root \notin {"project", "user", "builtin"}
         /\ PluginNames \in Nat
PROOF
<1>1. PICK R : R = [id : 1..PluginNames, root : STRING, offers : SUBSET Kinds]
  OBVIOUS
<1>2. Plugins \in Seq(R)
  BY <1>1, SlashAssumption
<1>3. Plugins[i] \in R
  BY <1>2, ElementOfSeq
<1> QED BY <1>1, <1>3, SlashAssumption

\* What stands in the place of a plugin has the rank of its id.
LEMMA RankOfPlugin ==
  ASSUME NEW i \in 1..Len(Plugins), NEW a, a.place = Plugins[i].root
  PROVE  Rank(a) = Plugins[i].id
PROOF
<1>1. \A j \in 1..Len(Plugins) : Plugins[j].root = a.place => j = i
  BY SlashAssumption
<1>2. (CHOOSE j \in 1..Len(Plugins) : Plugins[j].root = a.place) = i
  BY <1>1
<1>3. a.place # "project" /\ a.place # "user" /\ a.place # "builtin"
  BY PluginsAre
<1> QED BY <1>2, <1>3 DEF Rank

\* The ranks of what stands elsewhere.
LEMMA RankElsewhere ==
  ASSUME NEW a
  PROVE  /\ a.place = "project" => Rank(a) = 0
         /\ a.place = "user" => Rank(a) = PluginNames + 1
         /\ a.place = "builtin" => Rank(a) = PluginNames + 2
PROOF
<1> QED BY DEF Rank

\* The directory of a plugin: of all with one id one at most has it.
LEMMA RootsAre ==
  ASSUME InstalledAreThere, NEW kind, NEW s, s = AssetRoots(kind)
  PROVE  /\ s \in Seq(SUBSET PlaceNames) /\ Len(s) = PluginNames
         /\ \A n \in 1..PluginNames : \A p : p \in s[n] <=>
              \E i \in FoundPlugins : /\ Plugins[i].id = n /\ kind \in Plugins[i].offers
                                      /\ p = Plugins[i].root
         /\ \A n \in 1..PluginNames : \A p, q \in s[n] : p = q
PROOF
<1>1. PluginNames \in Nat /\ FoundPlugins \subseteq 1..Len(Plugins)
  BY SlashAssumption DEF FoundPlugins, InstalledAreThere
<1>2. \A n \in 1..PluginNames : \A p : p \in s[n] <=>
        \E i \in FoundPlugins : /\ Plugins[i].id = n /\ kind \in Plugins[i].offers
                                /\ p = Plugins[i].root
  BY DEF AssetRoots
<1>3. \A n \in 1..PluginNames : s[n] \in SUBSET PlaceNames
  <2> SUFFICES ASSUME NEW n \in 1..PluginNames, NEW p \in s[n] PROVE p \in PlaceNames
    OBVIOUS
  <2>1. PICK i \in FoundPlugins : p = Plugins[i].root
    BY <1>2
  <2>2. i \in 1..Len(Plugins)
    BY <1>1
  <2> QED BY <2>1, <2>2 DEF PlaceNames
<1>4. s \in [1..PluginNames -> SUBSET PlaceNames]
  BY <1>3 DEF AssetRoots
<1>5. s \in Seq(SUBSET PlaceNames) /\ Len(s) = PluginNames
  BY <1>1, <1>4
<1>6. ASSUME NEW n \in 1..PluginNames, NEW p \in s[n], NEW q \in s[n] PROVE p = q
  <2>1. PICK i \in FoundPlugins : Plugins[i].id = n /\ p = Plugins[i].root
    BY <1>2
  <2>2. PICK j \in FoundPlugins : Plugins[j].id = n /\ q = Plugins[j].root
    BY <1>2
  <2>3. i \in installed /\ j \in installed /\ ~(i < j) /\ ~(j < i)
    BY <2>1, <2>2 DEF FoundPlugins
  <2>4. i \in 1..Len(Plugins) /\ j \in 1..Len(Plugins) /\ Len(Plugins) \in Nat
    BY <2>3, SlashAssumption DEF InstalledAreThere
  <2>5. i = j
    BY <2>3, <2>4
  <2> QED BY <2>1, <2>2, <2>5
<1> QED BY <1>2, <1>5, <1>6

\* A set of places that come to one, whose assets have one rank.
OnePlace(kind, places, r) ==
  /\ \A p, q \in places : p = q
  /\ \A a \in There(kind, places) : Rank(a) = r

\* What is in the directory of a plugin.
LEMMA RootIsOnePlace ==
  ASSUME InstalledAreThere, NEW kind, NEW n \in 1..PluginNames
  PROVE  OnePlace(kind, AssetRoots(kind)[n], n)
PROOF
<1>1. PICK s : s = AssetRoots(kind)
  OBVIOUS
<1>2. \A p : p \in s[n] <=>
        \E i \in FoundPlugins : /\ Plugins[i].id = n /\ kind \in Plugins[i].offers
                                /\ p = Plugins[i].root
  BY <1>1, RootsAre
<1>3. \A p, q \in s[n] : p = q
  BY <1>1, RootsAre
<1>4. ASSUME NEW a \in There(kind, s[n]) PROVE Rank(a) = n
  <2>1. a.place \in s[n]
    BY DEF There
  <2>2. PICK i \in FoundPlugins : Plugins[i].id = n /\ a.place = Plugins[i].root
    BY <1>2, <2>1
  <2>3. i \in 1..Len(Plugins)
    BY DEF FoundPlugins, InstalledAreThere
  <2> QED BY <2>2, <2>3, RankOfPlugin
<1> QED BY <1>1, <1>3, <1>4 DEF OnePlace

\* What is there at one of several places, one after the other.
Loaded(kind, places) == {a \in Assets : \E n \in 1..Len(places) : a \in There(kind, places[n])}

\* A list with one thing more, before or after.
LEMMA OneBesides ==
  ASSUME NEW X, NEW s \in Seq(X), NEW x \in X
  PROVE  /\ \A w : w = <<x>> \o s =>
              /\ w \in Seq(X) /\ Len(w) = Len(s) + 1 /\ w[1] = x
              /\ \A n \in 2..Len(w) : n - 1 \in 1..Len(s) /\ w[n] = s[n - 1]
         /\ \A w : w = s \o <<x>> =>
              /\ w \in Seq(X) /\ Len(w) = Len(s) + 1 /\ w[Len(w)] = x
              /\ \A n \in 1..Len(s) : w[n] = s[n]
PROOF
<1>1. PICK v : v = <<x>>
  OBVIOUS
<1>2. v \in Seq(X) /\ Len(v) = 1 /\ v[1] = x
  BY <1>1
<1>3. PICK l \in Nat : l = Len(s)
  OBVIOUS
<1>4. ASSUME NEW w, w = v \o s
      PROVE  /\ w \in Seq(X) /\ Len(w) = l + 1 /\ w[1] = x
             /\ \A n \in 2..Len(w) : n - 1 \in 1..l /\ w[n] = s[n - 1]
  <2>1. /\ w \in Seq(X) /\ Len(w) = Len(v) + Len(s)
        /\ \A n \in 1..Len(v) + Len(s) : w[n] = IF n <= Len(v) THEN v[n] ELSE s[n - Len(v)]
    BY <1>2, <1>4, ConcatProperties
  <2>2. Len(w) = 1 + l /\ 1 \in 1..1 + l /\ w[1] = v[1]
    BY <1>2, <1>3, <2>1
  <2>3. ASSUME NEW n \in 2..Len(w) PROVE n - 1 \in 1..l /\ w[n] = s[n - 1]
    <3>1. n \in 1..Len(v) + Len(s) /\ ~(n <= Len(v)) /\ n - 1 \in 1..l
      BY <1>2, <1>3, <2>2
    <3> QED BY <1>2, <2>1, <3>1
  <2> QED BY <1>2, <1>3, <2>1, <2>2, <2>3
<1>5. ASSUME NEW w, w = s \o v
      PROVE  /\ w \in Seq(X) /\ Len(w) = l + 1 /\ w[Len(w)] = x
             /\ \A n \in 1..l : w[n] = s[n]
  <2>1. /\ w \in Seq(X) /\ Len(w) = Len(s) + Len(v)
        /\ \A n \in 1..Len(s) + Len(v) : w[n] = IF n <= Len(s) THEN s[n] ELSE v[n - Len(s)]
    BY <1>2, <1>5, ConcatProperties
  <2>2. Len(w) = l + 1 /\ Len(w) \in 1..Len(s) + Len(v) /\ ~(Len(w) <= Len(s))
        /\ Len(w) - Len(s) = 1
    BY <1>2, <1>3, <2>1
  <2>3. w[Len(w)] = x
    BY <1>2, <2>1, <2>2
  <2>4. \A n \in 1..l : n \in 1..Len(s) + Len(v) /\ n <= Len(s)
    BY <1>2, <1>3
  <2> QED BY <1>3, <2>1, <2>2, <2>3, <2>4
<1> QED BY <1>1, <1>3, <1>4, <1>5

\* The places of prompt files and skills, in the order of their ranks.
LEMMA BetweenIs ==
  ASSUME InstalledAreThere, NEW kind, NEW s, s = PluginsBetween("project", kind, "user")
  PROVE  /\ Len(s) = PluginNames + 2
         /\ \A n \in 1..Len(s) : OnePlace(kind, s[n], n - 1)
         /\ Visible(kind) = Loaded(kind, s)
PROOF
<1>1. PICK r, w, N : r = AssetRoots(kind) /\ w = <<{"project"}>> \o r /\ N = PluginNames
  OBVIOUS
<1>2. N \in Nat /\ r \in Seq(SUBSET PlaceNames) /\ Len(r) = N
  BY <1>1, RootsAre, SlashAssumption
<1>3. /\ w \in Seq(SUBSET PlaceNames) /\ Len(w) = N + 1
      /\ w[1] = {"project"} /\ \A n \in 2..(N + 1) : w[n] = r[n - 1]
  <2>1. PICK X, x : X = SUBSET PlaceNames /\ x = {"project"}
    OBVIOUS
  <2>2. x \in X /\ w = <<x>> \o r /\ r \in Seq(X)
    <3>1. {"project"} \in SUBSET PlaceNames
      BY DEF PlaceNames
    <3> QED BY <1>1, <1>2, <2>1, <3>1
  <2>3. /\ w \in Seq(X) /\ Len(w) = Len(r) + 1 /\ w[1] = x
        /\ \A n \in 2..Len(w) : w[n] = r[n - 1]
    BY <2>2, OneBesides
  <2> QED BY <1>2, <2>1, <2>3
<1>4. s = w \o <<{"user"}>>
  BY <1>1 DEF PluginsBetween
<1>5. /\ Len(s) = N + 2 /\ s[N + 2] = {"user"}
      /\ \A n \in 1..(N + 1) : s[n] = w[n]
  <2>1. PICK X, x : X = SUBSET PlaceNames /\ x = {"user"}
    OBVIOUS
  <2>2. x \in X /\ s = w \o <<x>> /\ w \in Seq(X)
    <3>1. {"user"} \in SUBSET PlaceNames
      BY DEF PlaceNames
    <3> QED BY <1>3, <1>4, <2>1, <3>1
  <2>3. /\ Len(s) = Len(w) + 1 /\ s[Len(s)] = x
        /\ \A n \in 1..Len(w) : s[n] = w[n]
    BY <2>2, OneBesides
  <2>4. Len(s) = N + 2
    BY <1>2, <1>3, <2>3
  <2> QED BY <1>3, <2>1, <2>3, <2>4
<1>6. s[1] = {"project"} /\ \A n \in 2..(N + 1) : s[n] = r[n - 1]
  BY <1>2, <1>3, <1>5
<1>7. ASSUME NEW n \in 1..Len(s) PROVE OnePlace(kind, s[n], n - 1)
  <2>1. CASE n = 1
    <3>1. \A a \in There(kind, s[n]) : a.place = "project"
      BY <1>6, <2>1 DEF There
    <3> QED BY <1>6, <2>1, <3>1, RankElsewhere DEF OnePlace
  <2>2. CASE n = N + 2
    <3>1. \A a \in There(kind, s[n]) : a.place = "user"
      BY <1>5, <2>2 DEF There
    <3>2. \A a \in There(kind, s[n]) : Rank(a) = n - 1
      BY <1>1, <1>2, <2>2, <3>1, RankElsewhere
    <3> QED BY <1>5, <2>2, <3>2 DEF OnePlace
  <2>3. CASE n # 1 /\ n # N + 2
    <3>1. n \in 2..(N + 1) /\ n - 1 \in 1..PluginNames
      BY <1>1, <1>2, <1>5, <2>3
    <3>2. s[n] = AssetRoots(kind)[n - 1]
      BY <1>1, <1>6, <3>1
    <3> QED BY <3>1, <3>2, RootIsOnePlace
  <2> QED BY <2>1, <2>2, <2>3
<1>8. \A n \in 1..N : \A p : p \in r[n] <=>
        \E i \in FoundPlugins : /\ Plugins[i].id = n /\ kind \in Plugins[i].offers
                                /\ p = Plugins[i].root
  BY <1>1, RootsAre
<1>9. ASSUME NEW a \in Visible(kind) PROVE a \in Loaded(kind, s)
  <2>1. a \in Assets /\ \A n \in 1..Len(s) : a.place \in s[n] => a \in There(kind, s[n])
    BY DEF Visible, There
  <2>2. CASE a.place = "project"
    <3>1. 1 \in 1..Len(s) /\ a.place \in s[1]
      BY <1>2, <1>5, <1>6, <2>2
    <3> QED BY <2>1, <3>1 DEF Loaded
  <2>3. CASE a.place = "user"
    <3>1. N + 2 \in 1..Len(s) /\ a.place \in s[N + 2]
      BY <1>2, <1>5, <2>3
    <3> QED BY <2>1, <3>1 DEF Loaded
  <2>4. CASE a.place # "project" /\ a.place # "user"
    <3>1. PICK i \in FoundPlugins : kind \in Plugins[i].offers /\ a.place = Plugins[i].root
      BY <2>4 DEF Visible
    <3>2. i \in 1..Len(Plugins)
      BY DEF FoundPlugins, InstalledAreThere
    <3>3. PICK n : n = Plugins[i].id
      OBVIOUS
    <3>4. n \in 1..N
      BY <1>1, <3>2, <3>3, PluginsAre
    <3>5. a.place \in r[n]
      BY <1>8, <3>1, <3>3, <3>4
    <3>6. n + 1 \in 2..(N + 1) /\ n + 1 \in 1..Len(s) /\ n + 1 - 1 = n
      BY <1>2, <1>5, <3>4
    <3>7. PICK m : m = n + 1
      OBVIOUS
    <3>8. m \in 2..(N + 1) /\ m \in 1..Len(s) /\ m - 1 = n
      BY <1>2, <3>4, <3>6, <3>7
    <3>9. a.place \in s[m]
      BY <1>6, <3>5, <3>8
    <3> QED BY <2>1, <3>8, <3>9 DEF Loaded
  <2> QED BY <2>2, <2>3, <2>4
<1>10. ASSUME NEW a \in Loaded(kind, s) PROVE a \in Visible(kind)
  <2>1. PICK n \in 1..Len(s) : a \in There(kind, s[n])
    BY DEF Loaded
  <2>2. a \in Assets /\ a.kind = kind /\ disk[a] # 0 /\ a.place \in s[n]
    BY <2>1 DEF There
  <2>3. n = 1 \/ n = N + 2 \/ (n \in 2..(N + 1) /\ n - 1 \in 1..N)
    BY <1>2, <1>5
  <2>4. CASE n = 1 \/ n = N + 2
    <3>1. a.place \in {"project", "user"}
      BY <1>5, <1>6, <2>2, <2>4
    <3> QED BY <2>2, <3>1 DEF Visible
  <2>5. CASE n \in 2..(N + 1) /\ n - 1 \in 1..N
    <3>1. a.place \in r[n - 1]
      BY <1>6, <2>2, <2>5
    <3>2. PICK i \in FoundPlugins : kind \in Plugins[i].offers /\ a.place = Plugins[i].root
      BY <1>8, <2>5, <3>1
    <3> QED BY <2>2, <3>2 DEF Visible
  <2> QED BY <2>3, <2>4, <2>5
<1>11. Visible(kind) = Loaded(kind, s)
  BY <1>9, <1>10
<1> QED BY <1>1, <1>5, <1>7, <1>11

\* The places of styles, and their ranks.
StyleRank(n) == IF n = 1 THEN PluginNames + 1 ELSE n - 2

LEMMA StylePlacesAre ==
  ASSUME InstalledAreThere, NEW s, s = StylePlaces
  PROVE  /\ Len(s) = PluginNames + 2
         /\ \A n \in 1..Len(s) : OnePlace("style", s[n], StyleRank(n))
         /\ \A n \in 1..Len(s) : \A a \in There("style", s[n]) :
              /\ n = 1 => a.place = "user"
              /\ n = 2 => a.place = "project"
              /\ n > 2 => \E i \in 1..Len(Plugins) : a.place = Plugins[i].root
         /\ Visible("style") = Loaded("style", s)
PROOF
<1>1. PICK r, v, N : r = AssetRoots("style") /\ v = <<{"user"}, {"project"}>> /\ N = PluginNames
  OBVIOUS
<1>2. N \in Nat /\ r \in Seq(SUBSET PlaceNames) /\ Len(r) = N
  BY <1>1, RootsAre, SlashAssumption
<1>3. /\ v \in Seq(SUBSET PlaceNames) /\ Len(v) = 2
      /\ v[1] = {"user"} /\ v[2] = {"project"}
  <2>1. {"user"} \in SUBSET PlaceNames /\ {"project"} \in SUBSET PlaceNames
    BY DEF PlaceNames
  <2>2. PICK X, x, y : X = SUBSET PlaceNames /\ x = {"user"} /\ y = {"project"}
    OBVIOUS
  <2>3. v = <<x, y>> /\ x \in X /\ y \in X
    BY <1>1, <2>1, <2>2
  <2>4. v \in Seq(X) /\ Len(v) = 2 /\ v[1] = x /\ v[2] = y
    BY <2>3
  <2> QED BY <2>2, <2>4
<1>4. s = v \o r
  BY <1>1 DEF StylePlaces
<1>5. /\ Len(s) = N + 2 /\ s[1] = {"user"} /\ s[2] = {"project"}
      /\ \A n \in 3..(N + 2) : n - 2 \in 1..N /\ s[n] = r[n - 2]
  <2>1. /\ Len(s) = Len(v) + Len(r)
        /\ \A n \in 1..Len(v) + Len(r) : s[n] = IF n <= Len(v) THEN v[n] ELSE r[n - Len(v)]
    <3>1. PICK X : X = SUBSET PlaceNames
      OBVIOUS
    <3>2. v \in Seq(X) /\ r \in Seq(X)
      BY <1>2, <1>3, <3>1
    <3> QED BY <1>4, <3>2, ConcatProperties
  <2>2. Len(s) = N + 2 /\ 1 \in 1..Len(v) + Len(r) /\ 2 \in 1..Len(v) + Len(r)
    BY <1>2, <1>3, <2>1
  <2>3. s[1] = {"user"} /\ s[2] = {"project"}
    BY <1>3, <2>1, <2>2
  <2>4. ASSUME NEW n \in 3..(N + 2) PROVE n - 2 \in 1..N /\ s[n] = r[n - 2]
    <3>1. n \in 1..Len(v) + Len(r) /\ ~(n <= Len(v)) /\ n - 2 \in 1..N
      BY <1>2, <1>3
    <3> QED BY <1>3, <2>1, <3>1
  <2> QED BY <2>2, <2>3, <2>4
<1>6. \A n \in 1..N : \A p : p \in r[n] <=>
        \E i \in FoundPlugins : /\ Plugins[i].id = n /\ "style" \in Plugins[i].offers
                                /\ p = Plugins[i].root
  BY <1>1, RootsAre
<1>7. ASSUME NEW n \in 1..Len(s), NEW a \in There("style", s[n])
      PROVE  /\ n = 1 => a.place = "user"
             /\ n = 2 => a.place = "project"
             /\ n > 2 => \E i \in 1..Len(Plugins) : a.place = Plugins[i].root
  <2>1. a.place \in s[n]
    BY DEF There
  <2>2. ASSUME n > 2 PROVE \E i \in 1..Len(Plugins) : a.place = Plugins[i].root
    <3>1. n \in 3..(N + 2)
      BY <1>2, <1>5, <2>2
    <3>2. n - 2 \in 1..N /\ a.place \in r[n - 2]
      BY <1>5, <2>1, <3>1
    <3>3. PICK i \in FoundPlugins : a.place = Plugins[i].root
      BY <1>6, <3>2
    <3> QED BY <3>3 DEF FoundPlugins, InstalledAreThere
  <2> QED BY <1>5, <2>1, <2>2
<1>8. ASSUME NEW n \in 1..Len(s) PROVE OnePlace("style", s[n], StyleRank(n))
  <2>1. CASE n = 1
    <3>1. \A a \in There("style", s[n]) : a.place = "user"
      BY <1>7, <2>1
    <3> QED BY <1>5, <2>1, <3>1, RankElsewhere DEF OnePlace, StyleRank
  <2>2. CASE n = 2
    <3>1. \A a \in There("style", s[n]) : a.place = "project"
      BY <1>7, <2>2
    <3> QED BY <1>5, <2>2, <3>1, RankElsewhere DEF OnePlace, StyleRank
  <2>3. CASE n # 1 /\ n # 2
    <3>1. n \in 3..(N + 2)
      BY <1>2, <1>5, <2>3
    <3>2. n - 2 \in 1..PluginNames /\ s[n] = AssetRoots("style")[n - 2]
      BY <1>1, <1>5, <3>1
    <3>3. StyleRank(n) = n - 2
      BY <2>3 DEF StyleRank
    <3> QED BY <3>2, <3>3, RootIsOnePlace
  <2> QED BY <2>1, <2>2, <2>3
<1>9. ASSUME NEW a \in Visible("style") PROVE a \in Loaded("style", s)
  <2>1. a \in Assets /\ \A n \in 1..Len(s) : a.place \in s[n] => a \in There("style", s[n])
    BY DEF Visible, There
  <2>2. 1 \in 1..Len(s) /\ 2 \in 1..Len(s)
    BY <1>2, <1>5
  <2>3. CASE a.place \in {"user", "project"}
    BY <1>5, <2>1, <2>2, <2>3 DEF Loaded
  <2>4. CASE a.place \notin {"user", "project"}
    <3>1. PICK i \in FoundPlugins : "style" \in Plugins[i].offers /\ a.place = Plugins[i].root
      BY <2>4 DEF Visible
    <3>2. i \in 1..Len(Plugins)
      BY DEF FoundPlugins, InstalledAreThere
    <3>3. PICK n, m : n = Plugins[i].id /\ m = n + 2
      OBVIOUS
    <3>4. n \in 1..N
      BY <1>1, <3>2, <3>3, PluginsAre
    <3>5. m \in 3..(N + 2) /\ m \in 1..Len(s) /\ m - 2 = n
      BY <1>2, <1>5, <3>3, <3>4
    <3>6. a.place \in r[n]
      BY <1>6, <3>1, <3>3, <3>4
    <3>7. a.place \in s[m]
      BY <1>5, <3>5, <3>6
    <3> QED BY <2>1, <3>5, <3>7 DEF Loaded
  <2> QED BY <2>3, <2>4
<1>10. ASSUME NEW a \in Loaded("style", s) PROVE a \in Visible("style")
  <2>1. PICK n \in 1..Len(s) : a \in There("style", s[n])
    BY DEF Loaded
  <2>2. a \in Assets /\ a.kind = "style" /\ disk[a] # 0 /\ a.place \in s[n]
    BY <2>1 DEF There
  <2>3. n = 1 \/ n = 2 \/ n \in 3..(N + 2)
    BY <1>2, <1>5
  <2>4. CASE n = 1 \/ n = 2
    BY <1>5, <2>2, <2>4 DEF Visible
  <2>5. CASE n \in 3..(N + 2)
    <3>1. n - 2 \in 1..N /\ a.place \in r[n - 2]
      BY <1>5, <2>2, <2>5
    <3>2. PICK i \in FoundPlugins : "style" \in Plugins[i].offers /\ a.place = Plugins[i].root
      BY <1>6, <3>1
    <3> QED BY <2>2, <3>2 DEF Visible
  <2> QED BY <2>3, <2>4, <2>5
<1>11. Visible("style") = Loaded("style", s)
  BY <1>9, <1>10
<1> QED BY <1>1, <1>5, <1>7, <1>8, <1>11
-------------------------------------------------------------------------------
(* What the loaders keep.                                                     *)

\* What is the first of its file's name up to the n-th place.
KeptOf(kind, places, n) ==
  {a \in Assets : \E i \in 1..n : a \in There(kind, places[i]) /\
     \A j \in 1..(i - 1) : \A b \in There(kind, places[j]) : b.file # a.file}

\* Every file's name has a first place, up to any of those it is at.
LEMMA FirstPlace ==
  ASSUME NEW kind, NEW places, NEW n \in Nat, NEW i \in 1..n, NEW a \in There(kind, places[i])
  PROVE  \E b \in KeptOf(kind, places, n) : b.file = a.file
PROOF
<1>1. PICK S : S = {j \in 1..n : \E b \in There(kind, places[j]) : b.file = a.file}
  OBVIOUS
<1>2. S \subseteq Nat /\ S # {}
  BY <1>1
<1>3. PICK j \in S : \A k \in S : j <= k
  BY <1>2, FirstOf
<1>4. PICK b \in There(kind, places[j]) : b.file = a.file
  BY <1>1, <1>3
<1>5. j \in 1..n
  BY <1>1, <1>3
<1>6. \A k \in 1..(j - 1) : k \in 1..n /\ ~(j <= k)
  BY <1>5
<1>7. \A k \in 1..(j - 1) : \A c \in There(kind, places[k]) : c.file # b.file
  BY <1>1, <1>3, <1>4, <1>6
<1>8. b \in Assets
  BY DEF There
<1> QED BY <1>4, <1>5, <1>7, <1>8 DEF KeptOf

\* One place more.
LEMMA KeptGrows ==
  ASSUME NEW kind, NEW places, NEW n \in Nat, NEW kept, kept = KeptOf(kind, places, n)
  PROVE  KeptOf(kind, places, n + 1) = kept \cup Unseen(kept, There(kind, places[n + 1]))
PROOF
<1>1. PICK q, T : q = n + 1 /\ T = There(kind, places[q])
  OBVIOUS
<1>2. q \in Nat /\ 1..q = (1..n) \cup {q} /\ 1..(q - 1) = 1..n
  BY <1>1
<1>3. ASSUME NEW a \in KeptOf(kind, places, q) PROVE a \in kept \cup Unseen(kept, T)
  <2>1. PICK i \in 1..q : /\ a \in There(kind, places[i])
                          /\ \A j \in 1..(i - 1) : \A b \in There(kind, places[j]) : b.file # a.file
    BY DEF KeptOf
  <2>2. a \in Assets
    BY DEF KeptOf
  <2>3. CASE i \in 1..n
    BY <2>1, <2>2, <2>3 DEF KeptOf
  <2>4. CASE i = q
    <3>1. \A b \in kept : b.file # a.file
      <4> SUFFICES ASSUME NEW b \in kept PROVE b.file # a.file
        OBVIOUS
      <4>1. PICK j \in 1..n : b \in There(kind, places[j])
        BY DEF KeptOf
      <4> QED BY <1>2, <2>1, <2>4, <4>1
    <3> QED BY <1>1, <2>1, <2>4, <3>1 DEF Unseen
  <2> QED BY <1>2, <2>3, <2>4
<1>4. ASSUME NEW a \in kept PROVE a \in KeptOf(kind, places, q)
  BY <1>2, <1>4 DEF KeptOf
<1>5. ASSUME NEW a \in Unseen(kept, T) PROVE a \in KeptOf(kind, places, q)
  <2>1. a \in T /\ a \in Assets /\ \A b \in kept : b.file # a.file
    BY <1>1 DEF Unseen, There
  <2>2. ASSUME NEW j \in 1..(q - 1), NEW b \in There(kind, places[j]) PROVE b.file # a.file
    <3>1. j \in 1..n
      BY <1>2
    <3>2. PICK c \in KeptOf(kind, places, n) : c.file = b.file
      BY <3>1, FirstPlace
    <3> QED BY <2>1, <3>2
  <2>3. q \in 1..q
    BY <1>1
  <2> QED BY <1>1, <2>1, <2>2, <2>3 DEF KeptOf
<1> QED BY <1>1, <1>3, <1>4, <1>5

\* The loader's list, from the first place to the last, is that.
LEMMA LoaderKeeps ==
  ASSUME NEW kind, NEW places, Len(places) \in Nat
  PROVE  FirstOfAName(kind, places) = KeptOf(kind, places, Len(places))
PROOF
<1>1. PICK n : n = Len(places)
  OBVIOUS
<1>2. n \in Nat /\ n \in 0..n
  BY <1>1
<1> DEFINE Body(x, i) == IF i = 0 THEN {}
                         ELSE x[i - 1] \cup Unseen(x[i - 1], There(kind, places[i]))
<1>3. PICK f : f = [i \in 0..n |-> KeptOf(kind, places, i)]
  OBVIOUS
<1>4. \A i \in 0..n : f[i] = Body(f, i)
  <2> SUFFICES ASSUME NEW i \in 0..n PROVE f[i] = Body(f, i)
    OBVIOUS
  <2>1. CASE i = 0
    <3>1. 1..0 = {}
      OBVIOUS
    <3>2. KeptOf(kind, places, 0) = {}
      BY <3>1 DEF KeptOf
    <3> QED BY <1>3, <2>1, <3>2
  <2>2. CASE i # 0
    <3>1. PICK k : k = i - 1
      OBVIOUS
    <3>2. k \in Nat /\ k \in 0..n /\ i = k + 1
      BY <1>2, <2>2, <3>1
    <3>3. f[i] = f[k] \cup Unseen(f[k], There(kind, places[i]))
      BY <1>3, <3>2, KeptGrows
    <3> QED BY <2>2, <3>1, <3>3
  <2> QED BY <2>1, <2>2
<1>5. f = [i \in 0..n |-> Body(f, i)]
  BY <1>3, <1>4
<1>6. PICK h : h = CHOOSE x : x = [i \in 0..n |-> Body(x, i)]
  OBVIOUS
<1>7. FirstOfAName(kind, places) = h[n]
  BY <1>1, <1>6 DEF FirstOfAName
<1>8. h = [i \in 0..n |-> Body(h, i)]
  <2> HIDE DEF Body
  <2>1. \E x : x = [i \in 0..n |-> Body(x, i)]
    BY <1>5, Zenon
  <2> QED BY <1>6, <2>1, Zenon
<1> DEFINE S == {i \in 0..n : h[i] = KeptOf(kind, places, i)}
<1>9. \A i \in 0..n : h[i] = Body(h, i)
  BY <1>8
<1>10. 0 \in S
  <2>1. 0 \in 0..n
    BY <1>2
  <2>2. h[0] = {} /\ f[0] = {}
    BY <1>4, <1>9, <2>1
  <2>3. f[0] = KeptOf(kind, places, 0)
    BY <1>3, <2>1
  <2> QED BY <2>1, <2>2, <2>3
<1>11. ASSUME NEW i \in 0..n, i # n, i \in S PROVE i + 1 \in S
  <2>1. PICK q : q = i + 1
    OBVIOUS
  <2>2. q \in 0..n /\ q # 0 /\ q - 1 = i /\ i \in Nat
    BY <1>2, <1>11, <2>1
  <2>3. h[q] = h[i] \cup Unseen(h[i], There(kind, places[q]))
    BY <1>9, <2>2
  <2>4. h[i] = KeptOf(kind, places, i)
    BY <1>11
  <2>5. h[q] = KeptOf(kind, places, q)
    BY <2>1, <2>2, <2>3, <2>4, KeptGrows
  <2> QED BY <2>1, <2>2, <2>5
<1>12. n \in S
  <2> HIDE DEF S, Body
  <2>1. 0..n \subseteq S
    BY <1>2, <1>10, <1>11, Stepwise
  <2> QED BY <1>2, <2>1
<1> QED BY <1>1, <1>7, <1>12

\* What the loaders of prompt files and skills keep is the foremost of each name.
LEMMA LoadersAgree ==
  ASSUME InstalledAreThere, NEW kind,
         NEW u, u = FirstOfAName(kind, PluginsBetween("project", kind, "user"))
  PROVE  u = ForemostByFile(kind) /\ \A a, b \in u : a.file = b.file => a = b
PROOF
<1>1. PICK s, n : s = PluginsBetween("project", kind, "user") /\ n = Len(s)
  OBVIOUS
<1>2. /\ n \in Nat /\ n = Len(s)
      /\ \A i \in 1..n : OnePlace(kind, s[i], i - 1)
      /\ Visible(kind) = Loaded(kind, s)
  BY <1>1, BetweenIs, SlashAssumption
<1>3. u = KeptOf(kind, s, n)
  BY <1>1, <1>2, LoaderKeeps
<1>4. \A a : a \in Visible(kind) <=> a \in Assets /\ \E i \in 1..n : a \in There(kind, s[i])
  BY <1>2 DEF Loaded
<1>5. \A i \in 1..n : \A a \in There(kind, s[i]) : Rank(a) = i - 1
  BY <1>2 DEF OnePlace
<1>6. ASSUME NEW a \in u PROVE a \in ForemostByFile(kind)
  <2>1. PICK i \in 1..n : /\ a \in There(kind, s[i])
                          /\ \A j \in 1..(i - 1) : \A b \in There(kind, s[j]) : b.file # a.file
    BY <1>3, <1>6 DEF KeptOf
  <2>2. a \in Visible(kind)
    BY <1>4, <2>1 DEF There
  <2>3. ASSUME NEW b \in Visible(kind), b.file = a.file PROVE Rank(a) <= Rank(b)
    <3>1. PICK j \in 1..n : b \in There(kind, s[j])
      BY <1>4
    <3>2. j \notin 1..(i - 1)
      BY <2>1, <2>3, <3>1
    <3>3. i <= j
      BY <1>2, <3>2
    <3>4. Rank(a) = i - 1 /\ Rank(b) = j - 1
      BY <1>5, <2>1, <3>1
    <3> QED BY <1>2, <3>3, <3>4
  <2> QED BY <2>2, <2>3 DEF ForemostByFile, Foremost
<1>7. ASSUME NEW a \in ForemostByFile(kind) PROVE a \in u
  <2>1. a \in Visible(kind) /\ \A b \in Visible(kind) : b.file = a.file => Rank(a) <= Rank(b)
    BY DEF ForemostByFile, Foremost
  <2>2. PICK i \in 1..n : a \in There(kind, s[i])
    BY <1>4, <2>1
  <2>3. ASSUME NEW j \in 1..(i - 1), NEW b \in There(kind, s[j]) PROVE b.file # a.file
    <3>1. j \in 1..n /\ j < i
      BY <1>2
    <3>2. b \in Visible(kind)
      BY <1>4, <3>1 DEF There
    <3>3. Rank(a) = i - 1 /\ Rank(b) = j - 1
      BY <1>5, <2>2, <3>1
    <3>4. ~(i - 1 <= j - 1)
      BY <1>2, <3>1
    <3> QED BY <2>1, <3>2, <3>3, <3>4
  <2>4. a \in Assets
    BY <2>2 DEF There
  <2> QED BY <1>3, <2>2, <2>3, <2>4 DEF KeptOf
<1>8. ASSUME NEW a \in u, NEW b \in u, a.file = b.file PROVE a = b
  <2>1. PICK i \in 1..n : /\ a \in There(kind, s[i])
                          /\ \A j \in 1..(i - 1) : \A c \in There(kind, s[j]) : c.file # a.file
    BY <1>3, <1>8 DEF KeptOf
  <2>2. PICK k \in 1..n : /\ b \in There(kind, s[k])
                          /\ \A j \in 1..(k - 1) : \A c \in There(kind, s[j]) : c.file # b.file
    BY <1>3, <1>8 DEF KeptOf
  <2>3. i \notin 1..(k - 1) /\ k \notin 1..(i - 1)
    BY <1>8, <2>1, <2>2
  <2>4. i = k
    BY <1>2, <2>3
  <2>5. a \in Assets /\ b \in Assets /\ a.kind = b.kind /\ a.place \in s[i] /\ b.place \in s[i]
    BY <2>1, <2>2, <2>4 DEF There
  <2>6. a.place = b.place
    BY <1>2, <2>5 DEF OnePlace
  <2> QED BY <1>8, <2>5, <2>6, SlashAssumption
<1>9. u = ForemostByFile(kind)
  BY <1>6, <1>7
<1> QED BY <1>8, <1>9

\* The styles with a name up to the n-th place, that of the program among them.
CalledTo(name, n) ==
  {a \in {BuiltinStyle} \cup {b \in Assets : \E i \in 1..n : b \in There("style", StylePlaces[i])} :
     TitleOf(a) = name}
StyleFits(a, name, n) ==
  IF CalledTo(name, n) = {} THEN a = NoAsset
  ELSE a \in CalledTo(name, n) /\ \A b \in CalledTo(name, n) : Rank(a) <= Rank(b)

\* The priority of a style and its rank, by its place.
LEMMA StyleStands ==
  ASSUME InstalledAreThere, NEW n \in 1..(PluginNames + 2),
         NEW a \in There("style", StylePlaces[n])
  PROVE  /\ n = 1 => Priority(a) = 20 /\ Rank(a) = PluginNames + 1
         /\ n = 2 => Priority(a) = 40 /\ Rank(a) = 0
         /\ n > 2 => Priority(a) = 30 /\ Rank(a) = n - 2
         /\ a # NoAsset
PROOF
<1>1. /\ n \in 1..Len(StylePlaces)
      /\ OnePlace("style", StylePlaces[n], StyleRank(n))
      /\ n = 1 => a.place = "user"
      /\ n = 2 => a.place = "project"
      /\ n > 2 => \E i \in 1..Len(Plugins) : a.place = Plugins[i].root
  BY StylePlacesAre
<1>2. Rank(a) = StyleRank(n)
  BY <1>1 DEF OnePlace
<1>3. a.kind = "style" /\ NoAsset.kind = "none"
  BY DEF There, NoAsset, Asset
<1>4. n \in Nat
  BY SlashAssumption
<1>5. CASE n = 1
  BY <1>1, <1>2, <1>3, <1>5 DEF StyleRank, Priority
<1>6. CASE n = 2
  BY <1>1, <1>2, <1>3, <1>6 DEF StyleRank, Priority
<1>7. CASE n # 1 /\ n # 2
  <2>1. n > 2
    BY <1>4, <1>7, SlashAssumption
  <2>2. PICK i \in 1..Len(Plugins) : a.place = Plugins[i].root
    BY <1>1, <2>1
  <2>3. a.place \notin {"project", "user", "builtin"}
    BY <2>2, PluginsAre
  <2>4. Priority(a) = 30
    BY <2>3 DEF Priority
  <2> QED BY <1>2, <1>3, <1>7, <2>4 DEF StyleRank
<1> QED BY <1>5, <1>6, <1>7

\* The same of the style that comes with the program.
LEMMA BuiltinStands ==
  /\ Priority(BuiltinStyle) = 10 /\ Rank(BuiltinStyle) = PluginNames + 2
  /\ BuiltinStyle # NoAsset
PROOF
<1>1. BuiltinStyle.place = "builtin" /\ BuiltinStyle.kind = "style" /\ NoAsset.kind = "none"
  BY DEF BuiltinStyle, Asset, NoAsset
<1>2. Rank(BuiltinStyle) = PluginNames + 2
  BY <1>1, RankElsewhere
<1> QED BY <1>1, <1>2 DEF Priority

\* And of all that have a name up to the n-th place.
LEMMA CalledStand ==
  ASSUME InstalledAreThere, NEW name, NEW n \in 0..(PluginNames + 2),
         NEW a \in CalledTo(name, n)
  PROVE  /\ Rank(a) \in Nat /\ Priority(a) \in Nat /\ a # NoAsset
         /\ Rank(a) <= PluginNames => Priority(a) >= 30 /\ Rank(a) + 1 <= n /\ n > 1
         /\ Rank(a) > PluginNames => Priority(a) <= 20
         /\ n = 0 => Priority(a) = 10 /\ Rank(a) = PluginNames + 2
PROOF
<1>1. PluginNames \in Nat /\ n \in Nat
  BY SlashAssumption
<1>2. CASE a = BuiltinStyle
  BY <1>1, <1>2, BuiltinStands
<1>3. CASE a # BuiltinStyle
  <2>1. PICK i \in 1..n : a \in There("style", StylePlaces[i])
    BY <1>3 DEF CalledTo
  <2>2. i \in 1..(PluginNames + 2)
    BY <1>1
  <2>3. /\ i = 1 => Priority(a) = 20 /\ Rank(a) = PluginNames + 1
        /\ i = 2 => Priority(a) = 40 /\ Rank(a) = 0
        /\ i > 2 => Priority(a) = 30 /\ Rank(a) = i - 2
        /\ a # NoAsset
    BY <2>1, <2>2, StyleStands
  <2>4. i \in Nat /\ (i = 1 \/ i = 2 \/ i > 2) /\ i <= n /\ i <= PluginNames + 2
    BY <1>1, <2>2
  <2>5. CASE i = 1
    BY <1>1, <2>3, <2>4, <2>5
  <2>6. CASE i = 2
    BY <1>1, <2>3, <2>4, <2>6
  <2>7. CASE i > 2
    BY <1>1, <2>3, <2>4, <2>7
  <2> QED BY <2>4, <2>5, <2>6, <2>7
<1> QED BY <1>2, <1>3

\* One place more: the style that is kept is still the foremost.
LEMMA StyleGoesOn ==
  ASSUME InstalledAreThere, NEW name, NEW n \in 0..(PluginNames + 1),
         NEW kept, StyleFits(kept, name, n),
         NEW found, found = {a \in There("style", StylePlaces[n + 1]) : TitleOf(a) = name}
  PROVE  StyleFits(Replaced(kept, found), name, n + 1)
PROOF
<1>1. PICK q, N, u, C, D : /\ q = n + 1 /\ N = PluginNames /\ u = Replaced(kept, found)
                           /\ C = CalledTo(name, n) /\ D = CalledTo(name, q)
  OBVIOUS
<1>2. /\ N \in Nat /\ n \in Nat /\ q \in 1..(N + 2) /\ 1..q = (1..n) \cup {q}
      /\ n \in 0..(N + 2)
  BY <1>1, SlashAssumption
<1>3. D = C \cup found
  <2>1. \A a \in found : a \in Assets
    BY DEF There
  <2> QED BY <1>1, <1>2, <2>1 DEF CalledTo
<1>4. /\ C = {} => kept = NoAsset
      /\ C # {} => kept \in C /\ \A b \in C : Rank(kept) <= Rank(b)
  BY <1>1 DEF StyleFits
<1>5. \A a \in found : /\ q = 1 => Priority(a) = 20 /\ Rank(a) = N + 1
                       /\ q = 2 => Priority(a) = 40 /\ Rank(a) = 0
                       /\ q > 2 => Priority(a) = 30 /\ Rank(a) = q - 2
  BY <1>1, <1>2, StyleStands
<1>6. \A a \in C : /\ Rank(a) \in Nat /\ Priority(a) \in Nat /\ a # NoAsset
                   /\ Rank(a) <= N => Priority(a) >= 30 /\ Rank(a) + 1 <= n /\ n > 1
                   /\ Rank(a) > N => Priority(a) <= 20
                   /\ n = 0 => Priority(a) = 10 /\ Rank(a) = N + 2
  BY <1>1, <1>2, CalledStand
<1>7. PICK better : better = {a \in found : kept # NoAsset => Priority(kept) < Priority(a)}
  OBVIOUS
<1>8. /\ better = {} => u = kept
      /\ better # {} => u \in better
  BY <1>1, <1>7 DEF Replaced
<1>9. CASE found = {}
  BY <1>1, <1>3, <1>4, <1>7, <1>8, <1>9 DEF StyleFits
<1>10. CASE found # {} /\ kept = NoAsset
  <2>1. C = {}
    BY <1>4, <1>6, <1>10
  <2>2. u \in found /\ D = found /\ D # {}
    BY <1>3, <1>7, <1>8, <1>10, <2>1
  <2>3. \A b \in D : Rank(u) <= Rank(b)
    <3>1. \A b \in D : Rank(b) = Rank(u)
      BY <1>2, <1>5, <2>2
    <3>2. Rank(u) \in Nat
      BY <1>2, <1>5, <2>2
    <3> QED BY <3>1, <3>2
  <2> QED BY <1>1, <2>2, <2>3 DEF StyleFits
<1>11. CASE found # {} /\ kept # NoAsset
  <2>1. C # {} /\ kept \in C /\ \A b \in C : Rank(kept) <= Rank(b)
    BY <1>4, <1>11
  <2>2. D # {}
    BY <1>3, <1>11
  <2>3. CASE Rank(kept) <= N
    <3>1. Priority(kept) >= 30 /\ Rank(kept) + 1 <= n /\ n > 1 /\ Rank(kept) \in Nat
      BY <1>6, <2>1, <2>3
    <3>2. CASE q > 2
      <4>1. better = {}
        BY <1>5, <1>6, <1>7, <1>11, <2>1, <3>1, <3>2
      <4>2. \A b \in found : Rank(kept) <= Rank(b)
        BY <1>1, <1>2, <1>5, <3>1, <3>2
      <4> QED BY <1>1, <1>3, <1>8, <2>1, <2>2, <4>1, <4>2 DEF StyleFits
    <3>3. q > 2
      BY <1>1, <1>2, <3>1
    <3> QED BY <3>2, <3>3
  <2>4. CASE Rank(kept) > N
    <3>1. /\ Priority(kept) <= 20 /\ Priority(kept) \in Nat /\ Rank(kept) \in Nat
          /\ n = 0 => Priority(kept) = 10
      BY <1>6, <2>1, <2>4
    <3>2. q \in Nat /\ (q = 1 \/ q = 2 \/ q > 2) /\ q - 2 <= N /\ (q = 1 => n = 0)
      BY <1>1, <1>2
    <3>3. \A a \in found : Priority(kept) < Priority(a)
      <4> SUFFICES ASSUME NEW a \in found PROVE Priority(kept) < Priority(a)
        OBVIOUS
      <4>1. /\ q = 1 => Priority(a) = 20
            /\ q = 2 => Priority(a) = 40
            /\ q > 2 => Priority(a) = 30
        BY <1>5
      <4> QED BY <3>1, <3>2, <4>1
    <3>4. u \in found
      BY <1>7, <1>8, <1>11, <3>3
    <3>5. \A b \in found : Rank(u) <= Rank(b)
      BY <1>2, <1>5, <3>2, <3>4
    <3>6. Rank(u) <= N + 1 /\ Rank(u) \in Nat
      BY <1>2, <1>5, <3>2, <3>4
    <3>7. \A b \in C : Rank(u) <= Rank(b)
      <4> SUFFICES ASSUME NEW b \in C PROVE Rank(u) <= Rank(b)
        OBVIOUS
      <4>1. Rank(kept) <= Rank(b) /\ Rank(b) \in Nat
        BY <1>6, <2>1
      <4> QED BY <1>2, <2>4, <3>1, <3>6, <4>1
    <3> QED BY <1>1, <1>3, <2>2, <3>4, <3>5, <3>7 DEF StyleFits
  <2> QED BY <1>2, <1>6, <2>1, <2>3, <2>4
<1> QED BY <1>9, <1>10, <1>11

\* So the style of a name is the foremost, if there is one.
LEMMA StyleIsForemost ==
  ASSUME InstalledAreThere, NEW name
  PROVE  IF StylesCalled(name) = {} THEN StyleOf(name) = NoAsset
         ELSE StyleOf(name) \in Foremost(StylesCalled(name))
PROOF
<1>1. PICK n : n = Len(StylePlaces)
  OBVIOUS
<1>2. n \in Nat /\ n \in 0..n /\ n = PluginNames + 2
  BY <1>1, StylePlacesAre, SlashAssumption
<1> DEFINE Called(places) == {a \in There("style", places) : TitleOf(a) = name}
           First == IF name = TitleOf(BuiltinStyle) THEN BuiltinStyle ELSE NoAsset
           Body(x, i) == IF i = 0 THEN First ELSE Replaced(x[i - 1], Called(StylePlaces[i]))
<1>3. PICK X : X = Assets \cup {BuiltinStyle, NoAsset}
  OBVIOUS
<1>4. \A x \in X : \A i : Replaced(x, Called(StylePlaces[i])) \in X
  BY <1>3 DEF Replaced, There
<1>5. PICK g : g = [p \in (1..n) \X X |-> Replaced(p[2], Called(StylePlaces[p[1]]))]
  OBVIOUS
<1>6. PICK f \in [0..n -> X] : Unfolds(f, n, First, g)
  <2>1. \A i \in 1..n : \A y \in X : g[<<i, y>>] = Replaced(y, Called(StylePlaces[i]))
    <3> HIDE DEF Called
    <3> QED BY <1>5
  <2>2. StaysIn(g, n, X)
    <3> HIDE DEF Called
    <3> QED BY <1>4, <2>1 DEF StaysIn
  <2>3. First \in X
    BY <1>3
  <2> HIDE DEF First
  <2> QED BY <1>2, <2>2, <2>3, Recursion
<1>7. \A i \in 0..n : f[i] = Body(f, i)
  <2> SUFFICES ASSUME NEW i \in 0..n PROVE f[i] = Body(f, i)
    OBVIOUS
  <2> HIDE DEF Called, First
  <2>1. CASE i = 0
    BY <1>6, <2>1 DEF Unfolds
  <2>2. CASE i # 0
    <3>1. i \in 1..n /\ i - 1 \in 0..n
      BY <1>2, <2>2
    <3>2. f[i] = g[<<i, f[i - 1]>>] /\ f[i - 1] \in X
      BY <1>6, <3>1 DEF Unfolds
    <3> QED BY <1>5, <2>2, <3>1, <3>2
  <2> QED BY <2>1, <2>2
<1>8. f = [i \in 0..n |-> Body(f, i)]
  <2> HIDE DEF Body
  <2> QED BY <1>6, <1>7
<1>9. PICK h : h = CHOOSE x : x = [i \in 0..n |-> Body(x, i)]
  OBVIOUS
<1>10. StyleOf(name) = h[n]
  BY <1>1, <1>9 DEF StyleOf
<1>11. h = [i \in 0..n |-> Body(h, i)]
  <2> HIDE DEF Body
  <2>1. \E x : x = [i \in 0..n |-> Body(x, i)]
    BY <1>8, Zenon
  <2> QED BY <1>9, <2>1, Zenon
<1> DEFINE S == {i \in 0..n : StyleFits(h[i], name, i)}
<1>12. \A i \in 0..n : h[i] = Body(h, i)
  <2> HIDE DEF Body
  <2> QED BY <1>11
<1>13. 0 \in S
  <2>1. 0 \in 0..n /\ 1..0 = {}
    BY <1>2
  <2>2. h[0] = First
    <3> HIDE DEF First, Called
    <3> QED BY <1>12, <2>1
  <2>3. CalledTo(name, 0) = {a \in {BuiltinStyle} : TitleOf(a) = name}
    BY <2>1 DEF CalledTo
  <2>4. Rank(BuiltinStyle) <= Rank(BuiltinStyle)
    BY <1>2, BuiltinStands, SlashAssumption
  <2>5. StyleFits(First, name, 0)
    BY <2>3, <2>4 DEF StyleFits
  <2> QED BY <2>1, <2>2, <2>5
<1>14. ASSUME NEW i \in 0..n, i # n, i \in S PROVE i + 1 \in S
  <2>1. PICK q : q = i + 1
    OBVIOUS
  <2>2. q \in 0..n /\ q # 0 /\ q - 1 = i /\ i \in 0..(PluginNames + 1)
    BY <1>2, <1>14, <2>1, SlashAssumption
  <2>3. h[q] = Replaced(h[i], Called(StylePlaces[q]))
    <3> HIDE DEF First, Called
    <3> QED BY <1>12, <2>2
  <2>4. PICK found : found = Called(StylePlaces[q])
    OBVIOUS
  <2>5. found = {a \in There("style", StylePlaces[i + 1]) : TitleOf(a) = name}
    BY <2>1, <2>4
  <2>6. StyleFits(h[i], name, i)
    BY <1>14
  <2>7. StyleFits(Replaced(h[i], found), name, i + 1)
    BY <2>2, <2>5, <2>6, StyleGoesOn
  <2> QED BY <2>1, <2>2, <2>3, <2>4, <2>7
<1>15. n \in S
  <2> HIDE DEF S, Body
  <2>1. 0..n \subseteq S
    BY <1>2, <1>13, <1>14, Stepwise
  <2> QED BY <1>2, <2>1
<1>16. StyleFits(StyleOf(name), name, n)
  BY <1>10, <1>15
<1>17. CalledTo(name, n) = StylesCalled(name)
  <2>1. Visible("style") = Loaded("style", StylePlaces)
    BY StylePlacesAre
  <2> QED BY <1>1, <2>1 DEF CalledTo, StylesCalled, Loaded
<1> QED BY <1>16, <1>17 DEF StyleFits, Foremost

\* The three loaders come to one order whatever is there and installed.
LEMMA LoadersKeepOrder == InstalledAreThere => OneOrder
PROOF
<1> SUFFICES ASSUME InstalledAreThere PROVE OneOrder
  OBVIOUS
<1>1. /\ CommandFiles = ForemostByFile("command")
      /\ \A a, b \in CommandFiles : a.file = b.file => a = b
  BY LoadersAgree DEF CommandFiles
<1>2. Skills = ForemostByFile("skill") /\ \A a, b \in Skills : a.file = b.file => a = b
  BY LoadersAgree DEF Skills
<1>3. \A name \in StyleNames :
        IF StylesCalled(name) = {} THEN StyleOf(name) = NoAsset
        ELSE StyleOf(name) \in Foremost(StylesCalled(name))
  BY StyleIsForemost
<1> QED BY <1>1, <1>2, <1>3 DEF OneOrder
-------------------------------------------------------------------------------
(* What the commands run.                                                     *)

\* A skill's entry stands for one that the loader kept, as long as nothing changed.
SkillsStand(entries) ==
  \A name \in DOMAIN entries : entries[name].what = "skill" =>
    /\ entries[name].asset \in Assets
    /\ changed = {} => entries[name].asset \in ForemostByFile("skill")

\* An asset is what the command of that name was listed for, with the exceptions.
StandsFor(name, asset) ==
  /\ name \in DOMAIN registry /\ registry[name].what = "skill"
  /\ asset = registry[name].asset \/ changed # {} \/ registry[name].asset.title # ""

\* What holds while a registry is built and its commands run.
SlashInv ==
  /\ InstalledAreThere
  /\ building # "none" => registry = NoEntries
  /\ building = "none" => gathered = NoEntries
  /\ registry = NoEntries => atWork = NotAtWork /\ ran = NothingRan
  /\ SkillsStand(gathered) /\ SkillsStand(registry)
  /\ atWork # NotAtWork => StandsFor(atWork.name, atWork.asset)
  /\ ran.what = "skill" => StandsFor(ran.name, ran.asset)
  /\ ran.what = "prompt" => /\ ran.asset = registry[ran.name].asset
                            /\ ran.text = registry[ran.name].text

\* The invariant gives the property.
LEMMA SlashShows == SlashInv => CommandsKeepTheirNames
PROOF
<1> SUFFICES ASSUME SlashInv PROVE CommandsKeepTheirNames
  OBVIOUS
<1>1. OneOrder
  BY LoadersKeepOrder DEF SlashInv
<1>2. RunsWhatItNames
  BY DEF SlashInv, StandsFor, RunsWhatItNames
<1> QED BY <1>1, <1>2 DEF CommandsKeepTheirNames

\* A registry begins empty.
LEMMA SlashBegins == SlashInit => SlashInv
PROOF
<1> SUFFICES ASSUME SlashInit PROVE SlashInv
  OBVIOUS
<1>1. InstalledAreThere
  BY SlashAssumption DEF SlashInit, InstalledAreThere
<1>2. DOMAIN NoEntries = {} /\ NothingRan.what = "none"
  BY DEF NoEntries, NothingRan
<1>3. SkillsStand(gathered) /\ SkillsStand(registry)
  BY <1>2 DEF SlashInit, SkillsStand
<1> QED BY <1>1, <1>2, <1>3 DEF SlashInit, SlashInv

\* What is visible and kept is so in the next state when no file and no plugin changed.
LEMMA ForemostStays ==
  ASSUME disk' = disk, installed' = installed
  PROVE  ForemostByFile("skill")' = ForemostByFile("skill")
PROOF
<1>1. FoundPlugins' = FoundPlugins
  BY DEF FoundPlugins
<1>2. Visible("skill")' = Visible("skill")
  BY <1>1 DEF Visible
<1>3. \A a : Rank(a)' = Rank(a)
  BY DEF Rank
<1> QED BY <1>2, <1>3 DEF ForemostByFile, Foremost

\* Entries stand when a change is noted or there is none.
LEMMA EntriesStand ==
  ASSUME NEW entries, SkillsStand(entries),
         \/ disk' = disk /\ installed' = installed /\ changed \subseteq changed'
         \/ changed' # {}
         \/ Assets \subseteq changed'
  PROVE  \A name \in DOMAIN entries : entries[name].what = "skill" =>
           /\ entries[name].asset \in Assets
           /\ changed' = {} => entries[name].asset \in ForemostByFile("skill")'
PROOF
<1> SUFFICES ASSUME NEW name \in DOMAIN entries, entries[name].what = "skill"
             PROVE  /\ entries[name].asset \in Assets
                    /\ changed' = {} => entries[name].asset \in ForemostByFile("skill")'
  OBVIOUS
<1>1. /\ entries[name].asset \in Assets
      /\ changed = {} => entries[name].asset \in ForemostByFile("skill")
  BY DEF SkillsStand
<1>2. CASE disk' = disk /\ installed' = installed /\ changed \subseteq changed'
  <2>1. ForemostByFile("skill")' = ForemostByFile("skill")
    BY <1>2, ForemostStays
  <2> QED BY <1>1, <1>2, <2>1
<1>3. CASE changed' # {} \/ Assets \subseteq changed'
  BY <1>1, <1>3
<1> QED BY <1>2, <1>3

\* A step that gathers nothing and runs nothing keeps the invariant, if it notes changes.
LEMMA SlashRests ==
  ASSUME SlashInv, installed' \subseteq installed, UNCHANGED <<gathered, building, registry>>,
         \/ disk' = disk /\ installed' = installed /\ changed \subseteq changed'
         \/ changed' # {}
         \/ Assets \subseteq changed',
         changed \subseteq changed'
  PROVE  /\ InstalledAreThere'
         /\ (building # "none" => registry = NoEntries)'
         /\ (building = "none" => gathered = NoEntries)'
         /\ SkillsStand(gathered)' /\ SkillsStand(registry)'
         /\ \A name, asset : StandsFor(name, asset) => StandsFor(name, asset)'
PROOF
<1>1. InstalledAreThere'
  BY DEF SlashInv, InstalledAreThere
<1>2. SkillsStand(gathered)'
  <2>1. \A name \in DOMAIN gathered : gathered[name].what = "skill" =>
           /\ gathered[name].asset \in Assets
           /\ changed' = {} => gathered[name].asset \in ForemostByFile("skill")'
    BY EntriesStand DEF SlashInv
  <2> QED BY <2>1 DEF SkillsStand
<1>3. SkillsStand(registry)'
  <2>1. \A name \in DOMAIN registry : registry[name].what = "skill" =>
           /\ registry[name].asset \in Assets
           /\ changed' = {} => registry[name].asset \in ForemostByFile("skill")'
    BY EntriesStand DEF SlashInv
  <2> QED BY <2>1 DEF SkillsStand
<1>4. \A name, asset : StandsFor(name, asset) => StandsFor(name, asset)'
  BY DEF StandsFor
<1> QED BY <1>1, <1>2, <1>3, <1>4 DEF SlashInv

\* Whatever changes, it is noted.
LEMMA ChangesNoted ==
  ASSUME SlashInv,
         \/ \E a \in Assets, removes \in BOOLEAN : EditAsset(a, removes)
         \/ \E i \in 1..Len(Plugins) : Uninstall(i)
         \/ ServerStops
  PROVE  SlashInv'
PROOF
<1>1. /\ installed' \subseteq installed
      /\ UNCHANGED <<gathered, building, registry, atWork, ran>>
      /\ changed \subseteq changed'
  BY DEF EditAsset, Uninstall, ServerStops, Edits
<1>2. \/ disk' = disk /\ installed' = installed
      \/ changed' # {}
      \/ Assets \subseteq changed'
  BY DEF EditAsset, Uninstall, ServerStops, Edits
<1>3. /\ InstalledAreThere'
      /\ (building # "none" => registry = NoEntries)'
      /\ (building = "none" => gathered = NoEntries)'
      /\ SkillsStand(gathered)' /\ SkillsStand(registry)'
      /\ \A name, asset : StandsFor(name, asset) => StandsFor(name, asset)'
  BY <1>1, <1>2, SlashRests
<1>4. (registry = NoEntries => atWork = NotAtWork /\ ran = NothingRan)'
  BY <1>1 DEF SlashInv, NotAtWork, NothingRan, NoEntries
<1>5. (atWork # NotAtWork => StandsFor(atWork.name, atWork.asset))'
  <2>1. ASSUME atWork # NotAtWork PROVE StandsFor(atWork.name, atWork.asset)'
    <3>1. PICK n, a : n = atWork.name /\ a = atWork.asset
      OBVIOUS
    <3>2. StandsFor(n, a)'
      BY <1>3, <2>1, <3>1 DEF SlashInv
    <3> QED BY <1>1, <3>1, <3>2 DEF StandsFor
  <2> QED BY <1>1, <2>1
<1>6. (ran.what = "skill" => StandsFor(ran.name, ran.asset))'
  <2>1. ASSUME ran.what = "skill" PROVE StandsFor(ran.name, ran.asset)'
    <3>1. PICK n, a : n = ran.name /\ a = ran.asset
      OBVIOUS
    <3>2. StandsFor(n, a)'
      BY <1>3, <2>1, <3>1 DEF SlashInv
    <3> QED BY <1>1, <3>1, <3>2 DEF StandsFor
  <2> QED BY <1>1, <2>1
<1>7. (ran.what = "prompt" => /\ ran.asset = registry[ran.name].asset
                              /\ ran.text = registry[ran.name].text)'
  BY <1>1 DEF SlashInv
<1> QED BY <1>3, <1>4, <1>5, <1>6, <1>7 DEF SlashInv

\* Building keeps the invariant: names go to what is there, and nothing runs meanwhile.
LEMMA BuildingKeeps ==
  ASSUME SlashInv, BuildRegistry \/ GatherCommandFiles \/ GatherSkills \/ GatherPrompts
  PROVE  SlashInv'
PROOF
<1> USE DEF SlashInv
<1>1. /\ atWork = NotAtWork /\ ran = NothingRan /\ registry = NoEntries
      /\ UNCHANGED <<disk, installed, atWork, ran>>
      /\ NothingRan.what = "none" /\ DOMAIN NoEntries = {}
  <2>1. registry = NoEntries
    BY DEF BuildRegistry, GatherCommandFiles, GatherSkills, GatherPrompts
  <2>2. UNCHANGED <<disk, installed, atWork, ran>>
    BY DEF BuildRegistry, GatherCommandFiles, GatherSkills, GatherPrompts
  <2> QED BY <2>1, <2>2 DEF NothingRan, NoEntries
<1>2. /\ InstalledAreThere'
      /\ (registry = NoEntries => atWork = NotAtWork /\ ran = NothingRan)'
      /\ (atWork # NotAtWork => StandsFor(atWork.name, atWork.asset))'
      /\ (ran.what = "skill" => StandsFor(ran.name, ran.asset))'
      /\ (ran.what = "prompt" => /\ ran.asset = registry[ran.name].asset
                                 /\ ran.text = registry[ran.name].text)'
  <2>1. atWork' = NotAtWork /\ ran' = NothingRan
    BY <1>1
  <2>2. NotAtWork' = NotAtWork /\ NothingRan' = NothingRan
    BY DEF NotAtWork, NothingRan
  <2>3. InstalledAreThere'
    BY <1>1 DEF InstalledAreThere
  <2> QED BY <1>1, <2>1, <2>2, <2>3
<1>3. ForemostByFile("skill")' = ForemostByFile("skill")
  BY <1>1, ForemostStays
<1>4. CASE BuildRegistry
  <2>1. /\ registry' = NoEntries /\ gathered' = NoEntries /\ building' = "files"
        /\ NoEntries' = NoEntries
    BY <1>1, <1>4 DEF BuildRegistry, NoEntries
  <2>2. SkillsStand(gathered)' /\ SkillsStand(registry)'
    BY <1>1, <2>1 DEF SkillsStand
  <2> QED BY <1>2, <2>1, <2>2
<1>5. CASE GatherCommandFiles
  <2>1. registry' = NoEntries /\ building' = "skills" /\ NoEntries' = NoEntries
    BY <1>1, <1>5 DEF GatherCommandFiles, NoEntries
  <2>2. \A name \in DOMAIN gathered' : gathered'[name].what = "prompt"
    BY <1>5 DEF GatherCommandFiles, Entry
  <2>3. SkillsStand(gathered)' /\ SkillsStand(registry)'
    BY <1>1, <2>1, <2>2 DEF SkillsStand
  <2> QED BY <1>2, <2>1, <2>3
<1>6. CASE GatherSkills
  <2>1. registry' = NoEntries /\ building' = "servers" /\ NoEntries' = NoEntries
        /\ changed' = changed
    BY <1>1, <1>6 DEF GatherSkills, NoEntries
  <2>2. PICK new : /\ gathered' = KeepFirst(gathered, new)
                   /\ \A name \in DOMAIN new : new[name].asset \in Skills
    <3>1. PICK first \in [{TitleOf(a) : a \in Skills} -> Skills] :
            gathered' = KeepFirst(gathered,
                                  [title \in DOMAIN first |-> Entry("skill", first[title], 0)])
      BY <1>6 DEF GatherSkills
    <3>2. PICK new : new = [title \in DOMAIN first |-> Entry("skill", first[title], 0)]
      OBVIOUS
    <3>3. \A name \in DOMAIN new : new[name].asset \in Skills
      BY <3>1, <3>2 DEF Entry
    <3> QED BY <3>1, <3>2, <3>3
  <2>3. Skills = ForemostByFile("skill") /\ Skills \subseteq Assets
    <3>1. Skills = ForemostByFile("skill")
      BY LoadersKeepOrder DEF OneOrder
    <3> QED BY <3>1 DEF ForemostByFile, Visible
  <2>4. SkillsStand(gathered)'
    <3> SUFFICES ASSUME NEW name \in DOMAIN gathered', gathered'[name].what = "skill"
                 PROVE  /\ gathered'[name].asset \in Assets
                        /\ changed = {} => gathered'[name].asset \in ForemostByFile("skill")
      BY <1>3, <2>1 DEF SkillsStand
    <3>1. CASE name \in DOMAIN gathered
      <4>1. gathered'[name] = gathered[name]
        BY <2>2, <3>1 DEF KeepFirst
      <4> QED BY <3>1, <4>1 DEF SkillsStand
    <3>2. CASE name \notin DOMAIN gathered
      <4>1. name \in DOMAIN new /\ gathered'[name] = new[name]
        BY <2>2, <3>2 DEF KeepFirst
      <4> QED BY <2>2, <2>3, <4>1
    <3> QED BY <3>1, <3>2
  <2>5. SkillsStand(registry)'
    BY <1>1, <2>1 DEF SkillsStand
  <2> QED BY <1>2, <2>1, <2>4, <2>5
<1>7. CASE GatherPrompts
  <2>1. gathered' = NoEntries /\ building' = "none" /\ NoEntries' = NoEntries
        /\ changed' = changed
    BY <1>7 DEF GatherPrompts, NoEntries
  <2>2. PICK a, b : /\ registry' = KeepFirst(KeepFirst(gathered, a), b)
                    /\ \A name \in DOMAIN a : a[name].what # "skill"
                    /\ \A name \in DOMAIN b : b[name].what # "skill"
    <3>1. PICK a : a = [name \in IF answers THEN {"srv:fix"} ELSE {} |->
                          Entry("remote", NoAsset, 0)]
      OBVIOUS
    <3>2. PICK b : b = [name \in {"output-style", "help"} |->
                         Entry(IF name = "help" THEN "help" ELSE "style", NoAsset, 0)]
      OBVIOUS
    <3>3. registry' = KeepFirst(KeepFirst(gathered, a), b)
      BY <1>7, <3>1, <3>2 DEF GatherPrompts
    <3>4. \A name \in DOMAIN a : a[name].what # "skill"
      BY <3>1 DEF Entry
    <3>5. \A name \in DOMAIN b : b[name].what # "skill"
      BY <3>2 DEF Entry
    <3> QED BY <3>3, <3>4, <3>5
  <2>3. SkillsStand(registry)'
    <3> SUFFICES ASSUME NEW name \in DOMAIN registry', registry'[name].what = "skill"
                 PROVE  /\ registry'[name].asset \in Assets
                        /\ changed = {} => registry'[name].asset \in ForemostByFile("skill")
      BY <1>3, <2>1 DEF SkillsStand
    <3>1. PICK w : w = KeepFirst(gathered, a)
      OBVIOUS
    <3>2. registry' = KeepFirst(w, b)
      BY <2>2, <3>1
    <3>3. name \in DOMAIN w /\ registry'[name] = w[name]
      BY <2>2, <3>2 DEF KeepFirst
    <3>4. name \in DOMAIN gathered /\ w[name] = gathered[name]
      BY <2>2, <3>1, <3>3 DEF KeepFirst
    <3> QED BY <3>3, <3>4 DEF SkillsStand
  <2>4. SkillsStand(gathered)'
    BY <1>1, <2>1 DEF SkillsStand
  <2> QED BY <1>2, <2>1, <2>3, <2>4
<1> QED BY <1>4, <1>5, <1>6, <1>7

\* Running a command changes no file, no plugin and no entry.
LEMMA CommandsKeep ==
  ASSUME SlashInv,
         UNCHANGED <<disk, installed, gathered, building, registry, changed>>,
         registry # NoEntries,
         (atWork # NotAtWork => StandsFor(atWork.name, atWork.asset))',
         (ran.what = "skill" => StandsFor(ran.name, ran.asset))',
         (ran.what = "prompt" => /\ ran.asset = registry[ran.name].asset
                                 /\ ran.text = registry[ran.name].text)'
  PROVE  SlashInv'
PROOF
<1>1. /\ InstalledAreThere'
      /\ (building # "none" => registry = NoEntries)'
      /\ (building = "none" => gathered = NoEntries)'
      /\ SkillsStand(gathered)' /\ SkillsStand(registry)'
  <2>1. UNCHANGED <<gathered, building, registry>> /\ installed' \subseteq installed
        /\ changed \subseteq changed' /\ disk' = disk /\ installed' = installed
    OBVIOUS
  <2> QED BY <2>1, SlashRests
<1>2. registry' # NoEntries'
  BY DEF NoEntries
<1> QED BY <1>1, <1>2 DEF SlashInv

\* What ran or is at work stays what it is, when nothing about it changes.
LEMMA StillStands ==
  ASSUME NEW name, NEW asset, StandsFor(name, asset), UNCHANGED <<registry, changed>>
  PROVE  StandsFor(name, asset)'
PROOF
<1> QED BY DEF StandsFor

\* A registry that has a command is not empty.
LEMMA NotEmpty ==
  ASSUME NEW name \in DOMAIN registry
  PROVE  registry # NoEntries
PROOF
<1> QED BY DEF NoEntries

\* A prompt is what its entry says.
LEMMA PromptsKeep ==
  ASSUME SlashInv, NEW name \in DOMAIN registry, DispatchPrompt(name)
  PROVE  SlashInv'
PROOF
<1>1. /\ UNCHANGED <<disk, installed, gathered, building, registry, changed, atWork>>
      /\ atWork = NotAtWork
      /\ registry[name].what \in {"prompt", "help", "remote"}
  BY DEF DispatchPrompt, Dispatched
<1>2. \/ ran' = [what |-> "error", name |-> name, asset |-> NoAsset, text |-> 0]
      \/ ran' = [what |-> registry[name].what, name |-> name, asset |-> registry[name].asset,
                 text |-> registry[name].text]
  BY DEF DispatchPrompt, Ran
<1>3. registry # NoEntries
  BY NotEmpty
<1>4. (atWork # NotAtWork => StandsFor(atWork.name, atWork.asset))'
  BY <1>1 DEF NotAtWork
<1>5. (ran.what = "skill" => StandsFor(ran.name, ran.asset))'
  BY <1>1, <1>2
<1>6. (ran.what = "prompt" => /\ ran.asset = registry[ran.name].asset
                              /\ ran.text = registry[ran.name].text)'
  BY <1>1, <1>2
<1> QED BY <1>1, <1>3, <1>4, <1>5, <1>6, CommandsKeep

\* Setting a style runs no file.
LEMMA StylesKeep ==
  ASSUME SlashInv, NEW target, DispatchStyle(target)
  PROVE  SlashInv'
PROOF
<1>1. /\ UNCHANGED <<disk, installed, gathered, building, registry, changed, atWork>>
      /\ atWork = NotAtWork /\ "output-style" \in DOMAIN registry
  BY DEF DispatchStyle, Dispatched
<1>2. ran'.what \in {"error", "style"}
  BY DEF DispatchStyle, Ran
<1>3. registry # NoEntries
  BY <1>1, NotEmpty
<1>4. (atWork # NotAtWork => StandsFor(atWork.name, atWork.asset))'
  BY <1>1 DEF NotAtWork
<1>5. ran'.what # "skill" /\ ran'.what # "prompt"
  BY <1>2
<1> QED BY <1>1, <1>3, <1>4, <1>5, CommandsKeep

\* The skill that is found is the one the entry stands for.
LEMMA FindingKeeps ==
  ASSUME SlashInv, NEW name \in DOMAIN registry, FindSkill(name)
  PROVE  SlashInv'
PROOF
<1>1. /\ UNCHANGED <<disk, installed, gathered, building, registry, changed>>
      /\ atWork = NotAtWork /\ registry[name].what = "skill"
  BY DEF FindSkill, Dispatched
<1>2. registry # NoEntries
  BY NotEmpty
<1>3. PICK e : e = registry[name].asset
  OBVIOUS
<1>4. CASE /\ ran' = [what |-> "error", name |-> name, asset |-> NoAsset, text |-> 0]
           /\ atWork' = atWork
  <2>1. (atWork # NotAtWork => StandsFor(atWork.name, atWork.asset))'
    BY <1>1, <1>4 DEF NotAtWork
  <2>2. ran'.what # "skill" /\ ran'.what # "prompt"
    BY <1>4
  <2> QED BY <1>1, <1>2, <2>1, <2>2, CommandsKeep
<1>5. ASSUME NEW a \in Skills, a.file = TitleOf(e),
             atWork' = [name |-> name, asset |-> a], ran' = ran
      PROVE  SlashInv'
  <2>1. StandsFor(name, a)
    <3>1. ASSUME changed = {}, e.title = "" PROVE a = e
      <4>1. e \in ForemostByFile("skill")
        BY <1>1, <1>3, <3>1 DEF SlashInv, SkillsStand
      <4>2. Skills = ForemostByFile("skill") /\ \A x, y \in Skills : x.file = y.file => x = y
        BY LoadersKeepOrder DEF OneOrder, SlashInv
      <4>3. a.file = e.file
        BY <1>5, <3>1 DEF TitleOf
      <4> QED BY <4>1, <4>2, <4>3
    <3> QED BY <1>1, <1>3, <3>1 DEF StandsFor
  <2>2. (atWork # NotAtWork => StandsFor(atWork.name, atWork.asset))'
    <3>1. StandsFor(name, a)'
      BY <1>1, <2>1, StillStands
    <3>2. atWork'.name = name /\ atWork'.asset = a
      BY <1>5
    <3> QED BY <3>1, <3>2 DEF StandsFor
  <2>3. (ran.what = "skill" => StandsFor(ran.name, ran.asset))'
    <3>1. PICK n, b : n = ran.name /\ b = ran.asset
      OBVIOUS
    <3>2. ran.what = "skill" => StandsFor(n, b)'
      BY <1>1, <3>1, StillStands DEF SlashInv
    <3> QED BY <1>5, <3>1, <3>2 DEF StandsFor
  <2>4. (ran.what = "prompt" => /\ ran.asset = registry[ran.name].asset
                                /\ ran.text = registry[ran.name].text)'
    BY <1>1, <1>5 DEF SlashInv
  <2> QED BY <1>1, <1>2, <2>2, <2>3, <2>4, CommandsKeep
<1>6. \/ ran' = [what |-> "error", name |-> name, asset |-> NoAsset, text |-> 0] /\ atWork' = atWork
      \/ \E a \in Skills : /\ a.file = TitleOf(e) /\ ran' = ran
                           /\ atWork' = [name |-> name, asset |-> a]
  BY <1>3 DEF FindSkill, Ran
<1> QED BY <1>4, <1>5, <1>6

\* The skill that is read is the one that was found.
LEMMA ReadingKeeps ==
  ASSUME SlashInv, ReadSkill
  PROVE  SlashInv'
PROOF
<1>1. /\ UNCHANGED <<disk, installed, gathered, building, registry, changed>>
      /\ atWork # NotAtWork /\ atWork' = NotAtWork
  BY DEF ReadSkill
<1>2. PICK n, a : n = atWork.name /\ a = atWork.asset
  OBVIOUS
<1>3. StandsFor(n, a)
  BY <1>1, <1>2 DEF SlashInv
<1>4. registry # NoEntries
  BY <1>3, NotEmpty DEF StandsFor
<1>5. \/ ran'.what = "skill" /\ ran'.name = n /\ ran'.asset = a
      \/ ran'.what = "error"
  BY <1>2 DEF ReadSkill, Ran
<1>6. StandsFor(n, a)'
  BY <1>1, <1>3, StillStands
<1>7. (atWork # NotAtWork => StandsFor(atWork.name, atWork.asset))'
  BY <1>1 DEF NotAtWork
<1>8. (ran.what = "skill" => StandsFor(ran.name, ran.asset))'
  BY <1>5, <1>6 DEF StandsFor
<1>9. ran'.what # "prompt"
  BY <1>5
<1> QED BY <1>1, <1>4, <1>7, <1>8, <1>9, CommandsKeep

\* Every step keeps the invariant.
LEMMA SlashGoesOn == SlashInv /\ [SlashNext]_slashVars => SlashInv'
PROOF
<1> SUFFICES ASSUME SlashInv, [SlashNext]_slashVars PROVE SlashInv'
  OBVIOUS
<1>1. CASE \/ \E a \in Assets, removes \in BOOLEAN : EditAsset(a, removes)
           \/ \E i \in 1..Len(Plugins) : Uninstall(i)
           \/ ServerStops
  BY <1>1, ChangesNoted
<1>2. CASE BuildRegistry \/ GatherCommandFiles \/ GatherSkills \/ GatherPrompts
  BY <1>2, BuildingKeeps
<1>3. CASE \E name \in DOMAIN registry : DispatchPrompt(name) \/ FindSkill(name)
  BY <1>3, PromptsKeep, FindingKeeps
<1>4. CASE \E target \in StyleNames : DispatchStyle(target)
  BY <1>4, StylesKeep
<1>5. CASE ReadSkill
  BY <1>5, ReadingKeeps
<1>6. CASE UNCHANGED slashVars
  <2>1. /\ UNCHANGED <<disk, installed, gathered, building, registry, changed>>
        /\ atWork' = atWork /\ ran' = ran
    BY <1>6 DEF slashVars
  <2>2. SkillsStand(gathered)' /\ SkillsStand(registry)' /\ InstalledAreThere'
        /\ \A name, asset : StandsFor(name, asset) => StandsFor(name, asset)'
    <3>1. installed' \subseteq installed /\ changed \subseteq changed'
      BY <2>1
    <3> QED BY <2>1, <3>1, SlashRests
  <2>3. (atWork # NotAtWork => StandsFor(atWork.name, atWork.asset))'
    BY <2>1 DEF SlashInv, StandsFor, NotAtWork
  <2>4. (ran.what = "skill" => StandsFor(ran.name, ran.asset))'
    BY <2>1 DEF SlashInv, StandsFor
  <2> QED BY <2>1, <2>2, <2>3, <2>4 DEF SlashInv, NoEntries, NotAtWork, NothingRan
<1> QED BY <1>1, <1>2, <1>3, <1>4, <1>5, <1>6 DEF SlashNext

\* Whatever is there and however it changes, a name goes to the foremost asset while a registry
\* is built, and a command runs what it was listed for, with the exceptions the property names.
THEOREM CommandsRunTheirOwn == SlashSpec => []CommandsKeepTheirNames
PROOF
<1>1. SlashInit => SlashInv
  BY SlashBegins
<1>2. SlashInv /\ [SlashNext]_slashVars => SlashInv'
  BY SlashGoesOn
<1>3. SlashInv => CommandsKeepTheirNames
  BY SlashShows
<1> QED BY <1>1, <1>2, <1>3, PTL DEF SlashSpec
===============================================================================
