# TLA+ models of Goyais

Goyais is a desktop client (`apps/desktop`), a command line, an ACP server for editors
and a hub (`services/hub`) that run coding agents. A client submits prompts to a
conversation; the hub queues one *execution* per prompt and hands the executions to an
agent engine; the engine runs the runs of a session one after the other; a run builds
its context, takes turns with a model, calls tools, waits for approvals and answers, and
can be stopped at any moment; the hub projects the events back onto its executions,
keeps the files they changed as a change set, and stores all of it in SQLite.

This directory models the parts where goroutines, processes, locks, files, tables and
event logs meet, checks them with TLC, and proves the invariants of most of those that
have one with TLAPS. Paths are relative to `src/services/hub/internal` unless they start with `apps`,
`cmd` or `docs`.

## 1. Inventory

| Part | State | Operations | Module |
| --- | --- | --- | --- |
| Run machine, `agent/core/statemachine` | a state per run | `Transition`, `ApplyControl` | `RunLifecycle` |
| Engine, `agent/runtime/loop/engine.go`, and router, `agent/policy/approval` | sessions with a queue and an active run, sequence counters, one mutex, a bounded channel per run | `StartSession`, `Submit`, `Control`, `Subscribe`, the goroutine of a run, the waits | `Engine` |
| Event store and subscriber manager, `agent/transport/{events,subscribers}` | a log per session, a channel and a lock per subscriber | `Append`, `Replay`, `Subscribe`, `Publish`, `Unsubscribe`, `PruneIdle` | `EventFeed` |
| Model loop and tool pipeline, `agent/runtime/model`, `agent/tools/executor` | the calls of a turn, the asks of a run | `RunLoop`, `ExecuteBatch`, `ExecuteSingle`, approve, answer, deny, stop | `ToolTurn` |
| Conversation queue, dispatcher and projector, `httpapi/handlers_*`, `run_execution_dispatcher.go`, `run_event_projector.go` | executions and their order, the active one, run bindings, one worker | prompt, stop, control, rollback, restart, delete, submit, project | `Conversation` |
| Conversation events, `httpapi/execution_events_store.go`, `handlers_conversation_events.go`, `apps/desktop/.../sseClient.ts`, `stream.ts` | a bounded history, client channels, the client's last event id and view | append, stream, reconnect, resynchronise | `EventStream` |
| Change sets, `httpapi/change_set_service.go` | a ledger of file changes and its journal | upsert, commit, discard, rollback, replay | `ChangeSets` |
| Persistence, `httpapi/state_execution_domain.go` and its tables | conversations in memory and in SQLite | capture and replace, hydrate, seed | `ExecutionStore` |
| Projects, `httpapi/handlers_projects.go` and the like | a project, its configuration, conversation, executions, resources | create, put, patch, list, delete, submit | `Projects` |
| Database schema, `httpapi/db_sqlite.go` | tables in a present or previous form | open, migrate, validate, back up, rebuild, seed | `Migration` |
| Model catalog, `httpapi/catalog_files.go` | a user's file, a root in a table and in memory, a cache | load, fill in, write back, watch, set root | `Catalog` |
| MCP client and probes, `agent/extensions/mcp/client.go`, `httpapi/mcp_probe*.go` | processes, pipes, a deadline, a stored configuration | call, connect | `McpClient` |
| Task graph, `httpapi/handlers_run_tasks.go`, `runtime/{scheduler,agentgraph}` | tasks with dependencies, priorities, retries, slots | resolve, normalise, cancel | `TaskGraph` |
| Rule books: `agent/policy`, `agent/tools`' sandbox, `controlplane`, `httpapi/authorization_engine.go` | rules, modes, grants, policies | evaluate, edit | `Decisions` |
| Hook dispatcher, `agent/extensions/hooks`, `agent/policy/hookscope` | a list of rules | dispatch | `HookRules` |
| Teams, `agent/extensions/teams` | a task board, file locks, inboxes, plan reviews | assign, complete, send, submit, review | `Teams` |
| Subagents, `agent/extensions/subagents` | definition files, counters, transcripts | discover, resolve, run, run a batch | `Subagents` |
| Slash commands, skills, output styles, prompts, plugins | files in four kinds of places, a registry | discover, build, dispatch | `SlashCommands` |
| Sessions and checkpoints, `agent/runtime/session`, `agent/tools/checkpoint` | sessions, snapshots of files | register, resume, fork, rewind, clear, snapshot, restore | `Sessions` |
| Compaction, `agent/runtime/compaction` | a message log, a summary, a cursor map | append, compact, resolve | `Compaction` |
| Prompt and settings, `agent/context/{prompt,settings}` | layers of settings, documents, rules | merge, read, assemble | `PromptContext` |
| ACP server, `agent/adapters/acp` | one line at a time, sessions, streams | prompt, subscribe, control | `AcpServer` |
| Command line, `cmd/goyais-cli` | three files of settings | every command that writes them | `CliState` |

`PROJECT.json` lists the remaining parts with the reason why they are not modelled, and
the hazards, each at its line with the properties aimed at it.

### How they interact

```
editor ──stdio──▶ ACP server ──────────────┐
client ──HTTP──▶ conversation handlers ──(after state.mu is released)──▶ dispatcher
   ▲                 ▲   state.mu      │ capture, replace                    │ Submit, Control
   │ SSE             │                 ▼                                     ▼
   └── history ◀─ projector ◀── subscription ◀── event store ◀── engine (e.mu), a goroutine per run
                     │           (SQLite)                          │   ▲ control channel (router)
                     ▼                                             ▼   │
                 change sets ◀─────── diffs ──────────────── turns, tool pipeline, approvals
```

* `Submit` and `Control` are synchronous calls into the engine. `Control` sends on the
  run's bounded channel while it holds `e.mu`.
* Every event is numbered, stored and handed to all subscribers under `e.mu`; under
  `block_producer` that hand-over waits for a subscriber.
* A handler decides under `state.mu`, and calls the engine and writes the tables
  afterwards without it, so the calls of two handlers, the projection of events and the
  writes interleave.
* The engine knows a run by its own id; the hub binds that id to the execution after
  `Submit` has returned, when the run may already be under way.
* All tool calls of a run wait on the one channel of the run, and the hub shows one
  state for the run.

The library parts (session manager, checkpoint store, compaction manager, subagent
runner, hook dispatcher, team coordinator) have no caller in production yet, or an
optional one; they are modelled with the callers their interfaces allow.

### What is hard, and what makes each part correct

* **Engine.** Three parties move a run: its goroutine, the clients' control calls and
  the goroutine of the run before it. Correct: one executor per session, starts in
  submission order, no run lost or ended twice, gapless event numbers, machine and
  events in agreement, no approval used twice, stops that are heard.
* **Event feed.** A subscription is made, read, closed and pruned while events are
  handed out; channels fill up. Correct: a slow reader costs nobody else anything, a
  stream repeats and reorders nothing, nobody holds the engine's lock for good.
* **Turns.** Parallel calls of a group wait for answers that name no call. Correct: no
  tool at work outside its batch, an answer stays within the group it was meant for, a
  call that waits can be answered.
* **Conversation.** Four paths advance one queue, each in its own critical section, and
  the engine calls follow later. Correct: no prompt stranded, submitted twice or out of
  order, no run that nobody owns, hub and engine in agreement, every prompt ends.
* **What is kept** (ledger, history, tables, configuration, files, catalog, database).
  Read, decide and write are three steps; the hub crashes, writes fail, connections
  break, users edit. Correct: what is lost is lost in a way somebody has named.
* **What is looked up and combined** (rules, settings, documents, commands, definitions,
  task slots). Several orders of precedence, each implemented anew. Correct: they come
  to the one order that is meant, whatever is installed, and a stricter rule never
  loosens a verdict.

## 2. Modules

A module's comments name the functions each action stands for; `PROJECT.json` ("map")
names the lines.

| Module | What it is |
| --- | --- |
| `RunLifecycle` | the transition matrix and the effect of the control actions, as operators |
| `Engine` | the engine, the router and the waits of the model executor |
| `RunQueue`, `EngineRefinement` | what a client relies on in the engine, a FIFO server per session; the refinement mapping |
| `EventFeed` | the event log of one session and its subscriptions |
| `Broadcast`, `EventFeedRefinement` | what a client relies on in it, a log and readers that only move forward; the mapping |
| `Conversation`, `MCConversation` | one conversation of the hub over an abstract engine; the instance for TLC |
| `ChangeSets`, `EventStream`, `ExecutionStore`, `Projects`, `CliState`, `Migration` | what is kept; `MCHubData` is the instance |
| `ToolTurn`, `TaskGraph`, `Teams`, `Decisions`, `AcpServer`, `Catalog`, `McpClient` | what surrounds a run; `MCAgentParts` is the instance |
| `Sessions`, `Compaction`, `Subagents`, `SlashCommands`, `PromptContext`, `HookRules` | the library parts; `MCLibrary` is the instance, with the event feed |
| `MCLiveness` | the engine and the event feed under fairness |
| `*Proofs` | the theorems, see section 4 |

### Engine

One action is one critical section of `e.mu` or one step of a goroutine outside it.

* `queue`, `active`, `feed` are `sessionRuntime.queue`, `.activeRunID` and `.sequence`
  with the stored events; `machine`, `cancelled` are `runRuntime.machine` and its
  context; `signals`, `registered` are the router's channels; `pc` is where the run's
  goroutine is.
* `Submit` and the end of a run both finish with `StartNextIfIdle`
  (`startNextIfIdleLocked`), the refused transition included: the head is dropped and
  the session stays idle.
* `Control` is the send and the effect in one section. If the channel is full the call
  blocks *inside* the section: `ControlBlocks` sets `blocked`, every action that needs
  `e.mu` has the guard `LockFree`, and `ControlUnblocks` is the rest of the call.
* What a run computes is abstracted to rounds of output deltas, approval waits and
  questions, and an outcome. Whether a context is built, the executor fails, or an
  answer fits the question is chosen freely. A `/compact` run is the phase
  `compacting`.
* `Prompted` describes clients that approve, resume or answer only a run that waits
  for it. `Spec` puts no condition on clients; `PromptedSpec` does.

### EventFeed

* `publishing` is the emission under way: the subscribers still to be served and whose
  `item.mu` is held. It holds `e.mu`, so `Subscribe`, `Emit` and `PruneIdle` wait for it.
* `live` is the manager's channel, `hand` the event the pump has taken from it, `out`
  the channel of the client; `replay` is what the pump has still to copy. `closer` is
  where the client's `Close` is: like the pump's deferred `Unsubscribe` it first looks
  for the subscriber in the map, and only the one that finds it closes the channel,
  which needs `item.mu`.
* The backpressure policy is chosen in `Init`, so one run covers the four of them.

### Conversation

* A handler is one critical section of `state.mu` that leaves a list of engine calls
  in `threads[t]`; `ThreadStep` makes them one by one. A submission is the steps
  `CheckUnbound`, `LoadContext`, `StartEngineSession`, `SubmitRun`, `BindRun` and
  `EnsureProjection`, each of which may be overtaken; thread 0 is the projection worker.
* The engine is a record with the behaviour of `RunQueue` and the events a run emits.
  That a signal may reach a run too early is the matter of `Engine`, that events may
  be dropped the matter of `EventFeed`; neither happens here.
* `PatientSpec` is the usual timing: a client makes no call other than a prompt while
  a handler is at work, and no event is projected while a run waits for its binding.
  `Spec` has no such condition.
* `StartSession` and the binding of the session are one step. A deletion ends the
  calls of the clients. The files a rollback restores and all persistence are left out.

### What is kept

* **ChangeSets.** A file is the number of the write that made it. `Write` changes the
  disk at once and reaches the ledger when its diff event is projected. Commit and
  discard are three steps each (`BeginRequest`, the work on the project, the end under
  the lock). `excused` collects the changes that are lost sight of in a way the
  module names where it happens.
* **EventStream.** `facts` is what the hub knows, of which the last `HistoryLimit` are
  the history and the first `saved` in the database; `channel` and `wire` are the way to
  the client, whose `lastSeen` and `view` are `lastId` and the copy it draws. `Connect`
  computes the backlog, with the resync event in front of it if the id is unknown;
  `AskFetch`, `AnswerFetch` and `EndFetch` are the fetch that follows. `lost` and `kept`
  are the named losses.
* **ExecutionStore.** A conversation is a version. A handler is `Arrive` (the seed, read
  without the lock), `Act` (the critical section), `Capture`, and one step per
  transaction; every one may fail and a crash may come between.
* **Projects.** A request is a list of steps, each one statement; what it read and has
  not acted on stands in `request[q].read`, and what has changed since in `.old`.
  `crossed` records the surprises.
* **CliState.** A command reads a whole file (`Begin`), computes (`Outcome` is one
  operator per command), empties the file and writes it. `disturbed` are the files for
  which another command or a kill came in between.
* **Migration.** One action per statement or loop of statements; `opening` is the
  function the hub is in, `StartFails` the failure or kill at any point. `owed` are the
  rows ever written, `blind` those dropped because the schema could not be read.

### What surrounds a run

* **ToolTurn.** `pc[c]` is where a call is in the pipeline; the group at work shares
  `signals`. The hub's side (`hub`, `question`, `shown`, `sending`) is what the user sees
  and clicks, with the delay in both directions.
* **TaskGraph.** The graph is an operator of what the hub knows; the actions change that.
  The pass over the tasks is a recursive function over turns, the urgent tasks' first.
* **Teams.** `BeginAssign` and `CommitAssign` are the two sides of the gate, a message
  gets its number in one section and its place in another.
* **Decisions.** The rule books and the functions that read them; a save of a role is
  the two statements it is in the code.
* **AcpServer.** One line at a time; a prompt is the loop of `Bridge.Prompt` over the two
  channels of its subscription.
* **Catalog.** A load is the steps root, stat, read, write back, stat, keep, with the
  watcher, the user's editor and settings of the root in between.
* **McpClient.** The client is at a message; the shell, its child and the pipes are the
  environment, with noise, deaths and a deadline.

### The library parts

* **Sessions.** Snapshot, restore and tools touch one file per step. `settled` is the
  checkpoint the files were last rewound to with nothing in between.
* **Compaction.** `AppendMessage`, `Compact`, and `MaybeCompact` in two steps.
* **Subagents.** `Resolve` reads a directory per step; a batch runs its requests side by
  side, two runners share the directory of transcripts.
* **SlashCommands.** The registry is gathered kind by kind while files change. The assets
  and the plugins are constants; the names of plugins are numbers, in the order of names.
* **PromptContext.** What a file holds is chosen when it is read.
* **HookRules.** A dispatcher to which one rule after the other is added.

## 3. Runs

| Run | Question | Instance |
| --- | --- | --- |
| `engine_any` | what holds whatever clients do | 2 sessions, 3 runs, 1 control call, 1 round, channel of 1 |
| `engine_prompted` | no run lost, machine and events agree, no old approval, FIFO refinement | 1 session, 3 runs, 2 control calls, 1 round, channel of 1 |
| `liveness` | stops are heard, queues move; readers catch up, nobody is held | 1 session, 2 runs, 2 control calls, 2 rounds, channel of 1; 1 subscription, 3 events, channels of 1 |
| `engine_queued_approve` | *violation*: approving a queued run | 3 runs, 2 control calls |
| `engine_full_channel` | *violation*: a full control channel | 2 runs, 3 control calls, channel of 1 |
| `conversation_patient` | order, ownership, agreement, every prompt ends | 3 prompts, 3 runs, 2 handler threads, 2 of the calls stop a session, stop a run, approve, answer; 1 wait, failing submissions |
| `conversation_impatient` | no stranded and no doubled prompt under any timing | 3 prompts, 3 runs, 2 handler threads, 1 call of stop, resume, deny, rollback, restart, delete; 1 wait, failing submissions |
| `conversation_fast_run` | *violation*: a run that ends before it is bound | 2 prompts |
| `hub_data` | what is kept is kept, six parts | see `HubData.cfg` |
| `agent_parts` | what surrounds a run, seven parts | see `AgentParts.cfg` |
| `library` | the event feed and six library parts | see `Library.cfg` |
| `acp_streams` | *violation*: a prompt that waits for its own client | 1 session, 3 lines |

`hub_data`, `agent_parts`, `library` and `liveness` each check several modules that share
no variable. Which one moves is chosen in the initial state (`part`) and the others stay
as they started, so the states add up and do not multiply. These runs say about each
part what a run of its own would say, and nothing about parts acting together; where
parts do act together that is within one module (`Engine`, `Conversation`, `ToolTurn`,
`ChangeSets`, `AcpServer`).

What the properties of these runs say:

* `LedgerIsComplete`: a path whose file differs from what was last committed is in the
  ledger, on its way there, or excused by name; without rollbacks, replaying the journal
  gives the ledger; a commit and a discard work on exactly what the client was shown.
* `ViewFollowsHub`: every event of the hub is in the client's view, on its way to it, or
  lost in a named way, and the view contains nothing else.
* `TablesKeepMemory`: when requests do not overlap and no write fails, the tables hold
  what memory holds once all are answered, and what was deleted stays deleted; when they
  overlap, the main tables do so unless an older state was written over a newer one or a
  lookup put a conversation back.
* `AgreeUnlessCrossed`: the records of a project agree, except for items a request acted
  on after they had changed.
* `SettingsAreKept`, `MigrationKeepsRows`, `LastChangeCounts`: what the last command, the
  rows ever written, the user's last edit say still counts, except in the named ways.
* `AsksMeetAnswers`: a call that waits can be answered, and a yes was meant for the group
  that takes it. `ToolsEndWithTheBatch`: no tool is at work outside its batch.
* `GraphIsFairToTasks`: free slots go to the first ready tasks by priority and queue and to
  no other, and waiting tasks never block one another for good. `LocksAgree`: a file's
  lock and the task that lists it agree.
* `TighteningNeverLoosens`: no step that makes a rule book stricter allows more.
* `PromptSeesItsRun`, `CallsAreAccounted`: the answer to a prompt or a call is about that
  prompt or call, and is given once.
* `OnlyOwnLosses`: a subscription misses only what its own full channel cost it;
  `ImplementsBroadcast`: and what it reads is in order.
* `RewindGivesBack`, `ContextIsWhole`, `AgentsAreAccounted`, `CommandsKeepTheirNames`,
  `PromptIsAsConfigured`, `RulesOnlyTighten`: a rewind gives back the files of its
  checkpoint, a compaction drops no message but what the summary was too long to tell,
  every subagent's run is accounted for with the tools it was to have, a command runs
  what its name stands for, the prompt is what the layers come to, and the decision on a
  hook is the strictest of what the rules say one by one.

Why these bounds are enough to be worth it:

* Three runs of a session are the smallest number with two in the queue, which is what
  overtaking, truncating removals and a dropped head need; two sessions share the lock.
* A channel of capacity 1 is full after one unread signal, so the second of two control
  calls blocks with `e.mu` held. `engine_any` covers two sessions with one control
  call; pairs of calls are in `engine_prompted`.
* A channel of capacity 1 overflows at the second event; with the pump's hand and the
  client's channel three events fill every place. Two subscriptions are needed for one
  to suffer from the other, and are in the safety run.
* Three prompts are one active and two queued. Two handler threads and the worker are
  three parties at work on one conversation; two overlapping calls other than prompts
  are not in the impatient instance.
* `HubData.cfg`: four events with a history of two and a channel of one overflow both;
  two breaks and a crash let a reconnection meet another. Two requests overlap in every
  part; a third would have to wait for a fault that needs three readers, and none of the
  code's sections has that shape. Three starts of the database are one that breaks off,
  one that repairs and one that finds the repair.
* `AgentParts.cfg`: two calls make a parallel group, three clicks an answer that comes
  twice or late. Three tasks give a cycle of two with an outsider. Two lines of two
  requests are a batch and what follows it.
* `Library.cfg`: two files make a half-done snapshot, three compactions a summary of a
  summary, two hook rules every pair of them.

Every mutant of `PROJECT.json` is found within these bounds.

Runs set `CHECK_DEADLOCK FALSE`, because every bounded instance stops when its bounds
are used up, and a system without clients is idle.

### Fairness

`Engine`: weak fairness of every goroutine's steps and of a blocked `Send` that found
room. Go schedules runnable goroutines, and executors, context builders and the
compactor return (they run under a context and with limits on turns). No client is fair:
nobody must ever approve. So `CancelledRunEnds` needs the lock to be free again and
again, and `QueueMoves` that the runs that start come to an end.

`EventFeed`: the emitter, the pumps and the calls of `Close` go on. Clients need not
read; `ReadersCatchUp` assumes it where it is stated. `NobodyIsHeld` says that the
emitter returns except under `block_producer`, and that a closed subscription's
goroutine ends.

`Conversation`: every handler, the worker, and runs that do not wait. `PromptsEnd`
assumes that waits end.

No other run states fairness: its properties are invariants and action properties.

## 4. What is proved

All theorems hold for any values of the constants that satisfy the named assumptions of
the modules: any number of sessions, runs, prompts, threads, handlers, tables' rows, any
channel capacity. TLC checked each inductive invariant on the instance of its run, or on
a larger one, before it was proved.

### The engine (`EngineProofs`)

| Theorem | Says |
| --- | --- |
| `InductiveInvariant`, `TypeCorrect` | `Spec => []IInv`, `Spec => []TypeOK` |
| `ExecutorExclusive` | `Spec => []OneExecutorPerSession` |
| `FifoStarts` | `Spec => []StartsInSubmissionOrder` |
| `GaplessSequences` | `Spec => []SequencesGapless` |
| `EventsInOrder` | `Spec => []EventsFollowLifecycle` |
| `EveryRunHasItsPlace` | `PromptedSpec => []PInv` |
| `IdleSessionsAreEmpty`, `NoRunIsLost`, `ApprovalsAreFresh` | `PromptedSpec => []IdleMeansEmpty`, `[]RunsAreAccounted`, `[]NoStaleApproval` |
| `EngineImplementsRunQueue` | `PromptedSpec => ImplementsRunQueue` |

None of the safety properties is inductive alone. That starts are in order needs to know
that the queue is sorted, that everything in it is younger than what has started, and
that a run in it belongs to this session and has no goroutine; that a session has one
executor needs that the run about to start is nobody's. So
`IInv == TypeOK /\ Core(...) /\ BlockedOnRun`:

* `Core` is stated over the queues, active runs, feeds and phases as parameters: queues
  are sorted, contain submitted runs of their session without a goroutine, and are
  younger than every start in the feed; feeds are numbered by position; a goroutine is
  at work exactly for the active runs.
* `BlockedOnRun`: a blocked `Control` call is about a submitted run, so that what it
  does when it wakes up is what `Control` would do.

Because `StartNextIfIdle` works on a queue, a feed and phases that the section has
already changed, the lemmas say what one change does to `Core` with arbitrary arguments
(`ArriveKeepsCore`, `RemoveKeepsCore`, `StartKeepsCore`, `EmitKeepsCore` and so on), and
an action chains them.

Its second half adds `ToldNow`, which relates the events of a run to where its
goroutine is, for any clients, and for clients that answer only what is asked (`Prompted`)
the invariant `PInv`: a run is unborn, in line, at work or over, and its machine, its
place in the queue, its registration and the events told of it are those of that place.
The refinement follows with the mapping of `EngineRefinement`: each action of the engine is
an action of `RunQueue` or changes nothing it can see.

### The conversation (`ConversationProofs`, `ConversationPatientProofs`)

| Theorem | Says |
| --- | --- |
| `QueueIsServed` | `Spec => []QueueIsServedOnce` |
| `PromptsInOrder` | `PatientSpec => []DispatchedInOrder`, if no call is a restart |
| `NoRunIsOrphaned` | `PatientSpec => []NoOrphanRun`, if no call is a denial, a rollback, a restart or a deletion |
| `HubAgreesWithItsRuns` | `PatientSpec => []HubAgreesWithEngine`, under the same condition |

* `QueueInv` holds under any timing: executions stand in the order of their prompts, the
  active one is the only one neither queued nor over, from the first queued execution on
  all is untouched, a thread has at most one submission and it is its last call, and the
  runs an execution has had with the submissions still owed to it are at most one more
  than its restarts.
* `OrderInv`: what is owed is the active execution's, and no run of the engine is ahead
  of it; an execution is bound to its own run.
* `OwnInv`: every run that goes on is the active execution's, bound to it or about to be,
  or its cancellation is on its way.
* `AgreeInv`: runs are in the conversation's session; a run before its binding has told
  no more than that it is queued, so nothing of it is dropped; an execution whose news
  have all been projected is as its run is, or the decision on it is still on its way.

The conditions on the calls are the true limits and not a convenience: with each of the
calls left out TLC finds the property violated (section 5).

### What is kept (`HubDataProofs`, `ProjectsProofs`, `ReplayProofs`) and what surrounds a run (`AgentPartsProofs`, `ReplayProofs`)

| Theorem | Says |
| --- | --- |
| `DatabaseKeepsRows` | `MigrationSpec => []MigrationKeepsRows` |
| `StoreKeepsMemory` | `StoreSpec => []TablesKeepMemory` |
| `ClientFollowsHub` | `StreamSpec => []ViewFollowsHub` |
| `SettingsKept` | `CliSpec => []SettingsAreKept` |
| `RecordsAgree` | `ProjectSpec => []AgreeUnlessCrossed` |
| `LedgerComplete` | `ChangeSpec => []LedgerIsComplete` |
| `PromptSeesAll` | `AcpSpec => []PromptSeesItsRun` |
| `GraphIsFair` | `TaskSpec => []GraphIsFairToTasks` |
| `ContextStaysWhole` | `CompactionSpec => []ContextIsWhole` |
| `PromptStaysConfigured` | `PromptSpec => []PromptIsAsConfigured` |
| `CommandsRunTheirOwn` | `SlashSpec => []CommandsKeepTheirNames` |
| `HooksOnlyTighten` | `HookSpec => []RulesOnlyTighten` |
| `CallsMeanWhatTheySay` | `McpSpec => [](ResultMeansItRan /\ ConfigStands)` |
| `TeamTypes`, `TeamLocks` | `TeamSpec => []TeamTypeOK`, `TeamSpec => []LocksAgree` |
| `TurnTypes`, `BatchContainsItsTools` | the types of `ToolTurn`, `TurnSpec => []ToolsEndWithTheBatch` |
| `AsksMeet` | `TurnSpec => []AsksMeetAnswers` |
| `CatalogFollows` | `CatalogSpec => []LastChangeCounts` |
| `DecisionTypes`, `TighteningIsMonotone` | the types of `Decisions`, `DecisionSpec => TighteningNeverLoosens` |

* `DatabaseInv`: at each stage of the opening the rows owed are in the tables, or in a
  complete copy, or among those dropped blindly; which tables may still be of a previous
  form follows from the stage and the number of the statement.
* `StoreInv`: a handler's seed and capture are of moments that were; without overlap at
  most one handler is not at rest, and the three tables are what it has captured or what
  memory was before it acted.
* `StreamInv`: events are told in the order of their numbers, so the last id the client
  has seen says what it still needs (`Covered`); when the history no longer reaches back
  to that id, a resync is on its way or a reconnection will send one (`Underway`); a fetch
  after a resync leaves the client without an id, so that a break in the middle of it is
  warned of again (`Fetching`); what a crash may still take from the hub is older than
  what comes next, and the client's last event is one the hub knows or warns of
  (`Grounded`), which is why the view holds nothing forgotten unnoticed (`Honest`).
* `CliInv`: a file that no disturbed write has touched and that nobody is in the middle of
  writing says of every key what was asked; what a command has worked out is that and its
  own wish, unless it read what another had just emptied; and what a command has emptied
  stays empty until it writes, unless another came between. That a command does what its
  user means and touches no other key is a lemma for each form of command (`PlainDone`,
  `ScopedDone`, `ImportDone`, `ServerDone`).
* `ProjectInv`: what a request knows of the items it has read holds as long as nobody
  changed them (the configuration it saved is the one in force, the model it chose is one
  the project has, the conversation it read is there); each part of the agreement holds
  but for the exceptions and for what a request under way has still to do (purge, delete,
  write the memory to the tables, save the default, synchronise the models, make the
  configuration of a new project); and while a project or a conversation is made there is
  none that could be put back. Looking for it showed that the property lacked an exception:
  a conversation that a patch puts back from the table after its deletion may name an
  active execution that is gone. The run's three calls do not reach this; with four TLC
  shows it, and the property now names it.
* `ChangeInv`: a change set id stands for one ledger, so what a client was shown under it and
  what a call that names it works on is what is pending, and the id a commit or a discard
  leaves in the journal is that of an empty ledger; a dirty path is pending or traced (its
  diff on its way, or excused), and what a call that is about to empty the ledger has left
  dirty is traced; an entry names an execution that was not rolled back and has a diff of
  the path, which is why a rollback restores every path whose entry it drops. The ledger
  made anew and the journal replayed are recursive functions; the lemmas about them
  (`ReplayGoesOn`, `RebuildKnows`) go by induction over the events and the executions
  (`Stepwise`: a set of numbers that has 0 and with each number the next has them all).
* The pipeline's property needs that calls outside the group at work have not begun or
  are over, and that a serial group has one member. The rule books need no invariant
  beyond their types: a step that tightens is compared with the state before it.
* `MeetInv`: the asks that are open (told to nobody yet, on the screen, or answered and the
  answer on its way) are counted, and unless a call of the group has failed they are no
  more than the calls that wait. So none is left over when a group ends, and all that is
  open is of the group at work, which is why a yes cannot reach a later group. A call that
  waits alone has its ask last among the events, or on the screen, or answered. The
  counting rests on lemmas about the members of a sequence with one appended, taken from
  the head or taken out of the middle (`AppendCounts`, `TailCounts`, `RemoveCounts`).
* `CatalogInv`: a revision anybody knows is of the past, and with the revision of now goes
  the text of now; a call about to write back has in hand what the user wrote last; a root
  about to be kept is the root in force.

### What a client is told, a rewind gives back and a subagent returns (`LibraryProofs`)

| Theorem | Says |
| --- | --- |
| `RewindsGiveBack` | `SessionSpec => []RewindGivesBack` |
| `SubscribersLoseTheirOwn` | `Spec => []OnlyOwnLosses` (the `Spec` of `EventFeed`) |
| `FeedImplementsBroadcast` | `Spec => ImplementsBroadcast` |
| `AgentsAccounted` | `AgentSpec => []AgentsAreAccounted` |

* `RewindInv`: the entries a snapshot has collected are the files of now, but for those
  written since it began; the entries of a checkpoint are the files of its moment, but for
  the blurred ones; an undisturbed restore has put back every path it has passed and
  touched nothing else. A restore that was written into promises nothing.
* `FeedInv`: the stream of a subscription (read, in its channel, still to replay, in the
  hand of its pump, in its live channel) climbs from its start to the event last handed
  out; while the subscription is in the manager's map it adds up with what was dropped
  and what is on its way, and under `block_producer` it has no hole; a subscriber that is
  being served or waited for has been made. Order and bounds give the membership part of
  `OnlyOwnLosses`, the sum gives the other part, and the order of the stream is what makes
  every `Read` a step of `Broadcast`; every other step of the feed stutters there, but
  `Subscribe` and `Emit`.

* `AgentInv`: a run of a subagent answers the request of its place in the batch; as long as
  no file changed since it began, the directories it has passed have no definition of its
  name, but for what it found in the first plugin; from then on its tools are those its
  definition and its request leave. A runner has counted the numbers of its own
  transcripts, so what stands at a finished run's path is its own or another runner's.

* `AcpInv`: the run of the prompt is the only one that goes on, its end is its last event,
  and what the prompt has read together with what is in its channel, in the subscription
  and still to be copied is, taken run by run, in order and all of the run unless something
  was dropped; what a stream was told is earlier than all of that. That the events of a run
  in two sequences together are those of the one and then of the other is an induction
  over the number of events (`OfRunConcat`).

* `TaskTypes` is all the state needs for `GraphIsFair`; the induction is over the turns of
  the pass (`Fair`): the slots left and the tasks let go make up the free slots, only ready
  tasks were let go, and a ready one passed over came after them when no slot was left. As
  nothing is completed by the pass, to look at the states it has changed is to look at
  those it found. No circular wait: of tasks that wait only for each other the first one is
  ready in a sequence, and in the graph of the events they would be a cycle.
* `ContextInv`: no cursor is given twice, a message that is there is found under its own
  cursor, and the four parts of the property. That the texts strung together tell what each
  of them tells (`TextsTell`) and that a message more adds its tokens (`TokensAdd`) are
  inductions over the messages.
* `HookInv` is no more than that rules are numbered as they came; what the theorem says of a
  state is the lemma `ListTightens`. The keys of two rules are never the same, so of those
  that match one comes first: the keys are ordered part by part, and the first is found as
  the least of the least in each part. A rule that decides alone is as strict as its
  decision, which is the first part of its key.
* `MergeInv`, `DocInv` (in `ProjectsProofs`): what is merged is what `MergeOf` makes of the
  five layers, and an induction over the layers (`MergeFits`) says what that is: the value of
  the first n layers denies what those of them say that count, in the order in which they
  first say it, and a trace ends with the highest that speaks, because a layer that is
  recorded was not in the trace before. That a joined list has what is in either, once, and
  begins with the first (`JoinIs`) is an induction over the items; both recursive functions
  exist by `Recursion`. What is picked goes down from the root, the blocks told so far are
  whole and of documents already read. Looking for it showed that the property was wrong
  for a budget no larger than the separator: a blank first document is passed over, there
  is no room left for the separator of the next (`remaining <= 0`), and the reading ends
  with no block at all. The run's budget is larger; the property now allows it.
* `SlashInv`: an entry for a skill stands for an asset the loader keeps, and what is at work
  or ran is what its entry stands for, each with the exception that something changed. That
  the loaders come to one order is true of every state (`LoadersKeepOrder`): two inductions
  over the places say what is kept up to each (`LoaderKeeps`, `StyleGoesOn`), the places of
  prompt files and skills come in the order of their ranks (`BetweenIs`), and those of
  styles do not, but a style goes by a priority that falls as the rank rises, and of the
  plugins, which have one priority, the first comes first.
* `McpInv`: the frame with the call is at most once in the pipe or has been read, never
  before the list allowed it; what has the id of the call in the pipe back, and is no
  request of the server's, was sent after the tool ran; and a connection's copy is what is
  stored, unless that was changed meanwhile.

### Only model-checked

* Liveness (`CancelledRunEnds`, `QueueMoves`, `ReadersCatchUp`, `NobodyIsHeld`,
  `PromptsEnd`) and the part `DeadlineFrees` of `CallsAreAccounted`, which is about
  `ENABLED`: out of the prover's reach.


## 5. Where the code does something else than its documents say

The runs that expect a violation, with the quoted documents in `PROJECT.json`:

* `engine_queued_approve`: approving a queued run strands the runs behind it.
* `engine_full_channel`: `Control` on a full channel stops the whole engine.
* `conversation_fast_run`: a run that ends before it is bound leaves its prompt pending
  and the conversation stuck.
* `acp_streams`: a prompt over ACP tells its updates when the run is over and reads no
  other line meanwhile, so a run that asks for approval is never answered.

Further behaviours that the models have and that limit what the passing runs state. Each
is found by TLC when the property is checked without the condition, or is an exception
named in the property:

* Engine: an approve that arrives before the request it is taken for leaves the machine
  in `waiting_approval` after `run_completed`.
* Event feed: under `overflow_error` one full subscriber ends the hand-out for those
  behind it, uncounted. Under `block_producer` a client that stops reading and closes
  leaves the emitter waiting for ever, with `e.mu`; production uses `drop_newest`. A
  cursor beyond the log still gets the earlier live events.
* Conversation: a stop before the run is bound is not heard and the run goes on; so does
  the run of a rolled back or deleted execution; a restart that races with the run's end
  submits a finished execution again, and one whose old run's end is projected before
  `forget` dispatches out of order; a denial of an approval that is out of date (the wait
  was projected after a stop) makes a cancelled execution active again and takes the
  conversation from the run under way.
* Conversation events: an event lost to a full channel is not noticed before the next
  reconnection, and an event that comes after the gap hides it from that, too; a client
  that has seen no event yet cannot name one and gets what history there is.
* Projects: `PUT config` does not synchronise rule ids; without a default it leaves
  unfinished executions with a model that is no longer in the configuration; a new
  conversation falls back to the default of the project as read before; `GET` of a
  project's sessions overwrites conversations in memory with rows read before.
* Command line: a model pointer left out of an import is the default again at the next
  load; every command is a process and an engine of its own, so that a session started by
  one command is not found by the next (`commands_behavior_test.go:78-81` runs them in
  one process).
* Catalog: an edit between the read and the write-back of a sparse file is lost; an edit
  between the write-back and the following stat gives the old text the new revision;
  `GetCatalogRoot` racing with `SetCatalogRoot` keeps the old root.
* MCP: after the outcome the client kills only the shell and drains stderr until nobody
  holds it; a surviving child keeps the call past its timeout for ever. A request of the
  server with the awaited id is taken for the answer. A connection writes back the whole
  configuration it had read.
* Sessions: a rewind restores before it looks its session up, so that it does so for an
  unknown session, too; a restore that breaks off leaves a mix.
* Compaction: cursors of an earlier round no longer resolve although `manager.go:7-9`
  says that callers can resolve old cursors; the summary is told again in the next one.
* Subagents: two runners in the same second overwrite each other's transcripts; lists of
  tools without a common element come to no list, which is every tool.
* Slash commands: a prompt file named `help` hides the built-in; a skill renamed in its
  frontmatter is listed under that name and looked up by its directory.
* Prompt: a budget that is used up exactly ends the documents without the mark;
  documents of an additional directory are told twice; an unreadable rule of the project
  fails the build, one of the user is skipped.
* Migration: a validation query that itself fails makes the hub drop every table without
  a copy; the seeds reset the grants of roles at every start.
* Hooks: the engine's dispatcher lets a denial win, the hub's hook policies the widest
  scope, so that a global allowance overrides the denial of a project.

## 6. Plan

Every module of section 2 is modelled and checked, and every safety property of the passing
runs is a theorem of section 4 but for the one part that is about `ENABLED`. What would come
next is more of section 7.


## 7. What is not modelled

Provider requests and codecs, the work of tools, processes and files, text and payloads
of events, SQL as such, the routing and encoding of HTTP, adapters of other protocols over
the same five engine calls (the cursor store is used by them only), administration of
workspaces beyond the decision on a request, and the user interface beyond the client's
event stream. A context that is cancelled by the process's shutdown, and the expiry of
HTTP requests, do not reach the engine's state and are left out; so is a handoff of
sessions, which copies a record. `PROJECT.json` names each part that is left out or
modelled in part, with the reason.
