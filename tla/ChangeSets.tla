------------------------------ MODULE ChangeSets ------------------------------
(* The pending changes of one conversation: the ledger the hub keeps of the   *)
(* files its runs wrote, and the calls that commit them, discard them or roll *)
(* the conversation back. change_set_service.go, handlers_execution_flow.go,  *)
(* handlers_execution_events_internal.go, execution_events_store.go and the   *)
(* hydration in state_execution_domain.go.                                    *)
(*                                                                            *)
(* A file is a version: 0 when there is none, a new number at every write.    *)
(* `head` is what the last commit holds of each path; a project without git   *)
(* has no such copy, and `head` is then the files as they were when the user  *)
(* last accepted them. A write is known to the hub only when its diff event   *)
(* is projected, in the order of the engine's one stream per session.         *)
(*                                                                            *)
(* Commit and discard look at the ledger under state.mu, leave it to work on  *)
(* the project, and take it again to empty the ledger. Rollback and the       *)
(* projection of an event hold it throughout. A handler and the write of the  *)
(* database that ends it are one step here; module ExecutionStore parts them. *)
EXTENDS Naturals, Sequences, FiniteSets, Functions

CONSTANTS PathCount,     \* the paths are 1..PathCount, in the order of their names
          Tracked,       \* those that exist and are committed at the start
          MaxExecutions, \* bound: executions the conversation ever has
          MaxVersions,   \* bound: writes by tools
          MaxOperations, \* bound: commits, discards, rollbacks and restarts
          MaxTogether,   \* bound: both together
          Requests       \* the commits and discards that may be under way at once

ASSUME ChangeAssumption ==
  /\ PathCount \in Nat /\ Tracked \subseteq 1..PathCount /\ MaxExecutions \in Nat
  /\ {MaxVersions, MaxOperations, MaxTogether} \subseteq Nat

VARIABLES
  kind,     \* "git" or "non_git": which driver the project has
  disk,     \* path -> version in the working tree
  head,     \* path -> version last committed
  execs,    \* execution -> its state in the hub
  alive,    \* executions whose run still lives in the engine
  inbox,    \* events the engine has emitted and the hub has not projected
  diffs,    \* executionDiffs: execution -> path -> item
  ledger,   \* path -> pending entry
  csid,     \* PendingChangeSetID
  lastId,   \* the change set ids handed out so far (they are random: all new)
  journal,  \* the events of the conversation that concern its changes
  seen,     \* the change set the client last fetched
  calls,    \* request -> the commit or discard it is
  excused,  \* dirty paths that were lost for a reason named below
  writes,   \* the newest version
  operations \* commits, discards, rollbacks and restarts so far

changeVars == <<kind, disk, head, execs, alive, inbox, diffs, ledger, csid, lastId,
                journal, seen, calls, excused, writes, operations>>

Paths == 1..PathCount
Executions == 1..MaxExecutions
Empty == [p \in {} |-> 0]
NoCall == [op |-> "none", entries |-> Empty, shown |-> Empty, id |-> 0, at |-> "rest"]
Dirty(d, h) == {p \in Paths : d[p] # h[p]}
-------------------------------------------------------------------------------
(* The ledger.                                                                *)

(* One item on top of what is known of its path: the entry keeps the oldest   *)
(* before blob it was given, the newest type and the newest execution.        *)
Upsert(l, e, p, item) ==
  [q \in DOMAIN l \cup {p} |->
     IF q # p THEN l[q]
     ELSE [type |-> item.type, exec |-> e,
           before |-> IF p \in DOMAIN l /\ l[p].before # 0 THEN l[p].before
                      ELSE item.before]]

(* The same for the diffs of an execution, which keep the newest before blob. *)
Merge(d, p, item) ==
  [q \in DOMAIN d \cup {p} |->
     IF q # p THEN d[q]
     ELSE [type |-> item.type,
           before |-> IF p \in DOMAIN d /\ item.before = 0 THEN d[p].before
                      ELSE item.before]]

UpsertAll(l, e, items) ==
  [p \in DOMAIN l \cup DOMAIN items |->
     IF p \in DOMAIN items THEN Upsert(l, e, p, items[p])[p] ELSE l[p]]

(* The ledger made anew from the diffs of the executions that are left.       *)
Rebuild(states, items) ==
  LET upTo[e \in 0..MaxExecutions] ==
        IF e = 0 THEN Empty
        ELSE IF states[e] = "gone" THEN upTo[e - 1]
             ELSE UpsertAll(upTo[e - 1], e, items[e])
  IN upTo[MaxExecutions]

(* What an event does to the ledger when it is replayed at a restart: the     *)
(* diffs of the executions are set only after the replay, so that a rollback  *)
(* finds none to rebuild from.                                                *)
ReplayOne(l, ev) ==
  IF ev.kind = "diff" THEN Upsert(l, ev.exec, ev.path, ev) ELSE Empty

Replayed(events) ==
  LET after[i \in 0..Len(events)] ==
        IF i = 0 THEN Empty ELSE ReplayOne(after[i - 1], events[i])
  IN after[Len(events)]
Replay == Replayed(journal)
-------------------------------------------------------------------------------
(* The project's files.                                                       *)

(* Paths that cannot be restored: git knows no version of a path that is not  *)
(* in HEAD, and a before blob is the text of the file while the other driver  *)
(* decodes base64 (a text that happens to be base64 is not considered).       *)
Stuck(items) ==
  {p \in DOMAIN items :
     IF kind = "git" THEN items[p].type # "added" /\ head[p] = 0
     ELSE items[p].before # 0}

RestoreOne(p, items) ==
  IF kind = "git" /\ items[p].type # "added" THEN head[p] ELSE 0

(* What a restore leaves of the disk: git takes the paths in order, the other *)
(* driver in the order of the entries, and both stop at the first failure.    *)
Restored(items) ==
  LET before(p) == IF kind = "git" THEN \A q \in Stuck(items) : p < q ELSE FALSE
      done == IF Stuck(items) = {} THEN {DOMAIN items}
              ELSE IF kind = "git" THEN {{p \in DOMAIN items : before(p)}}
              ELSE SUBSET (DOMAIN items \ Stuck(items))
  IN {[p \in Paths |-> IF p \in ps THEN RestoreOne(p, items) ELSE disk[p]] : ps \in done}

(* `git add` fails on a path that neither exists nor is tracked, `git commit` *)
(* when none of the paths differs from HEAD. The other driver does nothing.   *)
CommitFails(entries) ==
  /\ kind = "git"
  /\ \/ \E p \in DOMAIN entries : disk[p] = 0 /\ head[p] = 0
     \/ \A p \in DOMAIN entries : disk[p] = head[p]

(* All that differs from HEAD, as `git status` lists it.                      *)
GitStatus ==
  [p \in Dirty(disk, head) |->
     [type |-> IF disk[p] = 0 THEN "deleted" ELSE IF head[p] = 0 THEN "added"
               ELSE "modified", before |-> 0]]
-------------------------------------------------------------------------------
(* The ways in which a written file leaves the ledger uncommitted: what they  *)
(* are is the content of EscapesOnly.                                         *)

(* A file taken for new is removed although it has been committed since.      *)
Removed(items) == {p \in DOMAIN items : RestoreOne(p, items) = 0 /\ head[p] # 0}

(* A commit or discard is overtaken when the change set it was checked for is *)
(* no longer the pending one.                                                 *)
Overtaken(r) == csid # calls[r].id

Excuse(paths) == excused' = (excused \cup paths) \cap Dirty(disk', head')

Journaled_DiffsOnly(ev) ==
  journal' = IF ev.kind = "diff" THEN Append(journal, ev) ELSE journal

Journaled(ev) == journal' = Append(journal, ev)
NewId == csid' = lastId + 1 /\ lastId' = lastId + 1
Room == writes + operations < MaxTogether
Operate == operations < MaxOperations /\ Room /\ operations' = operations + 1
-------------------------------------------------------------------------------
ChangeInit ==
  /\ kind \in {"git", "non_git"}
  /\ disk = [p \in Paths |-> IF p \in Tracked THEN 1 ELSE 0]
  /\ head = disk
  /\ execs = [e \in Executions |-> "none"] /\ alive = {} /\ inbox = <<>>
  /\ diffs = [e \in Executions |-> Empty]
  /\ ledger = Empty /\ csid = 1 /\ lastId = 1 /\ journal = <<>>
  /\ seen = [id |-> 0, entries |-> Empty]
  /\ calls = [r \in Requests |-> NoCall]
  /\ excused = {}
  /\ writes = 1 /\ operations = 0

Busy == \E e \in Executions : execs[e] = "executing"

(* A prompt starts a run when no execution is under way.                      *)
StartExecution(e) ==
  /\ ~Busy /\ execs[e] = "none" /\ \A f \in 1..(e - 1) : execs[f] # "none"
  /\ execs' = [execs EXCEPT ![e] = "executing"] /\ alive' = alive \cup {e}
  /\ UNCHANGED <<kind, disk, head, inbox, diffs, ledger, csid, lastId, journal, seen,
                 calls, excused, writes, operations>>

(* A tool of the run writes a file and emits the diff: tools/runner and       *)
(* tools/diff. Write and Edit tell a new file from an old one in the same way *)
(* and put the text of an old one into the before blob.                       *)
ToolWrites(e, p) ==
  LET item == [kind |-> "diff", exec |-> e, path |-> p, before |-> disk[p],
               type |-> IF disk[p] = 0 THEN "added" ELSE "modified"]
  IN /\ e \in alive /\ writes < MaxVersions /\ Room
     /\ disk' = [disk EXCEPT ![p] = writes + 1] /\ inbox' = Append(inbox, item)
     /\ writes' = writes + 1
     /\ UNCHANGED <<kind, head, execs, alive, diffs, ledger, csid, lastId, journal, seen,
                    calls, excused, operations>>

RunEnds(e) ==
  /\ e \in alive /\ alive' = alive \ {e}
  /\ inbox' = Append(inbox, [kind |-> "end", exec |-> e])
  /\ UNCHANGED <<kind, disk, head, execs, diffs, ledger, csid, lastId, journal, seen,
                 calls, excused, writes, operations>>

(* The user stops an execution: it ends in the hub at once, its run later.    *)
StopExecution(e) ==
  /\ execs[e] = "executing" /\ execs' = [execs EXCEPT ![e] = "ended"]
  /\ UNCHANGED <<kind, disk, head, alive, inbox, diffs, ledger, csid, lastId, journal,
                 seen, calls, excused, writes, operations>>

(* projectRuntimeEvent: the next event of the stream. One of an execution that*)
(* was rolled back is dropped, and what its run wrote stays unknown.          *)
Project ==
  /\ inbox # <<>> /\ inbox' = Tail(inbox)
  /\ LET ev == Head(inbox) IN
     \/ /\ execs[ev.exec] = "gone"
        /\ UNCHANGED <<execs, diffs, ledger, csid, lastId, journal>>
        /\ excused' = IF ev.kind = "diff" THEN (excused \cup {ev.path}) \cap Dirty(disk, head)
                      ELSE excused
     \/ /\ execs[ev.exec] # "gone" /\ ev.kind = "end"
        /\ execs' = [execs EXCEPT ![ev.exec] = "ended"]
        /\ UNCHANGED <<diffs, ledger, csid, lastId, journal, excused>>
     \/ /\ execs[ev.exec] # "gone" /\ ev.kind = "diff"
        /\ diffs' = [diffs EXCEPT ![ev.exec] = Merge(@, ev.path, ev)]
        /\ ledger' = Upsert(ledger, ev.exec, ev.path, ev) /\ NewId
        /\ Journaled(ev)
        /\ UNCHANGED <<execs, excused>>
  /\ UNCHANGED <<kind, disk, head, alive, seen, calls, writes,
                 operations>>

(* ConversationChangeSetHandler. Nothing can be done with an empty one: it is *)
(* not worth a fetch here.                                                    *)
FetchChangeSet ==
  /\ seen.id # csid /\ ledger # Empty /\ seen' = [id |-> csid, entries |-> ledger]
  /\ UNCHANGED <<kind, disk, head, execs, alive, inbox, diffs, ledger, csid, lastId,
                 journal, calls, excused, writes, operations>>

(* The checks of a commit or a discard, under the lock. A discard of nothing  *)
(* is answered at once.                                                       *)
MayMutate == ~Busy /\ seen.id = csid /\ ledger # Empty

BeginMutation(r, op) ==
  /\ calls[r].op = "none" /\ Operate /\ MayMutate
  /\ calls' = [calls EXCEPT ![r] = [op |-> op, entries |-> ledger, id |-> csid,
                                    shown |-> seen.entries, at |-> "driver"]]
  /\ UNCHANGED <<kind, disk, head, execs, alive, inbox, diffs, ledger, csid, lastId,
                 journal, seen, excused, writes>>

(* driver.Commit, without the lock. When it fails the handler is over.        *)
DriverCommits(r) ==
  LET entries == calls[r].entries
  IN /\ calls[r].op = "commit" /\ calls[r].at = "driver"
     /\ \/ /\ CommitFails(entries) /\ UNCHANGED head
           /\ calls' = [calls EXCEPT ![r] = NoCall]
        \/ /\ ~CommitFails(entries)
           /\ head' = [p \in Paths |-> IF p \in DOMAIN entries THEN disk[p] ELSE head[p]]
           /\ calls' = [calls EXCEPT ![r].at = "ledger"]
     /\ UNCHANGED disk /\ Excuse({})
     /\ UNCHANGED <<kind, execs, alive, inbox, diffs, ledger, csid, lastId, journal, seen,
                    writes, operations>>

(* driver.Discard, without the lock. A failure may leave some files restored. *)
DriverDiscards(r) ==
  LET entries == calls[r].entries
  IN /\ calls[r].op = "discard" /\ calls[r].at = "driver"
     /\ disk' \in Restored(entries) /\ UNCHANGED head
     /\ calls' = [calls EXCEPT ![r] = IF Stuck(entries) # {} THEN NoCall
                                      ELSE [@ EXCEPT !.at = "ledger"]]
     /\ Excuse(Removed(entries))
     /\ UNCHANGED <<kind, execs, alive, inbox, diffs, ledger, csid, lastId, journal, seen,
                    writes, operations>>

(* The end of either: the ledger is emptied, whatever it holds by now.        *)
FinishMutation(r) ==
  /\ calls[r].at = "ledger"
  /\ ledger' = Empty /\ NewId
  /\ Journaled([kind |-> calls[r].op, id |-> csid'])
  /\ calls' = [calls EXCEPT ![r] = NoCall]
  /\ UNCHANGED <<disk, head>> /\ Excuse(IF Overtaken(r) THEN DOMAIN ledger ELSE {})
  /\ UNCHANGED <<kind, execs, alive, inbox, diffs, seen, writes, operations>>

(* What a rollback that drops these executions restores. Two of them may have *)
(* an item for the same path, and the order of a Go map decides which counts. *)
(* When a git project knows of none, all that differs from HEAD is taken.     *)
RollbackItems(dropped) ==
  LET paths == UNION {DOMAIN diffs[f] : f \in dropped}
      known(p) == {diffs[f][p] : f \in {g \in dropped : p \in DOMAIN diffs[g]}}
  IN IF kind = "non_git"
     THEN {Restrict(ledger, {p \in DOMAIN ledger : ledger[p].exec \in dropped})}
     ELSE IF paths = {} THEN {GitStatus}
     ELSE {items \in [paths -> UNION {known(p) : p \in paths}] :
             \A p \in paths : items[p] \in known(p)}

(* ConversationRollbackHandler, to the prompt of execution e: the executions  *)
(* after it are dropped and what they wrote is restored. A failure leaves     *)
(* everything but the files as it was.                                        *)
Rollback(e) ==
  LET dropped == {f \in Executions : f > e /\ execs[f] \in {"executing", "ended"}}
  IN \E items \in RollbackItems(dropped) :
     /\ execs[e] \in {"executing", "ended"} /\ Operate
     /\ disk' \in Restored(items) /\ UNCHANGED head
     /\ Excuse(Removed(items))
     /\ \/ /\ Stuck(items) # {}
           /\ UNCHANGED <<execs, diffs, ledger, csid, lastId, journal>>
        \/ /\ Stuck(items) = {}
           /\ execs' = [f \in Executions |-> IF f \in dropped THEN "gone" ELSE execs[f]]
           /\ diffs' = [f \in Executions |-> IF f \in dropped THEN Empty ELSE diffs[f]]
           /\ ledger' = Rebuild(execs', diffs') /\ NewId
           /\ Journaled([kind |-> "rollback"])
     /\ UNCHANGED <<kind, alive, inbox, seen, calls, writes>>

(* The process dies and the hub is hydrated from its database: the engine, the*)
(* events on their way and the calls are gone, the ledger is replayed.        *)
Restart ==
  LET last == IF journal # <<>> /\ journal[Len(journal)].kind \in {"commit", "discard"}
              THEN journal[Len(journal)].id ELSE 0
      written == {inbox[i].path : i \in {j \in DOMAIN inbox : inbox[j].kind = "diff"}}
      rolled == \E i \in DOMAIN journal : journal[i].kind = "rollback"
  IN /\ Operate
     /\ alive' = {} /\ inbox' = <<>> /\ calls' = [r \in Requests |-> NoCall]
     /\ ledger' = Replay
     /\ \/ last # 0 /\ csid' = last /\ UNCHANGED lastId
        \/ last = 0 /\ NewId
     /\ UNCHANGED <<disk, head>>
     /\ Excuse(written \cup IF rolled THEN DOMAIN ledger ELSE {})
     /\ UNCHANGED <<kind, execs, diffs, journal, seen, writes>>

ChangeNext ==
  \/ \E e \in Executions :
       \/ StartExecution(e) \/ RunEnds(e) \/ StopExecution(e) \/ Rollback(e)
       \/ \E p \in Paths : ToolWrites(e, p)
  \/ \E r \in Requests :
       \/ DriverCommits(r) \/ DriverDiscards(r)
       \/ FinishMutation(r) \/ \E op \in {"commit", "discard"} : BeginMutation(r, op)
  \/ FetchChangeSet \/ Project \/ Restart

ChangeSpec == ChangeInit /\ [][ChangeNext]_changeVars
-------------------------------------------------------------------------------
(* A change a tool made is never lost sight of: a file that differs from what *)
(* was last committed is pending, or its diff is on its way, or it was lost in*)
(* one of the ways the actions name. PRD.md:110-117.                          *)
EscapesOnly ==
  \A p \in Dirty(disk, head) :
    \/ p \in DOMAIN ledger \cup excused
    \/ \E i \in DOMAIN inbox : inbox[i].kind = "diff" /\ inbox[i].path = p

(* As long as nothing was rolled back, the ledger the handlers keep is the one*)
(* a restart would replay from the journal: a restart shows the user the same *)
(* pending changes.                                                           *)
ReplayAgrees ==
  (\A i \in DOMAIN journal : journal[i].kind # "rollback") => ledger = Replay

(* A commit or a discard works on exactly the pending changes its caller was  *)
(* shown, whoever wrote, committed, discarded or rolled back since: it names  *)
(* the id it was shown, and nothing changes the ledger and keeps its id, a    *)
(* restart included.                                                          *)
ActsOnWhatWasShown == \A r \in Requests : calls[r].entries = calls[r].shown

(* The ledger is what the user can still accept or refuse: nothing a tool has *)
(* changed escapes it, a restart brings back the same one, and what is        *)
(* accepted or refused is what was shown.                                     *)
LedgerIsComplete == EscapesOnly /\ ReplayAgrees /\ ActsOnWhatWasShown
===============================================================================
