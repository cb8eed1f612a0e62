------------------------------- MODULE Sessions -------------------------------
(* The lifecycle manager of sessions (runtime/session/manager.go), reached    *)
(* through the calls of adapters/httpapi/service.go, with the checkpoint store*)
(* it restores files from (tools/checkpoint/store.go).                        *)
(*                                                                            *)
(* A snapshot reads its files one after the other, a restore writes them back *)
(* one after the other, and neither holds a lock meanwhile; tools write the   *)
(* same files. A rewind restores first and looks for its session afterwards.  *)
(* A fork looks its parent up under the lock and reads its fields without it. *)
(* A file's content is the number of the write that made it, 0 when the file  *)
(* is absent.                                                                 *)
EXTENDS Naturals, FiniteSets, SequencesExt

CONSTANTS SavedPaths,     \* the files of the workspace
          SessionCallers, \* bound: calls under way together
          MaxKnown,       \* bound: sessions registered or forked
          MaxCheckpoints, MaxFileWrites, MaxSessionCalls \* bounds

ASSUME SessionAssumption ==
  /\ IsFiniteSet(SavedPaths)
  /\ {MaxKnown, MaxCheckpoints, MaxFileWrites, MaxSessionCalls} \subseteq Nat

VARIABLES
  content,   \* file -> what it holds
  snapshots, \* the checkpoints: the files read, in order, with what was found
  known,     \* the manager's sessions, in the order they were added
  at,        \* caller -> how far its call is
  moment,    \* ghost: checkpoint -> the files when it was stored, and those that
             \* changed while it was taken
  settled,   \* ghost: the checkpoint the files were last rewound to undisturbed, 0 none
  aside,     \* ghost: the files as that rewind found them
  fileWrites, sessionCalls \* counts

sessionVars == <<content, snapshots, known, at, moment, settled, aside, fileWrites,
                 sessionCalls>>

Doing(c, step) == at[c].step = step
Proceed(c, to) == at' = [at EXCEPT ![c] = to]
Under(step) == Cardinality({c \in SessionCallers : Doing(c, step)})
AtEase == [step |-> "none"]

PathsOf(entries) == {entries[i].path : i \in DOMAIN entries}

Counted == sessionCalls < MaxSessionCalls /\ sessionCalls' = sessionCalls + 1

SessionInit ==
  /\ content = [p \in SavedPaths |-> 0]
  /\ snapshots = <<>> /\ known = <<>> /\ moment = <<>>
  /\ at = [c \in SessionCallers |-> AtEase]
  /\ settled = 0 /\ aside = content
  /\ fileWrites = 0 /\ sessionCalls = 0
-------------------------------------------------------------------------------
(* The files. Whoever changes one disturbs the snapshots and restores that    *)
(* are under way, and what was rewound before is no longer what there is.     *)

Disturbed(others, p) ==
  [d \in SessionCallers |->
     IF d \in others /\ at[d].step \in {"snapshot", "restore"}
     THEN [at[d] EXCEPT !.crossed = @ \cup {p}] ELSE at[d]]

ToolWritesFile(p, removes) ==
  /\ fileWrites < MaxFileWrites /\ fileWrites' = fileWrites + 1
  /\ removes => content[p] # 0
  /\ content' = [content EXCEPT ![p] = IF removes THEN 0 ELSE fileWrites + 1]
  /\ at' = Disturbed(SessionCallers, p)
  /\ settled' = 0
  /\ UNCHANGED <<snapshots, known, moment, aside, sessionCalls>>

(* Snapshot: the named files in the order given; a file named twice is taken  *)
(* once. A file may be unreadable, or the call cancelled, between two of them.*)
BeginSnapshot(c, paths) ==
  /\ Counted /\ Doing(c, "none")
  /\ Len(snapshots) + Under("snapshot") < MaxCheckpoints
  /\ Proceed(c, [step |-> "snapshot", left |-> paths, entries |-> <<>>,
                 crossed |-> {}])
  /\ UNCHANGED <<content, snapshots, known, moment, settled, aside, fileWrites>>

TakeFile(c) ==
  /\ Doing(c, "snapshot") /\ at[c].left # <<>>
  /\ LET p == Head(at[c].left)
     IN Proceed(c, [at[c] EXCEPT
                      !.left = Tail(@),
                      !.entries = Append(@, [path |-> p, was |-> content[p]])])
  /\ UNCHANGED <<content, snapshots, known, moment, settled, aside, fileWrites,
                 sessionCalls>>

StoreSnapshot(c) ==
  /\ Doing(c, "snapshot") /\ at[c].left = <<>>
  /\ snapshots' = Append(snapshots, at[c].entries)
  /\ moment' = Append(moment, [files |-> content, blurred |-> at[c].crossed])
  /\ Proceed(c, AtEase)
  /\ UNCHANGED <<content, known, settled, aside, fileWrites, sessionCalls>>

\* A snapshot that fails stores nothing; a restore that fails stays where it is.
BreakOff(c) ==
  /\ at[c].step \in {"snapshot", "restore"} /\ at[c].left # <<>>
  /\ Proceed(c, AtEase)
  /\ UNCHANGED <<content, snapshots, known, moment, settled, aside, fileWrites,
                 sessionCalls>>
-------------------------------------------------------------------------------
(* Rewind: any checkpoint for any session, its own or another's, and any      *)
(* session number, also one the manager does not know.                        *)

BeginRewind(c, s, k) ==
  /\ Counted /\ Doing(c, "none")
  /\ k \in DOMAIN snapshots
  /\ Proceed(c, [step |-> "restore", session |-> s, id |-> k, left |-> snapshots[k],
                 crossed |-> {}, found |-> content])
  /\ UNCHANGED <<content, snapshots, known, moment, settled, aside, fileWrites>>

\* Mutant: an absent entry is skipped instead of removing the file.
Restored_KeepsNew(e) == IF e.was = 0 THEN content[e.path] ELSE e.was
\* What a restored entry leaves in its place: nothing where nothing was.
Restored(e) == e.was

RestoreFile(c) ==
  /\ Doing(c, "restore") /\ at[c].left # <<>>
  /\ LET e == Head(at[c].left)
     IN /\ content' = [content EXCEPT ![e.path] = Restored(e)]
        /\ at' = [Disturbed(SessionCallers \ {c}, e.path) EXCEPT ![c].left = Tail(@)]
  /\ settled' = 0
  /\ UNCHANGED <<snapshots, known, moment, aside, fileWrites, sessionCalls>>

\* The files are back; a session that is not known gets an error all the same.
FinishRewind(c, cursor, forgets) ==
  /\ Doing(c, "restore") /\ at[c].left = <<>>
  /\ known' = IF at[c].session \notin DOMAIN known THEN known
              ELSE [known EXCEPT ![at[c].session] =
                      [known[at[c].session] EXCEPT !.checkpoint = at[c].id, !.cursor = cursor,
                                                   !.grants = @ /\ ~forgets]]
  /\ settled' = IF at[c].crossed = {} THEN at[c].id ELSE 0
  /\ aside' = at[c].found
  /\ Proceed(c, AtEase)
  /\ UNCHANGED <<content, snapshots, moment, fileWrites, sessionCalls>>
-------------------------------------------------------------------------------
(* The other calls on sessions.                                               *)

Register(c) ==
  /\ Counted /\ Doing(c, "none") /\ Len(known) + Under("fork") < MaxKnown
  /\ known' = Append(known, [parent |-> 0, history |-> 1, grants |-> TRUE,
                             checkpoint |-> 0, cursor |-> 0])
  /\ UNCHANGED <<content, snapshots, at, moment, settled, aside, fileWrites>>

\* Resume and Clear; Handoff changes what is shown of the last one only.
Update(s, state) ==
  /\ Counted /\ known[s] # state /\ known' = [known EXCEPT ![s] = state]
  /\ UNCHANGED <<content, snapshots, at, moment, settled, aside, fileWrites>>
Resume(s) == Update(s, [known[s] EXCEPT !.grants = FALSE])
Clear(s) == Update(s, [known[s] EXCEPT !.history = 0, !.cursor = 0, !.checkpoint = 0,
                                       !.grants = FALSE])

\* Fork reads the parent's fields without the lock, while others change them.
BeginFork(c, s) ==
  /\ Counted /\ Doing(c, "none") /\ Len(known) + Under("fork") < MaxKnown
  /\ Proceed(c, [step |-> "fork", parent |-> s, history |-> {}, checkpoint |-> {}])
  /\ UNCHANGED <<content, snapshots, known, moment, settled, aside, fileWrites>>

ReadParent(c, field) ==
  /\ Doing(c, "fork") /\ at[c][field] = {}
  /\ Proceed(c, [at[c] EXCEPT ![field] = {known[at[c].parent][field]}])
  /\ UNCHANGED <<content, snapshots, known, moment, settled, aside, fileWrites,
                 sessionCalls>>

AddChild(c) ==
  /\ Doing(c, "fork") /\ at[c].history # {} /\ at[c].checkpoint # {}
  /\ \E h \in at[c].history, k \in at[c].checkpoint :
       known' = Append(known, [parent |-> at[c].parent, history |-> h, grants |-> FALSE,
                               checkpoint |-> k, cursor |-> 0])
  /\ Proceed(c, AtEase)
  /\ UNCHANGED <<content, snapshots, moment, settled, aside, fileWrites, sessionCalls>>

SessionCall(c) ==
  \/ Register(c)
  \/ \E s \in DOMAIN known : BeginFork(c, s)
  \/ \E s \in {1, MaxKnown}, k \in DOMAIN snapshots : BeginRewind(c, s, k)
  \/ \E forgets \in BOOLEAN : FinishRewind(c, 1, forgets)

SessionNext ==
  \/ \E p \in SavedPaths, removes \in BOOLEAN : ToolWritesFile(p, removes)
  \/ \E s \in DOMAIN known : Resume(s) \/ Clear(s)
  \/ \E c \in SessionCallers :
       \/ SessionCall(c)
       \/ \E P \in SUBSET SavedPaths : P # {} /\ \E q \in SetToSeqs(P) : BeginSnapshot(c, q)
       \/ TakeFile(c) \/ StoreSnapshot(c) \/ BreakOff(c) \/ RestoreFile(c)
       \/ \E field \in {"history", "checkpoint"} : ReadParent(c, field)
       \/ AddChild(c)

SessionSpec == SessionInit /\ [][SessionNext]_sessionVars
-------------------------------------------------------------------------------
(* A rewind gives back what the checkpoint saw: when nobody else wrote while  *)
(* it restored, its files are as they were when the checkpoint was stored,    *)
(* those that were absent are absent again, and every other file is as the    *)
(* rewind found it. A file that changed while the checkpoint was taken may be *)
(* either way. A restore that broke off or was crossed promises nothing.      *)
RewindGivesBack ==
  settled # 0 =>
    \A p \in SavedPaths :
      \/ p \in PathsOf(snapshots[settled]) /\ content[p] = moment[settled].files[p]
      \/ p \in PathsOf(snapshots[settled]) /\ p \in moment[settled].blurred
      \/ p \notin PathsOf(snapshots[settled]) /\ content[p] = aside[p]
===============================================================================
