---------------------------- MODULE ExecutionStore ----------------------------
(* The hub's conversations in memory and in SQLite: state_execution_domain.go,*)
(* the seeds handlers read (handlers_conversation_by_id.go,                   *)
(* handlers_execution_flow.go) and the restart.                               *)
(*                                                                            *)
(* A handler reads the conversation without the lock, from memory or else from*)
(* the sessions table, then changes it under the lock, and last, again without*)
(* the lock, captures the whole state and writes it: the main tables in one   *)
(* transaction, then each runtime table in a transaction of its own, every    *)
(* table emptied and filled. It answers success whatever became of the writes.*)
(*                                                                            *)
(* A conversation is a version: 0 when there is none. Executions and events   *)
(* are captured with it and stand in its version.                             *)
EXTENDS Naturals, FiniteSets

CONSTANTS Conversations,
          Handlers,      \* bound: handlers at work at the same time
          MaxActs,       \* bound: requests
          MaxWriteFaults, \* bound: writes that fail
          MaxHubCrashes  \* bound: restarts

ASSUME StoreAssumption ==
  MaxActs \in Nat /\ MaxWriteFaults \in Nat /\ MaxHubCrashes \in Nat

VARIABLES
  memory,     \* conversation -> version in AppState
  moment,     \* how often the memory has changed
  mainTables, \* what the main tables hold: a captured state
  sessions, runs, \* the same of two of the runtime tables
  handlers,   \* handler -> where it is
  newest,     \* ghost: the latest state ever written to the main tables
  unsynced,   \* ghost: the last change that was not followed by a write
  born, gone, \* ghost: conversations made, and those whose deletion was answered
  overlapped, \* ghost: were two handlers ever at work at once
  acts, writeFaults, hubCrashes \* requests, failed writes and restarts so far

storeVars == <<memory, moment, mainTables, sessions, runs, handlers, newest, unsynced,
               born, gone, overlapped, acts, writeFaults, hubCrashes>>

Captured == [moment |-> moment, rows |-> memory]
AtRest == [at |-> "rest"]
Go(h, to) == handlers' = [handlers EXCEPT ![h] = to]
Ends(h) ==
  /\ Go(h, AtRest)
  /\ gone' = IF handlers[h].op = "delete" THEN gone \cup {handlers[h].conversation} ELSE gone
Nothing == [moment |-> 0, rows |-> [c \in Conversations |-> 0]]

StoreInit ==
  /\ memory = Nothing.rows /\ moment = 0
  /\ mainTables = Nothing /\ sessions = Nothing /\ runs = Nothing
  /\ handlers = [h \in Handlers |-> AtRest]
  /\ newest = 0 /\ unsynced = 0 /\ born = {} /\ gone = {} /\ overlapped = FALSE
  /\ acts = 0 /\ writeFaults = 0 /\ hubCrashes = 0

(* The seed: a conversation that memory does not have is read from the table. *)
Seed(c) == IF memory[c] # 0 THEN memory[c] ELSE sessions.rows[c]

(* A request comes in. A new conversation needs no seed; of another one there *)
(* must be one, or the answer is that it does not exist.                      *)
Arrive(h, c, op) ==
  /\ handlers[h] = AtRest /\ acts < MaxActs /\ acts' = acts + 1
  /\ IF op = "create" THEN c \notin born ELSE Seed(c) # 0
  /\ born' = born \cup {c}
  /\ Go(h, [at |-> "seeded", op |-> op, conversation |-> c, seed |-> Seed(c)])
  /\ overlapped' = (overlapped \/ \E g \in Handlers \ {h} : handlers[g] # AtRest)
  /\ UNCHANGED <<memory, moment, mainTables, sessions, runs, newest, unsynced, gone,
                 writeFaults, hubCrashes>>

(* The critical section. A conversation that is no longer in memory is put    *)
(* back from the seed; one that is only looked at is not written afterwards.  *)
Act(h) ==
  LET me == handlers[h]
      c == me.conversation
      puts == me.op # "look" \/ memory[c] = 0
  IN /\ me.at = "seeded"
     /\ moment' = IF puts THEN moment + 1 ELSE moment
     /\ memory' = [memory EXCEPT ![c] =
          CASE me.op = "delete" -> 0
            [] me.op = "look" -> IF @ = 0 THEN me.seed ELSE @
            [] OTHER -> moment + 1]
     /\ unsynced' = IF me.op = "look" /\ puts THEN moment' ELSE unsynced
     /\ Go(h, IF me.op = "look" THEN AtRest ELSE [me EXCEPT !.at = "acted"])
     /\ UNCHANGED <<mainTables, sessions, runs, newest, born, gone, overlapped, acts,
                    writeFaults, hubCrashes>>

(* captureExecutionDomainSnapshot, under the read lock.                       *)
Capture(h) ==
  /\ handlers[h].at = "acted"
  /\ Go(h, [at |-> "captured", op |-> handlers[h].op,
            conversation |-> handlers[h].conversation, state |-> Captured])
  /\ UNCHANGED <<memory, moment, mainTables, sessions, runs, newest, unsynced, born, gone,
                 overlapped, acts, writeFaults, hubCrashes>>

Fault == writeFaults < MaxWriteFaults /\ writeFaults' = writeFaults + 1

Replaced_Upserted(table, state) ==
  [state EXCEPT !.rows = [c \in Conversations |-> IF state.rows[c] = 0 THEN table.rows[c]
                                                  ELSE state.rows[c]]]

(* Every table is emptied before the rows of the captured state go in.        *)
Replaced(table, state) == state

(* replaceExecutionDomainSnapshot; a failure is logged and the handler goes on.*)
WriteMain(h) ==
  LET state == handlers[h].state
  IN /\ handlers[h].at = "captured" /\ Go(h, [handlers[h] EXCEPT !.at = "main"])
     /\ \/ /\ mainTables' = Replaced(mainTables, state) /\ UNCHANGED writeFaults
           /\ newest' = IF state.moment > newest THEN state.moment ELSE newest
        \/ Fault /\ UNCHANGED <<mainTables, newest>>
     /\ UNCHANGED <<memory, moment, sessions, runs, unsynced, born, gone, overlapped, acts,
                    hubCrashes>>

(* syncRuntimeSnapshotBestEffort gives up at the first table that fails.      *)
WriteSessions(h) ==
  /\ handlers[h].at = "main"
  /\ \/ /\ sessions' = handlers[h].state /\ UNCHANGED writeFaults
        /\ Go(h, [handlers[h] EXCEPT !.at = "sessions"])
        /\ UNCHANGED gone
     \/ Fault /\ Ends(h) /\ UNCHANGED sessions
  /\ UNCHANGED <<memory, moment, mainTables, runs, newest, unsynced, born, overlapped, acts,
                 hubCrashes>>

WriteRuns(h) ==
  /\ handlers[h].at = "sessions" /\ Ends(h)
  /\ \/ runs' = handlers[h].state /\ UNCHANGED writeFaults
     \/ Fault /\ UNCHANGED runs
  /\ UNCHANGED <<memory, moment, mainTables, sessions, newest, unsynced, born, overlapped,
                 acts, hubCrashes>>

(* The runtime tables are written again from the main ones before the hub     *)
(* serves its first request.                                                  *)
Rewritten == sessions' = mainTables /\ runs' = mainTables

(* hydrateExecutionDomainFromStore after the process has died.                *)
CrashAndHydrate ==
  /\ hubCrashes < MaxHubCrashes /\ hubCrashes' = hubCrashes + 1
  /\ handlers' = [h \in Handlers |-> AtRest]
  /\ memory' = mainTables.rows /\ newest' = mainTables.moment
  /\ unsynced' = 0 /\ Rewritten
  /\ UNCHANGED <<mainTables, moment, born, gone, overlapped, acts, writeFaults>>

StoreNext ==
  \/ \E h \in Handlers :
       \/ Act(h) \/ Capture(h) \/ WriteMain(h) \/ WriteSessions(h) \/ WriteRuns(h)
       \/ \E c \in Conversations, op \in {"create", "change", "delete", "look"} :
            Arrive(h, c, op)
  \/ CrashAndHydrate

StoreSpec == StoreInit /\ [][StoreNext]_storeVars
-------------------------------------------------------------------------------
AllAtRest == \A h \in Handlers : handlers[h] = AtRest

(* When requests come one after the other and no write fails, what has been   *)
(* answered is there for good, restarts at any moment included: the tables    *)
(* agree with memory and with each other, and what was deleted stays deleted. *)
SerialIsDurable ==
  ~overlapped /\ writeFaults = 0 =>
    /\ \A c \in gone : memory[c] = 0 /\ mainTables.rows[c] = 0
    /\ AllAtRest => /\ mainTables.rows = memory
                    /\ sessions = mainTables /\ runs = mainTables

(* With any overlap of requests, the main tables hold the memory once all of  *)
(* them have been answered, unless an older state was written over a newer    *)
(* one, a lookup put back a conversation and nobody has written since, or a   *)
(* write failed.                                                              *)
OnlyOvertakenIsStale ==
  AllAtRest /\ writeFaults = 0 =>
    \/ mainTables.rows = memory
    \/ mainTables.moment < newest
    \/ newest < unsynced

(* The tables are the memory: after requests that do not overlap always, after*)
(* any others unless one of the named accidents was the last word.            *)
TablesKeepMemory == SerialIsDurable /\ OnlyOvertakenIsStale
===============================================================================
