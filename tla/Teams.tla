--------------------------------- MODULE Teams ---------------------------------
(* The team coordinator (agent/extensions/teams/coordinator.go): a list of    *)
(* tasks whose files are locked while they go on, the inboxes of the          *)
(* teammates, and the plans under review. No part of the program makes one    *)
(* yet; its callers are the goroutines of teammates.                          *)
(*                                                                            *)
(* An assignment asks the gate before it takes the lock, and a message gets   *)
(* its number in one section of the lock and its place in another. Titles,    *)
(* texts, times and dependencies are kept as given and are left out.          *)
EXTENDS Naturals, Sequences, FiniteSets

CONSTANTS TeamTasks, Files, Teammates,
          NoOwner,     \* the owner of a file that is not locked
          MaxTeamCalls \* bound: calls under way or done

ASSUME TeamAssumption == NoOwner \notin TeamTasks /\ MaxTeamCalls \in Nat

VARIABLES
  tasks,      \* task -> its status and the files it lists, or Unassigned
  fileLocks,  \* file -> the task that owns it, or NoOwner
  assigning,  \* assignments the gate has let pass
  messageSeq,
  outgoing,   \* messages that have their number and no place yet
  inboxes,    \* teammate -> the numbers of the messages that wait for it
  drained,    \* teammate -> those it has taken
  planSeq,
  plans,      \* plan number -> status
  teamCalls

teamVars == <<tasks, fileLocks, assigning, messageSeq, outgoing, inboxes, drained,
              planSeq, plans, teamCalls>>
lockVars == <<tasks, fileLocks, assigning>>
mailVars == <<messageSeq, outgoing, inboxes, drained>>
planVars == <<planSeq, plans>>

Statuses == {"pending", "in-progress", "completed"}
Unassigned == [status |-> "none", files |-> {}]
Snapshots == [status : Statuses \cup {"none"}, files : SUBSET Files]
Assignments == [task : TeamTasks, status : Statuses, files : SUBSET Files]
PlanStatuses == {"pending", "approved", "rejected"}

TeamTypeOK ==
  /\ tasks \in [TeamTasks -> Snapshots]
  /\ fileLocks \in [Files -> TeamTasks \cup {NoOwner}]
  /\ assigning \subseteq Assignments

TeamInit ==
  /\ tasks = [t \in TeamTasks |-> Unassigned]
  /\ fileLocks = [f \in Files |-> NoOwner]
  /\ assigning = {}
  /\ messageSeq = 0 /\ outgoing = {}
  /\ inboxes = [a \in Teammates |-> <<>>] /\ drained = [a \in Teammates |-> <<>>]
  /\ planSeq = 0 /\ plans = <<>>
  /\ teamCalls = 0

Calling == teamCalls < MaxTeamCalls /\ teamCalls' = teamCalls + 1
-------------------------------------------------------------------------------
\* AssignDetailed up to the lock. A completion goes on only if the gate allows it.
BeginAssign(a) ==
  /\ Calling
  /\ assigning' = assigning \cup {a}
  /\ UNCHANGED <<tasks, fileLocks, mailVars, planVars>>

\* A file is taken when another task owns it; a completion takes none.
Conflict(a) ==
  /\ a.status # "completed"
  /\ \E f \in a.files : fileLocks[f] \notin {a.task, NoOwner}

\* The locks after the task gave up what it listed and took what it lists now.
Relocked_KeepsOld(a) ==
  [f \in Files |->
     IF a.status # "completed" /\ f \in a.files THEN a.task
     ELSE IF a.status = "completed" /\ f \in tasks[a.task].files THEN NoOwner
     ELSE fileLocks[f]]
Relocked(a) ==
  [f \in Files |->
     IF a.status # "completed" /\ f \in a.files THEN a.task
     ELSE IF f \in tasks[a.task].files /\ fileLocks[f] = a.task THEN NoOwner
     ELSE fileLocks[f]]

\* AssignDetailed under the lock.
CommitAssign(a) ==
  /\ a \in assigning /\ assigning' = assigning \ {a}
  /\ \/ Conflict(a) /\ UNCHANGED <<tasks, fileLocks>>
     \/ /\ ~Conflict(a)
        /\ fileLocks' = Relocked(a)
        /\ tasks' = [tasks EXCEPT ![a.task] =
             [status |-> a.status, files |-> IF a.status = "completed" THEN {} ELSE a.files]]
  /\ UNCHANGED <<mailVars, planVars, teamCalls>>
-------------------------------------------------------------------------------
\* Send, the section that gives the message its number ...
BeginSend(to) ==
  /\ Calling
  /\ messageSeq' = messageSeq + 1
  /\ outgoing' = outgoing \cup {[to |-> to, number |-> messageSeq']}
  /\ UNCHANGED <<lockVars, inboxes, drained, planVars>>

\* ... and the one that puts it into the inbox.
Deposit(m) ==
  /\ m \in outgoing /\ outgoing' = outgoing \ {m}
  /\ inboxes' = [inboxes EXCEPT ![m.to] = Append(@, m.number)]
  /\ UNCHANGED <<lockVars, messageSeq, drained, planVars, teamCalls>>

Inbox(a) ==
  /\ inboxes[a] # <<>>
  /\ drained' = [drained EXCEPT ![a] = @ \o inboxes[a]]
  /\ inboxes' = [inboxes EXCEPT ![a] = <<>>]
  /\ UNCHANGED <<lockVars, messageSeq, outgoing, planVars, teamCalls>>
-------------------------------------------------------------------------------
\* SubmitPlan without an id.
SubmitPlan ==
  /\ Calling
  /\ planSeq' = planSeq + 1
  /\ plans' = Append(plans, "pending")
  /\ UNCHANGED <<lockVars, mailVars>>

\* ReviewPlan; a plan may be reviewed again and again.
ReviewPlan(p, status) ==
  /\ Calling
  /\ p \in DOMAIN plans /\ plans' = [plans EXCEPT ![p] = status]
  /\ UNCHANGED <<lockVars, mailVars, planSeq>>

TeamNext ==
  \/ \E a \in Assignments : BeginAssign(a)
  \/ \E a \in assigning : CommitAssign(a)
  \/ \E a \in Teammates : BeginSend(a) \/ Inbox(a)
  \/ \E m \in outgoing : Deposit(m)
  \/ SubmitPlan
  \/ \E p \in DOMAIN plans, s \in PlanStatuses \ {"pending"} : ReviewPlan(p, s)

TeamSpec == TeamInit /\ [][TeamNext]_teamVars
-------------------------------------------------------------------------------
\* The two books of the coordinator agree, however its tasks are assigned again and
\* completed: a task owns the files it lists and no other, so that no two tasks list
\* one file and a lock outlives neither its task nor the task's last list.
LocksAgree ==
  \A f \in Files, t \in TeamTasks : fileLocks[f] = t <=> f \in tasks[t].files
===============================================================================
