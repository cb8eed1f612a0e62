--------------------------- MODULE AgentPartsProofs ---------------------------
(* Proofs about parts around the engine that share no variable: the team      *)
(* coordinator, the turns of a run with their tool calls and what they ask    *)
(* the user, the rule books, the model catalog, the task graph of a           *)
(* conversation, the context of a session and its compaction, the rules of    *)
(* the hook dispatcher.                                                       *)
EXTENDS ToolTurn, Teams, Decisions, Catalog, TaskGraph, Compaction, HookRules,
        TLAPS, SequenceTheorems, FiniteSetTheorems, WellFoundedInduction
-------------------------------------------------------------------------------
(* The locks of the team coordinator, for all tasks, files and teammates, and *)
(* however many assignments are under way at once.                            *)

\* The two hold together: the types alone, and the agreement with them.
LockInv == TeamTypeOK /\ LocksAgree

\* AssignDetailed under the lock, of an assignment the gate let pass at any time
\* before, keeps the types and the agreement of the books.
LEMMA LockStep ==
  ASSUME LockInv, NEW a \in assigning, CommitAssign(a)
  PROVE  LockInv'
PROOF
<1>1. /\ a \in Assignments /\ a.task \in TeamTasks /\ a.status \in Statuses
      /\ a.files \subseteq Files
  BY DEF LockInv, TeamTypeOK, Assignments
<1>2. CASE Conflict(a) /\ UNCHANGED <<tasks, fileLocks>>
  BY <1>2 DEF CommitAssign, LockInv, TeamTypeOK, LocksAgree
<1>3. CASE /\ ~Conflict(a)
           /\ fileLocks' = Relocked(a)
           /\ tasks' = [tasks EXCEPT ![a.task] =
                [status |-> a.status,
                 files |-> IF a.status = "completed" THEN {} ELSE a.files]]
  <2> DEFINE listed == IF a.status = "completed" THEN {} ELSE a.files
  <2>1. tasks' \in [TeamTasks -> Snapshots]
    <3>1. [status |-> a.status, files |-> listed] \in Snapshots
      BY <1>1 DEF Snapshots
    <3>2. QED BY <1>3, <3>1 DEF LockInv, TeamTypeOK
  <2>2. fileLocks' \in [Files -> TeamTasks \cup {NoOwner}]
    BY <1>1, <1>3 DEF Relocked, LockInv, TeamTypeOK
  <2>3. assigning' \subseteq Assignments
    BY DEF CommitAssign, LockInv, TeamTypeOK
  <2>4. ASSUME NEW f \in Files, NEW t \in TeamTasks
        PROVE  fileLocks'[f] = t <=> f \in tasks'[t].files
    <3>1. t # NoOwner /\ a.task # NoOwner
      BY <1>1, TeamAssumption DEF TeamAssumption
    <3>2. /\ fileLocks[f] = t <=> f \in tasks[t].files
          /\ fileLocks[f] = a.task <=> f \in tasks[a.task].files
      BY <1>1 DEF LockInv, LocksAgree
    <3>3. tasks'[t].files = IF t = a.task THEN listed ELSE tasks[t].files
      BY <1>1, <1>3 DEF LockInv, TeamTypeOK
    <3>4. CASE f \in listed
      \* The file goes to the task, and no other task lists it: it would own it.
      <4>1. fileLocks'[f] = a.task
        BY <1>3, <3>4 DEF Relocked
      <4>2. fileLocks[f] \in {a.task, NoOwner}
        BY <1>3, <3>4 DEF Conflict
      <4>3. QED BY <3>1, <3>2, <3>3, <3>4, <4>1, <4>2
    <3>5. CASE f \notin listed
      \* The task gives the file up, if it owned it; nobody else is touched.
      <4>1. fileLocks'[f] = IF f \in tasks[a.task].files /\ fileLocks[f] = a.task
                            THEN NoOwner ELSE fileLocks[f]
        BY <1>3, <3>5 DEF Relocked
      <4>2. QED BY <3>1, <3>2, <3>3, <3>5, <4>1
    <3>6. QED BY <3>4, <3>5
  <2>5. QED BY <2>1, <2>2, <2>3, <2>4 DEF LockInv, TeamTypeOK, LocksAgree
<1>4. QED BY <1>2, <1>3 DEF CommitAssign

\* LockInv is inductive.
LEMMA LockInvariant == TeamSpec => []LockInv
PROOF
<1>1. TeamInit => LockInv
  BY TeamAssumption
  DEF TeamInit, LockInv, TeamTypeOK, LocksAgree, Unassigned, Snapshots, TeamAssumption
<1>2. LockInv /\ [TeamNext]_teamVars => LockInv'
  <2>1. SUFFICES ASSUME LockInv, [TeamNext]_teamVars PROVE LockInv'
    OBVIOUS
  <2>2. CASE \E a \in Assignments : BeginAssign(a)
    BY <2>1, <2>2 DEF BeginAssign, LockInv, TeamTypeOK, LocksAgree
  <2>3. CASE \E a \in assigning : CommitAssign(a)
    BY <2>1, <2>3, LockStep
  <2>4. CASE UNCHANGED lockVars
    BY <2>1, <2>4 DEF lockVars, LockInv, TeamTypeOK, LocksAgree
  <2>5. TeamNext => \/ \E a \in Assignments : BeginAssign(a)
                    \/ \E a \in assigning : CommitAssign(a)
                    \/ UNCHANGED lockVars
    BY DEF TeamNext, BeginSend, Inbox, Deposit, SubmitPlan, ReviewPlan, lockVars
  <2>6. UNCHANGED teamVars => UNCHANGED lockVars
    BY DEF teamVars, lockVars
  <2>7. QED BY <2>1, <2>2, <2>3, <2>4, <2>5, <2>6
<1>3. QED BY <1>1, <1>2, PTL DEF TeamSpec

\* The coordinator's books and the assignments under way keep their types.
THEOREM TeamTypes == TeamSpec => []TeamTypeOK
PROOF
<1>1. LockInv => TeamTypeOK
  BY DEF LockInv
<1>2. QED BY <1>1, LockInvariant, PTL

\* A task owns exactly the files it lists, whichever assignments the gate let pass and
\* in whatever order they take the lock (coordinator.AssignDetailed).
THEOREM TeamLocks == TeamSpec => []LocksAgree
PROOF
<1>1. LockInv => LocksAgree
  BY DEF LockInv
<1>2. QED BY <1>1, LockInvariant, PTL
-------------------------------------------------------------------------------
(* The calls of a turn, for any number of calls, turns and clicks.            *)

\* What ends a wait for approval.
Rulings == {"approve", "deny", "stop"}

\* The calls at work are calls of the group being carried out, and two of one group
\* are safe to run beside each other. A wait that was told has a ruling.
BatchInv ==
  /\ \A c \in Slots : pc[c] \in Active => step = "batch" /\ c \in group
  /\ \A c, d \in group : c # d => safe[c]
  /\ \A c \in Slots : pc[c] = "told" => took[c].action \in Rulings

TurnInv == TurnTypeOK /\ BatchInv

\* The two fields that carry events and signals stay sequences of them.
LEMMA Emission ==
  ASSUME TurnTypeOK, NEW c \in Slots,
         NEW kind \in {"asked", "resolved", "question", "answered"}
  PROVE  Emitted(kind, c) \in Seq(Announcements)
PROOF
<1>1. [kind |-> kind, call |-> c, of |-> GroupName] \in Announcements
  BY DEF TurnTypeOK, Announcements, GroupName, Groups, Slots
<1>2. QED BY <1>1, AppendProperties DEF TurnTypeOK, Emitted

\* The head of the channel is a signal, and taking it leaves signals.
LEMMA Taking ==
  ASSUME TurnTypeOK, signals # <<>>
  PROVE  Head(signals) \in Signals /\ Tail(signals) \in Seq(Signals)
PROOF
BY HeadTailProperties DEF TurnTypeOK

\* A group is of calls that exist, one of them or all of them safe.
LEMMA NextGroup ==
  ASSUME TurnTypeOK, NEW i \in Calls
  PROVE  /\ GroupFrom(i) \subseteq Slots
         /\ \A c, d \in GroupFrom(i) : c # d => safe[c]
PROOF
<1>1. Len(safe) \in Nat /\ Calls \subseteq Slots /\ \A k \in Calls : safe[k] \in BOOLEAN
  BY TurnAssumption DEF TurnTypeOK, Calls, Slots, TurnAssumption
<1>2. CASE safe[i]
  BY <1>1, <1>2 DEF GroupFrom, Calls, Slots
<1>3. CASE ~safe[i]
  BY <1>1, <1>3 DEF GroupFrom
<1>4. QED BY <1>1, <1>2, <1>3
-------------------------------------------------------------------------------
\* A call at work moves on, or ends, and the others stay: what a step of
\* ExecuteSingle does to the batch. If it was told, it has a ruling.
LEMMA CallMoves ==
  ASSUME TurnInv, NEW c \in group, pc[c] \in Active,
         NEW next \in Active \cup Finished, Goes(c, next),
         UNCHANGED <<step, safe, group>>,
         \A d \in Slots : pc'[d] = "told" => took'[d].action \in Rulings
  PROVE  /\ pc' \in [Slots -> Active \cup Finished \cup {"none"}]
         /\ BatchInv'
PROOF
<1>1. c \in Slots /\ pc \in [Slots -> Active \cup Finished \cup {"none"}]
  BY DEF TurnInv, TurnTypeOK
<1>2. pc' = [pc EXCEPT ![c] = next]
  BY DEF Goes
<1>3. pc' \in [Slots -> Active \cup Finished \cup {"none"}]
  BY <1>1, <1>2
<1>4. \A d \in Slots : pc'[d] \in Active => pc[d] \in Active
  BY <1>1, <1>2
<1>5. \A d \in Slots : pc'[d] \in Active => step' = "batch" /\ d \in group'
  BY <1>4 DEF TurnInv, BatchInv
<1>6. \A d, e \in group' : d # e => safe'[d]
  BY DEF TurnInv, BatchInv
<1>7. QED BY <1>3, <1>5, <1>6 DEF BatchInv

\* Nothing of the batch moves: the hub's steps, Control and the end of the run.
LEMMA BatchRests ==
  ASSUME TurnInv, UNCHANGED <<safe, group, pc, took>>,
         step' = step \/ \A c \in Slots : pc[c] \notin Active
  PROVE  BatchInv'
PROOF
BY DEF TurnInv, TurnTypeOK, BatchInv

\* The steps of ExecuteSingle that let a call go on, for one call.
LEMMA CallStepInv ==
  ASSUME TurnInv, NEW c \in group,
         SandboxGate(c) \/ PermissionGate(c) \/ Ask(c) \/ Wait(c) \/ Told(c)
           \/ RunReturns(c) \/ Pose(c) \/ Await(c) \/ Answered(c)
  PROVE  TurnInv'
PROOF
<1>1. c \in Slots /\ TurnTypeOK /\ BatchInv
  BY DEF TurnInv, TurnTypeOK
<1> USE <1>1
<1>2. \A d \in Slots : pc[d] = "told" => took[d].action \in Rulings
  BY DEF BatchInv
<1>3. pc \in [Slots -> Active \cup Finished \cup {"none"}]
  BY DEF TurnTypeOK
<1>4. ASSUME NEW at, NEW next \in {"permission", "run"}, at \in Active, Gate(c, at, next)
      PROVE  TurnInv'
  <2>1. \A x \in {"done", "ask", next} : Goes(c, x) =>
          \A d \in Slots : pc'[d] = "told" => pc[d] = "told"
    BY <1>3, <1>4 DEF Goes
  <2>2. PICK x \in {"done", "ask", next} : Goes(c, x)
    BY <1>4 DEF Gate
  <2>3. /\ after' \in [Slots -> {"permission", "run"}]
        /\ UNCHANGED <<step, turn, safe, group, took, signals, ctxDone, events, hubVars,
                       crowded>>
    BY <1>4 DEF Gate, TurnTypeOK
  <2>4. x \in Active \cup Finished
    BY DEF Active, Finished
  <2>5. /\ pc' \in [Slots -> Active \cup Finished \cup {"none"}]
        /\ BatchInv'
    BY <1>2, <1>4, <2>1, <2>2, <2>3, <2>4, CallMoves DEF TurnInv, Gate
  <2>6. QED BY <2>3, <2>5 DEF TurnInv, TurnTypeOK, hubVars
<1>5. CASE SandboxGate(c)
  BY <1>4, <1>5 DEF SandboxGate, Active
<1>6. CASE PermissionGate(c)
  BY <1>4, <1>6 DEF PermissionGate, Active
<1>7. ASSUME NEW kind \in {"asked", "resolved", "question", "answered"},
             events' = Emitted(kind, c)
      PROVE  events' \in Seq(Announcements)
  BY <1>7, Emission
<1>8. ASSUME NEW next \in Active \cup Finished, next # "told", Goes(c, next),
             pc[c] \in Active, UNCHANGED <<step, safe, group>>,
             took' = took \/ took' = [took EXCEPT ![c] = NoSignal]
      PROVE  /\ pc' \in [Slots -> Active \cup Finished \cup {"none"}]
             /\ BatchInv'
             /\ took' \in [Slots -> Signals \cup {NoSignal}]
  <2>1. took \in [Slots -> Signals \cup {NoSignal}]
    BY DEF TurnTypeOK
  <2>2. took' \in [Slots -> Signals \cup {NoSignal}]
    BY <1>8, <2>1
  <2>3. \A d \in Slots : pc'[d] = "told" => d # c /\ pc[d] = "told" /\ took'[d] = took[d]
    BY <1>3, <1>8, <2>1 DEF Goes
  <2>4. QED BY <1>2, <1>8, <2>2, <2>3, CallMoves DEF TurnInv
<1>9. CASE Ask(c)
  <2>1. pc' \in [Slots -> Active \cup Finished \cup {"none"}] /\ BatchInv'
    BY <1>8, <1>9 DEF Ask, Active, Waiting
  <2>2. events' \in Seq(Announcements) /\ crowded' \in BOOLEAN
    BY <1>7, <1>9 DEF Ask, TurnTypeOK
  <2>3. QED BY <1>9, <2>1, <2>2 DEF Ask, TurnInv, TurnTypeOK, hubVars
<1>10. CASE Wait(c)
  <2>1. CASE signals # <<>> /\ signals' = Tail(signals)
               /\ Head(signals).action = "answer" /\ UNCHANGED <<pc, took>>
    BY <1>10, <2>1, Taking, BatchRests DEF Wait, TurnInv, TurnTypeOK, hubVars
  <2>2. CASE signals # <<>> /\ signals' = Tail(signals) /\ Head(signals).action # "answer"
               /\ Goes(c, "told") /\ took' = [took EXCEPT ![c] = Head(signals)]
    <3>1. Head(signals) \in Signals /\ signals' \in Seq(Signals)
      BY <2>2, Taking
    <3>2. took \in [Slots -> Signals \cup {NoSignal}]
      BY DEF TurnTypeOK
    <3>3. took' \in [Slots -> Signals \cup {NoSignal}]
      BY <2>2, <3>1, <3>2
    <3>4. Head(signals).action \in Rulings
      BY <2>2, <3>1 DEF Signals, Controls, Rulings
    <3>5. \A d \in Slots : pc'[d] = "told" => took'[d].action \in Rulings
      BY <1>2, <1>3, <2>2, <3>2, <3>4 DEF Goes
    <3>6. "told" \in Active /\ "wait" \in Active
      BY DEF Active, Waiting
    <3>7. pc' \in [Slots -> Active \cup Finished \cup {"none"}] /\ BatchInv'
      BY <1>10, <2>2, <3>5, <3>6, CallMoves DEF Wait
    <3>8. QED BY <1>10, <3>1, <3>3, <3>7 DEF Wait, TurnInv, TurnTypeOK, hubVars
  <2>3. CASE Goes(c, "error") /\ UNCHANGED <<signals, took>>
    <3>1. pc' \in [Slots -> Active \cup Finished \cup {"none"}] /\ BatchInv'
      BY <1>8, <1>10, <2>3 DEF Wait, Active, Waiting, Finished
    <3>2. QED BY <1>10, <2>3, <3>1 DEF Wait, TurnInv, TurnTypeOK, hubVars
  <2>4. QED BY <1>10, <2>1, <2>2, <2>3 DEF Wait
<1>11. CASE Told(c)
  <2> DEFINE next == CASE took[c].action = "approve" -> after[c]
                       [] took[c].action = "deny" -> "done"
                       [] took[c].action = "stop" -> "error"
  <2>1. took[c].action \in Rulings /\ pc[c] = "told"
    BY <1>2, <1>11 DEF Told
  <2>2. after[c] \in {"permission", "run"} /\ after' \in [Slots -> {"permission", "run"}]
    BY <1>11 DEF Told, TurnTypeOK
  <2>3. next \in Active \cup Finished /\ next # "told" /\ "told" \in Active
    BY <2>1, <2>2 DEF Rulings, Active, Waiting, Finished
  <2>4. Goes(c, next) /\ took' = [took EXCEPT ![c] = NoSignal]
    BY <1>11 DEF Told
  <2> HIDE DEF next
  <2>5. /\ pc' \in [Slots -> Active \cup Finished \cup {"none"}] /\ BatchInv'
        /\ took' \in [Slots -> Signals \cup {NoSignal}]
    BY <1>8, <1>11, <2>1, <2>3, <2>4 DEF Told
  <2>6. events' \in Seq(Announcements)
    BY <1>7, <1>11 DEF Told
  <2>7. QED BY <1>11, <2>2, <2>5, <2>6 DEF Told, TurnInv, TurnTypeOK, hubVars
<1>12. CASE RunReturns(c)
  <2>1. pc' \in [Slots -> Active \cup Finished \cup {"none"}] /\ BatchInv'
    BY <1>8, <1>12 DEF RunReturns, Active, Waiting, Finished
  <2>2. QED BY <1>12, <2>1 DEF RunReturns, TurnInv, TurnTypeOK, hubVars
<1>13. CASE Pose(c)
  <2>1. pc' \in [Slots -> Active \cup Finished \cup {"none"}] /\ BatchInv'
    BY <1>8, <1>13 DEF Pose, Active, Waiting, Finished
  <2>2. events' \in Seq(Announcements)
    BY <1>7, <1>13 DEF Pose
  <2>3. QED BY <1>13, <2>1, <2>2 DEF Pose, TurnInv, TurnTypeOK, hubVars
<1>14. CASE Await(c)
  <2>1. signals' \in Seq(Signals)
    BY <1>14, Taking DEF Await, TurnTypeOK
  <2>2. UNCHANGED pc => BatchInv'
    BY <1>14, BatchRests DEF Await
  <2>3. \/ UNCHANGED pc
        \/ \E x \in {"error", "answered"} : Goes(c, x)
    BY <1>14 DEF Await
  <2>4. pc' \in [Slots -> Active \cup Finished \cup {"none"}] /\ BatchInv'
    <3>1. CASE UNCHANGED pc
      BY <1>3, <2>2, <3>1
    <3>2. CASE \E x \in {"error", "answered"} : Goes(c, x)
      <4>1. \A x \in {"error", "answered"} : x \in Active \cup Finished /\ x # "told"
        BY DEF Active, Finished
      <4>2. pc[c] \in Active /\ UNCHANGED <<step, safe, group, took>>
        BY <1>14 DEF Await, Active
      <4>3. QED BY <1>8, <3>2, <4>1, <4>2
    <3>3. QED BY <2>3, <3>1, <3>2
  <2>5. QED BY <1>14, <2>1, <2>4 DEF Await, TurnInv, TurnTypeOK, hubVars
<1>15. CASE Answered(c)
  <2>1. pc' \in [Slots -> Active \cup Finished \cup {"none"}] /\ BatchInv'
    BY <1>8, <1>15 DEF Answered, Active, Waiting, Finished
  <2>2. events' \in Seq(Announcements)
    BY <1>7, <1>15 DEF Answered
  <2>3. QED BY <1>15, <2>1, <2>2 DEF Answered, TurnInv, TurnTypeOK, hubVars
<1>16. QED
  BY <1>5, <1>6, <1>9, <1>10, <1>11, <1>12, <1>13, <1>14, <1>15
-------------------------------------------------------------------------------
\* The steps of RunLoop and ExecuteBatch.
LEMMA LoopStepInv ==
  ASSUME TurnInv, BeginTurn \/ ProviderReturns \/ StartGroup \/ BatchReturns
  PROVE  TurnInv'
PROOF
<1>1. TurnTypeOK /\ BatchInv
  BY DEF TurnInv
<1> USE <1>1
<1>2. /\ Active \cap Finished = {} /\ "none" \notin Active
      /\ "sandbox" \in Active /\ "sandbox" # "told"
  BY DEF Active, Finished, Waiting
<1>3. CASE BeginTurn
  <2>1. \A c \in Slots : pc[c] \notin Active
    BY <1>3 DEF BeginTurn, BatchInv
  <2>2. BatchInv'
    BY <1>3, <2>1, BatchRests DEF BeginTurn, callVars
  <2>3. turn' \in 0..MaxTurns
    BY <1>3, TurnAssumption DEF BeginTurn, TurnTypeOK, TurnAssumption
  <2>4. QED BY <1>3, <2>2, <2>3 DEF BeginTurn, TurnInv, TurnTypeOK, callVars, hubVars
<1>4. CASE ProviderReturns
  <2>1. \A c \in Slots : pc'[c] \notin Active
    BY <1>2, <1>4 DEF ProviderReturns, BatchInv
  <2>2. pc' \in [Slots -> Active \cup Finished \cup {"none"}]
    BY <1>4 DEF ProviderReturns, TurnTypeOK
  <2>3. safe' \in Seq(BOOLEAN) /\ Len(safe') <= MaxCalls
    <3>1. CASE safe' = safe
      BY <3>1 DEF TurnTypeOK
    <3>2. CASE safe' \in UNION {[1..n -> BOOLEAN] : n \in Slots}
      <4>1. PICK n \in Slots : safe' \in [1..n -> BOOLEAN]
        BY <3>2
      <4>2. n \in Nat /\ n <= MaxCalls
        BY TurnAssumption DEF Slots, TurnAssumption
      <4>3. safe' \in Seq(BOOLEAN) /\ Len(safe') = n
        BY <4>1, <4>2
      <4>4. QED BY <4>2, <4>3
    <3>3. QED BY <1>4, <3>1, <3>2 DEF ProviderReturns
  <2>4. BatchInv'
    BY <1>4, <2>1 DEF ProviderReturns, BatchInv, Active, Waiting
  <2>5. QED BY <1>4, <2>2, <2>3, <2>4 DEF ProviderReturns, TurnInv, TurnTypeOK, hubVars
<1>5. CASE StartGroup
  <2>1. PICK i \in Calls :
          /\ group' = GroupFrom(i)
          /\ pc' = [c \in Slots |-> IF c \in group' THEN "sandbox" ELSE pc[c]]
    BY <1>5 DEF StartGroup
  <2>2. group' \subseteq Slots /\ \A c, d \in group' : c # d => safe[c]
    BY <2>1, NextGroup
  <2>3. \A c \in Slots : pc[c] \notin Active
    BY <1>2, <1>5 DEF StartGroup, GroupDone, BatchInv
  <2>4. \A c \in Slots : pc'[c] \in Active => c \in group' /\ pc'[c] # "told"
    BY <1>2, <2>1, <2>3
  <2>5. pc' \in [Slots -> Active \cup Finished \cup {"none"}]
    BY <1>2, <2>1 DEF TurnTypeOK
  <2>6. "told" \in Active
    BY DEF Active, Waiting
  <2>7. BatchInv'
    BY <1>5, <2>2, <2>4, <2>6 DEF StartGroup, BatchInv
  <2>8. QED BY <1>5, <2>2, <2>5, <2>7 DEF StartGroup, TurnInv, TurnTypeOK, hubVars
<1>6. CASE BatchReturns
  <2>1. \A c \in Slots : pc[c] \notin Active
    BY <1>2, <1>6 DEF BatchReturns, GroupDone, BatchInv
  <2>2. BatchInv'
    BY <1>6, <2>1, BatchRests DEF BatchReturns, callVars
  <2>3. QED BY <1>6, <2>2 DEF BatchReturns, TurnInv, TurnTypeOK, callVars, hubVars
<1>7. QED BY <1>3, <1>4, <1>5, <1>6

\* The end of the run, Control, and the hub's steps.
LEMMA OtherStepInv ==
  ASSUME TurnInv,
         FinishRun \/ (\E i \in DOMAIN sending : Control(i)) \/ ProjectEvent
           \/ Approve \/ Deny \/ Stop \/ Answer
  PROVE  TurnInv'
PROOF
<1>1. TurnTypeOK /\ BatchInv
  BY DEF TurnInv
<1> USE <1>1
<1>2. CASE FinishRun
  <2>1. \A c \in Slots : pc[c] \notin Active
    BY <1>2 DEF FinishRun, BatchInv
  <2>2. BatchInv'
    BY <1>2, <2>1, BatchRests DEF FinishRun, callVars
  <2>3. NoGroup \in Groups
    BY TurnAssumption DEF NoGroup, Groups, TurnAssumption
  <2>4. events' \in Seq(Announcements)
    <3>1. PICK k \in HubTerminal :
            events' = Append(events, [kind |-> k, call |-> 0, of |-> NoGroup])
      BY <1>2 DEF FinishRun, HubTerminal
    <3>2. [kind |-> k, call |-> 0, of |-> NoGroup] \in Announcements
      BY <2>3, TurnAssumption DEF Announcements, TurnAssumption
    <3>3. QED BY <3>1, <3>2 DEF TurnTypeOK
  <2>5. QED BY <1>2, <2>2, <2>4 DEF FinishRun, TurnInv, TurnTypeOK, callVars, hubVars
<1>3. CASE \E i \in DOMAIN sending : Control(i)
  <2>1. PICK i \in DOMAIN sending : Control(i)
    BY <1>3
  <2>2. /\ i \in 1..Len(sending) /\ Len(sending) \in Nat
        /\ \A j \in 1..Len(sending) : sending[j] \in Signals
    BY <2>1 DEF TurnTypeOK
  <2>3. sending' \in Seq(Signals)
    <3>1. /\ SubSeq(sending, 1, i - 1) \in Seq(Signals)
          /\ SubSeq(sending, i + 1, Len(sending)) \in Seq(Signals)
      BY <2>2, SubSeqProperties
    <3>2. QED BY <2>1, <3>1, ConcatProperties DEF Control, RemoveAt
  <2>4. signals' \in Seq(Signals) /\ ctxDone' \in BOOLEAN
    <3>1. CASE UNCHANGED <<signals, ctxDone>>
      BY <3>1 DEF TurnTypeOK
    <3>2. CASE /\ signals' = Append(signals, sending[i])
               /\ ctxDone' = (ctxDone \/ sending[i].action \in {"stop", "deny"})
      <4>1. signals' \in Seq(Signals)
        BY <2>2, <3>2 DEF TurnTypeOK
      <4>2. ctxDone' \in BOOLEAN
        BY <3>2, Zenon
      <4>3. QED BY <4>1, <4>2
    <3>3. QED BY <2>1, <3>1, <3>2 DEF Control
  <2>5. BatchInv'
    BY <2>1, BatchRests DEF Control, callVars
  <2>6. QED BY <2>1, <2>3, <2>4, <2>5 DEF Control, TurnInv, TurnTypeOK, callVars
<1>4. CASE ProjectEvent
  <2>1. Head(events) \in Announcements /\ events' \in Seq(Announcements)
    BY <1>4, HeadTailProperties DEF ProjectEvent, TurnTypeOK
  <2>2. hub' \in HubTerminal \cup {"executing", "confirming", "awaiting_input"}
    BY <1>4, <2>1 DEF ProjectEvent, Announcements, HubTerminal
  <2>3. question' \in 0..MaxCalls /\ shown' \in Groups
    BY <1>4, <2>1, TurnAssumption DEF ProjectEvent, Announcements, TurnTypeOK, TurnAssumption
  <2>4. BatchInv'
    BY <1>4, BatchRests DEF ProjectEvent, callVars
  <2>5. QED BY <1>4, <2>1, <2>2, <2>3, <2>4 DEF ProjectEvent, TurnInv, TurnTypeOK, callVars
<1>5. ASSUME NEW s \in {"executing", "cancelled"}, NEW action \in Controls,
             NEW answers \in 0..MaxCalls, Handle(s, action, answers)
      PROVE  TurnInv'
  <2>1. [action |-> action, seen |-> shown, answers |-> answers] \in Signals
    BY DEF Signals, TurnTypeOK
  <2>2. sending' \in Seq(Signals)
    BY <1>5, <2>1 DEF Handle, TurnTypeOK
  <2>3. clicks' \in 0..MaxClicks /\ question' \in 0..MaxCalls
    BY <1>5, TurnAssumption DEF Handle, TurnTypeOK, TurnAssumption
  <2>4. hub' \in HubTerminal \cup {"executing", "confirming", "awaiting_input"}
    BY <1>5 DEF Handle, HubTerminal
  <2>5. BatchInv'
    BY <1>5, BatchRests DEF Handle, callVars
  <2>6. QED BY <1>5, <2>2, <2>3, <2>4, <2>5 DEF Handle, TurnInv, TurnTypeOK, callVars
<1>6. 0 \in 0..MaxCalls /\ question \in 0..MaxCalls
  BY TurnAssumption DEF TurnTypeOK, TurnAssumption
<1>7. CASE Approve \/ Deny \/ Stop \/ Answer
  BY <1>5, <1>6, <1>7 DEF Approve, Deny, Stop, Answer, Controls
<1>8. QED BY <1>2, <1>3, <1>4, <1>7
-------------------------------------------------------------------------------
\* TurnInv holds at the start.
LEMMA TurnStarts == TurnInit => TurnInv
PROOF
<1>1. SUFFICES ASSUME TurnInit PROVE TurnInv
  OBVIOUS
<1>2. NoGroup \in Groups /\ "none" \notin Active
  BY TurnAssumption DEF NoGroup, Groups, TurnAssumption, Active, Waiting
<1>3. TurnTypeOK
  <2>1. <<>> \in Seq(BOOLEAN) /\ <<>> \in Seq(Signals) /\ <<>> \in Seq(Announcements)
    OBVIOUS
  <2>2. /\ 0 \in 0..MaxTurns /\ 0 \in 0..MaxCalls /\ 0 \in 0..MaxClicks
        /\ Len(safe) <= MaxCalls
    BY <1>1, TurnAssumption DEF TurnInit, TurnAssumption
  <2>3. /\ pc \in [Slots -> Active \cup Finished \cup {"none"}]
        /\ after \in [Slots -> {"permission", "run"}]
        /\ took \in [Slots -> Signals \cup {NoSignal}]
    BY <1>1 DEF TurnInit
  <2>4. QED BY <1>1, <1>2, <2>1, <2>2, <2>3 DEF TurnInit, TurnTypeOK
<1>4. BatchInv
  BY <1>1, <1>2 DEF TurnInit, BatchInv, Active, Waiting
<1>5. QED BY <1>3, <1>4 DEF TurnInv

\* A step of the run, of a call or of the hub keeps it.
LEMMA TurnStep == TurnInv /\ [TurnNext]_turnVars => TurnInv'
PROOF
<1>1. SUFFICES ASSUME TurnInv, [TurnNext]_turnVars PROVE TurnInv'
  OBVIOUS
<1>2. CASE TurnNext
  BY <1>1, <1>2, LoopStepInv, OtherStepInv, CallStepInv DEF TurnNext, CallStep
<1>3. CASE UNCHANGED turnVars
  BY <1>1, <1>3 DEF TurnInv, TurnTypeOK, BatchInv, turnVars
<1>4. QED BY <1>1, <1>2, <1>3

\* TurnInv is an invariant of the specification.
LEMMA TurnInvariant == TurnSpec => []TurnInv
PROOF
BY TurnStarts, TurnStep, PTL DEF TurnSpec

\* The variables keep their types.
THEOREM TurnTypes == TurnSpec => []TurnTypeOK
PROOF
<1>1. TurnInv => TurnTypeOK
  BY DEF TurnInv
<1>2. QED BY <1>1, TurnInvariant, PTL

\* The end of a batch is the end of its calls, and a tool that is not safe has no other
\* tool beside it (Pipeline.ExecuteBatch), for any number of calls and turns.
THEOREM BatchContainsItsTools == TurnSpec => []ToolsEndWithTheBatch
PROOF
<1>1. TurnInv => ToolsEndWithTheBatch
  <2>1. SUFFICES ASSUME TurnInv, NEW c \in Slots, pc[c] \in Active
                 PROVE  /\ step = "batch" /\ c \in group
                        /\ safe[c] \/ \A d \in Slots \ {c} : pc[d] \notin Active
    BY DEF ToolsEndWithTheBatch
  <2>2. QED BY <2>1 DEF TurnInv, BatchInv
<1>2. QED BY <1>1, TurnInvariant, PTL
-------------------------------------------------------------------------------
(* Asks and answers: what is open is counted.                                 *)

\* The members of s, and how many of them are in X.
Within(s) == {s[k] : k \in 1..Len(s)}
Hits(s, X) == {k \in 1..Len(s) : s[k] \in X}
Count(s, X) == Cardinality(Hits(s, X))

\* A sequence has finitely many hits, and none only if no member is one.
LEMMA CountIs ==
  ASSUME NEW S, NEW s \in Seq(S), NEW X
  PROVE  /\ Count(s, X) \in Nat /\ IsFiniteSet(Hits(s, X))
         /\ Count(s, X) = 0 => Within(s) \cap X = {}
         /\ Within(s) \subseteq S
PROOF
<1>1. Len(s) \in Nat /\ IsFiniteSet(1..Len(s))
  BY LenProperties, FS_Interval
<1>2. Hits(s, X) \in SUBSET (1..Len(s))
  BY DEF Hits
<1>3. IsFiniteSet(Hits(s, X)) /\ Count(s, X) \in Nat
  BY <1>1, <1>2, FS_Subset, FS_CardinalityType DEF Count
<1>4. Count(s, X) = 0 => Hits(s, X) = {}
  BY <1>3, FS_EmptySet DEF Count
<1>5. Hits(s, X) = {} => Within(s) \cap X = {}
  BY DEF Hits, Within
<1>6. Within(s) \subseteq S
  BY <1>1, ElementOfSeq DEF Within
<1>7. QED BY <1>3, <1>4, <1>5, <1>6

\* One more at the end.
LEMMA AppendCounts ==
  ASSUME NEW S, NEW s \in Seq(S), NEW x \in S, NEW X
  PROVE  /\ Append(s, x) \in Seq(S) /\ Append(s, x) # <<>>
         /\ Append(s, x)[Len(Append(s, x))] = x
         /\ Within(Append(s, x)) = Within(s) \cup {x}
         /\ Count(Append(s, x), X) = Count(s, X) + (IF x \in X THEN 1 ELSE 0)
PROOF
<1> DEFINE n == Len(s)
           t == Append(s, x)
<1>1. /\ n \in Nat /\ t \in Seq(S) /\ Len(t) = n + 1 /\ t[n + 1] = x
      /\ \A k \in 1..n : t[k] = s[k]
  BY LenProperties, AppendProperties
<1>2. t # <<>>
  BY <1>1, EmptySeq
<1> HIDE DEF t
<1>3. 1..(n + 1) = (1..n) \cup {n + 1} /\ n + 1 \notin 1..n
  BY <1>1
<1>4. Within(t) = Within(s) \cup {x}
  BY <1>1, <1>3 DEF Within
<1>5. Hits(t, X) = IF x \in X THEN Hits(s, X) \cup {n + 1} ELSE Hits(s, X)
  BY <1>1, <1>3 DEF Hits
<1>6. IsFiniteSet(Hits(s, X)) /\ Count(s, X) \in Nat /\ n + 1 \notin Hits(s, X)
  BY <1>3, CountIs DEF Hits
<1>7. Count(t, X) = Count(s, X) + (IF x \in X THEN 1 ELSE 0)
  <2>1. CASE x \in X
    <3>1. Cardinality(Hits(s, X) \cup {n + 1}) = Cardinality(Hits(s, X)) + 1
      BY <1>6, FS_AddElement
    <3>2. QED BY <1>5, <2>1, <3>1 DEF Count
  <2>2. CASE x \notin X
    BY <1>5, <1>6, <2>2 DEF Count
  <2>3. QED BY <2>1, <2>2
<1>8. QED BY <1>1, <1>2, <1>4, <1>7 DEF t

\* The sequence t is s without place p.
Skips(s, t, p) ==
  /\ Len(t) = Len(s) - 1
  /\ \A k \in 1..Len(t) : t[k] = IF k < p THEN s[k] ELSE s[k + 1]

\* One place taken out.
LEMMA WithoutPlace ==
  ASSUME NEW S, NEW s \in Seq(S), NEW t \in Seq(S), NEW p \in 1..Len(s), NEW X,
         Skips(s, t, p)
  PROVE  /\ Within(t) \subseteq Within(s) /\ Within(s) = Within(t) \cup {s[p]}
         /\ Count(s, X) = Count(t, X) + (IF s[p] \in X THEN 1 ELSE 0)
PROOF
<1> DEFINE n == Len(s)
           m == Len(t)
           g == [k \in Hits(t, X) |-> IF k < p THEN k ELSE k + 1]
<1>1. n \in Nat /\ m \in Nat /\ m = n - 1 /\ p \in Nat /\ 1 <= p /\ p <= n
  BY LenProperties DEF Skips
<1> HIDE DEF n, m
<1>2. \A k \in 1..m : IF k < p THEN t[k] = s[k] /\ k \in 1..n /\ k # p
                      ELSE t[k] = s[k + 1] /\ k + 1 \in 1..n /\ k + 1 # p
  BY <1>1 DEF m, Skips
<1>3. \A j \in 1..n : j # p => IF j < p THEN j \in 1..m ELSE j - 1 \in 1..m /\ ~(j - 1 < p)
  BY <1>1
<1>4. \A j \in 1..n : j # p => \E k \in 1..m : j = (IF k < p THEN k ELSE k + 1) /\ t[k] = s[j]
  <2>1. SUFFICES ASSUME NEW j \in 1..n, j # p
                 PROVE  \E k \in 1..m : j = (IF k < p THEN k ELSE k + 1) /\ t[k] = s[j]
    OBVIOUS
  <2>2. CASE j < p
    <3>1. j \in 1..m /\ t[j] = s[j]
      BY <1>2, <1>3, <2>1, <2>2
    <3>2. QED BY <2>2, <3>1
  <2>3. CASE ~(j < p)
    <3>1. j - 1 \in 1..m /\ ~(j - 1 < p) /\ (j - 1) + 1 = j
      BY <1>1, <1>3, <2>1, <2>3
    <3>2. t[j - 1] = s[(j - 1) + 1]
      BY <1>2, <3>1
    <3>3. QED BY <3>1, <3>2
  <2>4. QED BY <2>2, <2>3
<1>5. Within(t) \subseteq Within(s) /\ Within(s) = Within(t) \cup {s[p]}
  <2>1. \A k \in 1..m : \E j \in 1..n : t[k] = s[j]
    BY <1>2
  <2>2. p \in 1..n
    BY <1>1
  <2>3. ASSUME NEW y \in Within(t)
        PROVE  y \in Within(s)
    <3>1. PICK k \in 1..m : y = t[k]
      BY DEF Within, m
    <3>2. PICK j \in 1..n : y = s[j]
      BY <2>1, <3>1
    <3>3. QED BY <3>2 DEF Within, n
  <2>4. ASSUME NEW y \in Within(s), y # s[p]
        PROVE  y \in Within(t)
    <3>1. PICK j \in 1..n : y = s[j]
      BY DEF Within, n
    <3>2. PICK k \in 1..m : t[k] = s[j]
      BY <1>4, <2>4, <3>1
    <3>3. QED BY <3>1, <3>2 DEF Within, m
  <2>5. s[p] \in Within(s)
    BY <2>2 DEF Within, n
  <2>6. QED BY <2>3, <2>4, <2>5
<1>6. g \in [Hits(t, X) -> Hits(s, X) \ {p}]
  <2>1. ASSUME NEW k \in Hits(t, X)
        PROVE  (IF k < p THEN k ELSE k + 1) \in Hits(s, X) \ {p}
    <3>1. k \in 1..m /\ t[k] \in X
      BY DEF Hits, m
    <3>2. CASE k < p
      BY <1>2, <3>1, <3>2 DEF Hits, n
    <3>3. CASE ~(k < p)
      BY <1>2, <3>1, <3>3 DEF Hits, n
    <3>4. QED BY <3>2, <3>3
  <2>2. QED BY <2>1
<1>7. \A j \in Hits(s, X) \ {p} : \E k \in Hits(t, X) : g[k] = j
  BY <1>4 DEF Hits, n, m
<1>8. \A k, l \in Hits(t, X) : g[k] = g[l] => k = l
  <2>1. Hits(t, X) \subseteq Nat
    BY <1>1 DEF Hits, m
  <2>2. QED BY <1>1, <2>1
<1>9. g \in Bijection(Hits(t, X), Hits(s, X) \ {p})
  BY <1>6, <1>7, <1>8 DEF Bijection, Injection, Surjection, IsInjective
<1>10. /\ IsFiniteSet(Hits(t, X)) /\ IsFiniteSet(Hits(s, X))
       /\ Count(t, X) \in Nat /\ Count(s, X) \in Nat
  BY CountIs
<1>11. Cardinality(Hits(s, X) \ {p}) = Count(t, X)
  BY <1>9, <1>10, FS_Bijection DEF ExistsBijection, Count
<1>12. Count(s, X) = Count(t, X) + (IF s[p] \in X THEN 1 ELSE 0)
  <2>1. p \in Hits(s, X) <=> s[p] \in X
    BY DEF Hits
  <2>2. Cardinality(Hits(s, X) \ {p}) = IF p \in Hits(s, X) THEN Count(s, X) - 1
                                        ELSE Count(s, X)
    BY <1>10, FS_RemoveElement DEF Count
  <2>3. QED BY <1>10, <1>11, <2>1, <2>2
<1>13. QED BY <1>5, <1>12

\* The first one taken.
LEMMA TailCounts ==
  ASSUME NEW S, NEW s \in Seq(S), s # <<>>, NEW X
  PROVE  /\ Tail(s) \in Seq(S) /\ Head(s) \in S /\ Head(s) = s[1]
         /\ Within(s) = Within(Tail(s)) \cup {Head(s)}
         /\ Count(s, X) = Count(Tail(s), X) + (IF Head(s) \in X THEN 1 ELSE 0)
PROOF
<1> DEFINE t == Tail(s)
<1>1. /\ t \in Seq(S) /\ Head(s) \in S /\ Len(t) = Len(s) - 1 /\ Head(s) = s[1]
      /\ \A k \in 1..Len(t) : t[k] = s[k + 1]
  BY HeadTailProperties
<1>2. Len(s) \in Nat /\ 1 \in 1..Len(s)
  BY LenProperties, EmptySeq
<1> HIDE DEF t
<1>3. Len(t) \in Nat /\ \A k \in 1..Len(t) : ~(k < 1)
  BY <1>1, <1>2
<1>4. Skips(s, t, 1)
  BY <1>1, <1>3 DEF Skips
<1>5. /\ Within(s) = Within(t) \cup {s[1]}
      /\ Count(s, X) = Count(t, X) + (IF s[1] \in X THEN 1 ELSE 0)
  BY <1>1, <1>2, <1>4, WithoutPlace
<1>6. QED BY <1>1, <1>5 DEF t

\* One taken from anywhere.
LEMMA RemoveCounts ==
  ASSUME NEW S, NEW s \in Seq(S), NEW p \in 1..Len(s), NEW X
  PROVE  /\ RemoveAt(s, p) \in Seq(S)
         /\ Within(s) = Within(RemoveAt(s, p)) \cup {s[p]}
         /\ Count(s, X) = Count(RemoveAt(s, p), X) + (IF s[p] \in X THEN 1 ELSE 0)
PROOF
<1> DEFINE n == Len(s)
           a == SubSeq(s, 1, p - 1)
           b == SubSeq(s, p + 1, n)
           t == a \o b
<1>1. n \in Nat /\ p \in Nat /\ 1 <= p /\ p <= n /\ p - 1 \in Int /\ p + 1 \in Int /\ 1 \in Int
      /\ \A k \in 1..n : s[k] \in S
  BY LenProperties, ElementOfSeq
<1>2. (\A k \in 1..(p - 1) : s[k] \in S) /\ (\A k \in (p + 1)..n : s[k] \in S)
  BY <1>1
<1>3. /\ a \in Seq(S) /\ Len(a) = IF 1 <= p - 1 THEN (p - 1) - 1 + 1 ELSE 0
      /\ \A k \in 1..((p - 1) - 1 + 1) : a[k] = s[1 + k - 1]
  BY <1>1, <1>2, SubSeqProperties
<1>4. /\ b \in Seq(S) /\ Len(b) = IF p + 1 <= n THEN n - (p + 1) + 1 ELSE 0
      /\ \A k \in 1..(n - (p + 1) + 1) : b[k] = s[(p + 1) + k - 1]
  BY <1>1, <1>2, SubSeqProperties
<1> HIDE DEF a, b, n
<1>5. Len(a) = p - 1 /\ \A k \in 1..(p - 1) : a[k] = s[k]
  <2>1. (p - 1) - 1 + 1 = p - 1 /\ \A k \in 1..(p - 1) : 1 + k - 1 = k
    BY <1>1
  <2>2. QED BY <1>1, <1>3, <2>1
<1>6. Len(b) = n - p /\ \A k \in 1..(n - p) : b[k] = s[p + k]
  <2>1. n - (p + 1) + 1 = n - p /\ \A k \in 1..(n - p) : (p + 1) + k - 1 = p + k
    BY <1>1
  <2>2. QED BY <1>1, <1>4, <2>1
<1>7. /\ t \in Seq(S) /\ Len(t) = Len(a) + Len(b)
      /\ \A k \in 1..(Len(a) + Len(b)) : t[k] = IF k <= Len(a) THEN a[k] ELSE b[k - Len(a)]
  BY <1>3, <1>4, ConcatProperties
<1> HIDE DEF t
<1>8. Len(t) = n - 1
  BY <1>1, <1>5, <1>6, <1>7
<1>9. ASSUME NEW k \in 1..Len(t)
      PROVE  t[k] = IF k < p THEN s[k] ELSE s[k + 1]
  <2>1. k \in 1..(Len(a) + Len(b)) /\ k \in Nat /\ 1 <= k /\ k <= n - 1
    BY <1>1, <1>7, <1>8
  <2>2. CASE k < p
    <3>1. k <= Len(a) /\ k \in 1..(p - 1)
      BY <1>1, <1>5, <2>1, <2>2
    <3>2. QED BY <1>5, <1>7, <2>1, <2>2, <3>1
  <2>3. CASE ~(k < p)
    <3>1. ~(k <= Len(a)) /\ k - Len(a) \in 1..(n - p) /\ p + (k - Len(a)) = k + 1
      BY <1>1, <1>5, <2>1, <2>3
    <3>2. QED BY <1>6, <1>7, <2>1, <2>3, <3>1
  <2>4. QED BY <2>2, <2>3
<1>10. /\ Within(s) = Within(t) \cup {s[p]}
       /\ Count(s, X) = Count(t, X) + (IF s[p] \in X THEN 1 ELSE 0)
  <2>1. Skips(s, t, p)
    BY <1>8, <1>9 DEF Skips, n
  <2>2. t \in Seq(S)
    BY <1>7
  <2>3. QED BY <2>1, <2>2, WithoutPlace
<1>11. RemoveAt(s, p) = t
  BY DEF RemoveAt, t, a, b, n
<1>12. QED BY <1>7, <1>10, <1>11
-------------------------------------------------------------------------------
\* The signals that answer an ask for approval, and the news of an ask.
Replies == {x \in Signals : x.action \in {"approve", "deny"}}
Asks == {x \in Announcements : x.kind = "asked"}

Waiters == {c \in group : pc[c] = "wait"}

\* The asks the user was not shown yet, is shown, or has answered with no call having
\* taken the answer.
Open == Count(signals, Replies) + Count(sending, Replies) + Count(events, Asks)
        + (IF hub = "confirming" THEN 1 ELSE 0)

\* A call of the group has ended with an error, or was told to.
Broken == \E c \in group : pc[c] = "error" \/ (pc[c] = "told" /\ took[c].action = "stop")

\* As long as no call is broken no more asks are open than calls wait, so that none is
\* left when all have ended. After a broken one there is no other group.
AskInv ==
  /\ Broken => step \in {"batch", "end_err", "over"}
  /\ ~Broken => Open <= Cardinality(Waiters)

\* All that is open, and all that was taken, is of the group at work.
Current ==
  /\ \A x \in (Within(signals) \cup Within(sending)) \cap Replies : x.seen = GroupName
  /\ \A x \in Within(events) \cap Asks : x.of = GroupName
  /\ hub = "confirming" => shown = GroupName
  /\ \A c \in Slots : took[c] # NoSignal =>
       pc[c] = "told" /\ (took[c].action = "approve" => took[c].seen = GroupName)

\* Calls that wait at the same time have crowded each other, and only a call that is
\* alone poses a question.
Crowding ==
  /\ ~crowded => \A c, d \in group : c # d => ~(pc[c] \in Waiting /\ pc[d] \in Waiting)
  /\ \A c \in Slots : pc[c] \in {"pose", "await", "answered"} => ~safe[c]

LastIs(kind, c) ==
  events # <<>> /\ events[Len(events)].kind = kind /\ events[Len(events)].call = c

\* What will end a wait is on its way, and what will end a question.
ReplyComes ==
  \/ (Within(signals) \cup Within(sending)) \cap Replies # {}
  \/ \E x \in Within(sending) : x.action = "stop"
AnswerComes(c) ==
  \/ \E x \in Within(signals) : x.action = "answer" /\ x.answers = c
  \/ \E x \in Within(sending) : x.action = "stop" \/ (x.action = "answer" /\ x.answers = c)

\* What a call waits for is the last the hub will hear, or what the hub shows having heard
\* all, or is on its way back.
Heard(c) ==
  /\ pc[c] = "wait" /\ ~crowded =>
       LastIs("asked", c) \/ (events = <<>> /\ hub = "confirming") \/ ReplyComes \/ ctxDone
  /\ pc[c] = "await" =>
       \/ LastIs("question", c) \/ (events = <<>> /\ hub = "awaiting_input" /\ question = c)
       \/ AnswerComes(c) \/ ctxDone

MeetInv == AskInv /\ Current /\ Crowding /\ \A c \in group : Heard(c)

\* The counts are numbers, and when nothing is open there is nothing.
LEMMA OpenIs ==
  ASSUME TurnTypeOK
  PROVE  /\ Count(signals, Replies) \in Nat /\ Count(sending, Replies) \in Nat
         /\ Count(events, Asks) \in Nat /\ Open \in Nat
         /\ IsFiniteSet(Waiters) /\ Cardinality(Waiters) \in Nat
         /\ Open <= 0 => /\ (Within(signals) \cup Within(sending)) \cap Replies = {}
                         /\ Within(events) \cap Asks = {}
                         /\ hub # "confirming"
PROOF
<1> DEFINE a == Count(signals, Replies)
           b == Count(sending, Replies)
           e == Count(events, Asks)
<1>1. /\ a \in Nat /\ (a = 0 => Within(signals) \cap Replies = {})
      /\ b \in Nat /\ (b = 0 => Within(sending) \cap Replies = {})
      /\ e \in Nat /\ (e = 0 => Within(events) \cap Asks = {})
  BY CountIs DEF TurnTypeOK
<1>2. IsFiniteSet(Waiters) /\ Cardinality(Waiters) \in Nat
  <2>1. MaxCalls \in Nat /\ IsFiniteSet(Slots)
    BY TurnAssumption, FS_Interval DEF TurnAssumption, Slots
  <2>2. Waiters \in SUBSET Slots
    BY DEF TurnTypeOK, Waiters
  <2>3. QED BY <2>1, <2>2, FS_Subset, FS_CardinalityType
<1>3. Open = a + b + e + (IF hub = "confirming" THEN 1 ELSE 0)
  BY DEF Open
<1> HIDE DEF a, b, e
<1>4. Open \in Nat /\ (Open <= 0 => a = 0 /\ b = 0 /\ e = 0 /\ hub # "confirming")
  BY <1>1, <1>3
<1>5. QED BY <1>1, <1>2, <1>4 DEF a, b, e

\* A group is left, or begun, with nothing open.
LEMMA GroupChanges ==
  ASSUME TurnInv, MeetInv, ~Broken, \A c \in Slots : pc[c] \notin Active,
         UNCHANGED <<signals, sending, events, hub, shown, took>>,
         \A c \in Slots : pc'[c] \in Finished \cup {"none", "sandbox"},
         group' \subseteq Slots, \A c \in group' : pc'[c] # "error"
  PROVE  MeetInv'
PROOF
<1>1. TurnTypeOK /\ group \subseteq Slots
  BY DEF TurnInv, TurnTypeOK
<1>2. \A c \in Slots : pc[c] # "wait" /\ pc[c] # "told"
  BY DEF Active, Waiting
<1>3. \A c \in Slots : pc'[c] \notin {"wait", "told", "await", "pose", "answered"}
  BY DEF Finished
<1>4. Waiters = {} /\ Waiters' = {}
  BY <1>1, <1>2, <1>3 DEF Waiters
<1>5. Open <= 0 /\ Open' = Open
  <2>1. Open <= Cardinality(Waiters) /\ Cardinality(Waiters) = 0
    BY <1>4, FS_EmptySet DEF MeetInv, AskInv
  <2>2. Open' = Open
    BY DEF Open
  <2>3. QED BY <2>1, <2>2
<1>6. /\ (Within(signals) \cup Within(sending)) \cap Replies = {}
      /\ Within(events) \cap Asks = {} /\ hub # "confirming"
  BY <1>1, <1>5, OpenIs
<1>7. \A c \in Slots : took[c] = NoSignal
  BY <1>2 DEF MeetInv, Current
<1>8. ~Broken'
  BY <1>3 DEF Broken
<1>9. AskInv'
  <2>1. Cardinality(Waiters') = 0
    BY <1>4, FS_EmptySet
  <2>2. QED BY <1>5, <1>8, <2>1 DEF AskInv
<1>10. Current'
  BY <1>6, <1>7 DEF Current
<1>11. Crowding'
  BY <1>3 DEF Crowding, Waiting
<1>12. \A c \in group' : Heard(c)'
  BY <1>3 DEF Heard
<1>13. QED BY <1>9, <1>10, <1>11, <1>12 DEF MeetInv

\* Only the goroutine of the run goes on.
LEMMA MeetRests ==
  ASSUME MeetInv, Broken => step' \in {"batch", "end_err", "over"},
         UNCHANGED <<group, pc, took, crowded, safe, turn, signals, sending, events, hub,
                     question, shown, ctxDone>>
  PROVE  MeetInv'
PROOF
<1>1. (Broken' <=> Broken) /\ Waiters' = Waiters /\ Open' = Open
  BY DEF Broken, Waiters, Open
<1>2. AskInv'
  BY <1>1 DEF MeetInv, AskInv
<1>3. Current'
  BY DEF MeetInv, Current, GroupName
<1>4. Crowding'
  BY DEF MeetInv, Crowding
<1>5. \A c \in group : Heard(c)'
  BY DEF MeetInv, Heard, LastIs, ReplyComes, AnswerComes
<1>6. QED BY <1>2, <1>3, <1>4, <1>5 DEF MeetInv

\* RunLoop, ExecuteBatch and the end of the run.
LEMMA LoopMeets ==
  ASSUME TurnInv, MeetInv,
         BeginTurn \/ ProviderReturns \/ StartGroup \/ BatchReturns
  PROVE  MeetInv'
PROOF
<1>1. TurnTypeOK /\ BatchInv /\ group \subseteq Slots
      /\ pc \in [Slots -> Active \cup Finished \cup {"none"}]
  BY DEF TurnInv, TurnTypeOK
<1>2. step \notin {"batch", "end_err", "over"} => ~Broken
  BY DEF MeetInv, AskInv
<1>3. step # "batch" => \A c \in Slots : pc[c] \notin Active
  BY <1>1 DEF BatchInv
<1>4. Active \cap Finished = {} /\ "none" \notin Active /\ "told" \in Active
  BY DEF Active, Finished, Waiting
<1>5. CASE BeginTurn
  <2>1. /\ step = "turn" /\ UNCHANGED <<signals, sending, events, hub, shown, took, pc, group>>
    BY <1>5 DEF BeginTurn, callVars, hubVars
  <2>2. \A c \in Slots : pc'[c] \in Finished \cup {"none", "sandbox"}
    BY <1>1, <1>3, <2>1
  <2>3. ~Broken /\ \A c \in group' : pc'[c] # "error"
    BY <1>2, <2>1 DEF Broken
  <2>4. QED BY <1>1, <1>3, <2>1, <2>2, <2>3, GroupChanges
<1>6. CASE ProviderReturns
  <2>1. /\ step = "provider" /\ UNCHANGED <<signals, sending, events, hub, shown, took>>
        /\ group' = {} /\ (pc' = pc \/ pc' = [c \in Slots |-> "none"])
    BY <1>6 DEF ProviderReturns, hubVars
  <2>2. \A c \in Slots : pc'[c] \in Finished \cup {"none", "sandbox"}
    BY <1>1, <1>3, <2>1
  <2>3. QED BY <1>2, <1>3, <2>1, <2>2, GroupChanges
<1>7. CASE StartGroup
  <2>1. PICK i \in Calls :
          /\ group' = GroupFrom(i)
          /\ pc' = [c \in Slots |-> IF c \in group' THEN "sandbox" ELSE pc[c]]
    BY <1>7 DEF StartGroup
  <2>2. group' \subseteq Slots
    BY <1>1, <2>1, NextGroup
  <2>3. \A c \in Slots : pc[c] \notin Active
    BY <1>1, <1>4, <1>7 DEF StartGroup, GroupDone, BatchInv
  <2>4. ~Broken
    BY <1>1, <1>4, <1>7, <2>3 DEF StartGroup, GroupFailed, Broken
  <2>5. \A c \in Slots : pc'[c] \in Finished \cup {"none", "sandbox"}
    BY <1>1, <2>1, <2>3
  <2>6. \A c \in group' : pc'[c] # "error"
    BY <2>1, <2>2
  <2>7. UNCHANGED <<signals, sending, events, hub, shown, took>>
    BY <1>7 DEF StartGroup, hubVars
  <2>8. QED BY <2>2, <2>3, <2>4, <2>5, <2>6, <2>7, GroupChanges
<1>8. CASE BatchReturns
  <2>1. \A c \in Slots : pc[c] \notin Active
    BY <1>1, <1>4, <1>8 DEF BatchReturns, GroupDone, BatchInv
  <2>2. Broken => GroupFailed
    BY <1>1, <1>4, <2>1 DEF Broken, GroupFailed
  <2>3. QED BY <1>8, <2>2, MeetRests DEF BatchReturns, callVars, hubVars
<1>9. QED BY <1>5, <1>6, <1>7, <1>8

\* The end of the run is told to the hub.
LEMMA FinishMeets ==
  ASSUME TurnInv, MeetInv, FinishRun
  PROVE  MeetInv'
PROOF
<1>1. TurnTypeOK /\ BatchInv /\ group \subseteq Slots
  BY DEF TurnInv, TurnTypeOK
<1>2. \A c \in Slots : pc[c] \notin Active
  BY <1>1 DEF FinishRun, BatchInv
<1>3. PICK k \in HubTerminal : events' = Append(events, [kind |-> k, call |-> 0, of |-> NoGroup])
  BY DEF FinishRun, HubTerminal
<1> DEFINE x == [kind |-> k, call |-> 0, of |-> NoGroup]
<1>4. x \in Announcements /\ x \notin Asks
  <2>1. NoGroup \in Groups /\ 0 \in 0..MaxCalls
    BY TurnAssumption DEF NoGroup, Groups, TurnAssumption
  <2>2. x \in Announcements
    BY <2>1 DEF Announcements
  <2>3. x.kind # "asked"
    BY DEF HubTerminal
  <2>4. QED BY <2>2, <2>3 DEF Asks
<1> HIDE DEF x
<1>5. /\ Within(events') = Within(events) \cup {x}
      /\ Count(events', Asks) = Count(events, Asks)
  <2>1. events' = Append(events, x) /\ events \in Seq(Announcements)
    BY <1>1, <1>3 DEF x, TurnTypeOK
  <2>2. Count(events, Asks) \in Nat
    BY <2>1, CountIs
  <2>3. QED BY <1>4, <2>1, <2>2, AppendCounts
<1>6. UNCHANGED <<group, pc, took, crowded, safe, turn, signals, sending, hub, shown>>
  BY DEF FinishRun, callVars, hubVars
<1>7. (Broken' <=> Broken) /\ Waiters' = Waiters /\ Open' = Open
  BY <1>5, <1>6 DEF Broken, Waiters, Open
<1>8. AskInv'
  BY <1>7 DEF MeetInv, AskInv, FinishRun
<1>9. Current'
  BY <1>4, <1>5, <1>6 DEF MeetInv, Current, GroupName
<1>10. Crowding'
  BY <1>6 DEF MeetInv, Crowding
<1>11. \A c \in group : Heard(c)'
  BY <1>1, <1>2, <1>6 DEF Heard, Active, Waiting
<1>12. QED BY <1>6, <1>8, <1>9, <1>10, <1>11 DEF MeetInv

\* Nothing of the calls moves: what the hub and Engine.Control do is between the three
\* channels.
LEMMA CallsRest ==
  ASSUME TurnInv, MeetInv,
         UNCHANGED <<step, turn, safe, group, pc, took, crowded>>, Open' <= Open, Open' \in Nat,
         \A x \in (Within(signals') \cup Within(sending')) \cap Replies :
           x \in Within(signals) \cup Within(sending) \/ x.seen = GroupName,
         Within(events') \subseteq Within(events),
         hub' = "confirming" => shown' = GroupName,
         \A c \in group : Heard(c)'
  PROVE  MeetInv'
PROOF
<1>1. (Broken' <=> Broken) /\ Waiters' = Waiters /\ GroupName' = GroupName
  BY DEF Broken, Waiters, GroupName
<1>2. AskInv'
  <2>1. Open \in Nat /\ Cardinality(Waiters) \in Nat
    BY OpenIs DEF TurnInv
  <2>2. ~Broken => Open' <= Cardinality(Waiters)
    BY <2>1 DEF MeetInv, AskInv
  <2>3. QED BY <1>1, <2>2 DEF MeetInv, AskInv
<1>3. Current'
  BY <1>1 DEF MeetInv, Current
<1>4. Crowding'
  BY DEF MeetInv, Crowding
<1>5. QED BY <1>2, <1>3, <1>4 DEF MeetInv

\* A control reaches the run, or comes too late.
LEMMA ControlMeets ==
  ASSUME TurnInv, MeetInv, NEW p \in 1..Len(sending), Control(p)
  PROVE  MeetInv'
PROOF
<1> DEFINE x == sending[p]
<1>1. /\ TurnTypeOK /\ BatchInv /\ sending \in Seq(Signals) /\ signals \in Seq(Signals)
      /\ group \subseteq Slots
  BY DEF TurnInv, TurnTypeOK
<1>2. /\ sending' \in Seq(Signals) /\ Within(sending) = Within(sending') \cup {x}
      /\ Count(sending, Replies) = Count(sending', Replies) + (IF x \in Replies THEN 1 ELSE 0)
  <2>1. sending' = RemoveAt(sending, p)
    BY DEF Control
  <2>2. QED BY <1>1, <2>1, RemoveCounts
<1>3. x \in Signals
  BY <1>1, ElementOfSeq
<1>4. UNCHANGED <<step, turn, safe, group, pc, took, crowded, events, hub, question, shown>>
  BY DEF Control, callVars
<1> HIDE DEF x
<1>5. \/ step = "over" /\ UNCHANGED <<signals, ctxDone>>
      \/ /\ step # "over" /\ signals' = Append(signals, x)
         /\ ctxDone' = (ctxDone \/ x.action \in {"stop", "deny"})
  BY DEF Control, x
<1>6. /\ \/ Within(signals') = Within(signals) \/ Within(signals') = Within(signals) \cup {x}
      /\ \/ Count(signals', Replies) = Count(signals, Replies)
         \/ /\ x \in Replies
            /\ Count(signals', Replies) = Count(signals, Replies) + 1
  <2>1. CASE UNCHANGED signals
    BY <2>1
  <2>2. CASE signals' = Append(signals, x)
    <3>1. /\ Within(signals') = Within(signals) \cup {x}
          /\ Count(signals', Replies) = Count(signals, Replies)
                                         + (IF x \in Replies THEN 1 ELSE 0)
      BY <1>1, <1>3, <2>2, AppendCounts
    <3>2. Count(signals, Replies) \in Nat
      BY <1>1, OpenIs
    <3>3. QED BY <3>1, <3>2
  <2>3. QED BY <1>5, <2>1, <2>2
<1>7. Open' <= Open /\ Open' \in Nat
  <2> DEFINE a == Count(signals, Replies)
             b == Count(sending, Replies)
             b2 == Count(sending', Replies)
             a2 == Count(signals', Replies)
             e == Count(events, Asks) + (IF hub = "confirming" THEN 1 ELSE 0)
  <2>1. a \in Nat /\ b \in Nat /\ e \in Nat
    BY <1>1, OpenIs
  <2>2. b2 \in Nat
    BY <1>2, CountIs
  <2>3. Open = a + b + e /\ Open' = a2 + b2 + e
    <3>1. Count(events, Asks) \in Nat /\ events' = events /\ hub' = hub
      BY <1>1, <1>4, OpenIs
    <3>2. /\ Open = a + b + Count(events, Asks) + (IF hub = "confirming" THEN 1 ELSE 0)
          /\ Open' = a2 + b2 + Count(events, Asks) + (IF hub = "confirming" THEN 1 ELSE 0)
      BY <3>1 DEF Open
    <3>3. a2 \in Nat
      BY <1>6, <2>1
    <3>4. (IF hub = "confirming" THEN 1 ELSE 0) \in Nat
      OBVIOUS
    <3> HIDE DEF a, b, a2, b2
    <3>5. QED BY <2>1, <2>2, <3>1, <3>2, <3>3, <3>4
  <2>4. b = b2 + (IF x \in Replies THEN 1 ELSE 0) /\ (a2 = a \/ (x \in Replies /\ a2 = a + 1))
    BY <1>2, <1>6
  <2> HIDE DEF a, b, a2, b2, e
  <2>5. QED BY <2>1, <2>2, <2>3, <2>4
<1>8. ASSUME NEW c \in group
      PROVE  Heard(c)'
  <2>1. CASE step = "over"
    BY <1>1, <1>4, <2>1 DEF BatchInv, Active, Waiting, Heard
  <2>2. CASE step # "over"
    <3>1. /\ Within(signals') = Within(signals) \cup {x}
          /\ ctxDone \/ x.action = "stop" => ctxDone'
      <4>1. Within(signals') = Within(signals) \cup {x}
        BY <1>1, <1>3, <1>5, <2>2, AppendCounts
      <4>2. ctxDone' = (ctxDone \/ x.action \in {"stop", "deny"})
        BY <1>5, <2>2
      <4>3. x.action = "stop" => x.action \in {"stop", "deny"}
        OBVIOUS
      <4>4. ctxDone \/ x.action = "stop" => ctxDone'
        BY <4>2, <4>3, Zenon
      <4>5. QED BY <4>1, <4>4
    <3>2. ReplyComes => ReplyComes' \/ ctxDone'
      BY <1>2, <3>1 DEF ReplyComes
    <3>3. AnswerComes(c) => AnswerComes(c)' \/ ctxDone'
      BY <1>2, <3>1 DEF AnswerComes
    <3>4. \A kind \in {"asked", "question"} : LastIs(kind, c) => LastIs(kind, c)'
      BY <1>4 DEF LastIs
    <3>5. QED BY <1>4, <3>1, <3>2, <3>3, <3>4 DEF MeetInv, Heard
  <2>3. QED BY <2>1, <2>2
<1>9. \A y \in Within(signals') \cup Within(sending') : y \in Within(signals) \cup Within(sending)
  BY <1>2, <1>6
<1>10. hub' = "confirming" => shown' = GroupName
  BY <1>4 DEF MeetInv, Current
<1>11. Within(events') \subseteq Within(events)
  BY <1>4
<1>12. QED BY <1>4, <1>7, <1>8, <1>9, <1>10, <1>11, CallsRest

\* The hub hears the next event.
LEMMA ProjectMeets ==
  ASSUME TurnInv, MeetInv, ProjectEvent
  PROVE  MeetInv'
PROOF
<1> DEFINE x == Head(events)
<1>1. /\ TurnTypeOK /\ events \in Seq(Announcements) /\ events # <<>> /\ events' = Tail(events)
      /\ Len(events) \in Nat
  BY LenProperties DEF TurnInv, TurnTypeOK, ProjectEvent
<1>2. /\ x \in Announcements /\ x = events[1] /\ Within(events) = Within(events') \cup {x}
      /\ Count(events, Asks) = Count(events', Asks) + (IF x \in Asks THEN 1 ELSE 0)
      /\ events' \in Seq(Announcements)
  BY <1>1, TailCounts
<1>3. UNCHANGED <<step, turn, safe, group, pc, took, crowded, signals, sending, ctxDone>>
  BY DEF ProjectEvent, callVars
<1>4. /\ x.kind = "asked" => hub' = "confirming" /\ shown' = x.of
      /\ x.kind # "asked" => hub' # "confirming" /\ shown' = shown
      /\ x.kind = "question" => hub' = "awaiting_input" /\ question' = x.call
  BY <1>2 DEF ProjectEvent, Announcements, HubTerminal
<1>5. Count(events, Asks) \in Nat /\ Count(events', Asks) \in Nat
      /\ Count(signals, Replies) \in Nat /\ Count(sending, Replies) \in Nat
  BY <1>1, <1>2, OpenIs, CountIs
<1>6. x \in Asks <=> x.kind = "asked"
  BY <1>2 DEF Asks
<1> HIDE DEF x
<1>7. Open' <= Open /\ Open' \in Nat
  <2> DEFINE a == Count(signals, Replies)
             b == Count(sending, Replies)
             e == Count(events, Asks)
             e2 == Count(events', Asks)
  <2>1. /\ Open = a + b + e + (IF hub = "confirming" THEN 1 ELSE 0)
        /\ Open' = a + b + e2 + (IF hub' = "confirming" THEN 1 ELSE 0)
    BY <1>3 DEF Open
  <2>2. /\ a \in Nat /\ b \in Nat /\ e \in Nat /\ e2 \in Nat
        /\ e = e2 + (IF x \in Asks THEN 1 ELSE 0)
    BY <1>2, <1>5
  <2> HIDE DEF a, b, e, e2
  <2>3. QED BY <1>4, <1>6, <2>1, <2>2
<1>8. hub' = "confirming" => shown' = GroupName
  <2>1. x \in Asks => x.of = GroupName
    BY <1>2 DEF MeetInv, Current
  <2>2. QED BY <1>4, <1>6, <2>1
<1>9. ASSUME NEW c \in group
      PROVE  Heard(c)'
  <2>1. ASSUME NEW kind \in {"asked", "question"}, LastIs(kind, c)
        PROVE  \/ LastIs(kind, c)'
               \/ events' = <<>> /\ x.kind = kind /\ x.call = c
    <3>1. events[Len(events)].kind = kind /\ events[Len(events)].call = c
      BY <2>1 DEF LastIs
    <3>2. /\ Len(events') = Len(events) - 1 /\ Len(events') \in Nat
          /\ \A k \in 1..Len(events') : events'[k] = events[k + 1]
      BY <1>1, <1>2, HeadTailProperties, LenProperties
    <3>3. CASE Len(events') = 0
      <4>1. Len(events) = 1 /\ events' = <<>>
        BY <1>1, <1>2, <3>2, <3>3, EmptySeq
      <4>2. QED BY <1>2, <3>1, <4>1
    <3>4. CASE Len(events') # 0
      <4>1. Len(events') \in 1..Len(events') /\ Len(events') + 1 = Len(events)
        BY <1>1, <3>2, <3>4
      <4>2. events'[Len(events')] = events[Len(events)] /\ events' # <<>>
        BY <3>2, <3>4, <4>1, EmptySeq
      <4>3. QED BY <3>1, <4>2 DEF LastIs
    <3>5. QED BY <3>3, <3>4
  <2>2. (ReplyComes => ReplyComes') /\ (AnswerComes(c) => AnswerComes(c)')
    BY <1>3 DEF ReplyComes, AnswerComes
  <2>3. QED BY <1>1, <1>3, <1>4, <2>1, <2>2 DEF MeetInv, Heard
<1>10. Within(events') \subseteq Within(events)
  BY <1>2
<1>11. \A y \in Within(signals') \cup Within(sending') : y \in Within(signals) \cup Within(sending)
  BY <1>3
<1>12. QED BY <1>3, <1>7, <1>8, <1>9, <1>10, <1>11, CallsRest

\* The user answers what the hub shows, or stops the run.
LEMMA HandleMeets ==
  ASSUME TurnInv, MeetInv, Approve \/ Deny \/ Stop \/ Answer
  PROVE  MeetInv'
PROOF
<1>1. TurnTypeOK /\ sending \in Seq(Signals) /\ question \in 0..MaxCalls /\ 0 \in 0..MaxCalls
  BY TurnAssumption DEF TurnInv, TurnTypeOK, TurnAssumption
<1>2. PICK s \in {"executing", "cancelled"}, action \in Controls, n \in 0..MaxCalls :
        /\ Handle(s, action, n)
        /\ action \in {"approve", "deny"} => hub = "confirming"
        /\ action = "answer" => hub = "awaiting_input" /\ n = question
  BY <1>1 DEF Approve, Deny, Stop, Answer, Controls
<1> DEFINE x == [action |-> action, seen |-> shown, answers |-> n]
<1>3. /\ hub' = s /\ sending' = Append(sending, x)
      /\ UNCHANGED <<step, turn, safe, group, pc, took, crowded, signals, ctxDone, events,
                     shown>>
  BY <1>2 DEF Handle, callVars
<1>4. x \in Signals /\ x.action = action /\ x.seen = shown /\ x.answers = n
  BY <1>1 DEF Signals, TurnTypeOK
<1>5. x \in Replies <=> action \in {"approve", "deny"}
  BY <1>4 DEF Replies
<1> HIDE DEF x
<1>6. /\ Within(sending') = Within(sending) \cup {x}
      /\ Count(sending', Replies) = Count(sending, Replies) + (IF x \in Replies THEN 1 ELSE 0)
  BY <1>1, <1>3, <1>4, AppendCounts
<1>7. hub' # "confirming"
  BY <1>3
<1>8. Open' <= Open /\ Open' \in Nat
  <2> DEFINE a == Count(signals, Replies)
             b == Count(sending, Replies)
             b2 == Count(sending', Replies)
             e == Count(events, Asks)
  <2>1. /\ Open = a + b + e + (IF hub = "confirming" THEN 1 ELSE 0)
        /\ Open' = a + b2 + e + (IF hub' = "confirming" THEN 1 ELSE 0)
    BY <1>3 DEF Open
  <2>2. a \in Nat /\ b \in Nat /\ e \in Nat /\ b2 = b + (IF x \in Replies THEN 1 ELSE 0)
    BY <1>1, <1>6, OpenIs
  <2> HIDE DEF a, b, b2, e
  <2>3. QED BY <1>2, <1>5, <1>7, <2>1, <2>2
<1>9. x \in Replies => x.seen = GroupName
  BY <1>2, <1>4, <1>5 DEF MeetInv, Current
<1>10. ASSUME NEW c \in group
       PROVE  Heard(c)'
  <2>1. \A kind \in {"asked", "question"} : LastIs(kind, c) => LastIs(kind, c)'
    BY <1>3 DEF LastIs
  <2>2. (ReplyComes => ReplyComes') /\ (AnswerComes(c) => AnswerComes(c)')
    BY <1>3, <1>6 DEF ReplyComes, AnswerComes
  <2>3. hub = "confirming" => ReplyComes'
    <3>1. x \in Within(sending')
      BY <1>6
    <3>2. hub = "confirming" => x \in Replies \/ x.action = "stop"
      BY <1>2, <1>4, <1>5 DEF Controls
    <3>3. QED BY <3>1, <3>2 DEF ReplyComes
  <2>4. hub = "awaiting_input" /\ question = c => AnswerComes(c)'
    <3>1. x \in Within(sending')
      BY <1>6
    <3>2. hub = "awaiting_input" =>
            x.action = "stop" \/ (x.action = "answer" /\ x.answers = question)
      BY <1>2, <1>4 DEF Controls
    <3>3. QED BY <3>1, <3>2 DEF AnswerComes
  <2>5. QED BY <1>3, <2>1, <2>2, <2>3, <2>4 DEF MeetInv, Heard
<1>11. \A y \in (Within(signals') \cup Within(sending')) \cap Replies :
         y \in Within(signals) \cup Within(sending) \/ y.seen = GroupName
  BY <1>3, <1>6, <1>9
<1>12. Within(events') \subseteq Within(events)
  BY <1>3
<1>13. QED BY <1>3, <1>7, <1>8, <1>10, <1>11, <1>12, CallsRest
\* The steps of one call. The others stay where they are, a call that is not safe has no
\* others, and events that are no asks do not count.
LEMMA OneMoves ==
  ASSUME TurnInv, NEW c \in group
  PROVE  /\ c \in Slots /\ group \subseteq Slots
         /\ ~safe[c] => group = {c}
         /\ pc[c] \in Active => step = "batch"
         /\ \A next : Goes(c, next) =>
              pc'[c] = next /\ \A d \in Slots \ {c} : pc'[d] = pc[d]
PROOF
<1>1. TurnTypeOK /\ BatchInv /\ c \in Slots /\ group \subseteq Slots
  BY DEF TurnInv, TurnTypeOK
<1>2. ~safe[c] => group = {c}
  BY <1>1 DEF BatchInv
<1>3. pc[c] \in Active => step = "batch"
  BY <1>1 DEF BatchInv
<1>4. ASSUME NEW next, Goes(c, next)
      PROVE  pc'[c] = next /\ \A d \in Slots \ {c} : pc'[d] = pc[d]
  BY <1>1, <1>4 DEF Goes, TurnTypeOK
<1>5. QED BY <1>1, <1>2, <1>3, <1>4

\* What a call announces, and what it does to the asks on their way.
LEMMA Announces ==
  ASSUME TurnInv, NEW c \in group,
         NEW kind \in {"asked", "resolved", "question", "answered"},
         events' = Emitted(kind, c)
  PROVE  /\ LastIs(kind, c)'
         /\ Count(events', Asks) = Count(events, Asks) + (IF kind = "asked" THEN 1 ELSE 0)
         /\ \A x \in Within(events') \cap Asks : x \in Within(events) \/ x.of = GroupName
PROOF
<1> DEFINE x == [kind |-> kind, call |-> c, of |-> GroupName]
<1>1. x \in Announcements /\ x.kind = kind /\ x.call = c /\ x.of = GroupName
  <2>1. GroupName \in Groups
    BY DEF TurnInv, TurnTypeOK, GroupName, Groups
  <2>2. c \in 0..MaxCalls
    BY DEF TurnInv, TurnTypeOK, Slots
  <2>3. QED BY <2>1, <2>2 DEF Announcements
<1>2. events' = Append(events, x) /\ events \in Seq(Announcements)
  BY DEF Emitted, TurnInv, TurnTypeOK
<1> HIDE DEF x
<1>3. /\ events' # <<>> /\ events'[Len(events')] = x
      /\ Within(events') = Within(events) \cup {x}
      /\ Count(events', Asks) = Count(events, Asks) + (IF x \in Asks THEN 1 ELSE 0)
  BY <1>1, <1>2, AppendCounts
<1>4. x \in Asks <=> kind = "asked"
  BY <1>1 DEF Asks
<1>5. LastIs(kind, c)'
  BY <1>1, <1>3 DEF LastIs
<1>6. QED BY <1>1, <1>3, <1>4, <1>5

\* A call that neither waits nor ends a wait goes on: nothing of what is counted moves.
LEMMA GoesOn ==
  ASSUME TurnInv, MeetInv, NEW c \in group, NEW next, Goes(c, next),
         pc[c] \notin {"wait", "told", "error"}, next \notin {"wait", "told", "error"},
         UNCHANGED <<step, turn, safe, group, took, signals, sending, hub, shown, crowded>>,
         Count(events', Asks) = Count(events, Asks),
         \A x \in Within(events') \cap Asks : x \in Within(events) \/ x.of = GroupName,
         next \in {"pose", "await", "answered"} => ~safe[c]
  PROVE  AskInv' /\ Current' /\ Crowding'
PROOF
<1>1. c \in Slots /\ group \subseteq Slots /\ pc'[c] = next
      /\ \A d \in Slots \ {c} : pc'[d] = pc[d]
  BY OneMoves
<1>2. (Broken' <=> Broken) /\ Waiters' = Waiters
  BY <1>1 DEF Broken, Waiters
<1>3. Open' = Open
  BY DEF Open
<1>4. AskInv'
  BY <1>2, <1>3 DEF MeetInv, AskInv
<1>5. Current'
  <2>1. GroupName' = GroupName
    BY DEF GroupName
  <2>2. \A d \in Slots : pc[d] = "told" => pc'[d] = "told"
    BY <1>1
  <2>3. QED BY <2>1, <2>2 DEF MeetInv, Current
<1>6. Crowding'
  <2>1. \A d \in Slots : pc'[d] \in Waiting => pc[d] \in Waiting
    BY <1>1 DEF Waiting
  <2>2. \A d \in Slots : pc'[d] \in {"pose", "await", "answered"} => ~safe[d]
    BY <1>1 DEF MeetInv, Crowding
  <2>3. QED BY <1>1, <2>1, <2>2 DEF MeetInv, Crowding
<1>7. QED BY <1>4, <1>5, <1>6

\* A gate lets a call on, or its tool has run.
LEMMA QuietMeets ==
  ASSUME TurnInv, MeetInv, NEW c \in group, SandboxGate(c) \/ PermissionGate(c) \/ RunReturns(c)
  PROVE  MeetInv'
PROOF
<1>1. PICK next \in {"done", "ask", "permission", "run", "pose"} :
        Goes(c, next) /\ (next = "pose" => ~safe[c])
  BY DEF SandboxGate, PermissionGate, RunReturns, Gate
<1>2. /\ pc[c] \in {"sandbox", "permission", "run"}
      /\ UNCHANGED <<step, turn, safe, group, took, signals, ctxDone, events, sending, hub,
                     question, shown, crowded>>
  BY DEF SandboxGate, PermissionGate, RunReturns, Gate, hubVars
<1>3. AskInv' /\ Current' /\ Crowding'
  BY <1>1, <1>2, GoesOn
<1>4. \A d \in group : Heard(d)'
  <2>1. \A d \in group : pc'[d] \in {"wait", "await"} => pc'[d] = pc[d]
    BY <1>1, OneMoves
  <2>2. QED BY <1>2, <2>1 DEF MeetInv, Heard, LastIs, ReplyComes, AnswerComes
<1>5. QED BY <1>2, <1>3, <1>4 DEF MeetInv

\* A call poses its question, or has had its answer: it is alone.
LEMMA PoseMeets ==
  ASSUME TurnInv, MeetInv, NEW c \in group, Pose(c) \/ Answered(c)
  PROVE  MeetInv'
PROOF
<1>1. PICK kind \in {"question", "answered"}, next \in {"await", "done"} :
        /\ Goes(c, next) /\ events' = Emitted(kind, c)
        /\ next = "await" => kind = "question"
  BY DEF Pose, Answered
<1>2. /\ pc[c] \in {"pose", "answered"}
      /\ UNCHANGED <<step, turn, safe, group, took, signals, sending, hub, shown, crowded>>
  BY DEF Pose, Answered, hubVars
<1>3. ~safe[c] /\ c \in Slots /\ pc'[c] = next
  BY <1>1, <1>2, OneMoves DEF MeetInv, Crowding
<1>4. /\ LastIs(kind, c)' /\ Count(events', Asks) = Count(events, Asks)
      /\ \A x \in Within(events') \cap Asks : x \in Within(events) \/ x.of = GroupName
  <2>1. Count(events, Asks) \in Nat
    BY OpenIs DEF TurnInv
  <2>2. QED BY <1>1, <2>1, Announces
<1>5. AskInv' /\ Current' /\ Crowding'
  BY <1>1, <1>2, <1>3, <1>4, GoesOn
<1>6. Heard(c)'
  BY <1>1, <1>3, <1>4 DEF Heard
<1>7. group' = {c}
  BY <1>2, <1>3, OneMoves
<1>8. QED BY <1>5, <1>6, <1>7 DEF MeetInv
\* A call asks: one more waits, and one more ask is open.
LEMMA AskMeets ==
  ASSUME TurnInv, MeetInv, NEW c \in group, Ask(c)
  PROVE  MeetInv'
PROOF
<1>1. /\ pc[c] = "ask" /\ Goes(c, "wait") /\ events' = Emitted("asked", c)
      /\ UNCHANGED <<step, turn, safe, group, took, signals, sending, hub, shown>>
  BY DEF Ask, hubVars
<1>2. /\ c \in Slots /\ group \subseteq Slots /\ (~safe[c] => group = {c}) /\ pc'[c] = "wait"
      /\ \A d \in Slots \ {c} : pc'[d] = pc[d]
  BY <1>1, OneMoves
<1>3. /\ LastIs("asked", c)' /\ Count(events', Asks) = Count(events, Asks) + 1
      /\ \A x \in Within(events') \cap Asks : x \in Within(events) \/ x.of = GroupName
  <2>1. Count(events', Asks) = Count(events, Asks) + (IF "asked" = "asked" THEN 1 ELSE 0)
        /\ LastIs("asked", c)'
        /\ \A x \in Within(events') \cap Asks : x \in Within(events) \/ x.of = GroupName
    BY <1>1, Announces
  <2>2. QED BY <2>1
<1>4. Waiters' = Waiters \cup {c} /\ c \notin Waiters
  BY <1>1, <1>2 DEF Waiters
<1>5. Cardinality(Waiters') = Cardinality(Waiters) + 1
  BY <1>4, OpenIs, FS_AddElement DEF TurnInv
<1>6. Broken' <=> Broken
  BY <1>1, <1>2 DEF Broken
<1>7. AskInv'
  <2> DEFINE a == Count(signals, Replies)
             b == Count(sending, Replies)
             e == Count(events, Asks)
             e2 == Count(events', Asks)
             n == Cardinality(Waiters)
             n2 == Cardinality(Waiters')
  <2>1. /\ Open = a + b + e + (IF hub = "confirming" THEN 1 ELSE 0)
        /\ Open' = a + b + e2 + (IF hub = "confirming" THEN 1 ELSE 0)
    BY <1>1 DEF Open
  <2>2. a \in Nat /\ b \in Nat /\ e \in Nat /\ e2 = e + 1 /\ n \in Nat /\ n2 = n + 1
    BY <1>3, <1>5, OpenIs DEF TurnInv
  <2> HIDE DEF a, b, e, e2, n, n2
  <2>3. Open <= n => Open' <= n2
    BY <2>1, <2>2
  <2>4. ~Broken => Open' <= n2
    BY <2>3 DEF MeetInv, AskInv, n
  <2>5. QED BY <1>1, <1>6, <2>4 DEF MeetInv, AskInv, n2
<1>8. Current'
  <2>1. GroupName' = GroupName
    BY <1>1 DEF GroupName
  <2>2. \A d \in Slots : pc[d] = "told" => pc'[d] = "told"
    BY <1>1, <1>2
  <2>3. QED BY <1>1, <1>3, <2>1, <2>2 DEF MeetInv, Current
<1>9. crowded \/ (\E d \in group \ {c} : pc[d] \in Waiting) => crowded'
  <2>1. crowded' = (crowded \/ \E d \in group \ {c} : pc[d] \in Waiting)
    BY DEF Ask
  <2>2. QED BY <2>1, Zenon
<1>10. ~crowded' => ~crowded /\ \A d \in group \ {c} : pc'[d] \notin Waiting
  BY <1>2, <1>9
<1>11. Crowding'
  <2>1. ~crowded' => \A d, e \in group : d # e => ~(pc'[d] \in Waiting /\ pc'[e] \in Waiting)
    BY <1>10
  <2>2. \A d \in Slots : pc'[d] \in {"pose", "await", "answered"} => ~safe[d]
    BY <1>2 DEF MeetInv, Crowding
  <2>3. QED BY <1>1, <2>1, <2>2 DEF Crowding
<1>12. ASSUME NEW d \in group
       PROVE  Heard(d)'
  <2>1. CASE d = c
    BY <1>2, <1>3, <2>1 DEF Heard
  <2>2. CASE d # c
    <3>1. ~safe[d] => group = {d}
      BY OneMoves
    <3>2. pc'[d] # "await"
      BY <1>2, <2>2, <3>1 DEF MeetInv, Crowding
    <3>3. crowded' \/ pc'[d] # "wait"
      BY <1>10, <2>2 DEF Waiting
    <3>4. QED BY <3>2, <3>3 DEF Heard
  <2>3. QED BY <2>1, <2>2
<1>13. QED BY <1>1, <1>7, <1>8, <1>11, <1>12 DEF MeetInv

\* Nobody else of the group waits for what c waits for, if they have not crowded each other,
\* and nobody has posed a question.
LEMMA NobodyElse ==
  ASSUME TurnInv, MeetInv, NEW c \in group, pc[c] \in Waiting, NEW d \in group, d # c
  PROVE  pc[d] # "await" /\ (crowded \/ pc[d] # "wait")
PROOF
<1>1. ~safe[d] => group = {d}
  BY OneMoves
<1>2. d \in Slots
  BY OneMoves
<1>3. pc[d] # "await"
  BY <1>1, <1>2 DEF MeetInv, Crowding
<1>4. QED BY <1>3 DEF MeetInv, Crowding, Waiting

\* What was said is announced, and the call goes on or ends.
LEMMA ToldMeets ==
  ASSUME TurnInv, MeetInv, NEW c \in group, Told(c)
  PROVE  MeetInv'
PROOF
<1> DEFINE next == CASE took[c].action = "approve" -> after[c]
                     [] took[c].action = "deny" -> "done"
                     [] took[c].action = "stop" -> "error"
<1>1. /\ pc[c] = "told" /\ events' = Emitted("resolved", c) /\ Goes(c, next)
      /\ UNCHANGED <<step, turn, safe, group, signals, sending, hub, shown, crowded>>
  BY DEF Told, hubVars
<1>2. /\ c \in Slots /\ group \subseteq Slots /\ pc'[c] = next
      /\ \A d \in Slots \ {c} : pc'[d] = pc[d]
  BY <1>1, OneMoves
<1>3. took'[c] = NoSignal /\ \A d \in Slots \ {c} : took'[d] = took[d]
  BY <1>2 DEF Told, TurnInv, TurnTypeOK
<1>4. took[c].action \in Rulings /\ after[c] \in {"permission", "run"}
  BY <1>1, <1>2 DEF TurnInv, BatchInv, TurnTypeOK
<1>5. /\ next \in {"permission", "run", "done", "error"}
      /\ next = "error" <=> took[c].action = "stop"
  BY <1>4 DEF Rulings
<1> HIDE DEF next
<1>6. /\ Count(events', Asks) = Count(events, Asks)
      /\ \A x \in Within(events') \cap Asks : x \in Within(events) \/ x.of = GroupName
  <2>1. Count(events, Asks) \in Nat
    BY OpenIs DEF TurnInv
  <2>2. QED BY <1>1, <2>1, Announces
<1>7. Broken' <=> Broken
  <2>1. Broken <=> took[c].action = "stop" \/
          \E d \in group \ {c} : pc[d] = "error" \/ (pc[d] = "told" /\ took[d].action = "stop")
    BY <1>1 DEF Broken
  <2>2. Broken' <=> next = "error" \/
          \E d \in group \ {c} : pc[d] = "error" \/ (pc[d] = "told" /\ took[d].action = "stop")
    BY <1>1, <1>2, <1>3, <1>5 DEF Broken
  <2>3. QED BY <1>5, <2>1, <2>2
<1>8. Waiters' = Waiters
  BY <1>1, <1>2, <1>5 DEF Waiters
<1>9. AskInv'
  <2>1. Open' = Open
    BY <1>1, <1>6 DEF Open
  <2>2. QED BY <1>1, <1>7, <1>8, <2>1 DEF MeetInv, AskInv
<1>10. Current'
  <2>1. GroupName' = GroupName
    BY <1>1 DEF GroupName
  <2>2. \A d \in Slots : took'[d] # NoSignal => d # c /\ took'[d] = took[d] /\ pc'[d] = pc[d]
    BY <1>2, <1>3
  <2>3. QED BY <1>1, <1>6, <2>1, <2>2 DEF MeetInv, Current
<1>11. Crowding'
  <2>1. \A d \in Slots : pc'[d] \in Waiting => pc[d] \in Waiting
    BY <1>1, <1>2, <1>5 DEF Waiting
  <2>2. \A d \in Slots : pc'[d] \in {"pose", "await", "answered"} => ~safe[d]
    BY <1>2, <1>5 DEF MeetInv, Crowding
  <2>3. QED BY <1>1, <1>2, <2>1, <2>2 DEF MeetInv, Crowding
<1>12. ASSUME NEW d \in group
       PROVE  Heard(d)'
  <2>1. CASE d = c
    BY <1>2, <1>5, <2>1 DEF Heard
  <2>2. CASE d # c
    <3>1. pc'[d] # "await" /\ (crowded' \/ pc'[d] # "wait")
      BY <1>1, <1>2, <2>2, NobodyElse DEF Waiting
    <3>2. QED BY <3>1 DEF Heard
  <2>3. QED BY <2>1, <2>2
<1>13. QED BY <1>1, <1>9, <1>10, <1>11, <1>12 DEF MeetInv

\* The signal at the head of the channel is taken: with a reply, one ask less is open.
LEMMA HeadTaken ==
  ASSUME TurnInv, MeetInv, signals # <<>>, signals' = Tail(signals)
  PROVE  LET x == Head(signals) IN
         /\ x \in Signals /\ Within(signals) = Within(signals') \cup {x}
         /\ Count(signals', Replies) \in Nat
         /\ Count(signals, Replies) = Count(signals', Replies) + (IF x \in Replies THEN 1 ELSE 0)
         /\ x \in Replies <=> x.action \in {"approve", "deny"}
         /\ x \in Replies => x.seen = GroupName
PROOF
<1> DEFINE x == Head(signals)
<1>1. signals \in Seq(Signals)
  BY DEF TurnInv, TurnTypeOK
<1>2. /\ x \in Signals /\ Within(signals) = Within(signals') \cup {x}
      /\ Count(signals, Replies) = Count(signals', Replies) + (IF x \in Replies THEN 1 ELSE 0)
      /\ signals' \in Seq(Signals)
  BY <1>1, TailCounts
<1>3. Count(signals', Replies) \in Nat
  BY <1>2, CountIs
<1> HIDE DEF x
<1>4. x \in Replies <=> x.action \in {"approve", "deny"}
  BY <1>2 DEF Replies
<1>5. x \in Replies => x.seen = GroupName
  BY <1>2 DEF MeetInv, Current
<1>6. QED BY <1>2, <1>3, <1>4, <1>5 DEF x

\* A call that waits takes a signal, or sees the end of the context.
LEMMA WaitMeets ==
  ASSUME TurnInv, MeetInv, NEW c \in group, Wait(c)
  PROVE  MeetInv'
PROOF
<1>1. /\ pc[c] = "wait" /\ step = "batch" /\ c \in Slots /\ group \subseteq Slots
      /\ UNCHANGED <<step, turn, safe, group, ctxDone, events, sending, hub, question, shown,
                     crowded>>
  BY OneMoves DEF Wait, hubVars, Active, Waiting
<1>2. GroupName' = GroupName
  BY <1>1 DEF GroupName
<1>3. took[c] = NoSignal
  BY <1>1 DEF MeetInv, Current
<1> DEFINE x == Head(signals)
<1>4. ASSUME \A d \in group \ {c} : pc'[d] = pc[d], pc'[c] \notin {"wait", "await"}
      PROVE  \A d \in group : Heard(d)'
  <2>1. ASSUME NEW d \in group
        PROVE  Heard(d)'
    <3>1. CASE d = c
      BY <1>4, <3>1 DEF Heard
    <3>2. CASE d # c
      <4>1. pc'[d] # "await" /\ (crowded' \/ pc'[d] # "wait")
        BY <1>1, <1>4, <3>2, NobodyElse DEF Waiting
      <4>2. QED BY <4>1 DEF Heard
    <3>3. QED BY <3>1, <3>2
  <2>2. QED BY <2>1
<1>5. CASE signals # <<>> /\ signals' = Tail(signals) /\ x.action = "answer"
           /\ UNCHANGED <<pc, took>>
  <2>1. /\ x \notin Replies /\ Within(signals) = Within(signals') \cup {x}
        /\ Count(signals', Replies) \in Nat
        /\ Count(signals, Replies) = Count(signals', Replies)
                                       + (IF x \in Replies THEN 1 ELSE 0)
    BY <1>5, HeadTaken
  <2> HIDE DEF x
  <2>2. Count(signals, Replies) = Count(signals', Replies)
    BY <2>1
  <2>3. (Broken' <=> Broken) /\ Waiters' = Waiters /\ Open' = Open
    BY <1>1, <1>5, <2>2 DEF Broken, Waiters, Open
  <2>4. AskInv'
    BY <1>1, <2>3 DEF MeetInv, AskInv
  <2>5. Current'
    BY <1>1, <1>2, <1>5, <2>1 DEF MeetInv, Current
  <2>6. Crowding'
    BY <1>1, <1>5 DEF MeetInv, Crowding
  <2>7. ReplyComes => ReplyComes'
    BY <1>1, <2>1 DEF ReplyComes
  <2>8. ASSUME NEW d \in group
        PROVE  Heard(d)'
    <3>1. CASE d = c
      BY <1>1, <1>5, <2>7, <3>1 DEF MeetInv, Heard, LastIs
    <3>2. CASE d # c
      <4>1. pc'[d] # "await" /\ (crowded' \/ pc'[d] # "wait")
        BY <1>1, <1>5, <3>2, NobodyElse DEF Waiting
      <4>2. QED BY <4>1 DEF Heard
    <3>3. QED BY <3>1, <3>2
  <2>9. QED BY <1>1, <2>4, <2>5, <2>6, <2>8 DEF MeetInv
<1>6. CASE signals # <<>> /\ signals' = Tail(signals) /\ x.action # "answer"
           /\ Goes(c, "told") /\ took' = [took EXCEPT ![c] = x]
  <2>1. /\ x \in Signals /\ Within(signals) = Within(signals') \cup {x}
        /\ Count(signals', Replies) \in Nat
        /\ Count(signals, Replies) = Count(signals', Replies)
                                       + (IF x \in Replies THEN 1 ELSE 0)
        /\ x \in Replies <=> x.action \in {"approve", "deny"}
        /\ x \in Replies => x.seen = GroupName
    BY <1>6, HeadTaken
  <2>2. took'[c] = x /\ \A d \in Slots \ {c} : took'[d] = took[d]
    BY <1>1, <1>6 DEF TurnInv, TurnTypeOK
  <2>3. pc'[c] = "told" /\ \A d \in Slots \ {c} : pc'[d] = pc[d]
    BY <1>6, OneMoves
  <2>4. x.action \in {"approve", "deny", "stop"}
    BY <1>6, <2>1 DEF Signals, Controls
  <2> HIDE DEF x
  <2>5. Broken' <=> Broken \/ x.action = "stop"
    <3>1. Broken <=>
            \E d \in group \ {c} : pc[d] = "error" \/ (pc[d] = "told" /\ took[d].action = "stop")
      BY <1>1 DEF Broken
    <3>2. Broken' <=> x.action = "stop" \/
            \E d \in group \ {c} : pc[d] = "error" \/ (pc[d] = "told" /\ took[d].action = "stop")
      BY <1>1, <2>2, <2>3 DEF Broken
    <3>3. QED BY <3>1, <3>2
  <2>6. Waiters' = Waiters \ {c} /\ c \in Waiters
    BY <1>1, <2>3 DEF Waiters
  <2>7. Cardinality(Waiters') = Cardinality(Waiters) - 1
    BY <2>6, OpenIs, FS_RemoveElement DEF TurnInv
  <2>8. AskInv'
    <3> DEFINE a == Count(signals, Replies)
               a2 == Count(signals', Replies)
               b == Count(sending, Replies)
               e == Count(events, Asks)
               n == Cardinality(Waiters)
               n2 == Cardinality(Waiters')
    <3>1. /\ Open = a + b + e + (IF hub = "confirming" THEN 1 ELSE 0)
          /\ Open' = a2 + b + e + (IF hub = "confirming" THEN 1 ELSE 0)
      BY <1>1 DEF Open
    <3>2. a2 \in Nat /\ b \in Nat /\ e \in Nat /\ n \in Nat /\ n2 = n - 1
          /\ (x \in Replies => a = a2 + 1)
      BY <2>1, <2>7, OpenIs DEF TurnInv
    <3> HIDE DEF a, a2, b, e, n, n2
    <3>3. x \in Replies /\ Open <= n => Open' <= n2
      BY <3>1, <3>2
    <3>4. ~Broken' => x \in Replies /\ Open <= n
      BY <2>1, <2>4, <2>5 DEF MeetInv, AskInv, n
    <3>5. QED BY <1>1, <3>3, <3>4 DEF AskInv, n2
  <2>9. Current'
    <3>1. \A d \in Slots : took'[d] # NoSignal =>
            pc'[d] = "told" /\ (took'[d].action = "approve" => took'[d].seen = GroupName)
      BY <2>1, <2>2, <2>3 DEF MeetInv, Current
    <3>2. QED BY <1>1, <1>2, <2>1, <3>1 DEF MeetInv, Current
  <2>10. Crowding'
    <3>1. \A d \in Slots : pc'[d] \in Waiting => pc[d] \in Waiting
      BY <1>1, <2>3 DEF Waiting
    <3>2. \A d \in Slots : pc'[d] \in {"pose", "await", "answered"} => ~safe[d]
      BY <2>3 DEF MeetInv, Crowding
    <3>3. QED BY <1>1, <3>1, <3>2 DEF MeetInv, Crowding
  <2>11. \A d \in group : Heard(d)'
    BY <1>1, <1>4, <2>3
  <2>12. QED BY <1>1, <2>8, <2>9, <2>10, <2>11 DEF MeetInv
<1>7. CASE Goes(c, "error") /\ UNCHANGED <<signals, took>>
  <2>1. pc'[c] = "error" /\ \A d \in Slots \ {c} : pc'[d] = pc[d]
    BY <1>7, OneMoves
  <2>2. Broken' /\ AskInv'
    BY <1>1, <2>1 DEF Broken, AskInv
  <2>3. Current'
    <3>1. \A d \in Slots : took'[d] # NoSignal => pc'[d] = pc[d]
      BY <1>3, <1>7, <2>1
    <3>2. QED BY <1>1, <1>2, <1>7, <3>1 DEF MeetInv, Current
  <2>4. Crowding'
    <3>1. \A d \in Slots : pc'[d] \in Waiting => pc[d] \in Waiting
      BY <1>1, <2>1 DEF Waiting
    <3>2. \A d \in Slots : pc'[d] \in {"pose", "await", "answered"} => ~safe[d]
      BY <2>1 DEF MeetInv, Crowding
    <3>3. QED BY <1>1, <3>1, <3>2 DEF MeetInv, Crowding
  <2>5. \A d \in group : Heard(d)'
    BY <1>1, <1>4, <2>1
  <2>6. QED BY <1>1, <2>2, <2>3, <2>4, <2>5 DEF MeetInv
<1>8. QED BY <1>5, <1>6, <1>7 DEF Wait

\* A question's wait takes a signal, or sees the end of the context: it is alone, and no
\* ask is open.
LEMMA AwaitMeets ==
  ASSUME TurnInv, MeetInv, NEW c \in group, Await(c)
  PROVE  MeetInv'
PROOF
<1>1. /\ pc[c] = "await" /\ step = "batch" /\ c \in Slots
      /\ UNCHANGED <<step, turn, safe, group, took, ctxDone, events, sending, hub, question,
                     shown, crowded>>
  BY OneMoves DEF Await, hubVars, Active, Waiting
<1>2. ~safe[c] /\ group = {c}
  BY <1>1, OneMoves DEF MeetInv, Crowding
<1>3. PICK next \in {"error", "answered", "await"} :
        pc'[c] = next /\ \A d \in Slots \ {c} : pc'[d] = pc[d]
  <2>1. UNCHANGED pc \/ \E next \in {"error", "answered"} : Goes(c, next)
    BY DEF Await
  <2>2. QED BY <1>1, <2>1, OneMoves
<1>4. ~Broken /\ Waiters = {} /\ Waiters' = {}
  BY <1>1, <1>2, <1>3 DEF Broken, Waiters
<1>5. /\ (Within(signals) \cup Within(sending)) \cap Replies = {} /\ Open <= 0 /\ Open \in Nat
      /\ Count(signals, Replies) \in Nat
  <2>1. Open <= 0
    BY <1>4, FS_EmptySet DEF MeetInv, AskInv
  <2>2. QED BY <2>1, OpenIs DEF TurnInv
<1> DEFINE x == Head(signals)
<1>6. \/ UNCHANGED signals
      \/ /\ signals # <<>> /\ Within(signals) = Within(signals') \cup {x} /\ x \in Signals
         /\ Count(signals', Replies) \in Nat
         /\ Count(signals, Replies) = Count(signals', Replies)
                                        + (IF x \in Replies THEN 1 ELSE 0)
  <2>1. CASE UNCHANGED signals
    BY <2>1
  <2>2. CASE signals # <<>> /\ signals' = Tail(signals)
    BY <2>2, HeadTaken
  <2>3. QED BY <2>1, <2>2 DEF Await
<1>7. Within(signals') \subseteq Within(signals) /\ Count(signals', Replies) = Count(signals, Replies)
  <2>1. CASE UNCHANGED signals
    BY <2>1
  <2>2. CASE ~UNCHANGED signals
    <3> HIDE DEF x
    <3>1. x \in Within(signals)
      BY <1>6, <2>2
    <3>2. x \notin Replies
      BY <1>5, <3>1
    <3>3. QED BY <1>6, <2>2, <3>2
  <2>3. QED BY <2>1, <2>2
<1>8. AskInv'
  <2>1. Open' = Open
    BY <1>1, <1>7 DEF Open
  <2>2. Cardinality(Waiters') = 0
    BY <1>4, FS_EmptySet
  <2>3. QED BY <1>1, <1>5, <2>1, <2>2 DEF AskInv
<1>9. Current'
  <2>1. GroupName' = GroupName
    BY <1>1 DEF GroupName
  <2>2. took[c] = NoSignal
    BY <1>1 DEF MeetInv, Current
  <2>3. \A d \in Slots : took'[d] # NoSignal => pc'[d] = pc[d]
    BY <1>1, <1>3, <2>2
  <2>4. QED BY <1>1, <1>7, <2>1, <2>3 DEF MeetInv, Current
<1>10. Crowding'
  <2>1. \A d \in Slots : pc'[d] \in {"pose", "await", "answered"} => ~safe[d]
    BY <1>2, <1>3 DEF MeetInv, Crowding
  <2>2. group' = {c}
    BY <1>1, <1>2
  <2>3. QED BY <1>1, <2>1, <2>2 DEF Crowding
<1>11. Heard(c)'
  <2>1. CASE next # "await"
    BY <1>3, <2>1 DEF Heard
  <2>2. CASE next = "await" /\ UNCHANGED signals
    BY <1>1, <1>2, <1>3, <2>2 DEF MeetInv, Heard, LastIs, AnswerComes
  <2>3. CASE next = "await" /\ ~UNCHANGED signals
    <3>1. /\ signals # <<>>
          /\ ~(x.action = "answer" /\ x.answers = c)
      <4>1. CASE x.action \in {"stop", "deny"}
        BY <1>6, <2>3, <4>1
      <4>2. CASE x.action = "answer" /\ x.answers = c
        <5>1. Goes(c, "answered") \/ Goes(c, "error")
          BY <2>3, <4>2 DEF Await
        <5>2. QED BY <1>3, <2>3, <5>1, OneMoves
      <4>3. QED BY <1>6, <2>3, <4>1, <4>2
    <3>2. Within(signals) = Within(signals') \cup {x}
      BY <1>6, <2>3
    <3> HIDE DEF x
    <3>3. AnswerComes(c) => AnswerComes(c)'
      BY <1>1, <3>1, <3>2 DEF AnswerComes
    <3>4. QED BY <1>1, <1>2, <1>3, <2>3, <3>3 DEF MeetInv, Heard, LastIs
  <2>4. QED BY <2>1, <2>2, <2>3
<1>12. group' = {c}
  BY <1>1, <1>2
<1>13. QED BY <1>8, <1>9, <1>10, <1>11, <1>12 DEF MeetInv

\* TurnInv and MeetInv are invariants of the specification.
LEMMA MeetInvariant == TurnSpec => [](TurnInv /\ MeetInv)
PROOF
<1>1. TurnInit => TurnInv /\ MeetInv
  <2>1. SUFFICES ASSUME TurnInit
                 PROVE  TurnInv /\ MeetInv
    OBVIOUS
  <2>2. TurnInv
    BY <2>1, TurnStarts
  <2>3. /\ group = {} /\ signals = <<>> /\ sending = <<>> /\ events = <<>> /\ hub # "confirming"
        /\ \A c \in Slots : took[c] = NoSignal /\ pc[c] = "none"
    BY <2>1 DEF TurnInit
  <2>4. Len(signals) = 0 /\ Len(sending) = 0 /\ Len(events) = 0 /\ 1..0 = {}
    BY <2>3
  <2>5. /\ Hits(signals, Replies) = {} /\ Hits(sending, Replies) = {} /\ Hits(events, Asks) = {}
        /\ Within(signals) = {} /\ Within(sending) = {} /\ Within(events) = {}
    BY <2>4 DEF Hits, Within
  <2>6. /\ Count(signals, Replies) = 0 /\ Count(sending, Replies) = 0 /\ Count(events, Asks) = 0
        /\ Waiters = {} /\ Cardinality(Waiters) = 0
    BY <2>3, <2>5, FS_EmptySet DEF Count, Waiters
  <2>7. AskInv
    BY <2>3, <2>6 DEF AskInv, Open, Broken
  <2>8. Current /\ Crowding /\ \A c \in group : Heard(c)
    BY <2>3, <2>5 DEF Current, Crowding
  <2>9. QED BY <2>2, <2>7, <2>8 DEF MeetInv
<1>2. TurnInv /\ MeetInv /\ [TurnNext]_turnVars => (TurnInv /\ MeetInv)'
  <2>1. SUFFICES ASSUME TurnInv, MeetInv, [TurnNext]_turnVars
                 PROVE  MeetInv'
    BY TurnStep
  <2>2. CASE BeginTurn \/ ProviderReturns \/ StartGroup \/ BatchReturns
    BY <2>1, <2>2, LoopMeets
  <2>3. CASE CallStep
    <3>1. PICK c \in group :
            \/ SandboxGate(c) \/ PermissionGate(c) \/ RunReturns(c)
            \/ Ask(c) \/ Wait(c) \/ Told(c) \/ Pose(c) \/ Await(c) \/ Answered(c)
      BY <2>3 DEF CallStep
    <3>2. QED BY <2>1, <3>1, QuietMeets, AskMeets, WaitMeets, ToldMeets, PoseMeets, AwaitMeets
  <2>4. CASE FinishRun
    BY <2>1, <2>4, FinishMeets
  <2>5. CASE \E p \in DOMAIN sending : Control(p)
    <3>1. DOMAIN sending = 1..Len(sending)
      BY <2>1, LenProperties DEF TurnInv, TurnTypeOK
    <3>2. QED BY <2>1, <2>5, <3>1, ControlMeets
  <2>6. CASE ProjectEvent
    BY <2>1, <2>6, ProjectMeets
  <2>7. CASE Approve \/ Deny \/ Stop \/ Answer
    BY <2>1, <2>7, HandleMeets
  <2>8. CASE UNCHANGED turnVars
    BY <2>1, <2>8, MeetRests DEF turnVars, MeetInv, AskInv
  <2>9. QED BY <2>1, <2>2, <2>3, <2>4, <2>5, <2>6, <2>7, <2>8 DEF TurnNext
<1>3. QED BY <1>1, <1>2, PTL DEF TurnSpec

\* Asks and answers of parallel calls on the one channel of their run meet (Router, the
\* waiters, RunControlHandler), for any number of calls, turns and clicks: no call that was
\* not crowded waits for an answer nobody can give, and a yes gets to no later group.
THEOREM AsksMeet == TurnSpec => []AsksMeetAnswers
PROOF
<1>1. TurnInv /\ MeetInv => AsksMeetAnswers
  <2>1. SUFFICES ASSUME TurnInv, MeetInv
                 PROVE  AsksMeetAnswers
    OBVIOUS
  <2>2. /\ signals = <<>> => Within(signals) = {}
        /\ sending = <<>> => Within(sending) = {}
    <3>1. Len(<<>>) = 0 /\ 1..0 = {}
      OBVIOUS
    <3>2. QED BY <3>1 DEF Within
  <2>3. ASSUME NEW c \in group, pc[c] \in {"wait", "await"}, ~crowded
        PROVE  Answerable(c)
    <3>1. ReplyComes \/ AnswerComes(c) => signals # <<>> \/ sending # <<>>
      BY <2>2 DEF ReplyComes, AnswerComes
    <3>2. \A kind \in {"asked", "question"} : LastIs(kind, c) =>
            \E i \in DOMAIN events : events[i].call = c /\ events[i].kind \in {"asked", "question"}
      <4>1. events \in Seq(Announcements)
        BY <2>1 DEF TurnInv, TurnTypeOK
      <4>2. DOMAIN events = 1..Len(events) /\ Len(events) \in Nat
            /\ (events # <<>> => Len(events) # 0)
        BY <4>1, LenProperties, EmptySeq
      <4>3. events # <<>> => Len(events) \in DOMAIN events
        BY <4>2
      <4>4. QED BY <4>3 DEF LastIs
    <3>3. QED BY <2>1, <2>3, <3>1, <3>2 DEF MeetInv, Heard, Answerable
  <2>4. ASSUME NEW c \in group, took[c].action = "approve"
        PROVE  took[c].seen = GroupName
    <3>1. c \in Slots /\ took[c] # NoSignal
      BY <2>1, <2>4 DEF TurnInv, TurnTypeOK, NoSignal
    <3>2. QED BY <2>1, <2>4, <3>1 DEF MeetInv, Current
  <2>5. QED BY <2>3, <2>4 DEF AsksMeetAnswers, NoStrandedAsk, YesMeantThisGroup
<1>2. QED BY <1>1, MeetInvariant, PTL
-------------------------------------------------------------------------------
(* The rule books, for all calls, events, requests and rules: a change that   *)
(* only tightens loosens no decision.                                         *)

\* A rule has the three fields, each of its type.
LEMMA RuleFields ==
  ASSUME NEW r \in Rules
  PROVE  r.effect \in Verdicts /\ r.scope \in Scopes
PROOF
BY DEF Rules, ToolRules, HookPolicies, AbacPolicies, Verdicts, Scopes

\* The ranks of the verdicts and scopes are numbers.
LEMMA Ranks ==
  /\ Rank["allow"] = 0 /\ Rank["ask"] = 1 /\ Rank["deny"] = 2
  /\ \A v \in Verdicts : Rank[v] \in 0..2
PROOF
BY DEF Rank, Verdicts

\* The rules N that match afterwards are stricter than the rules M that matched:
\* what matched is an allow or has its equal, and what came is a deny or takes a place.
NoWeaker(q, r) == q.scope = r.scope /\ Rank[q.effect] >= Rank[r.effect]
StricterThan(N, M) ==
  /\ M \subseteq Rules /\ N \subseteq Rules
  /\ \A r \in M : r.effect = "allow" \/ \E q \in N : NoWeaker(q, r)
  /\ \A q \in N : q \in M \/ q.effect = "deny" \/ \E r \in M : NoWeaker(q, r)

\* The rules that match one thing get stricter when the books do.
LEMMA MatchingTightens ==
  ASSUME DecisionTypeOK, DecisionTypeOK', Tightens, NEW book, NEW x
  PROVE  StricterThan(Matching(book, x)', Matching(book, x))
PROOF
<1> DEFINE M == Matching(book, x)
           N == Matching(book, x)'
<1>1. M \subseteq Rules /\ N \subseteq Rules
  BY DEF DecisionTypeOK, Matching
<1>2. ASSUME NEW r \in M PROVE r.effect = "allow" \/ \E q \in N : NoWeaker(q, r)
  <2>1. CASE r \in rules'
    <3>1. r \in N /\ NoWeaker(r, r)
      BY <1>1, <2>1, RuleFields, Ranks DEF Matching, NoWeaker
    <3>2. QED BY <3>1
  <2>2. CASE r \notin rules'
    BY <2>2 DEF Tightens, Raises, Matching, NoWeaker
  <2>3. QED BY <2>1, <2>2
<1>3. ASSUME NEW q \in N PROVE q \in M \/ q.effect = "deny" \/ \E r \in M : NoWeaker(q, r)
  BY DEF Tightens, Raises, Matching, NoWeaker
<1>4. QED BY <1>1, <1>2, <1>3 DEF StricterThan

\* Stricter rules decide at least as strictly.
LEMMA StrictestGrows ==
  ASSUME NEW M, NEW N, StricterThan(N, M)
  PROVE  Rank[Strictest(Effects(N))] >= Rank[Strictest(Effects(M))]
PROOF
<1>1. \A r \in M \cup N : r.effect \in Verdicts
  BY RuleFields DEF StricterThan
<1>2. CASE "deny" \in Effects(M)
  <2>1. PICK r \in M : r.effect = "deny"
    BY <1>2 DEF Effects
  <2>2. PICK q \in N : Rank[q.effect] >= Rank["deny"]
    BY <2>1 DEF StricterThan, NoWeaker
  <2>3. q.effect = "deny"
    BY <1>1, <2>2, Ranks DEF Verdicts
  <2>4. Strictest(Effects(N)) = "deny"
    BY <2>3 DEF Effects, Strictest
  <2>5. Strictest(Effects(M)) \in Verdicts
    BY DEF Strictest, Verdicts
  <2>6. QED BY <2>4, <2>5, Ranks
<1>3. CASE "deny" \notin Effects(M) /\ "ask" \in Effects(M)
  <2>1. PICK r \in M : r.effect = "ask"
    BY <1>3 DEF Effects
  <2>2. PICK q \in N : Rank[q.effect] >= Rank["ask"]
    BY <2>1 DEF StricterThan, NoWeaker
  <2>3. q.effect \in {"ask", "deny"}
    BY <1>1, <2>2, Ranks DEF Verdicts
  <2>4. Strictest(Effects(N)) \in {"ask", "deny"}
    BY <2>3 DEF Effects, Strictest
  <2>5. Strictest(Effects(M)) = "ask"
    BY <1>3 DEF Strictest
  <2>6. QED BY <2>4, <2>5, Ranks
<1>4. CASE "deny" \notin Effects(M) /\ "ask" \notin Effects(M)
  <2>1. Strictest(Effects(M)) = "allow" /\ Strictest(Effects(N)) \in Verdicts
    BY <1>4 DEF Strictest, Verdicts
  <2>2. QED BY <2>1, Ranks
<1>5. QED BY <1>2, <1>3, <1>4

\* Rules that match have foremost ones, all of one scope.
LEMMA ForemostExists ==
  ASSUME NEW N, N \subseteq Rules
  PROVE  /\ N # {} => Foremost(N) # {}
         /\ \A r, q \in Foremost(N) : r.scope = q.scope
PROOF
<1>1. \A r \in N : r.scope \in Scopes
  BY RuleFields
<1>2. /\ ScopeOrder["global"] = 0 /\ ScopeOrder["project"] = 1 /\ ScopeOrder["local"] = 2
  BY DEF ScopeOrder, Scopes
<1>3. ASSUME NEW r \in N PROVE Foremost(N) # {}
  <2>1. CASE \E q \in N : q.scope = "global"
    BY <1>1, <1>2, <2>1 DEF Foremost, Scopes
  <2>2. CASE (\A q \in N : q.scope # "global") /\ \E q \in N : q.scope = "project"
    BY <1>1, <1>2, <2>2 DEF Foremost, Scopes
  <2>3. CASE \A q \in N : q.scope = "local"
    BY <1>2, <2>3 DEF Foremost
  <2>4. QED BY <1>1, <2>1, <2>2, <2>3 DEF Scopes
<1>4. ASSUME NEW r \in Foremost(N), NEW q \in Foremost(N) PROVE r.scope = q.scope
  BY <1>1, <1>2 DEF Foremost, Scopes
<1>5. QED BY <1>3, <1>4

\* The foremost of stricter rules are stricter than the foremost of the others, as far
\* as those do not allow: a rule that comes before them in scope came as a deny.
LEMMA ForemostGrows ==
  ASSUME NEW M, NEW N, StricterThan(N, M)
  PROVE  Rank[Strictest(Effects(Foremost(N)))] >= Rank[Strictest(Effects(Foremost(M)))]
PROOF
<1>1. M \subseteq Rules /\ N \subseteq Rules
  BY DEF StricterThan
<1>2. \A r \in M \cup N : r.effect \in Verdicts /\ r.scope \in Scopes
  BY <1>1, RuleFields
<1>3. /\ Foremost(M) \subseteq M /\ Foremost(N) \subseteq N
      /\ \A s \in Scopes : ScopeOrder[s] \in 0..2
      /\ \A s, t \in Scopes : ScopeOrder[s] = ScopeOrder[t] => s = t
  BY DEF Foremost, ScopeOrder, Scopes
<1>4. ASSUME NEW r \in Foremost(M), r.effect # "allow"
      PROVE  \E q \in Foremost(N) : Rank[q.effect] >= Rank[r.effect]
  <2>1. PICK q \in N : NoWeaker(q, r)
    BY <1>3, <1>4 DEF StricterThan
  <2>2. CASE q \in Foremost(N)
    BY <2>1, <2>2 DEF NoWeaker
  <2>3. CASE q \notin Foremost(N)
    \* Another rule comes first. Its scope is before all that matched.
    <3>1. PICK p \in Foremost(N) : TRUE
      BY <1>1, <2>1, ForemostExists
    <3>2. ScopeOrder[p.scope] < ScopeOrder[q.scope]
      <4>1. PICK z \in N : ~(ScopeOrder[q.scope] <= ScopeOrder[z.scope])
        BY <2>1, <2>3 DEF Foremost
      <4>2. ScopeOrder[p.scope] <= ScopeOrder[z.scope]
        BY <3>1, <4>1 DEF Foremost
      <4>3. p \in N
        BY <3>1, <1>3
      <4>4. QED BY <1>2, <1>3, <2>1, <4>1, <4>2, <4>3
    <3>3. \A z \in M : ScopeOrder[p.scope] < ScopeOrder[z.scope]
      <4>1. \A z \in M : ScopeOrder[r.scope] <= ScopeOrder[z.scope]
        BY DEF Foremost
      <4>2. p \in N /\ r \in M
        BY <1>3, <3>1
      <4>3. QED BY <1>2, <1>3, <2>1, <3>2, <4>1, <4>2 DEF NoWeaker
    <3>4. p.effect = "deny"
      <4>1. p \in N /\ ScopeOrder[p.scope] \in 0..2
        BY <1>2, <1>3, <3>1
      <4>2. p \notin M
        BY <3>3, <4>1
      <4>3. ~\E z \in M : NoWeaker(p, z)
        BY <3>3, <4>1 DEF NoWeaker
      <4>4. QED BY <4>1, <4>2, <4>3 DEF StricterThan
    <3>5. r.effect \in Verdicts
      BY <1>2, <1>3
    <3>6. QED BY <3>1, <3>4, <3>5, Ranks
  <2>4. QED BY <2>2, <2>3
<1>5. \A r \in Foremost(M) \cup Foremost(N) : r.effect \in Verdicts
  BY <1>2, <1>3
<1>6. CASE "deny" \in Effects(Foremost(M))
  <2>1. PICK q \in Foremost(N) : Rank[q.effect] >= Rank["deny"]
    BY <1>4, <1>6 DEF Effects
  <2>2. q.effect = "deny"
    BY <1>5, <2>1, Ranks DEF Verdicts
  <2>3. Strictest(Effects(Foremost(N))) = "deny"
    BY <2>2 DEF Effects, Strictest
  <2>4. Strictest(Effects(Foremost(M))) \in Verdicts
    BY DEF Strictest, Verdicts
  <2>5. QED BY <2>3, <2>4, Ranks
<1>7. CASE "deny" \notin Effects(Foremost(M)) /\ "ask" \in Effects(Foremost(M))
  <2>1. PICK q \in Foremost(N) : Rank[q.effect] >= Rank["ask"]
    BY <1>4, <1>7 DEF Effects
  <2>2. q.effect \in {"ask", "deny"}
    BY <1>5, <2>1, Ranks DEF Verdicts
  <2>3. Strictest(Effects(Foremost(N))) \in {"ask", "deny"}
    BY <2>2 DEF Effects, Strictest
  <2>4. Strictest(Effects(Foremost(M))) = "ask"
    BY <1>7 DEF Strictest
  <2>5. QED BY <2>3, <2>4, Ranks
<1>8. CASE "deny" \notin Effects(Foremost(M)) /\ "ask" \notin Effects(Foremost(M))
  <2>1. /\ Strictest(Effects(Foremost(M))) = "allow"
        /\ Strictest(Effects(Foremost(N))) \in Verdicts
    BY <1>8 DEF Strictest, Verdicts
  <2>2. QED BY <2>1, Ranks
<1>9. QED BY <1>6, <1>7, <1>8
-------------------------------------------------------------------------------
\* Where rules come to be where there were none, the first is a deny; where none are
\* left, all that went were allows.
LEMMA FromNoneToNone ==
  ASSUME NEW M, NEW N, StricterThan(N, M)
  PROVE  /\ M = {} /\ N # {} => Strictest(Effects(N)) = "deny"
         /\ N = {} => Strictest(Effects(M)) = "allow"
PROOF
BY DEF StricterThan, Strictest, Effects

\* The mode matrix is monotone in the mode.
LEMMA MatrixGrows ==
  ASSUME NEW m \in Modes, NEW n \in Modes, ModeRank[n] >= ModeRank[m], NEW risk \in Levels
  PROVE  /\ ModeMatrix(m, risk) \in Verdicts
         /\ Rank[ModeMatrix(n, risk)] >= Rank[ModeMatrix(m, risk)]
         /\ m = "dontAsk" => n = "dontAsk"
PROOF
<1>1. /\ ModeRank["bypassPermissions"] = 0 /\ ModeRank["acceptEdits"] = 1
      /\ ModeRank["default"] = 2 /\ ModeRank["plan"] = 3 /\ ModeRank["dontAsk"] = 4
  BY DEF ModeRank, Modes
<1>2. m = "dontAsk" => n = "dontAsk"
  BY <1>1 DEF Modes
<1>3. CASE m = "bypassPermissions"
  BY <1>3, Ranks DEF ModeMatrix, Modes, Levels, Verdicts
<1>4. CASE m = "acceptEdits"
  <2>1. n # "bypassPermissions"
    BY <1>1, <1>4
  <2>2. QED BY <1>4, <2>1, Ranks DEF ModeMatrix, Modes, Levels, Verdicts
<1>5. CASE m = "default"
  <2>1. n \notin {"bypassPermissions", "acceptEdits"}
    BY <1>1, <1>5
  <2>2. QED BY <1>5, <2>1, Ranks DEF ModeMatrix, Modes, Levels, Verdicts
<1>6. CASE m \in {"plan", "dontAsk"}
  <2>1. n \in {"plan", "dontAsk"}
    BY <1>1, <1>6 DEF Modes
  <2>2. \A k \in {"plan", "dontAsk"} :
          ModeMatrix(k, risk) = IF risk = "low" THEN "allow" ELSE "deny"
    BY DEF ModeMatrix
  <2>3. /\ ModeMatrix(m, risk) = ModeMatrix(n, risk)
        /\ ModeMatrix(m, risk) \in {"allow", "deny"}
    BY <1>6, <2>1, <2>2
  <2>4. QED BY <1>2, <2>3, Ranks DEF Verdicts
<1>7. QED BY <1>2, <1>3, <1>4, <1>5, <1>6 DEF Modes

\* The two gates of a tool call.
LEMMA ToolVerdictGrows ==
  ASSUME DecisionTypeOK, DecisionTypeOK', Tightens, NEW c \in ToolCalls
  PROVE  Rank[ToolVerdict(c)'] >= Rank[ToolVerdict(c)]
PROOF
<1>1. Heuristic[c] \in Verdicts /\ Risk[c] \in Levels /\ mode \in Modes /\ mode' \in Modes
  BY DecisionAssumption DEF DecisionAssumption, DecisionTypeOK
<1>2. \A book : StricterThan(Matching(book, c)', Matching(book, c))
  BY MatchingTightens
<1>3. Rank[SandboxVerdict(c)'] >= Rank[SandboxVerdict(c)]
  <2> DEFINE M == Matching("sandbox", c)
             N == Matching("sandbox", c)'
  <2>1. StricterThan(N, M)
    BY <1>2
  <2>2. /\ SandboxVerdict(c) = IF M = {} THEN Heuristic[c] ELSE Strictest(Effects(M))
        /\ SandboxVerdict(c)' = IF N = {} THEN Heuristic[c] ELSE Strictest(Effects(N))
    BY DEF SandboxVerdict
  <2>3. Strictest(Effects(M)) \in Verdicts /\ Strictest(Effects(N)) \in Verdicts
    BY DEF Strictest, Verdicts
  <2> HIDE DEF M, N
  <2>4. QED BY <1>1, <2>1, <2>2, <2>3, Ranks, StrictestGrows, FromNoneToNone
<1>4. Rank[GateVerdict(c)'] >= Rank[GateVerdict(c)]
  <2> DEFINE M == Matching("gate", c)
             N == Matching("gate", c)'
             Ruled(m, v) == IF m = "dontAsk" /\ v = "ask" THEN "deny" ELSE v
             v == Strictest(Effects(M))
             w == Strictest(Effects(N))
  <2>1. StricterThan(N, M)
    BY <1>2
  <2>2. /\ GateVerdict(c) = IF M = {} THEN ModeMatrix(mode, Risk[c]) ELSE Ruled(mode, v)
        /\ GateVerdict(c)' = IF N = {} THEN ModeMatrix(mode', Risk[c]) ELSE Ruled(mode', w)
    BY DEF GateVerdict
  <2>3. v \in Verdicts /\ w \in Verdicts
    BY DEF Strictest, Verdicts
  <2>4. /\ ModeMatrix(mode, Risk[c]) \in Verdicts /\ ModeMatrix(mode', Risk[c]) \in Verdicts
        /\ Rank[ModeMatrix(mode', Risk[c])] >= Rank[ModeMatrix(mode, Risk[c])]
        /\ mode = "dontAsk" => mode' = "dontAsk"
    BY <1>1, MatrixGrows DEF Tightens, ModeMatrix, Modes, Levels, Verdicts
  <2>5. /\ Rank[w] >= Rank[v]
        /\ M = {} /\ N # {} => w = "deny"
        /\ N = {} => v = "allow"
    BY <2>1, StrictestGrows, FromNoneToNone
  <2> HIDE DEF M, N, v, w
  <2>6. Rank[Ruled(mode', w)] >= Rank[Ruled(mode, v)]
    BY <2>3, <2>4, <2>5, Ranks DEF Verdicts
  <2>7. QED BY <2>2, <2>3, <2>4, <2>5, <2>6, Ranks
<1>5. /\ SandboxVerdict(c) \in Verdicts /\ GateVerdict(c) \in Verdicts
      /\ SandboxVerdict(c)' \in Verdicts /\ GateVerdict(c)' \in Verdicts
  <2>1. /\ ModeMatrix(mode, Risk[c]) \in Verdicts
        /\ ModeMatrix(mode', Risk[c]) \in Verdicts
    BY <1>1 DEF ModeMatrix, Modes, Levels, Verdicts
  <2>2. \A E : Strictest(E) \in Verdicts
    BY DEF Strictest, Verdicts
  <2>3. SandboxVerdict(c) \in Verdicts /\ SandboxVerdict(c)' \in Verdicts
    BY <1>1, <2>2 DEF SandboxVerdict
  <2>4. GateVerdict(c) \in Verdicts /\ GateVerdict(c)' \in Verdicts
    BY <2>1, <2>2 DEF GateVerdict, Verdicts
  <2>5. QED BY <2>3, <2>4
<1>6. QED BY <1>3, <1>4, <1>5, Ranks DEF ToolVerdict, Strictest, Verdicts

\* The hook policies of an event.
LEMMA HookVerdictGrows ==
  ASSUME DecisionTypeOK, DecisionTypeOK', Tightens, NEW e
  PROVE  Rank[HookVerdict(e)'] >= Rank[HookVerdict(e)]
PROOF
<1>1. StricterThan(Matching("hooks", e)', Matching("hooks", e))
  BY MatchingTightens
<1>2. QED BY <1>1, ForemostGrows DEF HookVerdict

\* The role and the policies behind a request.
LEMMA RequestVerdictGrows ==
  ASSUME DecisionTypeOK, DecisionTypeOK', Tightens, NEW a
  PROVE  Rank[RequestVerdict(a)'] >= Rank[RequestVerdict(a)]
PROOF
<1>1. StricterThan(Matching("abac", a)', Matching("abac", a))
  BY MatchingTightens
<1>2. ASSUME RequestVerdict(a)' = "allow" PROVE RequestVerdict(a) = "allow"
  <2>1. /\ roleEnabled' /\ Permission[a] \in permissions'
        /\ a \in PolicyBound =>
             Matching("abac", a)' # {} /\ "deny" \notin Effects(Matching("abac", a)')
    BY <1>2 DEF RequestVerdict
  <2>2. roleEnabled /\ Permission[a] \in permissions
    BY <2>1 DEF Tightens
  <2>3. ASSUME a \in PolicyBound
        PROVE  Matching("abac", a) # {} /\ "deny" \notin Effects(Matching("abac", a))
    <3>1. Matching("abac", a) # {}
      BY <1>1, <2>1, <2>3, FromNoneToNone DEF Strictest
    <3>2. "deny" \notin Effects(Matching("abac", a))
      <4>1. SUFFICES ASSUME NEW r \in Matching("abac", a), r.effect = "deny" PROVE FALSE
        BY DEF Effects
      <4>2. PICK q \in Matching("abac", a)' : Rank[q.effect] >= Rank["deny"]
        BY <1>1, <4>1 DEF StricterThan, NoWeaker
      <4>3. q.effect \in Verdicts
        BY <1>1, <4>2, RuleFields DEF StricterThan
      <4>4. q.effect = "deny"
        BY <4>2, <4>3, Ranks DEF Verdicts
      <4>5. QED BY <2>1, <2>3, <4>4 DEF Effects
    <3>3. QED BY <3>1, <3>2
  <2>4. QED BY <2>2, <2>3 DEF RequestVerdict
<1>3. RequestVerdict(a) \in {"allow", "deny"} /\ RequestVerdict(a)' \in {"allow", "deny"}
  BY DEF RequestVerdict
<1>4. QED BY <1>2, <1>3, Ranks
-------------------------------------------------------------------------------
\* The books keep their types.
THEOREM DecisionTypes == DecisionSpec => []DecisionTypeOK
PROOF
<1>1. DecisionInit => DecisionTypeOK
  BY DEF DecisionInit, DecisionTypeOK, Modes, NotSaving, SaveStages
<1>2. DecisionTypeOK /\ [DecisionNext]_decisionVars => DecisionTypeOK'
  <2>1. SUFFICES ASSUME DecisionTypeOK, [DecisionNext]_decisionVars PROVE DecisionTypeOK'
    OBVIOUS
  <2> USE <2>1 DEF DecisionTypeOK
  <2>2. CASE \E m \in Modes : ChangeMode(m)
    BY <2>2 DEF ChangeMode, roleVars
  <2>3. CASE \E r \in Rules : AddRule(r)
    BY <2>3 DEF AddRule, roleVars
  <2>4. CASE \E r \in rules : RemoveRule(r)
    BY <2>4 DEF RemoveRule, roleVars
  <2>5. CASE \E r \in rules, q \in Rules : EditRule(r, q)
    BY <2>5 DEF EditRule, roleVars
  <2>6. CASE \E b \in BOOLEAN : SetRoleEnabled(b)
    BY <2>6 DEF SetRoleEnabled
  <2>7. CASE \E b \in BOOLEAN, grants \in SUBSET PermissionKeys : BeginSave(b, grants)
    BY <2>7 DEF BeginSave, SaveStages
  <2>8. CASE ClearGrants
    BY <2>8 DEF ClearGrants, SaveStages
  <2>9. CASE EndSave
    BY <2>9 DEF EndSave, NotSaving, SaveStages
  <2>10. CASE DeleteRole
    BY <2>10 DEF DeleteRole
  <2>11. CASE \E p \in PermissionKeys : InsertGrant(p)
    BY <2>11 DEF InsertGrant
  <2>12. CASE UNCHANGED decisionVars
    BY <2>12 DEF decisionVars
  <2>13. QED
    BY <2>1, <2>2, <2>3, <2>4, <2>5, <2>6, <2>7, <2>8, <2>9, <2>10, <2>11, <2>12
    DEF DecisionNext
<1>3. QED BY <1>1, <1>2, PTL DEF DecisionSpec

\* No decision gets looser by a change that only tightens: of the gates of a tool call,
\* of the hook policies and of authorizeAction, whatever rules shadow each other.
THEOREM TighteningIsMonotone == DecisionSpec => TighteningNeverLoosens
PROOF
<1> DEFINE Stricter ==
             /\ \A c \in ToolCalls : Rank[ToolVerdict(c)'] >= Rank[ToolVerdict(c)]
             /\ \A e \in HookEvents : Rank[HookVerdict(e)'] >= Rank[HookVerdict(e)]
             /\ \A a \in ApiRequests : Rank[RequestVerdict(a)'] >= Rank[RequestVerdict(a)]
<1>1. DecisionTypeOK /\ DecisionTypeOK' /\ Tightens => Stricter
  BY ToolVerdictGrows, HookVerdictGrows, RequestVerdictGrows
<1> HIDE DEF Stricter
<1>2. DecisionTypeOK /\ DecisionTypeOK' /\ [DecisionNext]_decisionVars
        => [Tightens => Stricter]_decisionVars
  BY <1>1
<1>3. DecisionSpec => [][Tightens => Stricter]_decisionVars
  BY <1>2, DecisionTypes, PTL DEF DecisionSpec
<1>4. QED BY <1>3 DEF TighteningNeverLoosens, Stricter
-------------------------------------------------------------------------------
(* The model catalog: the root and the files, for any roots, callers and edits. *)

\* What a call has in hand at each of its steps.
FileSteps == {"stat", "resolved", "filled", "written", "parsed"}
SetsRoot == [step : {"row set"}, root : Roots]
SeeksRoot == [step : {"no root"}, force : BOOLEAN]
HasRoot == [step : {"row read", "root"}, force : BOOLEAN, root : Roots]
HasFile ==
  [step : FileSteps, force : BOOLEAN, root : Roots, source : Roots \cup {Embedded},
   revision : Nat, form : Forms, text : Nat]
InHand == {Resting} \cup SetsRoot \cup SeeksRoot \cup HasRoot \cup HasFile

Written == [form : Forms, text : Nat, written : Nat]
Entry == [source : Roots \cup {Embedded}, revision : Nat, text : Nat]

CatalogTypes ==
  /\ file \in [Roots -> Written]
  /\ lastEdit \in [Roots -> [form : Forms, text : Nat]]
  /\ rootRow = {} \/ \E r \in Roots : rootRow = {r}
  /\ rootKept = {} \/ \E r \in Roots : rootKept = {r}
  /\ entry \subseteq Entry
  /\ caller \in [CatalogCallers -> InHand]
  /\ now \in Nat /\ edits \in Nat

\* While the last change of the root did not fall amid a call, all that is about to be
\* kept is the root in force, and so is what is kept, but for a setting under way.
RootInv ==
  "root" \notin amid =>
    /\ \A c \in CatalogCallers : HoldsRoot(c) => caller[c].root = RootInForce
    /\ rootKept \subseteq {RootInForce} \/ \E c \in CatalogCallers : CallAt(c, "row set")

\* The roots whose last edit did not fall amid a call.
Free == Roots \ amid

\* A revision is of the past, and with the revision of now goes the text of now.
Fresh(revision, text, f) ==
  f.form # "absent" /\ revision = f.written => text = f.text

EntryHolds(e, files, free, time) ==
  /\ e.source \in Roots => e.revision <= time
  /\ \A r \in free : e.source = r => Fresh(e.revision, e.text, files[r])

\* A call that will write to the file of r, or has and not yet looked at it.
Writes(k, r) ==
  \/ k.step = "resolved" /\ k.source = r /\ k.form = "sparse"
  \/ k.step \in {"filled", "written"} /\ k.root = r

\* What a call has in hand is what is in the file, when it has the revision of now, and
\* what it will write is what the user wrote last.
CallHolds(k, files, edited, free) ==
  /\ k.step \in {"stat", "filled", "written"} => k.source = k.root
  /\ k.step = "resolved" /\ k.form = "sparse" => k.source = k.root
  /\ k.step \in FileSteps /\ k.source \in Roots => k.revision <= files[k.source].written
  /\ \A r \in free :
       /\ Writes(k, r) => k.text = edited[r].text /\ edited[r].form = "sparse"
       /\ k.step \in {"resolved", "filled", "parsed"} /\ k.source = r =>
            Fresh(k.revision, k.text, files[r])

CatalogInv ==
  /\ CatalogTypes
  /\ RootInv
  /\ \A r \in Roots : file[r].written <= now
  /\ \A e \in entry : EntryHolds(e, file, Free, now)
  /\ \A c \in CatalogCallers : CallHolds(caller[c], file, lastEdit, Free)
  /\ \A r \in Free : EditStands(r)

\* What a call at one of its steps has in hand.
LEMMA HandIs ==
  ASSUME CatalogTypes, NEW c \in CatalogCallers
  PROVE  /\ CallAt(c, "row set") => caller[c] \in SetsRoot
         /\ CallAt(c, "no root") => caller[c] \in SeeksRoot
         /\ CallAt(c, "row read") \/ CallAt(c, "root") => caller[c] \in HasRoot
         /\ caller[c].step \in FileSteps => caller[c] \in HasFile
PROOF
<1> DEFINE k == caller[c]
<1>1. k \in InHand
  BY DEF CatalogTypes
<1> HIDE DEF k
<1>2. CASE k = Resting
  BY <1>2 DEF Resting, CallAt, FileSteps, k
<1>3. CASE k \in SetsRoot
  <2>1. k.step = "row set"
    BY <1>3 DEF SetsRoot
  <2>2. QED BY <1>3, <2>1 DEF CallAt, FileSteps, k
<1>4. CASE k \in SeeksRoot
  <2>1. k.step = "no root"
    BY <1>4 DEF SeeksRoot
  <2>2. QED BY <1>4, <2>1 DEF CallAt, FileSteps, k
<1>5. CASE k \in HasRoot
  <2>1. k.step \in {"row read", "root"}
    BY <1>5 DEF HasRoot
  <2>2. QED BY <1>5, <2>1 DEF CallAt, FileSteps, k
<1>6. CASE k \in HasFile
  <2>1. k.step \in FileSteps
    BY <1>6 DEF HasFile
  <2>2. QED BY <1>6, <2>1 DEF CallAt, FileSteps, k
<1>7. QED BY <1>1, <1>2, <1>3, <1>4, <1>5, <1>6 DEF InHand

\* The root in force and the root kept are roots.
LEMMA RootsAre ==
  ASSUME CatalogTypes
  PROVE  /\ RootInForce \in Roots
         /\ rootKept # {} => (CHOOSE r \in rootKept : TRUE) \in Roots
         /\ \A r \in Roots : rootRow = {r} => RootInForce = r
PROOF
BY CatalogAssumption DEF CatalogTypes, RootInForce, CatalogAssumption

\* The root in force changes with its row only.
LEMMA InForce ==
  ASSUME CatalogTypes, rootRow' = rootRow
  PROVE  RootInForce' = RootInForce
PROOF
<1>1. CASE rootRow = {}
  BY <1>1 DEF RootInForce
<1>2. ASSUME NEW r \in Roots, rootRow = {r}
      PROVE  RootInForce = r /\ RootInForce' = r
  BY <1>2 DEF RootInForce
<1>3. QED BY <1>1, <1>2 DEF CatalogTypes

\* A call goes on with the files and the root as they are.
LEMMA CallGoes ==
  ASSUME CatalogInv, NEW c \in CatalogCallers, NEW k \in InHand, GoTo(c, k),
         UNCHANGED <<file, lastEdit, amid, rootRow, rootKept, now, edits>>,
         k.step \notin {"row set", "row read"}, ~CallAt(c, "row set"),
         CallHolds(k, file, lastEdit, Free),
         entry' \subseteq Entry, \A e \in entry' : EntryHolds(e, file, Free, now)
  PROVE  CatalogInv'
PROOF
<1>1. CatalogTypes /\ RootInv
  BY DEF CatalogInv
<1>2. /\ caller' = [caller EXCEPT ![c] = k] /\ caller \in [CatalogCallers -> InHand]
      /\ caller' \in [CatalogCallers -> InHand]
  BY <1>1 DEF GoTo, CatalogTypes
<1>3. CatalogTypes'
  BY <1>1, <1>2 DEF CatalogTypes
<1>4. \A d \in CatalogCallers : caller'[d] = IF d = c THEN k ELSE caller[d]
  BY <1>2
<1>5. RootInv'
  <2>1. \A d \in CatalogCallers : HoldsRoot(d)' => HoldsRoot(d) /\ caller'[d] = caller[d]
    BY <1>4 DEF HoldsRoot, CallAt
  <2>2. \A d \in CatalogCallers : CallAt(d, "row set") => CallAt(d, "row set")'
    BY <1>4 DEF CallAt
  <2>3. RootInForce' = RootInForce
    <3>1. rootRow' = rootRow
      OBVIOUS
    <3>2. QED BY <1>1, <3>1, InForce
  <2>4. QED BY <1>1, <2>1, <2>2, <2>3 DEF RootInv
<1>6. Free' = Free
  BY DEF Free
<1>7. \A d \in CatalogCallers : CallHolds(caller'[d], file, lastEdit, Free)
  BY <1>4 DEF CatalogInv
<1>8. \A r \in Free' : EditStands(r)'
  BY <1>6 DEF CatalogInv, EditStands
<1>9. \A r \in Roots : file[r].written <= now
  BY DEF CatalogInv
<1>10. QED BY <1>3, <1>5, <1>6, <1>7, <1>8, <1>9 DEF CatalogInv

\* A call that looks at no file, and one that has found none, knows nothing false.
LEMMA NoneHolds ==
  ASSUME NEW k, NEW files, NEW edited, NEW free,
         \/ k.step \notin FileSteps
         \/ k \in HasFile /\ k.step \in {"resolved", "parsed"} /\ k.source = Embedded
            /\ k.form = "full",
         free \subseteq Roots
  PROVE  CallHolds(k, files, edited, free)
PROOF
<1>1. Embedded \notin Roots
  BY CatalogAssumption DEF CatalogAssumption
<1>2. QED BY <1>1 DEF CallHolds, Writes, FileSteps, HasFile

\* The steps of a load that look at the file.
LEMMA FileStepsKeep ==
  ASSUME CatalogInv, NEW c \in CatalogCallers, StatFile(c) \/ ReadFile(c) \/ LookUp(c)
  PROVE  CatalogInv'
PROOF
<1> DEFINE k == caller[c]
           f == file[k.root]
<1>1. /\ CatalogTypes /\ Free \subseteq Roots /\ CallHolds(k, file, lastEdit, Free)
      /\ UNCHANGED <<file, lastEdit, amid, rootRow, rootKept, now, edits, entry>>
      /\ \A r \in Free : EditStands(r)
  BY DEF CatalogInv, Free, StatFile, ReadFile, LookUp, Kept, Counts
<1>2. entry' \subseteq Entry /\ \A e \in entry' : EntryHolds(e, file, Free, now)
  BY <1>1 DEF CatalogInv, CatalogTypes
<1>3. ASSUME NEW to \in InHand, GoTo(c, to), to.step \notin {"row set", "row read"},
             ~CallAt(c, "row set"), CallHolds(to, file, lastEdit, Free)
      PROVE  CatalogInv'
  BY <1>1, <1>2, <1>3, CallGoes
<1>4. ASSUME NEW at \in {"resolved", "parsed"}, k.force \in BOOLEAN, k.root \in Roots,
             ~CallAt(c, "row set"), Found(c, at, Embedded, 0, "full", 0)
      PROVE  CatalogInv'
  <2> DEFINE to == [step |-> at, force |-> k.force, root |-> k.root,
                    source |-> Embedded, revision |-> 0, form |-> "full", text |-> 0]
  <2>1. to \in HasFile /\ to \in InHand /\ GoTo(c, to)
    BY <1>4 DEF HasFile, InHand, FileSteps, Forms, Found
  <2>2. to.step = at /\ to.source = Embedded /\ to.form = "full"
    OBVIOUS
  <2> HIDE DEF to
  <2>3. CallHolds(to, file, lastEdit, Free)
    BY <1>1, <2>1, <2>2, NoneHolds
  <2>4. QED BY <1>3, <1>4, <2>1, <2>2, <2>3
<1>5. CASE StatFile(c)
  <2>1. CallAt(c, "root") /\ k \in HasRoot /\ ~CallAt(c, "row set")
    BY <1>1, <1>5, HandIs DEF StatFile, CallAt
  <2>2. k.force \in BOOLEAN /\ k.root \in Roots /\ f \in Written
    BY <1>1, <2>1 DEF HasRoot, CatalogTypes
  <2>3. CASE f.form = "absent"
    BY <1>4, <1>5, <2>1, <2>2, <2>3 DEF StatFile, FoundNone
  <2>4. CASE f.form # "absent"
    <3> DEFINE to == [step |-> "stat", force |-> k.force, root |-> k.root,
                      source |-> k.root, revision |-> f.written, form |-> "absent",
                      text |-> 0]
    <3>1. GoTo(c, to)
      BY <1>5, <2>4 DEF StatFile, Found
    <3>2. to \in HasFile /\ to \in InHand
      BY <2>2 DEF HasFile, InHand, FileSteps, Forms, Written
    <3>3. CallHolds(to, file, lastEdit, Free)
      BY <2>2 DEF CallHolds, Writes, Written
    <3>4. QED BY <1>3, <2>1, <3>1, <3>2, <3>3
  <2>5. QED BY <2>3, <2>4
<1>6. CASE ReadFile(c)
  <2>1. CallAt(c, "stat") /\ k \in HasFile /\ ~CallAt(c, "row set") /\ k.step = "stat"
    BY <1>1, <1>6, HandIs DEF ReadFile, CallAt, FileSteps
  <2>2. k.force \in BOOLEAN /\ k.root \in Roots /\ f \in Written /\ k.revision \in Nat
    BY <1>1, <2>1 DEF HasFile, CatalogTypes
  <2>3. CASE f.form = "absent"
    BY <1>4, <1>6, <2>1, <2>2, <2>3 DEF ReadFile, FoundNone
  <2>4. CASE f.form # "absent"
    <3> DEFINE to == [step |-> "resolved", force |-> k.force, root |-> k.root,
                      source |-> k.root, revision |-> k.revision, form |-> f.form,
                      text |-> f.text]
    <3>1. GoTo(c, to)
      BY <1>6, <2>4 DEF ReadFile, Found
    <3>2. to \in HasFile /\ to \in InHand
      BY <2>2 DEF HasFile, InHand, FileSteps, Forms, Written
    <3>3. k.source = k.root /\ k.revision <= f.written
      BY <1>1, <2>1, <2>2 DEF CallHolds, FileSteps
    <3>4. \A r \in Free : r = k.root /\ f.form = "sparse" =>
            f.text = lastEdit[r].text /\ lastEdit[r].form = "sparse"
      BY <1>1, <2>2 DEF EditStands
    <3>5. CallHolds(to, file, lastEdit, Free)
      BY <2>2, <3>3, <3>4 DEF CallHolds, Writes, Fresh
    <3>6. QED BY <1>3, <2>1, <3>1, <3>2, <3>5
  <2>5. QED BY <2>3, <2>4
<1>7. CASE LookUp(c)
  <2>1. CallAt(c, "resolved") /\ k \in HasFile /\ ~CallAt(c, "row set")
        /\ k.step = "resolved"
    BY <1>1, <1>7, HandIs DEF LookUp, CallAt, FileSteps
  <2>2. k.force \in BOOLEAN /\ k.root \in Roots
    BY <2>1 DEF HasFile
  <2>3. CASE GoTo(c, Resting)
    <3>1. Resting \in InHand /\ Resting.step = "rest"
      BY DEF InHand, Resting
    <3>2. CallHolds(Resting, file, lastEdit, Free)
      BY <1>1, <3>1, NoneHolds DEF FileSteps
    <3>3. QED BY <1>3, <2>1, <2>3, <3>1, <3>2
  <2>4. CASE Recover(c)
    BY <1>4, <2>1, <2>2, <2>4 DEF Recover
  <2>5. CASE k.form = "sparse" /\ GoTo(c, [k EXCEPT !.step = "filled"])
    <3> DEFINE to == [k EXCEPT !.step = "filled"]
    <3>1. /\ to \in HasFile /\ to \in InHand /\ to.step = "filled" /\ to.source = k.source
          /\ to.root = k.root /\ to.text = k.text /\ to.revision = k.revision
      BY <2>1 DEF HasFile, InHand, FileSteps
    <3> HIDE DEF to
    <3>2. CallHolds(to, file, lastEdit, Free)
      BY <1>1, <2>1, <2>5, <3>1 DEF CallHolds, Writes, FileSteps
    <3>3. QED BY <1>3, <2>1, <2>5, <3>1, <3>2 DEF to
  <2>6. CASE k.form = "full" /\ GoTo(c, [k EXCEPT !.step = "parsed"])
    <3> DEFINE to == [k EXCEPT !.step = "parsed"]
    <3>1. /\ to \in HasFile /\ to \in InHand /\ to.step = "parsed" /\ to.source = k.source
          /\ to.root = k.root /\ to.text = k.text /\ to.revision = k.revision
      BY <2>1 DEF HasFile, InHand, FileSteps
    <3> HIDE DEF to
    <3>2. CallHolds(to, file, lastEdit, Free)
      BY <1>1, <2>1, <3>1 DEF CallHolds, Writes, FileSteps
    <3>3. QED BY <1>3, <2>1, <2>6, <3>1, <3>2 DEF to
  <2>7. QED BY <1>7, <2>3, <2>4, <2>5, <2>6 DEF LookUp
<1>8. QED BY <1>5, <1>6, <1>7

\* A catalog that was read is kept with the revision of what was written, or of what was
\* read.
LEMMA LastStepsKeep ==
  ASSUME CatalogInv, NEW c \in CatalogCallers, StatWritten(c) \/ KeepCatalog(c)
  PROVE  CatalogInv'
PROOF
<1> DEFINE k == caller[c]
           f == file[k.root]
<1>1. /\ CatalogTypes /\ Free \subseteq Roots /\ CallHolds(k, file, lastEdit, Free)
      /\ UNCHANGED <<file, lastEdit, amid, rootRow, rootKept, now, edits>>
      /\ \A r \in Free : EditStands(r)
      /\ entry \subseteq Entry /\ \A e \in entry : EntryHolds(e, file, Free, now)
  BY DEF CatalogInv, CatalogTypes, Free, StatWritten, KeepCatalog, Kept, Counts
<1>2. CASE StatWritten(c)
  <2>1. CallAt(c, "written") /\ k \in HasFile /\ ~CallAt(c, "row set") /\ k.step = "written"
    BY <1>1, <1>2, HandIs DEF StatWritten, CallAt, FileSteps
  <2>2. k.root \in Roots /\ k.source = k.root /\ f \in Written /\ k.revision \in Nat
        /\ k.revision <= f.written
    BY <1>1, <2>1 DEF HasFile, CatalogTypes, CallHolds, FileSteps
  <2> DEFINE to == [k EXCEPT !.step = "parsed",
                             !.revision = IF f.form = "absent" THEN k.revision ELSE f.written]
  <2>3. GoTo(c, to)
    BY <1>2 DEF StatWritten
  <2>4. /\ to \in HasFile /\ to \in InHand /\ to.step = "parsed" /\ to.source = k.source
        /\ to.root = k.root /\ to.text = k.text /\ to.revision <= f.written
    <3> DEFINE rev == IF f.form = "absent" THEN k.revision ELSE f.written
    <3>1. rev \in Nat /\ rev <= f.written
      BY <2>2 DEF Written
    <3>2. to = [k EXCEPT !.step = "parsed", !.revision = rev]
      OBVIOUS
    <3> HIDE DEF rev, to
    <3>3. /\ to.step = "parsed" /\ to.source = k.source /\ to.root = k.root
          /\ to.text = k.text /\ to.revision = rev /\ to \in HasFile
      BY <2>1, <3>1, <3>2 DEF HasFile, FileSteps
    <3>4. QED BY <3>1, <3>3 DEF InHand
  <2> HIDE DEF to
  <2>5. \A r \in Free : r = k.root => k.text = lastEdit[r].text
    BY <1>1, <2>1 DEF CallHolds, Writes
  <2>6. \A r \in Free : r = k.root => k.text = f.text
    BY <1>1, <2>5 DEF EditStands
  <2>7. CallHolds(to, file, lastEdit, Free)
    BY <2>2, <2>4, <2>6 DEF CallHolds, Writes, Fresh
  <2>8. entry' = entry
    BY <1>2 DEF StatWritten, Kept
  <2>9. QED BY <1>1, <2>1, <2>3, <2>4, <2>7, <2>8, CallGoes
<1>3. CASE KeepCatalog(c)
  <2>1. CallAt(c, "parsed") /\ k \in HasFile /\ ~CallAt(c, "row set") /\ k.step = "parsed"
    BY <1>1, <1>3, HandIs DEF KeepCatalog, CallAt, FileSteps
  <2> DEFINE e == [source |-> k.source, revision |-> k.revision, text |-> k.text]
  <2>2. entry' = {e} /\ GoTo(c, Resting)
    BY <1>3 DEF KeepCatalog
  <2>3. e \in Entry
    BY <2>1 DEF HasFile, Entry
  <2>4. EntryHolds(e, file, Free, now)
    <3>1. e.source = k.source /\ e.revision = k.revision /\ e.text = k.text
          /\ k.revision \in Nat
      BY <2>1 DEF HasFile
    <3>2. \A r \in Roots : file[r].written \in Nat /\ now \in Nat /\ file[r].written <= now
      BY DEF CatalogInv, CatalogTypes, Written
    <3> HIDE DEF e
    <3>3. e.source \in Roots => e.revision <= now
      <4>1. e.source \in Roots => k.revision <= file[k.source].written
        BY <1>1, <2>1, <3>1 DEF CallHolds, FileSteps
      <4>2. QED BY <3>1, <3>2, <4>1
    <3>4. \A r \in Free : e.source = r => Fresh(e.revision, e.text, file[r])
      BY <1>1, <2>1, <3>1 DEF CallHolds
    <3>5. QED BY <3>3, <3>4 DEF EntryHolds
  <2>5. Resting \in InHand /\ Resting.step = "rest"
    BY DEF InHand, Resting
  <2>6. CallHolds(Resting, file, lastEdit, Free)
    BY <1>1, <2>5, NoneHolds DEF FileSteps
  <2> HIDE DEF e
  <2>7. entry' \subseteq Entry /\ \A x \in entry' : EntryHolds(x, file, Free, now)
    BY <2>2, <2>3, <2>4
  <2>8. QED BY <1>1, <2>1, <2>2, <2>5, <2>6, <2>7, CallGoes
<1>4. QED BY <1>2, <1>3

\* A file is written: every revision anybody knows is of the past.
LEMMA RevisionsAge ==
  ASSUME CatalogInv, NEW s \in Roots, NEW form \in Forms, NEW text \in Nat,
         file' = [file EXCEPT ![s] = [form |-> form, text |-> text, written |-> now + 1]],
         now' = now + 1, Free' \subseteq Free \cup {s}
  PROVE  /\ file' \in [Roots -> Written]
         /\ \A r \in Roots : file'[r].written <= now'
         /\ \A r \in Roots : file'[r] = IF r = s THEN [form |-> form, text |-> text,
                                                      written |-> now + 1] ELSE file[r]
         /\ \A e \in entry : EntryHolds(e, file', Free', now')
         /\ \A d \in CatalogCallers : LET k == caller[d] IN
              k.step \in FileSteps /\ k.source \in Roots =>
                /\ k.revision <= file'[k.source].written
                /\ k.step \in {"resolved", "filled", "parsed"} /\ k.source \in Free' =>
                     Fresh(k.revision, k.text, file'[k.source])
PROOF
<1> DEFINE new == [form |-> form, text |-> text, written |-> now + 1]
<1>1. /\ CatalogTypes /\ file \in [Roots -> Written] /\ now \in Nat
      /\ \A r \in Roots : file[r].written \in Nat /\ file[r].written <= now
  BY DEF CatalogInv, CatalogTypes, Written
<1>2. new \in Written /\ new.written = now + 1
  BY <1>1 DEF Written
<1> HIDE DEF new
<1>3. /\ file' \in [Roots -> Written]
      /\ \A r \in Roots : file'[r] = IF r = s THEN new ELSE file[r]
  BY <1>1, <1>2 DEF new
<1>4. \A r \in Roots : file'[r].written <= now' /\ file[r].written <= file'[r].written
  BY <1>1, <1>2, <1>3
<1>5. ASSUME NEW revision \in Nat, NEW r \in Free', NEW t,
             revision <= file[s].written \/ revision <= now, r = s
      PROVE  Fresh(revision, t, file'[r])
  <2>1. file'[r].written = now + 1 /\ revision # now + 1
    BY <1>1, <1>2, <1>3, <1>5
  <2>2. QED BY <2>1 DEF Fresh
<1>6. ASSUME NEW e \in entry
      PROVE  EntryHolds(e, file', Free', now')
  <2>1. EntryHolds(e, file, Free, now) /\ e.revision \in Nat
    BY <1>1 DEF CatalogInv, CatalogTypes, Entry
  <2>2. e.source \in Roots => e.revision <= now /\ e.revision <= now'
    BY <1>1, <2>1 DEF EntryHolds
  <2>3. ASSUME NEW r \in Free', e.source = r
        PROVE  Fresh(e.revision, e.text, file'[r])
    <3>1. r \in Roots
      BY DEF Free
    <3>2. CASE r = s
      BY <1>5, <2>1, <2>2, <2>3, <3>1, <3>2
    <3>3. CASE r # s
      BY <1>3, <2>1, <2>3, <3>1, <3>3 DEF EntryHolds
    <3>4. QED BY <3>2, <3>3
  <2>4. QED BY <2>2, <2>3 DEF EntryHolds
<1>7. ASSUME NEW d \in CatalogCallers, caller[d].step \in FileSteps, caller[d].source \in Roots
      PROVE  /\ caller[d].revision <= file'[caller[d].source].written
             /\ caller[d].step \in {"resolved", "filled", "parsed"}
                  /\ caller[d].source \in Free' =>
                  Fresh(caller[d].revision, caller[d].text, file'[caller[d].source])
  <2> DEFINE k == caller[d]
  <2>1. CallHolds(k, file, lastEdit, Free) /\ k \in HasFile
    BY <1>1, <1>7, HandIs DEF CatalogInv
  <2>2. k.revision \in Nat /\ k.revision <= file[k.source].written
    BY <1>7, <2>1 DEF CallHolds, HasFile
  <2>3. k.revision <= file'[k.source].written
    <3>1. file'[k.source].written \in Nat
      BY <1>3, <1>7 DEF Written
    <3>2. QED BY <1>1, <1>4, <1>7, <2>2, <3>1
  <2>4. ASSUME k.step \in {"resolved", "filled", "parsed"}, k.source \in Free'
        PROVE  Fresh(k.revision, k.text, file'[k.source])
    <3>1. CASE k.source = s
      BY <1>5, <2>2, <2>4, <3>1
    <3>2. CASE k.source # s
      BY <1>3, <1>7, <2>1, <2>4, <3>2 DEF CallHolds
    <3>3. QED BY <3>1, <3>2
  <2>5. QED BY <2>3, <2>4
<1>8. QED BY <1>3, <1>4, <1>6, <1>7 DEF new

\* A load writes the file back with its defaults filled in, or cannot.
LEMMA WriteBackKeeps ==
  ASSUME CatalogInv, NEW c \in CatalogCallers, WriteBack(c)
  PROVE  CatalogInv'
PROOF
<1> DEFINE k == caller[c]
<1>1. /\ CatalogTypes /\ RootInv /\ Free \subseteq Roots /\ CallHolds(k, file, lastEdit, Free)
      /\ UNCHANGED <<lastEdit, amid, rootRow, rootKept, edits, entry>>
      /\ \A r \in Free : EditStands(r)
      /\ entry \subseteq Entry /\ \A e \in entry : EntryHolds(e, file, Free, now)
  BY DEF CatalogInv, CatalogTypes, Free, WriteBack, Kept, Counts
<1>2. CallAt(c, "filled") /\ k \in HasFile /\ ~CallAt(c, "row set") /\ k.step = "filled"
  BY <1>1, HandIs DEF WriteBack, CallAt, FileSteps
<1>3. k.root \in Roots /\ k.source = k.root /\ k.text \in Nat /\ k.force \in BOOLEAN
  BY <1>1, <1>2 DEF HasFile, CallHolds
<1>4. CASE Recover(c) /\ UNCHANGED <<file, now>>
  <2> DEFINE to == [step |-> "parsed", force |-> k.force, root |-> k.root,
                    source |-> Embedded, revision |-> 0, form |-> "full", text |-> 0]
  <2>1. to \in HasFile /\ to \in InHand /\ GoTo(c, to)
    BY <1>3, <1>4 DEF HasFile, InHand, FileSteps, Forms, Recover, Found
  <2>2. to.step = "parsed" /\ to.source = Embedded /\ to.form = "full"
    OBVIOUS
  <2> HIDE DEF to
  <2>3. CallHolds(to, file, lastEdit, Free)
    BY <1>1, <2>1, <2>2, NoneHolds
  <2>4. QED BY <1>1, <1>2, <1>4, <2>1, <2>2, <2>3, CallGoes
<1>5. CASE /\ now' = now + 1 /\ GoTo(c, [k EXCEPT !.step = "written"])
           /\ file' = [file EXCEPT ![k.root] =
                         [form |-> "full", text |-> k.text, written |-> now']]
  <2> DEFINE to == [k EXCEPT !.step = "written"]
             new == [form |-> "full", text |-> k.text, written |-> now + 1]
  <2>1. /\ to \in HasFile /\ to \in InHand /\ to.step = "written" /\ to.source = k.source
        /\ to.root = k.root /\ to.text = k.text /\ to.revision = k.revision
    BY <1>2 DEF HasFile, InHand, FileSteps
  <2>2. /\ file' \in [Roots -> Written]
        /\ \A r \in Roots : file'[r].written <= now'
        /\ \A r \in Roots : file'[r] = IF r = k.root THEN new ELSE file[r]
        /\ \A e \in entry : EntryHolds(e, file', Free', now')
        /\ \A d \in CatalogCallers :
              caller[d].step \in FileSteps /\ caller[d].source \in Roots =>
                /\ caller[d].revision <= file'[caller[d].source].written
                /\ caller[d].step \in {"resolved", "filled", "parsed"}
                     /\ caller[d].source \in Free' =>
                     Fresh(caller[d].revision, caller[d].text, file'[caller[d].source])
    <3>1. "full" \in Forms /\ Free' \subseteq Free \cup {k.root}
      BY <1>1 DEF Forms, Free
    <3>2. file' = [file EXCEPT ![k.root] =
                     [form |-> "full", text |-> k.text, written |-> now + 1]]
      BY <1>5
    <3>3. QED BY <1>3, <1>5, <3>1, <3>2, RevisionsAge
  <2>3. Free' = Free
    BY <1>1 DEF Free
  <2>4. /\ caller' \in [CatalogCallers -> InHand]
        /\ \A d \in CatalogCallers : caller'[d] = IF d = c THEN to ELSE caller[d]
    BY <1>1, <1>5, <2>1 DEF GoTo, CatalogTypes
  <2> HIDE DEF to, new
  <2>5. CatalogTypes'
    BY <1>1, <1>5, <2>2, <2>4 DEF CatalogTypes
  <2>6. RootInv'
    <3>1. \A d \in CatalogCallers : HoldsRoot(d)' => HoldsRoot(d) /\ caller'[d] = caller[d]
      BY <2>1, <2>4 DEF HoldsRoot, CallAt
    <3>2. \A d \in CatalogCallers : CallAt(d, "row set") => CallAt(d, "row set")'
      BY <1>2, <2>4 DEF CallAt
    <3>3. RootInForce' = RootInForce
      BY <1>1, InForce
    <3>4. QED BY <1>1, <3>1, <3>2, <3>3 DEF RootInv
  <2>7. ASSUME NEW d \in CatalogCallers, d # c
        PROVE  CallHolds(caller[d], file', lastEdit, Free)
    <3>1. CallHolds(caller[d], file, lastEdit, Free)
      BY DEF CatalogInv
    <3>2. ASSUME NEW r \in Free, caller[d].step \in {"resolved", "filled", "parsed"},
                 caller[d].source = r
          PROVE  Fresh(caller[d].revision, caller[d].text, file'[r])
      BY <1>1, <2>2, <2>3, <3>2 DEF FileSteps
    <3>3. caller[d].step \in FileSteps /\ caller[d].source \in Roots =>
            caller[d].revision <= file'[caller[d].source].written
      BY <2>2
    <3>4. QED BY <3>1, <3>2, <3>3 DEF CallHolds
  <2>8. CallHolds(to, file', lastEdit, Free)
    <3>1. k.revision <= file'[k.source].written
      BY <1>2, <1>3, <2>2 DEF FileSteps
    <3>2. \A r \in Free : Writes(to, r) => Writes(k, r)
      BY <1>2, <2>1 DEF Writes
    <3>3. QED BY <1>1, <1>3, <2>1, <3>1, <3>2 DEF CallHolds
  <2>9. \A r \in Free : EditStands(r)'
    <3>1. ASSUME NEW r \in Free, r = k.root
          PROVE  file'[r].text = lastEdit[r].text /\ file'[r].form = "full"
                 /\ lastEdit[r].form = "sparse"
      <4>1. k.text = lastEdit[r].text /\ lastEdit[r].form = "sparse"
        BY <1>1, <1>2, <3>1 DEF CallHolds, Writes
      <4>2. QED BY <1>3, <2>2, <3>1, <4>1 DEF new
    <3>2. \A r \in Free : r # k.root => file'[r] = file[r]
      BY <1>1, <2>2
    <3>3. QED BY <1>1, <3>1, <3>2 DEF EditStands
  <2>10. \A d \in CatalogCallers : CallHolds(caller'[d], file', lastEdit, Free)
    BY <2>4, <2>7, <2>8
  <2>11. QED BY <1>1, <2>2, <2>3, <2>5, <2>6, <2>9, <2>10 DEF CatalogInv
<1>6. QED BY <1>4, <1>5 DEF WriteBack

\* The user edits the file of a root.
LEMMA EditKeeps ==
  ASSUME CatalogInv, NEW s \in Roots, NEW form \in Forms, EditFile(s, form)
  PROVE  CatalogInv'
PROOF
<1> DEFINE new == [form |-> form, text |-> edits + 1, written |-> now + 1]
<1>1. /\ CatalogTypes /\ RootInv /\ Free \subseteq Roots
      /\ now' = now + 1 /\ edits' = edits + 1 /\ edits' \in Nat /\ now \in Nat /\ edits + 1 \in Nat
      /\ UNCHANGED <<rootRow, rootKept, entry, caller>>
      /\ file' = [file EXCEPT ![s] = [form |-> form, text |-> edits + 1, written |-> now + 1]]
      /\ lastEdit' = [lastEdit EXCEPT ![s] = [form |-> form, text |-> edits + 1]]
      /\ amid' = IF \E c \in CatalogCallers : Overwrites(c, s) THEN amid \cup {s}
                 ELSE amid \ {s}
  BY DEF CatalogInv, CatalogTypes, Free, EditFile, Kept
<1>2. Free' \subseteq Free \cup {s} /\ ("root" \in amid' <=> "root" \in amid)
  BY <1>1, CatalogAssumption DEF Free, CatalogAssumption
<1>3. /\ file' \in [Roots -> Written]
      /\ \A r \in Roots : file'[r].written <= now'
      /\ \A r \in Roots : file'[r] = IF r = s THEN new ELSE file[r]
      /\ \A e \in entry : EntryHolds(e, file', Free', now')
      /\ \A d \in CatalogCallers :
            caller[d].step \in FileSteps /\ caller[d].source \in Roots =>
              /\ caller[d].revision <= file'[caller[d].source].written
              /\ caller[d].step \in {"resolved", "filled", "parsed"}
                   /\ caller[d].source \in Free' =>
                   Fresh(caller[d].revision, caller[d].text, file'[caller[d].source])
  BY <1>1, <1>2, RevisionsAge
<1>4. /\ lastEdit' \in [Roots -> [form : Forms, text : Nat]]
      /\ \A r \in Roots : lastEdit'[r] = IF r = s THEN [form |-> form, text |-> edits + 1]
                                        ELSE lastEdit[r]
  BY <1>1 DEF CatalogTypes
<1>5. CatalogTypes'
  BY <1>1, <1>3, <1>4 DEF CatalogTypes
<1>6. RootInv'
  BY <1>1, <1>2 DEF RootInv, HoldsRoot, CallAt, RootInForce
<1>7. s \in Free' => \A c \in CatalogCallers : ~Writes(caller[c], s)
  BY <1>1 DEF Free, Overwrites, Writes, CallAt
<1>8. ASSUME NEW d \in CatalogCallers
      PROVE  CallHolds(caller[d], file', lastEdit', Free')
  <2>1. CallHolds(caller[d], file, lastEdit, Free)
    BY DEF CatalogInv
  <2>2. ASSUME NEW r \in Free', caller[d].step \in {"resolved", "filled", "parsed"},
               caller[d].source = r
        PROVE  Fresh(caller[d].revision, caller[d].text, file'[r])
    BY <1>3, <2>2 DEF Free, FileSteps
  <2>3. ASSUME NEW r \in Free', Writes(caller[d], r)
        PROVE  caller[d].text = lastEdit'[r].text /\ lastEdit'[r].form = "sparse"
    <3>1. r # s /\ r \in Free /\ r \in Roots
      BY <1>1, <1>2, <1>7, <2>3
    <3>2. QED BY <1>4, <2>1, <2>3, <3>1 DEF CallHolds
  <2>4. caller[d].step \in FileSteps /\ caller[d].source \in Roots =>
          caller[d].revision <= file'[caller[d].source].written
    BY <1>3
  <2>5. QED BY <2>1, <2>2, <2>3, <2>4 DEF CallHolds
<1>9. ASSUME NEW r \in Free'
      PROVE  EditStands(r)'
  <2>1. r \in Roots
    BY DEF Free
  <2>2. CASE r = s
    BY <1>3, <1>4, <2>1, <2>2 DEF EditStands
  <2>3. CASE r # s
    <3>1. EditStands(r) /\ file'[r] = file[r] /\ lastEdit'[r] = lastEdit[r]
      BY <1>2, <1>3, <1>4, <2>1, <2>3 DEF CatalogInv
    <3>2. QED BY <3>1 DEF EditStands
  <2>4. QED BY <2>2, <2>3
<1>10. QED BY <1>1, <1>3, <1>5, <1>6, <1>8, <1>9 DEF CatalogInv

\* What happens to the root leaves the files and what calls know of them alone.
LEMMA RootGoes ==
  ASSUME CatalogInv, UNCHANGED <<file, lastEdit, now, edits>>, entry' \subseteq entry,
         Free' = Free, CatalogTypes', RootInv',
         \A d \in CatalogCallers : caller'[d] = caller[d] \/ caller'[d].step \notin FileSteps
  PROVE  CatalogInv'
PROOF
<1>1. ASSUME NEW d \in CatalogCallers
      PROVE  CallHolds(caller'[d], file, lastEdit, Free)
  <2>1. CASE caller'[d] = caller[d]
    BY <2>1 DEF CatalogInv
  <2>2. CASE caller'[d].step \notin FileSteps
    <3>1. Free \subseteq Roots
      BY DEF Free
    <3>2. QED BY <2>2, <3>1, NoneHolds
  <2>3. QED BY <2>1, <2>2
<1>2. \A e \in entry' : EntryHolds(e, file, Free, now)
  BY DEF CatalogInv
<1>3. \A r \in Free : EditStands(r)'
  BY DEF CatalogInv, EditStands
<1>4. QED BY <1>1, <1>2, <1>3 DEF CatalogInv

\* The steps of SetCatalogRoot and GetCatalogRoot, and a restart.
LEMMA RootStepsKeep ==
  ASSUME CatalogInv, NEW c \in CatalogCallers,
         \/ \E r \in Roots : SetCatalogRoot(c, r)
         \/ \E force \in BOOLEAN : BeginLoad(c, force)
         \/ KeepSetRoot(c) \/ ReadRootRow(c) \/ KeepReadRoot(c)
  PROVE  CatalogInv'
PROOF
<1>1. CatalogTypes /\ RootInv /\ caller \in [CatalogCallers -> InHand]
  BY DEF CatalogInv, CatalogTypes
<1>2. ASSUME NEW to \in InHand, GoTo(c, to)
      PROVE  /\ caller' \in [CatalogCallers -> InHand]
             /\ \A d \in CatalogCallers : caller'[d] = IF d = c THEN to ELSE caller[d]
  BY <1>1, <1>2 DEF GoTo
<1>3. CASE \E r \in Roots : SetCatalogRoot(c, r)
  <2>1. PICK r \in Roots : SetCatalogRoot(c, r)
    BY <1>3
  <2> DEFINE to == [step |-> "row set", root |-> r]
  <2>2. /\ to \in InHand /\ to.step = "row set" /\ to.root = r
    BY DEF InHand, SetsRoot
  <2>3. /\ GoTo(c, to) /\ rootRow' = {r} /\ CallAt(c, "rest")
        /\ UNCHANGED <<file, rootKept, entry, lastEdit, now, edits>>
        /\ amid' = IF \E d \in CatalogCallers \ {c} : HoldsRoot(d) THEN amid \cup {"root"}
                   ELSE amid \ {"root"}
    BY <2>1 DEF SetCatalogRoot, StartCall
  <2> HIDE DEF to
  <2>4. /\ caller' \in [CatalogCallers -> InHand]
        /\ \A d \in CatalogCallers : caller'[d] = IF d = c THEN to ELSE caller[d]
    BY <1>2, <2>2, <2>3
  <2>5. CatalogTypes'
    BY <1>1, <2>3, <2>4 DEF CatalogTypes
  <2>6. Free' = Free
    BY <2>3, CatalogAssumption DEF Free, CatalogAssumption
  <2>7. RootInForce' = r
    BY <2>3, <2>5 DEF RootInForce
  <2>8. RootInv'
    <3>1. ASSUME "root" \notin amid', NEW d \in CatalogCallers, HoldsRoot(d)'
          PROVE  caller'[d].root = r
      <4>1. d # c => HoldsRoot(d)
        BY <2>4, <3>1 DEF HoldsRoot, CallAt
      <4>2. d = c
        BY <2>3, <3>1, <4>1
      <4>3. QED BY <2>2, <2>4, <4>2
    <3>2. CallAt(c, "row set")'
      BY <2>2, <2>4 DEF CallAt
    <3>3. QED BY <2>7, <3>1, <3>2 DEF RootInv
  <2>9. \A d \in CatalogCallers : caller'[d] = caller[d] \/ caller'[d].step \notin FileSteps
    BY <2>2, <2>4 DEF FileSteps
  <2>10. QED BY <2>3, <2>5, <2>6, <2>8, <2>9, RootGoes
<1>4. ASSUME NEW to \in InHand, GoTo(c, to), to.step \notin FileSteps,
             UNCHANGED <<file, rootRow, lastEdit, amid, now, edits>>, entry' \subseteq entry,
             rootKept' = {} \/ \E r \in Roots : rootKept' = {r},
             to.step \in {"row set", "row read"} => to.root = RootInForce,
             \/ rootKept' = rootKept /\ ~CallAt(c, "row set")
             \/ HoldsRoot(c) /\ rootKept' = {caller[c].root}
      PROVE  CatalogInv'
  <2>1. /\ caller' \in [CatalogCallers -> InHand]
        /\ \A d \in CatalogCallers : caller'[d] = IF d = c THEN to ELSE caller[d]
    BY <1>2, <1>4
  <2>2. CatalogTypes'
    BY <1>1, <1>4, <2>1 DEF CatalogTypes
  <2>3. Free' = Free /\ RootInForce' = RootInForce
    <3>1. rootRow' = rootRow /\ amid' = amid
      BY <1>4
    <3>2. QED BY <1>1, <3>1, InForce DEF Free
  <2>4. RootInv'
    <3>1. ASSUME "root" \notin amid
          PROVE  \A d \in CatalogCallers : HoldsRoot(d)' => caller'[d].root = RootInForce
      BY <1>1, <1>4, <2>1, <3>1 DEF RootInv, HoldsRoot, CallAt
    <3>2. ASSUME "root" \notin amid
          PROVE  \/ rootKept' \subseteq {RootInForce}
                 \/ \E d \in CatalogCallers : CallAt(d, "row set")'
      <4>1. CASE rootKept' = rootKept /\ ~CallAt(c, "row set")
        <5>1. \A d \in CatalogCallers : CallAt(d, "row set") => CallAt(d, "row set")'
          BY <2>1, <4>1 DEF CallAt
        <5>2. QED BY <1>1, <3>2, <4>1, <5>1 DEF RootInv
      <4>2. CASE HoldsRoot(c) /\ rootKept' = {caller[c].root}
        BY <1>1, <3>2, <4>2 DEF RootInv
      <4>3. QED BY <1>4, <4>1, <4>2
    <3>3. QED BY <1>4, <2>3, <3>1, <3>2 DEF RootInv
  <2>5. \A d \in CatalogCallers : caller'[d] = caller[d] \/ caller'[d].step \notin FileSteps
    BY <1>4, <2>1
  <2>6. QED BY <1>4, <2>2, <2>3, <2>4, <2>5, RootGoes
<1>5. Resting \in InHand /\ Resting.step = "rest"
  BY DEF InHand, Resting
<1>6. CASE \E force \in BOOLEAN : BeginLoad(c, force)
  <2>1. PICK force \in BOOLEAN : BeginLoad(c, force)
    BY <1>6
  <2> DEFINE without == [step |-> "no root", force |-> force]
             with == [step |-> "root", force |-> force, root |-> CHOOSE r \in rootKept : TRUE]
             to == IF rootKept = {} THEN without ELSE with
  <2>2. to \in InHand /\ to.step \in {"no root", "root"}
    <3>1. without \in InHand /\ without.step = "no root"
      BY DEF InHand, SeeksRoot
    <3>2. rootKept # {} => with \in InHand /\ with.step = "root"
      BY <1>1, RootsAre DEF InHand, HasRoot
    <3>3. QED BY <3>1, <3>2
  <2>3. /\ GoTo(c, to) /\ CallAt(c, "rest")
        /\ UNCHANGED <<file, rootKept, rootRow, amid, entry, lastEdit, now, edits>>
    BY <2>1 DEF BeginLoad, StartCall
  <2> HIDE DEF to
  <2>4. rootKept' = {} \/ \E r \in Roots : rootKept' = {r}
    BY <1>1, <2>3 DEF CatalogTypes
  <2>5. to.step \notin FileSteps /\ to.step \notin {"row set", "row read"} /\ ~CallAt(c, "row set")
    BY <2>2, <2>3 DEF FileSteps, CallAt
  <2>6. QED BY <1>4, <2>2, <2>3, <2>4, <2>5
<1>7. CASE KeepSetRoot(c)
  <2>1. caller[c] \in SetsRoot /\ HoldsRoot(c)
    BY <1>1, <1>7, HandIs DEF KeepSetRoot, HoldsRoot
  <2>2. caller[c].root \in Roots
    BY <2>1 DEF SetsRoot
  <2>3. /\ rootKept' = {caller[c].root} /\ entry' = {} /\ GoTo(c, Resting)
        /\ UNCHANGED <<file, rootRow, lastEdit, amid, now, edits>>
    BY <1>7 DEF KeepSetRoot, Counts
  <2>4. Resting.step \notin FileSteps /\ Resting.step \notin {"row set", "row read"}
    BY <1>5 DEF FileSteps
  <2>5. QED BY <1>4, <1>5, <2>1, <2>2, <2>3, <2>4
<1>8. CASE ReadRootRow(c)
  <2>1. /\ CallAt(c, "no root") /\ ~CallAt(c, "row set") /\ caller[c] \in SeeksRoot
        /\ UNCHANGED <<file, rootRow, rootKept, entry, lastEdit, amid, now, edits>>
    BY <1>1, <1>8, HandIs DEF ReadRootRow, CallAt, Kept, Counts
  <2>2. rootKept' = {} \/ \E r \in Roots : rootKept' = {r}
    BY <1>1, <2>1 DEF CatalogTypes
  <2>3. CASE GoTo(c, Resting)
    BY <1>4, <1>5, <2>1, <2>2, <2>3 DEF FileSteps
  <2>4. CASE GoTo(c, [step |-> "row read", force |-> caller[c].force, root |-> RootInForce])
    <3> DEFINE to == [step |-> "row read", force |-> caller[c].force, root |-> RootInForce]
    <3>1. to \in InHand /\ to.step = "row read" /\ to.root = RootInForce
      BY <1>1, <2>1, RootsAre DEF InHand, HasRoot, SeeksRoot
    <3> HIDE DEF to
    <3>2. QED BY <1>4, <2>1, <2>2, <2>4, <3>1 DEF FileSteps, to
  <2>5. QED BY <1>8, <2>3, <2>4 DEF ReadRootRow
<1>9. CASE KeepReadRoot(c)
  <2>1. caller[c] \in HasRoot /\ HoldsRoot(c)
    BY <1>1, <1>9, HandIs DEF KeepReadRoot, HoldsRoot
  <2> DEFINE to == [caller[c] EXCEPT !.step = "root"]
  <2>2. caller[c].root \in Roots /\ to \in InHand /\ to.step = "root"
    BY <2>1 DEF InHand, HasRoot
  <2>3. /\ rootKept' = {caller[c].root} /\ GoTo(c, to)
        /\ UNCHANGED <<file, rootRow, entry, lastEdit, amid, now, edits>>
    BY <1>9 DEF KeepReadRoot, Counts
  <2> HIDE DEF to
  <2>4. to.step \notin FileSteps /\ to.step \notin {"row set", "row read"}
    BY <2>2 DEF FileSteps
  <2>5. QED BY <1>4, <2>1, <2>2, <2>3, <2>4
<1>10. QED BY <1>3, <1>6, <1>7, <1>8, <1>9

\* The program starts again: what was in memory is gone.
LEMMA RestartKeeps ==
  ASSUME CatalogInv, RestartHub
  PROVE  CatalogInv'
PROOF
<1>1. /\ rootKept' = {} /\ entry' = {} /\ caller' = [c \in CatalogCallers |-> Resting]
      /\ amid' = amid \ {"root"}
      /\ UNCHANGED <<file, rootRow, lastEdit, now, edits>>
  BY DEF RestartHub, Counts
<1>2. Resting \in InHand /\ Resting.step = "rest"
  BY DEF InHand, Resting
<1>3. /\ caller' \in [CatalogCallers -> InHand]
      /\ \A d \in CatalogCallers : caller'[d] = Resting
  BY <1>1, <1>2
<1>4. CatalogTypes'
  BY <1>1, <1>3 DEF CatalogInv, CatalogTypes
<1>5. RootInv'
  BY <1>1, <1>2, <1>3 DEF RootInv, HoldsRoot, CallAt
<1>6. Free' = Free
  BY <1>1, CatalogAssumption DEF Free, CatalogAssumption
<1>7. \A d \in CatalogCallers : caller'[d].step \notin FileSteps
  BY <1>2, <1>3 DEF FileSteps
<1>8. QED BY <1>1, <1>4, <1>5, <1>6, <1>7, RootGoes

\* CatalogInv is inductive.
LEMMA CatalogInvariant == CatalogSpec => []CatalogInv
PROOF
<1>1. CatalogInit => CatalogInv
  <2>1. SUFFICES ASSUME CatalogInit PROVE CatalogInv
    OBVIOUS
  <2>2. Resting \in InHand /\ Resting.step = "rest" /\ "absent" \in Forms
    BY DEF InHand, Resting, Forms
  <2>3. \A c \in CatalogCallers : caller[c] = Resting
    BY <2>1 DEF CatalogInit
  <2>4. CatalogTypes
    BY <2>1, <2>2 DEF CatalogInit, CatalogTypes, Written
  <2>5. RootInv
    BY <2>1, <2>2, <2>3 DEF CatalogInit, RootInv, HoldsRoot, CallAt
  <2>6. \A c \in CatalogCallers : CallHolds(caller[c], file, lastEdit, Free)
    <3>1. Free \subseteq Roots
      BY DEF Free
    <3>2. QED BY <2>2, <2>3, <3>1, NoneHolds DEF FileSteps
  <2>7. \A r \in Roots : file[r].written <= now /\ EditStands(r)
    BY <2>1 DEF CatalogInit, EditStands
  <2>8. entry = {}
    BY <2>1 DEF CatalogInit
  <2>9. QED BY <2>4, <2>5, <2>6, <2>7, <2>8 DEF CatalogInv, Free
<1>2. CatalogInv /\ [CatalogNext]_catalogVars => CatalogInv'
  <2>1. SUFFICES ASSUME CatalogInv, [CatalogNext]_catalogVars PROVE CatalogInv'
    OBVIOUS
  <2>2. ASSUME NEW c \in CatalogCallers,
               \/ \E r \in Roots : SetCatalogRoot(c, r)
               \/ \E force \in BOOLEAN : BeginLoad(c, force)
               \/ KeepSetRoot(c) \/ ReadRootRow(c) \/ KeepReadRoot(c)
        PROVE  CatalogInv'
    BY <2>1, <2>2, RootStepsKeep
  <2>3. ASSUME NEW c \in CatalogCallers, StatFile(c) \/ ReadFile(c) \/ LookUp(c)
        PROVE  CatalogInv'
    BY <2>1, <2>3, FileStepsKeep
  <2>4. ASSUME NEW c \in CatalogCallers, WriteBack(c) \/ StatWritten(c) \/ KeepCatalog(c)
        PROVE  CatalogInv'
    BY <2>1, <2>4, WriteBackKeeps, LastStepsKeep
  <2>5. CASE \E r \in Roots, form \in Forms : EditFile(r, form)
    BY <2>1, <2>5, EditKeeps
  <2>6. CASE RestartHub
    BY <2>1, <2>6, RestartKeeps
  <2>7. CASE UNCHANGED catalogVars
    BY <2>1, <2>7
    DEF catalogVars, CatalogInv, CatalogTypes, RootInv, HoldsRoot, CallAt, RootInForce,
        Free, EditStands
  <2>8. QED BY <2>1, <2>2, <2>3, <2>4, <2>5, <2>6, <2>7 DEF CatalogNext
<1>3. QED BY <1>1, <1>2, PTL DEF CatalogSpec

\* The catalog follows the last root that was set and the last edit of each file, whatever
\* loads, settings, failures and restarts overlap, but for the changes that fell amid a
\* call that held an older root or an older text.
THEOREM CatalogFollows == CatalogSpec => []LastChangeCounts
PROOF
<1>1. CatalogInv => LastChangeCounts
  <2>1. SUFFICES ASSUME CatalogInv PROVE LastChangeCounts
    OBVIOUS
  <2>2. "root" \in amid \/ RootAgrees
    BY <2>1 DEF CatalogInv, RootInv, RootAgrees, HoldsRoot
  <2>3. \A r \in Free : EditStands(r)
    BY <2>1 DEF CatalogInv
  <2>4. \A r \in Free : MemoryIsFresh(r)
    BY <2>1 DEF CatalogInv, EntryHolds, Fresh, MemoryIsFresh, Hit
  <2>5. QED BY <2>2, <2>3, <2>4 DEF LastChangeCounts, Free
<1>2. QED BY <1>1, CatalogInvariant, PTL
-------------------------------------------------------------------------------
(* The task graph of a conversation, for any number of tasks, any dependencies *)
(* and any number of tasks at once.                                            *)

TaskTypes ==
  /\ present \subseteq TaskIds
  /\ execution \in [TaskIds -> ExecutionStates]
  /\ override \in [TaskIds -> {"none", "executing", "completed", "failed", "cancelled"}]
  /\ explicit \in [TaskIds -> SUBSET TaskIds]
  /\ urgent \in [TaskIds -> BOOLEAN] /\ retriesLeft \in [TaskIds -> BOOLEAN]
  /\ maxParallelism \in Nat \ {0}

\* A set of numbers has a least one.
LEMMA FirstOf ==
  ASSUME NEW S, S \subseteq Nat, S # {}
  PROVE  \E x \in S : \A y \in S : x <= y
PROOF
<1> DEFINE R == {ss \in Nat \X Nat : ss[1] < ss[2]}
<1>1. IsWellFoundedOn(R, Nat)
  BY NatLessThanWellFounded DEF OpToRel
<1>2. \E x \in S : \A y \in S : <<y, x>> \notin R
  <2> HIDE DEF R
  <2> QED BY <1>1, WFMin
<1>3. \A x, y \in Nat : <<y, x>> \notin R => x <= y
  OBVIOUS
<1> HIDE DEF R
<1> QED BY <1>2, <1>3

\* A set of numbers that has 0 and with each number the next has them all.
LEMMA Stepwise ==
  ASSUME NEW n \in Nat, NEW S, 0 \in S, \A i \in 0..n : i # n /\ i \in S => i + 1 \in S
  PROVE  0..n \subseteq S
PROOF
<1> SUFFICES ASSUME (0..n) \ S # {} PROVE FALSE
  OBVIOUS
<1>1. PICK x \in (0..n) \ S : \A y \in (0..n) \ S : x <= y
  <2>1. (0..n) \ S \subseteq Nat
    OBVIOUS
  <2> QED BY <2>1, FirstOf
<1>2. x # 0 /\ x - 1 \in 0..n /\ x - 1 # n
  BY <1>1
<1>3. x - 1 \in S
  BY <1>1, <1>2
<1>4. x - 1 + 1 \in S
  BY <1>2, <1>3
<1> QED BY <1>1, <1>4

\* Before the first turn.
BeforePass == [shown |-> [t \in present |-> StateOf(t)], slots |-> FreeSlots]

\* The states and slots after each turn.
Pass(f, n) == f = [i \in 0..n |-> IF i = 0 THEN BeforePass ELSE TakeTurn(f[i - 1], i)]

\* There are such states and slots.
LEMMA PassExists ==
  ASSUME NEW n \in Nat
  PROVE  \E f : Pass(f, n)
PROOF
<1> DEFINE S == {i \in 0..n : \E f : Pass(f, i)}
<1>1. 0 \in S
  <2> DEFINE f == [i \in 0..0 |-> BeforePass]
  <2>1. Pass(f, 0)
    BY DEF Pass
  <2> HIDE DEF f
  <2> QED BY <2>1
<1>2. ASSUME NEW i \in 0..n, i # n, i \in S PROVE i + 1 \in S
  <2>1. PICK f : Pass(f, i)
    BY <1>2
  <2>2. f = [j \in 0..i |-> IF j = 0 THEN BeforePass ELSE TakeTurn(f[j - 1], j)]
    BY <2>1 DEF Pass
  <2> DEFINE g == [j \in 0..i + 1 |-> IF j = i + 1 THEN TakeTurn(f[i], i + 1) ELSE f[j]]
  <2>3. \A j \in 0..i + 1 : g[j] = IF j = 0 THEN BeforePass ELSE TakeTurn(g[j - 1], j)
    <3> SUFFICES ASSUME NEW j \in 0..i + 1
                 PROVE  g[j] = IF j = 0 THEN BeforePass ELSE TakeTurn(g[j - 1], j)
      OBVIOUS
    <3>1. CASE j = i + 1
      <4>1. g[j] = TakeTurn(f[i], i + 1) /\ g[j - 1] = f[i] /\ j # 0
        BY <3>1
      <4> QED BY <3>1, <4>1
    <3>2. CASE j # i + 1
      <4>1. j \in 0..i /\ g[j] = f[j] /\ (j # 0 => g[j - 1] = f[j - 1])
        BY <3>2
      <4> QED BY <2>2, <4>1
    <3> QED BY <3>1, <3>2
  <2>4. g = [j \in 0..i + 1 |-> g[j]]
    OBVIOUS
  <2> HIDE DEF g
  <2>5. g = [j \in 0..i + 1 |-> IF j = 0 THEN BeforePass ELSE TakeTurn(g[j - 1], j)]
    BY <2>3, <2>4
  <2>6. Pass(g, i + 1)
    BY <2>5 DEF Pass
  <2>7. i + 1 \in 0..n
    BY <1>2
  <2> QED BY <2>6, <2>7
<1> HIDE DEF S
<1>3. 0..n \subseteq S
  BY <1>1, <1>2, Stepwise
<1> QED BY <1>3 DEF S

\* The tasks that were let go in the first turns.
LetGo(done, n) ==
  {t \in present : Waits(t) /\ InOrder(t) <= n /\ done.shown[t] # "blocked"}

\* What holds after each turn of the pass.
Settled(done, n) ==
  /\ done.shown = [t \in present |-> done.shown[t]] /\ done.slots \in Nat
  /\ \A t \in present : (done.shown[t] = "completed") <=> (StateOf(t) = "completed")
SlotsCounted(done, n) == done.slots + Cardinality(LetGo(done, n)) = FreeSlots
OnlyReady(done, n) == \A t \in LetGo(done, n) : Ready(t)
FirstComeFirst(done, n) ==
  \A t \in present : Waits(t) /\ Ready(t) /\ InOrder(t) <= n /\ t \notin LetGo(done, n) =>
    done.slots = 0 /\ \A p \in LetGo(done, n) : InOrder(p) < InOrder(t)
Fair(done, n) ==
  Settled(done, n) /\ SlotsCounted(done, n) /\ OnlyReady(done, n) /\ FirstComeFirst(done, n)

\* Two tasks have not the same turn, and each has one.
LEMMA TurnsDiffer ==
  ASSUME TaskTypes
  PROVE  /\ \A t \in present : InOrder(t) \in 1..(2 * TaskCount)
         /\ \A t, u \in present : InOrder(t) = InOrder(u) => t = u
         /\ \A t, u \in present : InOrder(t) < InOrder(u) =>
              urgent[t] \/ (~urgent[u] /\ t < u)
PROOF
<1>1. TaskCount \in Nat /\ \A t \in present : t \in Nat /\ 1 <= t /\ t <= TaskCount
  BY TaskAssumption DEF TaskTypes, TaskIds
<1>2. \A t \in present : \/ urgent[t] /\ InOrder(t) = t
                         \/ ~urgent[t] /\ InOrder(t) = TaskCount + t
  BY DEF InOrder
<1>3. ASSUME NEW t \in present PROVE InOrder(t) \in 1..(2 * TaskCount)
  BY <1>1, <1>2
<1>4. ASSUME NEW t \in present, NEW u \in present, InOrder(t) = InOrder(u) PROVE t = u
  BY <1>1, <1>2, <1>4
<1>5. ASSUME NEW t \in present, NEW u \in present, InOrder(t) < InOrder(u)
      PROVE  urgent[t] \/ (~urgent[u] /\ t < u)
  BY <1>1, <1>2, <1>5
<1> QED BY <1>3, <1>4, <1>5

\* There are finitely many tasks.
LEMMA TasksFinite ==
  ASSUME TaskTypes, NEW S \in SUBSET present
  PROVE  IsFiniteSet(S) /\ Cardinality(S) \in Nat
PROOF
<1>1. IsFiniteSet(1..TaskCount)
  BY FS_Interval, TaskAssumption
<1>2. S \subseteq 1..TaskCount
  BY DEF TaskTypes, TaskIds
<1>3. IsFiniteSet(S)
  BY <1>1, <1>2, FS_Subset
<1> QED BY <1>3, FS_CardinalityType

\* The slots that are free are a number, and with no task at work there is one.
LEMMA SlotsAre ==
  ASSUME TaskTypes
  PROVE  /\ FreeSlots \in Nat
         /\ (\A t \in present : StateOf(t) # "running") => FreeSlots >= 1
PROOF
<1>1. PICK A : A = {t \in present : StateOf(t) = "running"}
  OBVIOUS
<1>2. Cardinality(A) \in Nat
  BY <1>1, TasksFinite
<1>3. FreeSlots = IF maxParallelism > Cardinality(A)
                  THEN maxParallelism - Cardinality(A) ELSE 0
  BY <1>1 DEF FreeSlots
<1>4. maxParallelism \in Nat /\ maxParallelism >= 1
  BY DEF TaskTypes
<1>5. ASSUME \A t \in present : StateOf(t) # "running" PROVE FreeSlots >= 1
  <2>1. A = {}
    BY <1>1, <1>5
  <2>2. Cardinality(A) = 0
    BY <2>1, FS_EmptySet
  <2> QED BY <1>3, <1>4, <2>2
<1> QED BY <1>2, <1>3, <1>4, <1>5

\* The pass starts fair,
LEMMA PassStarts ==
  ASSUME TaskTypes
  PROVE  Fair(BeforePass, 0)
PROOF
<1>1. BeforePass.shown = [t \in present |-> StateOf(t)] /\ BeforePass.slots = FreeSlots
  BY DEF BeforePass
<1>2. Settled(BeforePass, 0)
  BY <1>1, SlotsAre DEF Settled
<1>3. \A t \in present : ~ InOrder(t) <= 0
  BY TurnsDiffer, TaskAssumption
<1>4. LetGo(BeforePass, 0) = {}
  BY <1>3 DEF LetGo
<1>5. Cardinality({}) = 0
  BY FS_EmptySet
<1>6. SlotsCounted(BeforePass, 0)
  BY <1>1, <1>4, <1>5, SlotsAre DEF SlotsCounted
<1>7. OnlyReady(BeforePass, 0) /\ FirstComeFirst(BeforePass, 0)
  BY <1>3, <1>4 DEF OnlyReady, FirstComeFirst
<1> QED BY <1>2, <1>6, <1>7 DEF Fair

\* and each turn keeps it so.
LEMMA TurnIsFair ==
  ASSUME TaskTypes, NEW n \in Nat, NEW done, Fair(done, n)
  PROVE  Fair(TakeTurn(done, n + 1), n + 1)
PROOF
<1>1. PICK next : next = TakeTurn(done, n + 1)
  OBVIOUS
<1>2. /\ \A t \in present : InOrder(t) \in Nat
      /\ \A t, u \in present : InOrder(t) = InOrder(u) => t = u
  BY TurnsDiffer, TaskAssumption
<1>3. /\ done.shown = [t \in present |-> done.shown[t]] /\ done.slots \in Nat
      /\ \A t \in present : (done.shown[t] = "completed") <=> (StateOf(t) = "completed")
      /\ done.slots + Cardinality(LetGo(done, n)) = FreeSlots
      /\ \A t \in LetGo(done, n) : Ready(t)
  BY DEF Fair, Settled, SlotsCounted, OnlyReady
<1>4. ASSUME NEW t \in present, Waits(t), Ready(t), InOrder(t) <= n, t \notin LetGo(done, n)
      PROVE  done.slots = 0 /\ \A p \in LetGo(done, n) : InOrder(p) < InOrder(t)
  BY <1>4 DEF Fair, FirstComeFirst
<1>5. ASSUME next = done, \A t \in present : InOrder(t) = n + 1 => ~Waits(t)
      PROVE  Fair(next, n + 1)
  <2>1. LetGo(next, n + 1) = LetGo(done, n)
    BY <1>2, <1>5 DEF LetGo
  <2>2. Settled(next, n + 1) /\ SlotsCounted(next, n + 1) /\ OnlyReady(next, n + 1)
    BY <1>3, <1>5, <2>1 DEF Settled, SlotsCounted, OnlyReady
  <2>3. \A t \in present : Waits(t) /\ InOrder(t) <= n + 1 => InOrder(t) <= n
    BY <1>2, <1>5
  <2>4. FirstComeFirst(next, n + 1)
    BY <1>4, <1>5, <2>1, <2>3 DEF FirstComeFirst
  <2> QED BY <2>2, <2>4 DEF Fair
<1>6. CASE ~ \E t \in present : InOrder(t) = n + 1
  <2>1. next = done
    BY <1>1, <1>6 DEF TakeTurn
  <2> QED BY <1>1, <1>5, <1>6, <2>1
<1>7. CASE \E t \in present : InOrder(t) = n + 1
  <2>1. PICK t \in present : t = CHOOSE u \in present : InOrder(u) = n + 1
    BY <1>7
  <2>2. InOrder(t) = n + 1
    BY <1>7, <2>1
  <2>3. \A u \in present : InOrder(u) = n + 1 => u = t
    BY <1>2, <2>2
  <2>4. next = Place(done, t)
    BY <1>1, <1>7, <2>1 DEF TakeTurn
  <2>5. CASE ~Waits(t)
    <3>1. next = done
      BY <2>4, <2>5 DEF Place
    <3> QED BY <1>1, <1>5, <2>3, <2>5, <3>1
  <2>6. CASE Waits(t)
    <3>1. StateOf(t) # "completed"
      BY <2>6 DEF Waits, Retries
    <3>2. DependenciesReady(done.shown, t) <=> Ready(t)
      <4>1. DependsOn[t] \subseteq present
        BY DEF DependsOn, Sequential, Known
      <4> QED BY <1>3, <4>1 DEF DependenciesReady, Ready
    <3>3. t \notin LetGo(done, n)
      BY <1>2, <2>2 DEF LetGo
    <3>4. \A u \in present : InOrder(u) <= n + 1 /\ u # t => InOrder(u) <= n
      BY <1>2, <2>3
    <3>5. \A u \in present : InOrder(u) <= n => InOrder(u) <= n + 1 /\ u # t
      BY <1>2, <2>2
    <3>6. CASE Ready(t) /\ done.slots > 0
      <4>1. PICK s : s = IF Retries(t) THEN "retrying" ELSE "queued"
        OBVIOUS
      <4>2. s # "blocked" /\ s # "completed"
        BY <4>1
      <4>3. next = [shown |-> [done.shown EXCEPT ![t] = s], slots |-> done.slots - 1]
        BY <2>4, <2>6, <3>2, <3>6, <4>1 DEF Place
      <4>4. /\ next.shown = [u \in present |-> IF u = t THEN s ELSE done.shown[u]]
            /\ next.slots = done.slots - 1
        BY <1>3, <4>3
      <4>5. Settled(next, n + 1)
        BY <1>3, <3>1, <3>6, <4>2, <4>4 DEF Settled
      <4>6. LetGo(next, n + 1) = LetGo(done, n) \cup {t}
        BY <2>2, <2>6, <3>4, <3>5, <4>2, <4>4, <1>2 DEF LetGo
      <4>7. /\ IsFiniteSet(LetGo(done, n)) /\ Cardinality(LetGo(done, n)) \in Nat
        BY TasksFinite DEF LetGo
      <4>8. Cardinality(LetGo(done, n) \cup {t}) = Cardinality(LetGo(done, n)) + 1
        BY <3>3, <4>7, FS_AddElement
      <4>9. SlotsCounted(next, n + 1)
        <5>1. PICK k : k = Cardinality(LetGo(done, n))
          OBVIOUS
        <5>2. k \in Nat /\ done.slots \in Nat /\ done.slots + k = FreeSlots
          BY <1>3, <4>7, <5>1
        <5>3. Cardinality(LetGo(next, n + 1)) = k + 1
          BY <4>6, <4>8, <5>1
        <5>4. next.slots + (k + 1) = FreeSlots
          BY <4>4, <5>2
        <5> QED BY <5>3, <5>4 DEF SlotsCounted
      <4>10. OnlyReady(next, n + 1)
        BY <1>3, <3>6, <4>6 DEF OnlyReady
      <4>11. FirstComeFirst(next, n + 1)
        <5> SUFFICES ASSUME NEW u \in present, Waits(u), Ready(u), InOrder(u) <= n + 1,
                            u \notin LetGo(next, n + 1)
                     PROVE  FALSE
          BY DEF FirstComeFirst
        <5>1. u # t /\ u \notin LetGo(done, n)
          BY <4>6
        <5>2. InOrder(u) <= n
          BY <3>4, <5>1
        <5>3. done.slots = 0
          BY <1>4, <5>1, <5>2
        <5> QED BY <3>6, <5>3
      <4> QED BY <1>1, <4>5, <4>9, <4>10, <4>11 DEF Fair
    <3>7. CASE ~ (Ready(t) /\ done.slots > 0)
      <4>1. next = [shown |-> [done.shown EXCEPT ![t] = "blocked"], slots |-> done.slots]
        BY <2>4, <2>6, <3>2, <3>7 DEF Place
      <4>2. /\ next.shown = [u \in present |-> IF u = t THEN "blocked" ELSE done.shown[u]]
            /\ next.slots = done.slots
        BY <1>3, <4>1
      <4>3. Settled(next, n + 1)
        BY <1>3, <3>1, <4>2 DEF Settled
      <4>4. LetGo(next, n + 1) = LetGo(done, n)
        BY <3>4, <3>5, <4>2 DEF LetGo
      <4>5. SlotsCounted(next, n + 1) /\ OnlyReady(next, n + 1)
        BY <1>3, <4>2, <4>4 DEF SlotsCounted, OnlyReady
      <4>6. FirstComeFirst(next, n + 1)
        <5> SUFFICES ASSUME NEW u \in present, Waits(u), Ready(u), InOrder(u) <= n + 1,
                            u \notin LetGo(next, n + 1)
                     PROVE  next.slots = 0
                              /\ \A p \in LetGo(next, n + 1) : InOrder(p) < InOrder(u)
          BY DEF FirstComeFirst
        <5>1. CASE u = t
          <6>1. done.slots = 0
            BY <1>3, <3>7, <5>1
          <6>2. \A p \in LetGo(done, n) : InOrder(p) \in Nat /\ InOrder(p) <= n
            BY <1>2 DEF LetGo
          <6> QED BY <2>2, <4>2, <4>4, <5>1, <6>1, <6>2
        <5>2. CASE u # t
          <6>1. InOrder(u) <= n /\ u \notin LetGo(done, n)
            BY <3>4, <4>4, <5>2
          <6> QED BY <1>4, <4>2, <4>4, <6>1
        <5> QED BY <5>1, <5>2
      <4> QED BY <1>1, <4>3, <4>5, <4>6 DEF Fair
    <3> QED BY <3>6, <3>7
  <2> QED BY <2>5, <2>6
<1> QED BY <1>6, <1>7

\* So what is shown in the end is fair.
LEMMA ShownIsFair ==
  ASSUME TaskTypes
  PROVE  \E done : Fair(done, 2 * TaskCount) /\ Shown = done.shown
PROOF
<1>1. PICK n : n = 2 * TaskCount
  OBVIOUS
<1>2. n \in Nat
  BY <1>1, TaskAssumption
<1>3. PICK f : Pass(f, n) /\ Shown = f[n].shown
  <2> DEFINE f == CHOOSE x : x = [i \in 0..(2 * TaskCount) |->
                    IF i = 0
                    THEN [shown |-> [t \in present |-> StateOf(t)], slots |-> FreeSlots]
                    ELSE TakeTurn(x[i - 1], i)]
  <2>1. Shown = f[2 * TaskCount].shown
    BY DEF Shown
  <2>2. \E x : x = [i \in 0..(2 * TaskCount) |->
                    IF i = 0
                    THEN [shown |-> [t \in present |-> StateOf(t)], slots |-> FreeSlots]
                    ELSE TakeTurn(x[i - 1], i)]
    <3>1. PICK x : Pass(x, n)
      BY <1>2, PassExists
    <3> QED BY <1>1, <3>1 DEF Pass, BeforePass
  <2>3. Pass(f, 2 * TaskCount)
    BY <2>2 DEF Pass, BeforePass
  <2> HIDE DEF f
  <2> QED BY <1>1, <2>1, <2>3
<1>4. \A i \in 0..n : f[i] = IF i = 0 THEN BeforePass ELSE TakeTurn(f[i - 1], i)
  <2>1. f = [i \in 0..n |-> IF i = 0 THEN BeforePass ELSE TakeTurn(f[i - 1], i)]
    BY <1>3 DEF Pass
  <2> QED BY <2>1
<1> DEFINE S == {i \in 0..n : Fair(f[i], i)}
<1>5. 0 \in S
  <2>1. 0 \in 0..n /\ f[0] = BeforePass
    BY <1>2, <1>4
  <2> QED BY <2>1, PassStarts
<1>6. ASSUME NEW i \in 0..n, i # n, i \in S PROVE i + 1 \in S
  <2>1. i \in Nat /\ i + 1 \in 0..n /\ i + 1 # 0 /\ i + 1 - 1 = i
    BY <1>2, <1>6
  <2>2. f[i + 1] = TakeTurn(f[i], i + 1)
    BY <1>4, <2>1
  <2>3. Fair(f[i], i)
    BY <1>6
  <2>4. Fair(TakeTurn(f[i], i + 1), i + 1)
    BY <2>1, <2>3, TurnIsFair
  <2> QED BY <2>1, <2>2, <2>4
<1> HIDE DEF S
<1>7. 0..n \subseteq S
  BY <1>2, <1>5, <1>6, Stepwise
<1>8. n \in 0..n
  BY <1>2
<1>9. Fair(f[n], n)
  BY <1>7, <1>8 DEF S
<1> QED BY <1>1, <1>3, <1>9

\* The tasks let go are counted against the free slots and are the first ones.
LEMMA FirstReady ==
  ASSUME TaskTypes
  PROVE  /\ SlotsGoToTheFirstReady
         /\ \A t \in present : Waits(t) /\ Ready(t) /\ t \notin Promoted =>
              Cardinality(Promoted) = FreeSlots
PROOF
<1>1. PICK done : Fair(done, 2 * TaskCount) /\ Shown = done.shown
  BY ShownIsFair
<1>2. PICK n : n = 2 * TaskCount
  OBVIOUS
<1>3. \A t \in present : InOrder(t) <= n
  BY <1>2, TurnsDiffer, TaskAssumption
<1>4. LetGo(done, n) = Promoted
  BY <1>1, <1>3 DEF LetGo, Promoted
<1>5. /\ done.slots \in Nat /\ done.slots + Cardinality(Promoted) = FreeSlots
      /\ \A t \in Promoted : Ready(t)
  BY <1>1, <1>2, <1>4 DEF Fair, Settled, SlotsCounted, OnlyReady
<1>6. Cardinality(Promoted) \in Nat
  BY TasksFinite DEF Promoted
<1>7. ASSUME NEW t \in present, Waits(t), Ready(t), t \notin Promoted
      PROVE  /\ Cardinality(Promoted) = FreeSlots
             /\ \A p \in Promoted : urgent[p] \/ (~urgent[t] /\ p < t)
  <2>1. done.slots = 0 /\ \A p \in Promoted : InOrder(p) < InOrder(t)
    BY <1>1, <1>2, <1>3, <1>4, <1>7 DEF Fair, FirstComeFirst
  <2>2. Promoted \subseteq present
    BY DEF Promoted
  <2> QED BY <1>5, <1>6, <2>1, <2>2, TurnsDiffer
<1>8. Cardinality(Promoted) <= FreeSlots
  BY <1>5, <1>6
<1> QED BY <1>5, <1>7, <1>8 DEF SlotsGoToTheFirstReady

\* Of tasks that wait for one another one is ready.
LEMMA NoneForGood ==
  ASSUME TaskTypes
  PROVE  NoCircularWait
PROOF
<1> SUFFICES ASSUME NEW F \in (SUBSET {t \in present : Waits(t)}) \ {{}},
                    \A t \in F : \A d \in DependsOn[t] : d \in F \/ StateOf(d) = "completed",
                    \A t \in present : StateOf(t) # "running"
             PROVE  Promoted # {}
  BY DEF NoCircularWait
<1>1. F \subseteq present /\ F # {} /\ \A t \in F : Waits(t)
  OBVIOUS
<1>2. PICK t \in F : Ready(t)
  <2> SUFFICES ASSUME \A t \in F : ~Ready(t) PROVE FALSE
    OBVIOUS
  <2>1. \A t \in F : DependsOn[t] \cap F # {}
    BY DEF Ready
  <2>2. CASE DependsOn = Known /\ ~HasCycle(Known)
    <3>1. F \in (SUBSET present) \ {{}}
      BY <1>1
    <3> QED BY <2>1, <2>2, <3>1 DEF HasCycle
  <2>3. CASE DependsOn = Sequential
    <3>1. F \subseteq Nat
      BY <1>1 DEF TaskTypes, TaskIds
    <3>2. PICK t \in F : \A d \in F : t <= d
      BY <1>1, <3>1, FirstOf
    <3>3. PICK d \in F : d \in Sequential[t]
      BY <2>1, <2>3
    <3>4. d < t
      BY <1>1, <3>3 DEF Sequential
    <3> QED BY <3>1, <3>2, <3>4
  <2> QED BY <2>2, <2>3 DEF DependsOn
<1>3. CASE t \in Promoted
  BY <1>3
<1>4. CASE t \notin Promoted
  <2>1. Cardinality(Promoted) = FreeSlots
    BY <1>1, <1>2, <1>4, FirstReady
  <2>2. FreeSlots >= 1
    BY SlotsAre
  <2>3. Cardinality({}) = 0
    BY FS_EmptySet
  <2> QED BY <2>1, <2>2, <2>3
<1> QED BY <1>3, <1>4

(* For any number of executions and any dependencies, priorities, retries and  *)
(* bounds on what runs together: the free slots of a task graph go to the first *)
(* ready tasks in the order of priority and of the queue, and to no other, and *)
(* no tasks wait for one another for good.                                     *)
THEOREM GraphIsFair == TaskSpec => []GraphIsFairToTasks
PROOF
<1>1. TaskInit => TaskTypes
  BY DEF TaskInit, TaskTypes, ExecutionStates
<1>2. TaskTypes /\ [TaskNext]_taskVars => TaskTypes'
  <2> SUFFICES ASSUME TaskTypes, [TaskNext]_taskVars PROVE TaskTypes'
    OBVIOUS
  <2> USE DEF TaskTypes
  <2>1. ASSUME NEW t \in TaskIds, Compose(t) PROVE TaskTypes'
    <3>1. {d \in present : d = t - 1} \subseteq TaskIds
      OBVIOUS
    <3> QED BY <2>1, <3>1 DEF Compose, ExecutionStates
  <2>2. ASSUME NEW t \in TaskIds, Forget(t) PROVE TaskTypes'
    BY <2>2 DEF Forget
  <2>3. ASSUME NEW t \in TaskIds, Move(t) PROVE TaskTypes'
    BY <2>3 DEF Move
  <2>4. ASSUME NEW t \in TaskIds, TaskMoved(t) PROVE TaskTypes'
    BY <2>4 DEF TaskMoved
  <2>5. ASSUME NEW t \in TaskIds, DependenciesUpdated(t) PROVE TaskTypes'
    BY <2>5 DEF DependenciesUpdated
  <2>6. ASSUME NEW t \in TaskIds, RetryPolicyUpdated(t) PROVE TaskTypes'
    BY <2>6 DEF RetryPolicyUpdated
  <2>7. CASE GraphConfigured
    BY <2>7, TaskAssumption DEF GraphConfigured
  <2>8. CASE UNCHANGED taskVars
    BY <2>8 DEF taskVars
  <2> QED BY <2>1, <2>2, <2>3, <2>4, <2>5, <2>6, <2>7, <2>8 DEF TaskNext
<1>3. TaskTypes => GraphIsFairToTasks
  BY FirstReady, NoneForGood DEF GraphIsFairToTasks
<1> QED BY <1>1, <1>2, <1>3, PTL DEF TaskSpec
-------------------------------------------------------------------------------
(* The context of a session, however messages come and are compacted.         *)

Message == [cursor : Nat, text : Seq(Nat), tokens : Nat]

ContextTypes ==
  /\ messages \in Seq(Message) /\ nextCursor \in Nat /\ total \in Nat
  /\ summary \in Seq(Nat) /\ origin \in Seq(Nat) /\ cutOff \subseteq Nat
  /\ Len(messages) <= Len(origin)

\* No cursor is given twice, and none before its turn.
CursorsGiven ==
  /\ \A j, k \in 1..Len(messages) : messages[j].cursor = messages[k].cursor => j = k
  /\ \A j \in 1..Len(messages) : messages[j].cursor <= nextCursor
  /\ \A i \in 1..Len(origin) : origin[i] <= nextCursor

\* A message that is there is found under its own cursor.
OwnCursor ==
  \A j \in 1..Len(messages) :
    messages[j].cursor \in DOMAIN cursorMap
      /\ cursorMap[messages[j].cursor] = messages[j].cursor

ContextInv ==
  /\ ContextTypes /\ CursorsGiven /\ OwnCursor
  /\ NothingForgotten /\ RecentVerbatim /\ CursorsLead /\ total = TokensOf(messages)

\* What a message is made of.
LEMMA MessageParts ==
  /\ \A ms \in Seq(Message) : Len(ms) \in Nat /\ \A j \in 1..Len(ms) : ms[j] \in Message
  /\ \A m \in Message : m.cursor \in Nat /\ m.text \in Seq(Nat) /\ m.tokens \in Nat
PROOF
<1>1. \A ms \in Seq(Message) : Len(ms) \in Nat /\ \A j \in 1..Len(ms) : ms[j] \in Message
  OBVIOUS
<1>2. \A m \in Message : m.cursor \in Nat /\ m.text \in Seq(Nat) /\ m.tokens \in Nat
  BY DEF Message
<1> QED BY <1>1, <1>2

\* The tokens of the first messages.
Sums(f, n, ms) == f = [i \in 0..n |-> IF i = 0 THEN 0 ELSE f[i - 1] + ms[i].tokens]

\* They can be counted.
LEMMA CountsExist ==
  ASSUME NEW ms, NEW n \in Nat
  PROVE  \E f : Sums(f, n, ms)
PROOF
<1> DEFINE S == {i \in 0..n : \E f : Sums(f, i, ms)}
<1>1. 0 \in S
  <2> DEFINE f == [i \in 0..0 |-> 0]
  <2>1. Sums(f, 0, ms)
    BY DEF Sums
  <2> HIDE DEF f
  <2> QED BY <2>1
<1>2. ASSUME NEW i \in 0..n, i # n, i \in S PROVE i + 1 \in S
  <2>1. PICK f : Sums(f, i, ms)
    BY <1>2
  <2>2. f = [j \in 0..i |-> IF j = 0 THEN 0 ELSE f[j - 1] + ms[j].tokens]
    BY <2>1 DEF Sums
  <2> DEFINE g == [j \in 0..i + 1 |-> IF j = i + 1 THEN f[i] + ms[i + 1].tokens ELSE f[j]]
  <2>3. \A j \in 0..i + 1 : g[j] = IF j = 0 THEN 0 ELSE g[j - 1] + ms[j].tokens
    <3> SUFFICES ASSUME NEW j \in 0..i + 1
                 PROVE  g[j] = IF j = 0 THEN 0 ELSE g[j - 1] + ms[j].tokens
      OBVIOUS
    <3>1. CASE j = i + 1
      <4>1. g[j] = f[i] + ms[i + 1].tokens /\ g[j - 1] = f[i] /\ j # 0
        BY <3>1
      <4> QED BY <3>1, <4>1
    <3>2. CASE j # i + 1
      <4>1. j \in 0..i /\ g[j] = f[j] /\ (j # 0 => g[j - 1] = f[j - 1])
        BY <3>2
      <4> QED BY <2>2, <4>1
    <3> QED BY <3>1, <3>2
  <2>4. g = [j \in 0..i + 1 |-> g[j]]
    OBVIOUS
  <2> HIDE DEF g
  <2>5. g = [j \in 0..i + 1 |-> IF j = 0 THEN 0 ELSE g[j - 1] + ms[j].tokens]
    BY <2>3, <2>4
  <2>6. Sums(g, i + 1, ms)
    BY <2>5 DEF Sums
  <2>7. i + 1 \in 0..n
    BY <1>2
  <2> QED BY <2>6, <2>7
<1> HIDE DEF S
<1>3. 0..n \subseteq S
  BY <1>1, <1>2, Stepwise
<1> QED BY <1>3 DEF S

\* In one way only.
LEMMA CountsAreOne ==
  ASSUME NEW f, NEW g, NEW m \in Nat, NEW n \in 0..m, NEW ms, NEW longer,
         Sums(f, n, ms), Sums(g, m, longer), \A i \in 1..n : longer[i] = ms[i]
  PROVE  g[n] = f[n]
PROOF
<1> DEFINE S == {i \in 0..n : g[i] = f[i]}
<1>1. /\ \A i \in 0..n : f[i] = IF i = 0 THEN 0 ELSE f[i - 1] + ms[i].tokens
      /\ \A i \in 0..m : g[i] = IF i = 0 THEN 0 ELSE g[i - 1] + longer[i].tokens
  <2>1. f = [i \in 0..n |-> IF i = 0 THEN 0 ELSE f[i - 1] + ms[i].tokens]
    BY DEF Sums
  <2>2. g = [i \in 0..m |-> IF i = 0 THEN 0 ELSE g[i - 1] + longer[i].tokens]
    BY DEF Sums
  <2> QED BY <2>1, <2>2
<1>2. 0 \in S
  BY <1>1
<1>3. ASSUME NEW i \in 0..n, i # n, i \in S PROVE i + 1 \in S
  <2>1. /\ i + 1 \in 0..n /\ i + 1 \in 0..m /\ i + 1 # 0 /\ i + 1 - 1 = i
        /\ longer[i + 1] = ms[i + 1] /\ g[i] = f[i]
    BY <1>3
  <2>2. /\ f[i + 1] = f[i] + ms[i + 1].tokens
        /\ g[i + 1] = g[i] + longer[i + 1].tokens
    BY <1>1, <2>1
  <2> QED BY <2>1, <2>2
<1> HIDE DEF S
<1>4. 0..n \subseteq S
  BY <1>2, <1>3, Stepwise
<1>5. n \in 0..n
  OBVIOUS
<1> QED BY <1>4, <1>5 DEF S

\* The tokens of some messages are counted so.
LEMMA TokensAre ==
  ASSUME NEW ms \in Seq(Message)
  PROVE  \E f : Sums(f, Len(ms), ms) /\ TokensOf(ms) = f[Len(ms)]
PROOF
<1> DEFINE f == CHOOSE x : x = [i \in 0..Len(ms) |->
                                  IF i = 0 THEN 0 ELSE x[i - 1] + ms[i].tokens]
<1>1. TokensOf(ms) = f[Len(ms)]
  BY DEF TokensOf
<1>2. \E x : x = [i \in 0..Len(ms) |-> IF i = 0 THEN 0 ELSE x[i - 1] + ms[i].tokens]
  <2>1. Len(ms) \in Nat
    OBVIOUS
  <2>2. PICK w : Sums(w, Len(ms), ms)
    BY <2>1, CountsExist
  <2>3. w = [i \in 0..Len(ms) |-> IF i = 0 THEN 0 ELSE w[i - 1] + ms[i].tokens]
    BY <2>2, Zenon DEF Sums
  <2> QED BY <2>3, Zenon
<1>3. Sums(f, Len(ms), ms)
  BY <1>2 DEF Sums
<1> QED BY <1>1, <1>3

\* They are a number, and none when there is no message.
LEMMA TokensType ==
  /\ \A ms \in Seq(Message) : TokensOf(ms) \in Nat
  /\ TokensOf(<<>>) = 0
PROOF
<1>1. ASSUME NEW ms \in Seq(Message) PROVE TokensOf(ms) \in Nat
  <2>1. PICK f : Sums(f, Len(ms), ms) /\ TokensOf(ms) = f[Len(ms)]
    BY TokensAre
  <2> DEFINE n == Len(ms)
             S == {i \in 0..n : f[i] \in Nat}
  <2>2. n \in Nat /\ \A i \in 1..n : ms[i].tokens \in Nat
    BY MessageParts
  <2>3. f = [i \in 0..n |-> IF i = 0 THEN 0 ELSE f[i - 1] + ms[i].tokens]
    BY <2>1 DEF Sums
  <2> HIDE DEF n
  <2>4. 0 \in S
    BY <2>2, <2>3
  <2>5. ASSUME NEW i \in 0..n, i # n, i \in S PROVE i + 1 \in S
    <3>1. i + 1 \in 0..n /\ i + 1 \in 1..n /\ i + 1 # 0 /\ i + 1 - 1 = i
      BY <2>2, <2>5
    <3>2. f[i + 1] = f[i] + ms[i + 1].tokens
      BY <2>3, <3>1
    <3> QED BY <2>2, <2>5, <3>1, <3>2
  <2> HIDE DEF S
  <2>6. 0..n \subseteq S
    BY <2>2, <2>4, <2>5, Stepwise
  <2>7. n \in 0..n
    BY <2>2
  <2> QED BY <2>1, <2>6, <2>7 DEF S, n
<1>2. TokensOf(<<>>) = 0
  <2>1. <<>> \in Seq(Message) /\ Len(<<>>) = 0
    OBVIOUS
  <2>2. PICK f : Sums(f, Len(<<>>), <<>>) /\ TokensOf(<<>>) = f[Len(<<>>)]
    BY <2>1, TokensAre
  <2>3. f = [i \in 0..0 |-> IF i = 0 THEN 0 ELSE f[i - 1] + <<>>[i].tokens]
    BY <2>1, <2>2 DEF Sums
  <2> QED BY <2>1, <2>2, <2>3
<1> QED BY <1>1, <1>2

\* A message more adds its own.
LEMMA TokensAdd ==
  ASSUME NEW ms \in Seq(Message), NEW m \in Message
  PROVE  TokensOf(Append(ms, m)) = TokensOf(ms) + m.tokens
PROOF
<1> DEFINE longer == Append(ms, m)
           n == Len(ms)
<1>1. /\ longer \in Seq(Message) /\ Len(longer) = n + 1 /\ n \in Nat
      /\ \A i \in 1..n : longer[i] = ms[i]
      /\ longer[n + 1] = m
  OBVIOUS
<1> HIDE DEF longer
<1>2. PICK f : Sums(f, n, ms) /\ TokensOf(ms) = f[n]
  BY TokensAre
<1>3. PICK g : Sums(g, n + 1, longer) /\ TokensOf(longer) = g[n + 1]
  BY <1>1, TokensAre
<1>4. g[n] = f[n]
  <2> HIDE DEF n
  <2>1. n + 1 \in Nat /\ n \in 0..n + 1
    BY <1>1
  <2> QED BY <1>1, <1>2, <1>3, <2>1, CountsAreOne
<1>5. g[n + 1] = g[n] + longer[n + 1].tokens
  <2>1. g = [i \in 0..n + 1 |-> IF i = 0 THEN 0 ELSE g[i - 1] + longer[i].tokens]
    BY <1>3 DEF Sums
  <2>2. n + 1 \in 0..n + 1 /\ n + 1 # 0 /\ n + 1 - 1 = n
    BY <1>1
  <2> QED BY <2>1, <2>2
<1> QED BY <1>1, <1>2, <1>3, <1>4, <1>5 DEF longer

\* The texts of the first messages, one after the other.
Strings(f, n, ms) == f = [i \in 0..n |-> IF i = 0 THEN <<>> ELSE f[i - 1] \o ms[i].text]

\* They can be strung together.
LEMMA StringsExist ==
  ASSUME NEW ms, NEW n \in Nat
  PROVE  \E f : Strings(f, n, ms)
PROOF
<1> DEFINE S == {i \in 0..n : \E f : Strings(f, i, ms)}
<1>1. 0 \in S
  <2> DEFINE f == [i \in 0..0 |-> <<>>]
  <2>1. Strings(f, 0, ms)
    BY DEF Strings
  <2> HIDE DEF f
  <2> QED BY <2>1
<1>2. ASSUME NEW i \in 0..n, i # n, i \in S PROVE i + 1 \in S
  <2>1. PICK f : Strings(f, i, ms)
    BY <1>2
  <2>2. f = [j \in 0..i |-> IF j = 0 THEN <<>> ELSE f[j - 1] \o ms[j].text]
    BY <2>1 DEF Strings
  <2> DEFINE g == [j \in 0..i + 1 |-> IF j = i + 1 THEN f[i] \o ms[i + 1].text ELSE f[j]]
  <2>3. \A j \in 0..i + 1 : g[j] = IF j = 0 THEN <<>> ELSE g[j - 1] \o ms[j].text
    <3> SUFFICES ASSUME NEW j \in 0..i + 1
                 PROVE  g[j] = IF j = 0 THEN <<>> ELSE g[j - 1] \o ms[j].text
      OBVIOUS
    <3>1. CASE j = i + 1
      <4>1. g[j] = f[i] \o ms[i + 1].text /\ g[j - 1] = f[i] /\ j # 0
        BY <3>1
      <4> QED BY <3>1, <4>1
    <3>2. CASE j # i + 1
      <4>1. j \in 0..i /\ g[j] = f[j] /\ (j # 0 => g[j - 1] = f[j - 1])
        BY <3>2
      <4> QED BY <2>2, <4>1
    <3> QED BY <3>1, <3>2
  <2>4. g = [j \in 0..i + 1 |-> g[j]]
    OBVIOUS
  <2> HIDE DEF g
  <2>5. g = [j \in 0..i + 1 |-> IF j = 0 THEN <<>> ELSE g[j - 1] \o ms[j].text]
    BY <2>3, <2>4
  <2>6. Strings(g, i + 1, ms)
    BY <2>5 DEF Strings
  <2>7. i + 1 \in 0..n
    BY <1>2
  <2> QED BY <2>6, <2>7
<1> HIDE DEF S
<1>3. 0..n \subseteq S
  BY <1>1, <1>2, Stepwise
<1> QED BY <1>3 DEF S

\* Two sequences in one.
LEMMA TwoInOne ==
  ASSUME NEW S, NEW a \in Seq(S), NEW b \in Seq(S)
  PROVE  /\ a \o b \in Seq(S) /\ Len(a \o b) = Len(a) + Len(b)
         /\ \A k \in 1..Len(a) + Len(b) :
              (a \o b)[k] = IF k <= Len(a) THEN a[k] ELSE b[k - Len(a)]
OBVIOUS

\* What two texts tell together.
LEMMA ToldTogether ==
  ASSUME NEW a \in Seq(Nat), NEW b \in Seq(Nat)
  PROVE  a \o b \in Seq(Nat) /\ ToldIn(a \o b) = ToldIn(a) \cup ToldIn(b)
PROOF
<1>1. PICK c : c = a \o b
  OBVIOUS
<1>2. /\ c \in Seq(Nat) /\ Len(c) = Len(a) + Len(b) /\ Len(a) \in Nat /\ Len(b) \in Nat
      /\ \A k \in 1..Len(c) : c[k] = IF k <= Len(a) THEN a[k] ELSE b[k - Len(a)]
  BY <1>1
<1>3. ToldIn(c) \subseteq ToldIn(a) \cup ToldIn(b)
  <2> SUFFICES ASSUME NEW k \in 1..Len(c) PROVE c[k] \in ToldIn(a) \cup ToldIn(b)
    BY DEF ToldIn
  <2>1. CASE k <= Len(a)
    <3>1. k \in 1..Len(a) /\ c[k] = a[k]
      BY <1>2, <2>1
    <3> QED BY <3>1 DEF ToldIn
  <2>2. CASE ~ k <= Len(a)
    <3>1. k - Len(a) \in 1..Len(b) /\ c[k] = b[k - Len(a)]
      BY <1>2, <2>2
    <3> QED BY <3>1 DEF ToldIn
  <2> QED BY <2>1, <2>2
<1>4. ToldIn(a) \subseteq ToldIn(c)
  <2> SUFFICES ASSUME NEW k \in 1..Len(a) PROVE a[k] \in ToldIn(c)
    BY DEF ToldIn
  <2>1. k \in 1..Len(c) /\ k <= Len(a)
    BY <1>2
  <2>2. c[k] = a[k]
    BY <1>2, <2>1
  <2> QED BY <2>1, <2>2 DEF ToldIn
<1>5. ToldIn(b) \subseteq ToldIn(c)
  <2> SUFFICES ASSUME NEW k \in 1..Len(b) PROVE b[k] \in ToldIn(c)
    BY DEF ToldIn
  <2>1. PICK l : l = Len(a) + k
    OBVIOUS
  <2>2. l \in 1..Len(c) /\ ~ l <= Len(a) /\ l - Len(a) = k
    BY <1>2, <2>1
  <2>3. c[l] = b[k]
    BY <1>2, <2>2
  <2> QED BY <2>2, <2>3 DEF ToldIn
<1> QED BY <1>1, <1>2, <1>3, <1>4, <1>5

\* Strung together, messages tell what each of them tells.
LEMMA TextsTell ==
  ASSUME NEW ms \in Seq(Message)
  PROVE  /\ TextsOf(ms) \in Seq(Nat)
         /\ \A j \in 1..Len(ms) : ToldIn(ms[j].text) \subseteq ToldIn(TextsOf(ms))
PROOF
<1>1. PICK n : n = Len(ms)
  OBVIOUS
<1>2. n \in Nat /\ \A i \in 1..n : ms[i].text \in Seq(Nat)
  BY <1>1, MessageParts
<1>3. PICK f : Strings(f, n, ms) /\ TextsOf(ms) = f[n]
  <2> DEFINE f == CHOOSE x : x = [i \in 0..Len(ms) |->
                                    IF i = 0 THEN <<>> ELSE x[i - 1] \o ms[i].text]
  <2>1. TextsOf(ms) = f[Len(ms)]
    BY DEF TextsOf
  <2>2. \E x : x = [i \in 0..Len(ms) |-> IF i = 0 THEN <<>> ELSE x[i - 1] \o ms[i].text]
    <3>1. PICK x : Strings(x, n, ms)
      BY <1>2, StringsExist
    <3>2. x = [i \in 0..n |-> IF i = 0 THEN <<>> ELSE x[i - 1] \o ms[i].text]
      BY <3>1 DEF Strings
    <3> QED BY <1>1, <3>2
  <2>3. Strings(f, Len(ms), ms)
    BY <2>2 DEF Strings
  <2> HIDE DEF f
  <2> QED BY <1>1, <2>1, <2>3
<1>4. \A i \in 0..n : f[i] = IF i = 0 THEN <<>> ELSE f[i - 1] \o ms[i].text
  <2>1. f = [i \in 0..n |-> IF i = 0 THEN <<>> ELSE f[i - 1] \o ms[i].text]
    BY <1>3 DEF Strings
  <2> QED BY <2>1
<1> DEFINE Good(i) == /\ f[i] \in Seq(Nat)
                      /\ \A j \in 1..i : ToldIn(ms[j].text) \subseteq ToldIn(f[i])
           S == {i \in 0..n : Good(i)}
<1>5. 0 \in S
  <2>1. f[0] = <<>> /\ 0 \in 0..n
    BY <1>2, <1>4
  <2>2. Good(0)
    BY <2>1
  <2> QED BY <2>1, <2>2
<1>6. ASSUME NEW i \in 0..n, i # n, i \in S PROVE i + 1 \in S
  <2>1. /\ i \in Nat /\ i + 1 \in 0..n /\ i + 1 \in 1..n /\ i + 1 # 0 /\ i + 1 - 1 = i
        /\ \A j \in 1..i + 1 : j = i + 1 \/ j \in 1..i
    BY <1>2, <1>6
  <2>2. f[i + 1] = f[i] \o ms[i + 1].text
    <3>1. PICK k : k = i + 1
      OBVIOUS
    <3>2. k \in 0..n /\ k # 0 /\ k - 1 = i
      BY <2>1, <3>1
    <3>3. f[k] = f[k - 1] \o ms[k].text
      BY <1>4, <3>2
    <3> QED BY <3>1, <3>2, <3>3
  <2>3. f[i] \in Seq(Nat) /\ \A j \in 1..i : ToldIn(ms[j].text) \subseteq ToldIn(f[i])
    BY <1>6
  <2>4. ms[i + 1].text \in Seq(Nat)
    BY <1>2, <2>1
  <2>5. /\ f[i + 1] \in Seq(Nat)
        /\ ToldIn(f[i + 1]) = ToldIn(f[i]) \cup ToldIn(ms[i + 1].text)
    BY <2>2, <2>3, <2>4, ToldTogether
  <2>6. \A j \in 1..i + 1 : ToldIn(ms[j].text) \subseteq ToldIn(f[i + 1])
    <3> SUFFICES ASSUME NEW j \in 1..i + 1
                 PROVE  ToldIn(ms[j].text) \subseteq ToldIn(f[i + 1])
      OBVIOUS
    <3>1. CASE j = i + 1
      BY <2>5, <3>1
    <3>2. CASE j # i + 1
      <4>1. ToldIn(ms[j].text) \subseteq ToldIn(f[i])
        BY <2>1, <2>3, <3>2
      <4> QED BY <2>5, <4>1
    <3> QED BY <3>1, <3>2
  <2>7. Good(i + 1)
    BY <2>5, <2>6
  <2> QED BY <2>1, <2>7
<1> HIDE DEF S
<1>7. 0..n \subseteq S
  BY <1>2, <1>5, <1>6, Stepwise
<1>8. n \in 0..n
  BY <1>2
<1>9. Good(n)
  BY <1>7, <1>8 DEF S
<1> QED BY <1>1, <1>3, <1>9

\* Some of the messages, from one to another.
LEMMA SomeOf ==
  ASSUME NEW ms \in Seq(Message), NEW a \in Nat, NEW n \in Nat, a + n <= Len(ms)
  PROVE  /\ SubSeq(ms, a + 1, a + n) \in Seq(Message)
         /\ Len(SubSeq(ms, a + 1, a + n)) = n
         /\ \A j \in 1..n : SubSeq(ms, a + 1, a + n)[j] = ms[a + j]
PROOF
<1>1. PICK first : first = a + 1
  OBVIOUS
<1>2. PICK last : last = a + n
  OBVIOUS
<1>3. /\ first \in Int /\ last \in Int /\ last - first + 1 = n
      /\ \A j \in 1..n : first + j - 1 = a + j
      /\ \A j \in first..last : j \in 1..Len(ms)
      /\ IF first <= last THEN last - first + 1 = n ELSE 0 = n
  BY <1>1, <1>2, MessageParts
<1>4. \A j \in first..last : ms[j] \in Message
  BY <1>3, MessageParts
<1>5. PICK part : part = SubSeq(ms, first, last)
  OBVIOUS
<1>6. /\ part \in Seq(Message)
      /\ Len(part) = IF first <= last THEN last - first + 1 ELSE 0
      /\ \A j \in 1..last - first + 1 : part[j] = ms[first + j - 1]
  BY <1>3, <1>4, <1>5, SubSeqProperties
<1>7. part \in Seq(Message) /\ Len(part) = n /\ \A j \in 1..n : part[j] = ms[a + j]
  BY <1>3, <1>6
<1> QED BY <1>1, <1>2, <1>5, <1>7

\* A summary is not made up.
LEMMA TruncatedType ==
  ASSUME NEW text \in Seq(Nat)
  PROVE  Truncated(text) \in Seq(Nat)
PROOF
<1>1. SummaryLength \in Nat
  BY CompactionAssumption
<1>2. CASE Len(text) <= SummaryLength
  BY <1>2 DEF Truncated
<1>3. CASE ~ Len(text) <= SummaryLength
  <2>1. 1 \in 1..Len(text) + 1 /\ SummaryLength \in 0..Len(text)
    BY <1>1, <1>3
  <2>2. SubSeq(text, 1, SummaryLength) \in Seq(Nat)
    BY <1>1, <1>3
  <2> QED BY <1>3, <2>2 DEF Truncated
<1> QED BY <1>2, <1>3

\* The first state.
LEMMA ContextStart == CompactionInit => ContextInv
PROOF
<1> SUFFICES ASSUME CompactionInit PROVE ContextInv
  OBVIOUS
<1>1. /\ messages = <<>> /\ nextCursor = 0 /\ total = 0 /\ summary = <<>>
      /\ origin = <<>> /\ cutOff = {}
  BY DEF CompactionInit
<1>2. Len(messages) = 0 /\ Len(origin) = 0
  BY <1>1
<1>3. ContextTypes
  <2>1. messages \in Seq(Message) /\ summary \in Seq(Nat) /\ origin \in Seq(Nat)
    BY <1>1
  <2> QED BY <1>1, <1>2, <2>1 DEF ContextTypes
<1>4. CursorsGiven /\ OwnCursor
  BY <1>2 DEF CursorsGiven, OwnCursor
<1>5. NothingForgotten /\ RecentVerbatim /\ CursorsLead
  BY <1>2 DEF NothingForgotten, RecentVerbatim, CursorsLead
<1>6. total = TokensOf(messages)
  BY <1>1, TokensType
<1> QED BY <1>3, <1>4, <1>5, <1>6 DEF ContextInv

\* A message comes.
LEMMA ContextAppend ==
  ASSUME ContextInv, NEW tokens \in {1, 2}, AppendMessage(tokens)
  PROVE  ContextInv'
PROOF
<1>1. PICK L : L = Len(messages)
  OBVIOUS
<1>2. PICK N : N = Len(origin)
  OBVIOUS
<1>3. PICK m : m = [cursor |-> nextCursor + 1, text |-> <<N + 1>>, tokens |-> tokens]
  OBVIOUS
<1>4. PICK c : c = nextCursor + 1
  OBVIOUS
<1>5. /\ messages \in Seq(Message) /\ nextCursor \in Nat /\ total \in Nat
      /\ summary \in Seq(Nat) /\ origin \in Seq(Nat) /\ cutOff \subseteq Nat
      /\ L \in Nat /\ N \in Nat /\ L <= N /\ c \in Nat
  BY <1>1, <1>2, <1>4 DEF ContextInv, ContextTypes
<1>6. /\ nextCursor' = c /\ messages' = Append(messages, m) /\ total' = total + tokens
      /\ origin' = Append(origin, c)
      /\ summary' = summary /\ cutOff' = cutOff
      /\ cursorMap' = [x \in DOMAIN cursorMap \cup {c} |-> IF x = c THEN x ELSE cursorMap[x]]
  BY <1>2, <1>3, <1>4 DEF AppendMessage
<1>7. /\ m \in Message /\ m.cursor = c /\ m.text = <<N + 1>> /\ m.tokens = tokens
  <2>1. <<N + 1>> \in Seq(Nat)
    BY <1>5
  <2> QED BY <1>3, <1>4, <1>5, <2>1 DEF Message
<1>8. /\ messages' \in Seq(Message) /\ Len(messages') = L + 1
      /\ \A j \in 1..L : messages'[j] = messages[j]
      /\ messages'[L + 1] = m
  BY <1>1, <1>5, <1>6, <1>7
<1>9. /\ origin' \in Seq(Nat) /\ Len(origin') = N + 1
      /\ \A i \in 1..N : origin'[i] = origin[i]
      /\ origin'[N + 1] = c
  BY <1>2, <1>5, <1>6
<1>10. /\ \A j \in 1..L + 1 : j \in 1..L \/ j = L + 1
       /\ \A i \in 1..N + 1 : i \in 1..N \/ i = N + 1
       /\ \A j \in 1..L : j \in 1..L + 1
       /\ L + 1 \in 1..L + 1
  BY <1>5
<1>11. /\ \A j, k \in 1..L : messages[j].cursor = messages[k].cursor => j = k
       /\ \A j \in 1..L : messages[j].cursor <= nextCursor /\ messages[j].cursor \in Nat
       /\ \A i \in 1..N : origin[i] <= nextCursor /\ origin[i] \in Nat
  <2>1. \A j \in 1..L : messages[j].cursor \in Nat
    BY <1>1, <1>5, MessageParts
  <2>2. \A i \in 1..N : origin[i] \in Nat
    BY <1>2, <1>5
  <2> QED BY <1>1, <1>2, <2>1, <2>2 DEF ContextInv, CursorsGiven
<1>12. /\ \A j \in 1..L : messages[j].cursor # c
       /\ \A i \in 1..N : origin[i] # c
  BY <1>4, <1>5, <1>11
<1>13. ContextTypes'
  <2>1. total' \in Nat
    BY <1>5, <1>6
  <2> QED BY <1>5, <1>6, <1>8, <1>9, <2>1 DEF ContextTypes
<1>14. CursorsGiven'
  <2>1. ASSUME NEW j \in 1..L + 1, NEW k \in 1..L + 1,
               messages'[j].cursor = messages'[k].cursor
        PROVE  j = k
    BY <1>7, <1>8, <1>10, <1>11, <1>12, <2>1
  <2>2. \A j \in 1..L + 1 : messages'[j].cursor <= nextCursor'
    BY <1>4, <1>5, <1>6, <1>7, <1>8, <1>10, <1>11
  <2>3. \A i \in 1..N + 1 : origin'[i] <= nextCursor'
    BY <1>4, <1>5, <1>6, <1>9, <1>10, <1>11
  <2> QED BY <1>8, <1>9, <2>1, <2>2, <2>3 DEF CursorsGiven
<1>15. OwnCursor'
  <2>1. \A j \in 1..L : messages[j].cursor \in DOMAIN cursorMap
                          /\ cursorMap[messages[j].cursor] = messages[j].cursor
    BY <1>1 DEF ContextInv, OwnCursor
  <2>2. ASSUME NEW j \in 1..L + 1
        PROVE  /\ messages'[j].cursor \in DOMAIN cursorMap'
               /\ cursorMap'[messages'[j].cursor] = messages'[j].cursor
    <3>1. CASE j \in 1..L
      BY <1>6, <1>8, <1>12, <2>1, <3>1
    <3>2. CASE j = L + 1
      BY <1>6, <1>7, <1>8, <3>2
    <3> QED BY <1>10, <3>1, <3>2
  <2> QED BY <1>8, <2>2 DEF OwnCursor
<1>16. N + 1 \in ToldIn(m.text)
  <2>1. 1 \in 1..Len(<<N + 1>>) /\ <<N + 1>>[1] = N + 1
    OBVIOUS
  <2> QED BY <1>7, <2>1 DEF ToldIn
<1>17. NothingForgotten'
  <2>1. ASSUME NEW i \in 1..N + 1
        PROVE  i \in cutOff' \/ \E j \in 1..L + 1 : i \in ToldIn(messages'[j].text)
    <3>1. CASE i \in 1..N
      <4>1. i \in cutOff \/ \E j \in 1..L : i \in ToldIn(messages[j].text)
        BY <1>1, <1>2, <3>1 DEF ContextInv, NothingForgotten
      <4> QED BY <1>6, <1>8, <1>10, <4>1
    <3>2. CASE i = N + 1
      BY <1>8, <1>10, <1>16, <3>2
    <3> QED BY <1>10, <3>1, <3>2
  <2> QED BY <1>8, <1>9, <2>1 DEF NothingForgotten, ToldIn
<1>18. RecentVerbatim'
  <2>1. ASSUME NEW j \in 1..L + 1, j > L + 1 - KeepRecent
        PROVE  messages'[j].text = <<N + 1 - (L + 1) + j>>
    <3>1. KeepRecent \in Nat
      BY CompactionAssumption
    <3>2. CASE j \in 1..L
      <4>1. j > L - KeepRecent /\ N + 1 - (L + 1) + j = N - L + j
        BY <1>5, <2>1, <3>1, <3>2
      <4>2. messages[j].text = <<N - L + j>>
        BY <1>1, <1>2, <3>2, <4>1 DEF ContextInv, RecentVerbatim
      <4> QED BY <1>8, <3>2, <4>1, <4>2
    <3>3. CASE j = L + 1
      <4>1. N + 1 - (L + 1) + j = N + 1
        BY <1>5, <3>3
      <4> QED BY <1>7, <1>8, <3>3, <4>1
    <3> QED BY <1>10, <3>2, <3>3
  <2>2. \A j \in 1..Len(messages') : j > Len(messages') - KeepRecent =>
          messages'[j].text = <<Len(origin') - Len(messages') + j>>
    <3> SUFFICES ASSUME NEW j \in 1..Len(messages'), j > Len(messages') - KeepRecent
                 PROVE  messages'[j].text = <<Len(origin') - Len(messages') + j>>
      OBVIOUS
    <3>1. Len(messages') = L + 1 /\ Len(origin') = N + 1
      BY <1>8, <1>9
    <3>2. j \in 1..L + 1 /\ j > L + 1 - KeepRecent
      BY <3>1, <1>5, CompactionAssumption
    <3>3. messages'[j].text = <<N + 1 - (L + 1) + j>>
      BY <2>1, <3>2
    <3>4. Len(origin') - Len(messages') + j = N + 1 - (L + 1) + j
      BY <3>1, <3>2, <1>5
    <3> QED BY <3>3, <3>4
  <2> QED BY <2>2 DEF RecentVerbatim
<1>19. CursorsLead'
  <2>1. ASSUME NEW i \in 1..N + 1, origin'[i] \in DOMAIN cursorMap'
        PROVE  \E j \in 1..L + 1 :
                 /\ messages'[j].cursor = cursorMap'[origin'[i]]
                 /\ i \in ToldIn(messages'[j].text) \cup cutOff'
    <3>1. CASE i \in 1..N
      <4>1. origin[i] \in DOMAIN cursorMap /\ cursorMap'[origin'[i]] = cursorMap[origin[i]]
        BY <1>6, <1>9, <1>12, <2>1, <3>1
      <4>2. PICK j \in 1..L : /\ messages[j].cursor = cursorMap[origin[i]]
                              /\ i \in ToldIn(messages[j].text) \cup cutOff
        BY <1>1, <1>2, <3>1, <4>1 DEF ContextInv, CursorsLead, Resolved
      <4> QED BY <1>6, <1>8, <1>10, <4>1, <4>2
    <3>2. CASE i = N + 1
      <4>1. cursorMap'[origin'[i]] = c
        BY <1>6, <1>9, <3>2
      <4> QED BY <1>7, <1>8, <1>10, <1>16, <3>2, <4>1
    <3> QED BY <1>10, <3>1, <3>2
  <2> QED BY <1>8, <1>9, <2>1 DEF CursorsLead, Resolved, ToldIn
<1>20. total' = TokensOf(messages')
  <2>1. total = TokensOf(messages)
    BY DEF ContextInv
  <2>2. TokensOf(Append(messages, m)) = TokensOf(messages) + m.tokens
    BY <1>5, <1>7, TokensAdd
  <2> QED BY <1>6, <1>7, <2>1, <2>2
<1>21. (total = TokensOf(messages))'
  BY <1>20 DEF TokensOf
<1> QED BY <1>13, <1>14, <1>15, <1>17, <1>18, <1>19, <1>21 DEF ContextInv

\* The older messages give way to a summary.
LEMMA ContextSummarized ==
  ASSUME ContextInv, Len(messages) > KeepRecent, Summarized(OldMessages(messages)),
         UNCHANGED origin
  PROVE  ContextInv'
PROOF
<1>1. PICK L : L = Len(messages)
  OBVIOUS
<1>2. PICK N : N = Len(origin)
  OBVIOUS
<1>3. PICK o : o = L - KeepRecent
  OBVIOUS
<1>4. PICK old : old = OldMessages(messages)
  OBVIOUS
<1>5. PICK kept : kept = KeptMessages(messages)
  OBVIOUS
<1>6. PICK told : told = summary \o TextsOf(old)
  OBVIOUS
<1>7. PICK text : text = Truncated(told)
  OBVIOUS
<1>8. PICK c : c = nextCursor + 1
  OBVIOUS
<1>9. PICK m : m = [cursor |-> c, text |-> text, tokens |-> Len(text)]
  OBVIOUS
<1>10. /\ messages \in Seq(Message) /\ nextCursor \in Nat
       /\ summary \in Seq(Nat) /\ origin \in Seq(Nat) /\ cutOff \subseteq Nat
       /\ L \in Nat /\ N \in Nat /\ L <= N /\ c \in Nat
  BY <1>1, <1>2, <1>8 DEF ContextInv, ContextTypes
<1>11. /\ KeepRecent \in Nat /\ KeepRecent # 0 /\ o \in Nat /\ o >= 1
       /\ o + KeepRecent = L /\ L > KeepRecent
  BY <1>1, <1>3, <1>10, CompactionAssumption
<1>12. /\ nextCursor' = c /\ messages' = <<m>> \o kept /\ summary' = text
       /\ total' = TokensOf(messages') /\ origin' = origin
       /\ cutOff' = cutOff \cup (ToldIn(told) \ ToldIn(text))
       /\ cursorMap' = [x \in CursorsOf(messages') \cup CursorsOf(old) |->
                          IF x \in CursorsOf(old) THEN c ELSE x]
  BY <1>4, <1>5, <1>6, <1>7, <1>8, <1>9 DEF Summarized
<1>13. /\ old \in Seq(Message) /\ Len(old) = o
       /\ \A j \in 1..o : old[j] = messages[j]
  <2>1. old = SubSeq(messages, 0 + 1, 0 + o) /\ \A j \in 1..o : 0 + j = j
    BY <1>1, <1>3, <1>4, <1>11 DEF OldMessages
  <2>2. 0 \in Nat /\ 0 + o <= Len(messages)
    BY <1>1, <1>11
  <2> QED BY <1>10, <1>11, <2>1, <2>2, SomeOf
<1>14. /\ kept \in Seq(Message) /\ Len(kept) = KeepRecent
       /\ \A j \in 1..KeepRecent : kept[j] = messages[o + j]
  <2>1. kept = SubSeq(messages, o + 1, o + KeepRecent)
    BY <1>1, <1>3, <1>5, <1>10, <1>11 DEF KeptMessages
  <2>2. o + KeepRecent <= Len(messages)
    BY <1>1, <1>10, <1>11
  <2> QED BY <1>10, <1>11, <2>1, <2>2, SomeOf
<1>15. /\ told \in Seq(Nat) /\ text \in Seq(Nat) /\ Len(text) \in Nat
       /\ \A j \in 1..o : ToldIn(messages[j].text) \subseteq ToldIn(told)
  <2>1. /\ TextsOf(old) \in Seq(Nat)
        /\ \A j \in 1..o : ToldIn(old[j].text) \subseteq ToldIn(TextsOf(old))
    BY <1>13, TextsTell
  <2>2. told \in Seq(Nat) /\ ToldIn(told) = ToldIn(summary) \cup ToldIn(TextsOf(old))
    BY <1>6, <1>10, <2>1, ToldTogether
  <2>3. text \in Seq(Nat)
    BY <1>7, <2>2, TruncatedType
  <2> QED BY <1>13, <2>1, <2>2, <2>3
<1>16. m \in Message /\ m.cursor = c /\ m.text = text
  BY <1>9, <1>10, <1>15 DEF Message
<1>17. /\ messages' \in Seq(Message) /\ Len(messages') = KeepRecent + 1
       /\ messages'[1] = m
       /\ \A j \in 1..KeepRecent : messages'[j + 1] = messages[o + j]
  <2>1. <<m>> \in Seq(Message) /\ Len(<<m>>) = 1 /\ <<m>>[1] = m
    BY <1>16
  <2>2. PICK a : a = <<m>>
    OBVIOUS
  <2>3. a \in Seq(Message) /\ Len(a) = 1 /\ a[1] = m
    BY <2>1, <2>2
  <2>4. messages' = a \o kept
    BY <1>12, <2>2
  <2>5. PICK w : w = a \o kept
    OBVIOUS
  <2>6. w \in Seq(Message) /\ Len(w) = Len(a) + Len(kept)
    BY <1>14, <2>3, <2>5, TwoInOne
  <2>7. \A j \in 1..Len(a) + Len(kept) :
          w[j] = IF j <= Len(a) THEN a[j] ELSE kept[j - Len(a)]
    BY <1>14, <2>3, <2>5, TwoInOne
  <2>8. Len(w) = KeepRecent + 1 /\ w[1] = m
    <3>1. 1 \in 1..Len(a) + Len(kept) /\ 1 <= Len(a) /\ Len(a) + Len(kept) = KeepRecent + 1
      BY <1>11, <1>14, <2>3
    <3> QED BY <2>3, <2>6, <2>7, <3>1
  <2>9. ASSUME NEW j \in 1..KeepRecent PROVE w[j + 1] = messages[o + j]
    <3>1. PICK k : k = j + 1
      OBVIOUS
    <3>2. k \in 1..Len(a) + Len(kept) /\ ~ k <= Len(a) /\ k - Len(a) = j
      BY <1>11, <1>14, <2>3, <3>1
    <3>3. w[k] = kept[j]
      BY <2>7, <3>2
    <3> QED BY <1>14, <3>1, <3>3
  <2> QED BY <2>4, <2>5, <2>6, <2>8, <2>9
<1>31. Len(messages') = KeepRecent + 1 /\ Len(origin') = N /\ origin' = origin
  BY <1>2, <1>12, <1>17
<1>18. /\ \A j \in 1..KeepRecent + 1 : j = 1 \/ (j - 1 \in 1..KeepRecent /\ j - 1 + 1 = j)
       /\ \A j \in 1..KeepRecent : j + 1 \in 1..KeepRecent + 1 /\ o + j \in 1..L
       /\ 1 \in 1..KeepRecent + 1
       /\ \A j \in 1..L : \/ j \in 1..o
                          \/ /\ ~ j \in 1..o /\ j - o \in 1..KeepRecent
                             /\ o + (j - o) = j
       /\ \A j \in 1..o : j \in 1..L
  BY <1>10, <1>11
<1>19. /\ \A j, k \in 1..L : messages[j].cursor = messages[k].cursor => j = k
       /\ \A j \in 1..L : messages[j].cursor <= nextCursor /\ messages[j].cursor \in Nat
       /\ \A i \in 1..N : origin[i] <= nextCursor /\ origin[i] \in Nat
  <2>1. \A j \in 1..L : messages[j].cursor \in Nat
    BY <1>1, <1>10, MessageParts
  <2>2. \A i \in 1..N : origin[i] \in Nat
    BY <1>2, <1>10
  <2> QED BY <1>1, <1>2, <2>1, <2>2 DEF ContextInv, CursorsGiven
<1>20. /\ \A j \in 1..L : messages[j].cursor # c
       /\ \A i \in 1..N : origin[i] # c
  BY <1>8, <1>10, <1>19
<1>21. CursorsOf(old) = {messages[j].cursor : j \in 1..o}
  BY <1>13 DEF CursorsOf
<1>22. \A j \in 1..KeepRecent + 1 : messages'[j].cursor \notin CursorsOf(old)
  <2> SUFFICES ASSUME NEW j \in 1..KeepRecent + 1, NEW k \in 1..o,
                      messages'[j].cursor = messages[k].cursor
               PROVE  FALSE
    BY <1>21
  <2>1. CASE j = 1
    BY <1>16, <1>17, <1>18, <1>20, <2>1
  <2>2. CASE j # 1
    <3>1. PICK l \in 1..KeepRecent : l + 1 = j
      BY <1>18, <2>2
    <3>2. messages'[j] = messages[o + l] /\ o + l \in 1..L /\ k \in 1..L
      BY <1>17, <1>18, <3>1
    <3>3. o + l = k
      BY <1>19, <3>2
    <3> QED BY <1>11, <3>3
  <2> QED BY <2>1, <2>2
<1>23. ContextTypes'
  <2>1. total' \in Nat
    BY <1>12, <1>17, TokensType
  <2>2. cutOff' \subseteq Nat
    <3>1. ToldIn(told) \subseteq Nat
      BY <1>15 DEF ToldIn
    <3> QED BY <1>10, <1>12, <3>1
  <2>3. Len(messages') <= Len(origin')
    BY <1>2, <1>10, <1>11, <1>12, <1>17
  <2> QED BY <1>10, <1>12, <1>15, <1>17, <2>1, <2>2, <2>3 DEF ContextTypes
<1>24. CursorsGiven'
  <2>1. ASSUME NEW j \in 1..KeepRecent + 1, NEW k \in 1..KeepRecent + 1,
               messages'[j].cursor = messages'[k].cursor
        PROVE  j = k
    <3>1. CASE j = 1 /\ k = 1
      BY <3>1
    <3>2. CASE j = 1 /\ k # 1
      <4>1. PICK l \in 1..KeepRecent : l + 1 = k
        BY <1>18, <3>2
      <4>2. messages'[k] = messages[o + l] /\ o + l \in 1..L
        BY <1>17, <1>18, <4>1
      <4> QED BY <1>16, <1>17, <1>20, <2>1, <3>2, <4>2
    <3>3. CASE j # 1 /\ k = 1
      <4>1. PICK l \in 1..KeepRecent : l + 1 = j
        BY <1>18, <3>3
      <4>2. messages'[j] = messages[o + l] /\ o + l \in 1..L
        BY <1>17, <1>18, <4>1
      <4> QED BY <1>16, <1>17, <1>20, <2>1, <3>3, <4>2
    <3>4. CASE j # 1 /\ k # 1
      <4>1. PICK l \in 1..KeepRecent : l + 1 = j
        BY <1>18, <3>4
      <4>2. PICK r \in 1..KeepRecent : r + 1 = k
        BY <1>18, <3>4
      <4>3. /\ messages'[j] = messages[o + l] /\ o + l \in 1..L
            /\ messages'[k] = messages[o + r] /\ o + r \in 1..L
        BY <1>17, <1>18, <4>1, <4>2
      <4>4. o + l = o + r
        BY <1>19, <2>1, <4>3
      <4> QED BY <1>11, <4>1, <4>2, <4>4
    <3> QED BY <3>1, <3>2, <3>3, <3>4
  <2>2. \A j \in 1..KeepRecent + 1 : messages'[j].cursor <= nextCursor'
    <3> SUFFICES ASSUME NEW j \in 1..KeepRecent + 1
                 PROVE  messages'[j].cursor <= nextCursor'
      OBVIOUS
    <3>1. CASE j = 1
      BY <1>10, <1>12, <1>16, <1>17, <3>1
    <3>2. CASE j # 1
      <4>1. PICK l \in 1..KeepRecent : l + 1 = j
        BY <1>18, <3>2
      <4>2. messages'[j] = messages[o + l] /\ o + l \in 1..L
        BY <1>17, <1>18, <4>1
      <4>3. PICK x : x = messages[o + l].cursor
        OBVIOUS
      <4>4. x <= nextCursor /\ x \in Nat
        BY <1>19, <4>2, <4>3
      <4>5. x <= c
        BY <1>8, <1>10, <4>4
      <4> QED BY <1>12, <4>2, <4>3, <4>5
    <3> QED BY <3>1, <3>2
  <2>3. \A i \in 1..N : origin'[i] <= nextCursor'
    BY <1>8, <1>10, <1>12, <1>19
  <2> QED BY <1>2, <1>12, <1>17, <2>1, <2>2, <2>3 DEF CursorsGiven
<1>25. OwnCursor'
  <2>1. ASSUME NEW j \in 1..KeepRecent + 1
        PROVE  /\ messages'[j].cursor \in DOMAIN cursorMap'
               /\ cursorMap'[messages'[j].cursor] = messages'[j].cursor
    <3>1. messages'[j].cursor \in CursorsOf(messages')
      BY <1>17 DEF CursorsOf
    <3> QED BY <1>12, <1>22, <3>1
  <2> QED BY <1>17, <2>1 DEF OwnCursor
<1>26. \A x \in ToldIn(told) : x \in cutOff' \/ x \in ToldIn(messages'[1].text)
  BY <1>12, <1>16, <1>17
<1>27. NothingForgotten'
  <2>1. ASSUME NEW i \in 1..N
        PROVE  i \in cutOff' \/ \E j \in 1..KeepRecent + 1 : i \in ToldIn(messages'[j].text)
    <3>1. CASE i \in cutOff
      BY <1>12, <3>1
    <3>2. CASE i \notin cutOff
      <4>1. PICK j \in 1..L : i \in ToldIn(messages[j].text)
        BY <1>1, <1>2, <3>2 DEF ContextInv, NothingForgotten
      <4>2. CASE j \in 1..o
        <5>1. i \in ToldIn(told)
          BY <1>15, <4>1, <4>2
        <5> QED BY <1>18, <1>26, <5>1
      <4>3. CASE ~ j \in 1..o
        <5>1. PICK l \in 1..KeepRecent : o + l = j
          BY <1>18, <4>3
        <5>2. messages'[l + 1] = messages[j] /\ l + 1 \in 1..KeepRecent + 1
          BY <1>17, <1>18, <5>1
        <5> QED BY <4>1, <5>2
      <4> QED BY <4>2, <4>3
    <3> QED BY <3>1, <3>2
  <2> QED BY <1>31, <2>1 DEF NothingForgotten, ToldIn
<1>28. RecentVerbatim'
  <2>1. ASSUME NEW j \in 1..KeepRecent + 1, j > KeepRecent + 1 - KeepRecent
        PROVE  messages'[j].text = <<N - (KeepRecent + 1) + j>>
    <3>1. j # 1
      BY <1>11, <2>1
    <3>2. PICK l \in 1..KeepRecent : l + 1 = j
      BY <1>18, <3>1
    <3>3. messages'[j] = messages[o + l] /\ o + l \in 1..L
      BY <1>17, <1>18, <3>2
    <3>4. o + l > L - KeepRecent /\ N - L + (o + l) = N - (KeepRecent + 1) + j
      BY <1>10, <1>11, <3>2
    <3>5. messages[o + l].text = <<N - L + (o + l)>>
      BY <1>1, <1>2, <3>3, <3>4 DEF ContextInv, RecentVerbatim
    <3> QED BY <3>3, <3>4, <3>5
  <2>2. \A j \in 1..Len(messages') : j > Len(messages') - KeepRecent =>
          messages'[j].text = <<Len(origin') - Len(messages') + j>>
    <3> SUFFICES ASSUME NEW j \in 1..Len(messages'), j > Len(messages') - KeepRecent
                 PROVE  messages'[j].text = <<Len(origin') - Len(messages') + j>>
      OBVIOUS
    <3>1. Len(messages') = KeepRecent + 1 /\ Len(origin') = N
      BY <1>31
    <3>2. j \in 1..KeepRecent + 1 /\ j > KeepRecent + 1 - KeepRecent
      BY <3>1, <1>11, CompactionAssumption
    <3>3. messages'[j].text = <<N - (KeepRecent + 1) + j>>
      BY <2>1, <3>2
    <3>4. Len(origin') - Len(messages') + j = N - (KeepRecent + 1) + j
      BY <3>1, <3>2, <1>10, <1>11
    <3> QED BY <3>3, <3>4
  <2> QED BY <2>2 DEF RecentVerbatim
<1>29. CursorsLead'
  <2>1. ASSUME NEW i \in 1..N, origin[i] \in DOMAIN cursorMap'
        PROVE  \E j \in 1..KeepRecent + 1 :
                 /\ messages'[j].cursor = cursorMap'[origin[i]]
                 /\ i \in ToldIn(messages'[j].text) \cup cutOff'
    <3>1. ASSUME NEW k \in 1..L, origin[i] = messages[k].cursor
          PROVE  i \in ToldIn(messages[k].text) \cup cutOff
      <4>1. origin[i] \in DOMAIN cursorMap /\ cursorMap[origin[i]] = origin[i]
        BY <1>1, <3>1 DEF ContextInv, OwnCursor
      <4>2. PICK j \in 1..L : /\ messages[j].cursor = cursorMap[origin[i]]
                              /\ i \in ToldIn(messages[j].text) \cup cutOff
        BY <1>1, <1>2, <4>1 DEF ContextInv, CursorsLead, Resolved
      <4>3. j = k
        BY <1>19, <3>1, <4>1, <4>2
      <4> QED BY <4>2, <4>3
    <3>2. CASE origin[i] \in CursorsOf(old)
      <4>1. PICK k \in 1..o : origin[i] = messages[k].cursor
        BY <1>21, <3>2
      <4>2. i \in ToldIn(messages[k].text) \cup cutOff
        BY <1>18, <3>1, <4>1
      <4>3. i \in ToldIn(messages'[1].text) \cup cutOff'
        BY <1>12, <1>15, <1>26, <4>2
      <4>4. cursorMap'[origin[i]] = c
        BY <1>12, <2>1, <3>2
      <4> QED BY <1>16, <1>17, <1>18, <4>3, <4>4
    <3>3. CASE origin[i] \notin CursorsOf(old)
      <4>1. origin[i] \in CursorsOf(messages') /\ cursorMap'[origin[i]] = origin[i]
        BY <1>12, <2>1, <3>3
      <4>2. PICK j \in 1..KeepRecent + 1 : origin[i] = messages'[j].cursor
        BY <1>17, <4>1 DEF CursorsOf
      <4>3. j # 1
        BY <1>16, <1>17, <1>20, <4>2
      <4>4. PICK l \in 1..KeepRecent : l + 1 = j
        BY <1>18, <4>3
      <4>5. messages'[j] = messages[o + l] /\ o + l \in 1..L
        BY <1>17, <1>18, <4>4
      <4>6. i \in ToldIn(messages[o + l].text) \cup cutOff
        BY <3>1, <4>2, <4>5
      <4> QED BY <1>12, <4>1, <4>2, <4>5, <4>6
    <3> QED BY <3>2, <3>3
  <2> QED BY <1>31, <2>1 DEF CursorsLead, Resolved, ToldIn
<1>30. (total = TokensOf(messages))'
  BY <1>12 DEF TokensOf
<1> QED BY <1>23, <1>24, <1>25, <1>27, <1>28, <1>29, <1>30 DEF ContextInv

\* Nothing of it changes.
LEMMA ContextStands ==
  ASSUME ContextInv,
         UNCHANGED <<messages, nextCursor, total, summary, cursorMap, origin, cutOff>>
  PROVE  ContextInv'
PROOF
<1>1. ContextTypes' /\ CursorsGiven' /\ OwnCursor'
  BY DEF ContextInv, ContextTypes, CursorsGiven, OwnCursor
<1>2. NothingForgotten' /\ RecentVerbatim'
  <2>1. NothingForgotten'
    BY DEF ContextInv, NothingForgotten
  <2>2. RecentVerbatim'
    BY DEF ContextInv, RecentVerbatim
  <2> QED BY <2>1, <2>2
<1>3. CursorsLead'
  BY DEF ContextInv, CursorsLead, Resolved, ToldIn
<1>4. (total = TokensOf(messages))'
  BY DEF ContextInv, TokensOf
<1> QED BY <1>1, <1>2, <1>3, <1>4 DEF ContextInv

\* A compaction, done or not.
LEMMA ContextCompacted ==
  ASSUME ContextInv, Compact
  PROVE  ContextInv'
PROOF
<1>1. CASE Len(messages) > KeepRecent /\ Summarized(OldMessages(messages))
  <2>1. UNCHANGED origin
    BY DEF Compact
  <2> QED BY <1>1, <2>1, ContextSummarized
<1>2. CASE UNCHANGED <<messages, nextCursor, total, summary, cursorMap, cutOff>>
  <2>1. UNCHANGED <<messages, nextCursor, total, summary, cursorMap, origin, cutOff>>
    BY <1>2 DEF Compact
  <2> QED BY <2>1, ContextStands
<1> QED BY <1>1, <1>2 DEF Compact

(* For every number of messages kept, length of the summary and threshold, and *)
(* however many messages and compactions there are, by hand, by threshold or   *)
(* failing: what was told is still told, up to the cut of the summary, the     *)
(* latest messages are word for word, a cursor that resolves leads to what it  *)
(* stood for, and the total that starts a compaction is the sum.               *)
THEOREM ContextStaysWhole == CompactionSpec => []ContextIsWhole
PROOF
<1>1. CompactionInit => ContextInv
  BY ContextStart
<1>2. ContextInv /\ [CompactionNext]_compactionVars => ContextInv'
  <2> SUFFICES ASSUME ContextInv, [CompactionNext]_compactionVars PROVE ContextInv'
    OBVIOUS
  <2>1. CASE \E tokens \in {1, 2} : AppendMessage(tokens)
    BY <2>1, ContextAppend
  <2>2. CASE ManualCompact
    <3>1. Compact
      BY <2>2 DEF ManualCompact
    <3> QED BY <3>1, ContextCompacted
  <2>3. CASE LookAtTotal
    <3>1. UNCHANGED <<messages, nextCursor, total, summary, cursorMap, origin, cutOff>>
      BY <2>3 DEF LookAtTotal
    <3> QED BY <3>1, ContextStands
  <2>4. CASE AutoCompact
    <3>1. Compact
      BY <2>4 DEF AutoCompact
    <3> QED BY <3>1, ContextCompacted
  <2>5. CASE UNCHANGED compactionVars
    <3>1. UNCHANGED <<messages, nextCursor, total, summary, cursorMap, origin, cutOff>>
      BY <2>5 DEF compactionVars
    <3> QED BY <3>1, ContextStands
  <2> QED BY <2>1, <2>2, <2>3, <2>4, <2>5 DEF CompactionNext
<1>3. ContextInv => ContextIsWhole
  BY DEF ContextInv, ContextIsWhole
<1> QED BY <1>1, <1>2, <1>3, PTL DEF CompactionSpec
-------------------------------------------------------------------------------
(* The rules of the engine's hook dispatcher, for any number of them.          *)

HookRule ==
  [id : Nat, scope : {"global", "workspace", "project", "session", "plugin"},
   bound : {"none", "project", "otherWorkspace", "otherProject", "session", "otherSession"},
   typePattern : {"any", "exact", "glob", "broken"},
   toolPattern : {"any", "exact", "glob", "broken"},
   decision : {"deny", "ask", "allow", "unknown"}]

\* Rules in a list, each with a number of its own.
Listing(rs) ==
  /\ rs \in Seq(HookRule)
  /\ \A i, j \in 1..Len(rs) : rs[i].id = rs[j].id => i = j

\* The rules are numbered as they were given.
HookInv ==
  hookRules \in Seq(HookRule) /\ \A i \in 1..Len(hookRules) : hookRules[i].id = i

\* The places of the decisions,
LEMMA DecisionPlaces ==
  /\ PositionIn("deny", HookDecisions) = 1 /\ PositionIn("ask", HookDecisions) = 2
  /\ PositionIn("allow", HookDecisions) = 3 /\ PositionIn("unknown", HookDecisions) = 4
PROOF
<1>1. Len(HookDecisions) = 4 /\ 1..4 = {1, 2, 3, 4}
  BY DEF HookDecisions
<1>2. /\ HookDecisions[1] = "deny" /\ HookDecisions[2] = "ask"
      /\ HookDecisions[3] = "allow" /\ HookDecisions[4] = "unknown"
  BY DEF HookDecisions
<1> QED BY <1>1, <1>2 DEF PositionIn

\* of the scopes,
LEMMA ScopePlaces ==
  \A s \in {"global", "workspace", "project", "session", "plugin"} :
    PositionIn(s, HookScopes) \in Nat
PROOF
<1>1. Len(HookScopes) = 5 /\ 1..5 = {1, 2, 3, 4, 5}
  BY DEF HookScopes
<1>2. /\ HookScopes[1] = "global" /\ HookScopes[2] = "workspace" /\ HookScopes[3] = "project"
      /\ HookScopes[4] = "session" /\ HookScopes[5] = "plugin"
  BY DEF HookScopes
<1> QED BY <1>1, <1>2 DEF PositionIn

\* and of the outcomes by their strictness.
LEMMA StrictnessPlaces ==
  /\ Strictness("allow") = 1 /\ Strictness("ask") = 2
  /\ Strictness("deny") = 3 /\ Strictness("error") = 4
PROOF
<1>1. PICK order : order = <<"allow", "ask", "deny", "error">>
  OBVIOUS
<1>2. Len(order) = 4 /\ 1..4 = {1, 2, 3, 4}
  BY <1>1
<1>3. order[1] = "allow" /\ order[2] = "ask" /\ order[3] = "deny" /\ order[4] = "error"
  BY <1>1
<1>4. \A d : Strictness(d) = CHOOSE i \in 1..Len(order) : order[i] = d
  BY <1>1 DEF Strictness, PositionIn
<1> QED BY <1>2, <1>3, <1>4

\* The sort key of a rule is of numbers.
LEMMA KeyParts ==
  ASSUME NEW r \in HookRule
  PROVE  /\ PositionIn(r.decision, HookDecisions) \in Nat
         /\ PositionIn(r.scope, HookScopes) \in Nat /\ Specificity(r) \in Nat /\ r.id \in Nat
PROOF
<1>1. r.decision \in {"deny", "ask", "allow", "unknown"} /\ r.id \in Nat
      /\ r.scope \in {"global", "workspace", "project", "session", "plugin"}
  BY DEF HookRule
<1>2. \A p : Breadth(p) \in Nat
  BY DEF Breadth
<1>3. Specificity(r) \in Nat
  BY <1>2 DEF Specificity
<1> QED BY <1>1, <1>3, DecisionPlaces, ScopePlaces

\* One key comes before another.
LEMMA KeyOrder ==
  ASSUME NEW a1, NEW a2, NEW a3, NEW a4, NEW b1, NEW b2, NEW b3, NEW b4
  PROVE  Precedes(<<a1, a2, a3, a4>>, <<b1, b2, b3, b4>>) <=>
           \/ a1 < b1
           \/ a1 = b1 /\ a2 < b2
           \/ a1 = b1 /\ a2 = b2 /\ a3 < b3
           \/ a1 = b1 /\ a2 = b2 /\ a3 = b3 /\ a4 < b4
PROOF
<1>1. PICK a : a = <<a1, a2, a3, a4>>
  OBVIOUS
<1>2. PICK b : b = <<b1, b2, b3, b4>>
  OBVIOUS
<1>3. a[1] = a1 /\ a[2] = a2 /\ a[3] = a3 /\ a[4] = a4
  BY <1>1
<1>4. b[1] = b1 /\ b[2] = b2 /\ b[3] = b3 /\ b[4] = b4
  BY <1>2
<1>5. /\ 1..4 = {1, 2, 3, 4} /\ 1..(1 - 1) = {} /\ 1..(2 - 1) = {1}
      /\ 1..(3 - 1) = {1, 2} /\ 1..(4 - 1) = {1, 2, 3}
  OBVIOUS
<1>6. Precedes(a, b) <=> \E i \in {1, 2, 3, 4} : a[i] < b[i] /\ \A j \in 1..(i - 1) : a[j] = b[j]
  BY <1>5 DEF Precedes
<1>7. Precedes(a, b) <=> \/ a[1] < b[1] /\ \A j \in 1..(1 - 1) : a[j] = b[j]
                         \/ a[2] < b[2] /\ \A j \in 1..(2 - 1) : a[j] = b[j]
                         \/ a[3] < b[3] /\ \A j \in 1..(3 - 1) : a[j] = b[j]
                         \/ a[4] < b[4] /\ \A j \in 1..(4 - 1) : a[j] = b[j]
  BY <1>6
<1>8. Precedes(a, b) <=> \/ a[1] < b[1]
                         \/ a[2] < b[2] /\ \A j \in {1} : a[j] = b[j]
                         \/ a[3] < b[3] /\ \A j \in {1, 2} : a[j] = b[j]
                         \/ a[4] < b[4] /\ \A j \in {1, 2, 3} : a[j] = b[j]
  BY <1>5, <1>7
<1>9. Precedes(a, b) <=> \/ a[1] < b[1]
                         \/ a[2] < b[2] /\ a[1] = b[1]
                         \/ a[3] < b[3] /\ a[1] = b[1] /\ a[2] = b[2]
                         \/ a[4] < b[4] /\ a[1] = b[1] /\ a[2] = b[2] /\ a[3] = b[3]
  BY <1>8
<1>10. Precedes(a, b) <=> \/ a1 < b1
                          \/ a2 < b2 /\ a1 = b1
                          \/ a3 < b3 /\ a1 = b1 /\ a2 = b2
                          \/ a4 < b4 /\ a1 = b1 /\ a2 = b2 /\ a3 = b3
  BY <1>3, <1>4, <1>9
<1> QED BY <1>1, <1>2, <1>10

\* Rule r comes before rule q.
Sooner(r, q) ==
  LET d(x) == PositionIn(x.decision, HookDecisions)
      s(x) == PositionIn(x.scope, HookScopes)
  IN \/ d(r) < d(q)
     \/ d(r) = d(q) /\ s(r) < s(q)
     \/ d(r) = d(q) /\ s(r) = s(q) /\ Specificity(r) < Specificity(q)
     \/ d(r) = d(q) /\ s(r) = s(q) /\ Specificity(r) = Specificity(q) /\ r.id < q.id

\* The keys say so.
LEMMA SoonerIs ==
  ASSUME NEW r, NEW q
  PROVE  Precedes(SortKey(r), SortKey(q)) <=> Sooner(r, q)
BY KeyOrder DEF SortKey, Sooner

\* Among rules there is one with the least number in any column of the key.
LEMMA LeastBy ==
  ASSUME NEW R, R # {}, NEW f, \A r \in R : f[r] \in Nat
  PROVE  \E r \in R : \A q \in R : f[r] <= f[q]
PROOF
<1>1. PICK S : S = {f[r] : r \in R}
  OBVIOUS
<1>2. S \subseteq Nat /\ S # {}
  BY <1>1
<1>3. PICK x \in S : \A y \in S : x <= y
  BY <1>2, FirstOf
<1> QED BY <1>1, <1>3

\* One rule decides among some, and its decision is the strictest of theirs.
LEMMA OneDecides ==
  ASSUME NEW R, R \subseteq HookRule, R # {}, \A r, q \in R : r.id = q.id => r = q
  PROVE  /\ Decisive(R) \in R
         /\ \A q \in R : PositionIn(Decisive(R).decision, HookDecisions)
                           <= PositionIn(q.decision, HookDecisions)
PROOF
<1>1. PICK d : d = [r \in HookRule |-> PositionIn(r.decision, HookDecisions)]
  OBVIOUS
<1>2. PICK s : s = [r \in HookRule |-> PositionIn(r.scope, HookScopes)]
  OBVIOUS
<1>3. PICK n : n = [r \in HookRule |-> Specificity(r)]
  OBVIOUS
<1>4. PICK i : i = [r \in HookRule |-> r.id]
  OBVIOUS
<1>5. \A r \in HookRule : d[r] \in Nat /\ s[r] \in Nat /\ n[r] \in Nat /\ i[r] \in Nat
  BY <1>1, <1>2, <1>3, <1>4, KeyParts
<1>6. \A r, q \in HookRule :
        Sooner(r, q) <=> \/ d[r] < d[q]
                         \/ d[r] = d[q] /\ s[r] < s[q]
                         \/ d[r] = d[q] /\ s[r] = s[q] /\ n[r] < n[q]
                         \/ d[r] = d[q] /\ s[r] = s[q] /\ n[r] = n[q] /\ i[r] < i[q]
  BY <1>1, <1>2, <1>3, <1>4 DEF Sooner
<1>7. \A r, q \in R : i[r] = i[q] => r = q
  BY <1>4
<1>8. PICK r1 \in R : \A q \in R : d[r1] <= d[q]
  BY <1>5, LeastBy
<1>9. PICK R2 : R2 = {q \in R : d[q] = d[r1]}
  OBVIOUS
<1>10. R2 # {} /\ \A q \in R2 : s[q] \in Nat
  BY <1>5, <1>9
<1>11. PICK r2 \in R2 : \A q \in R2 : s[r2] <= s[q]
  BY <1>10, LeastBy
<1>12. PICK R3 : R3 = {q \in R2 : s[q] = s[r2]}
  OBVIOUS
<1>13. R3 # {} /\ \A q \in R3 : n[q] \in Nat
  BY <1>5, <1>9, <1>12
<1>14. PICK r3 \in R3 : \A q \in R3 : n[r3] <= n[q]
  BY <1>13, LeastBy
<1>15. PICK R4 : R4 = {q \in R3 : n[q] = n[r3]}
  OBVIOUS
<1>16. R4 # {} /\ \A q \in R4 : i[q] \in Nat
  BY <1>5, <1>9, <1>12, <1>15
<1>17. PICK r4 \in R4 : \A q \in R4 : i[r4] <= i[q]
  BY <1>16, LeastBy
<1>18. r4 \in R /\ d[r4] = d[r1] /\ s[r4] = s[r2] /\ n[r4] = n[r3]
  BY <1>9, <1>12, <1>15, <1>17
<1>19. ASSUME NEW q \in R PROVE q = r4 \/ Sooner(r4, q)
  <2>1. /\ d[q] \in Nat /\ s[q] \in Nat /\ n[q] \in Nat /\ i[q] \in Nat
        /\ d[r4] \in Nat /\ s[r4] \in Nat /\ n[r4] \in Nat /\ i[r4] \in Nat
    BY <1>5, <1>18
  <2>2. r4 \in HookRule /\ q \in HookRule
    BY <1>18
  <2>3. d[r4] < d[q] \/ d[r4] = d[q]
    BY <1>8, <1>18, <2>1
  <2>4. CASE d[r4] < d[q]
    BY <1>6, <2>2, <2>4
  <2>5. CASE d[r4] = d[q]
    <3>1. q \in R2
      BY <1>9, <1>18, <2>5
    <3>2. s[r4] < s[q] \/ s[r4] = s[q]
      BY <1>11, <1>18, <2>1, <3>1
    <3>3. CASE s[r4] < s[q]
      BY <1>6, <2>2, <2>5, <3>3
    <3>4. CASE s[r4] = s[q]
      <4>1. q \in R3
        BY <1>12, <1>18, <3>1, <3>4
      <4>2. n[r4] < n[q] \/ n[r4] = n[q]
        BY <1>14, <1>18, <2>1, <4>1
      <4>3. CASE n[r4] < n[q]
        BY <1>6, <2>2, <2>5, <3>4, <4>3
      <4>4. CASE n[r4] = n[q]
        <5>1. q \in R4
          BY <1>15, <1>18, <4>1, <4>4
        <5>2. i[r4] < i[q] \/ i[r4] = i[q]
          BY <1>17, <2>1, <5>1
        <5>3. CASE i[r4] < i[q]
          BY <1>6, <2>2, <2>5, <3>4, <4>4, <5>3
        <5>4. CASE i[r4] = i[q]
          BY <1>7, <1>18, <5>4
        <5> QED BY <5>2, <5>3, <5>4
      <4> QED BY <4>2, <4>3, <4>4
    <3> QED BY <3>2, <3>3, <3>4
  <2> QED BY <2>3, <2>4, <2>5
<1>20. PICK c : c = Decisive(R)
  OBVIOUS
<1>21. \A q \in R : q = r4 \/ Precedes(SortKey(r4), SortKey(q))
  BY <1>19, SoonerIs
<1>22. c \in R /\ \A q \in R : q = c \/ Precedes(SortKey(c), SortKey(q))
  BY <1>18, <1>20, <1>21 DEF Decisive
<1>23. c = r4
  <2> SUFFICES ASSUME c # r4 PROVE FALSE
    OBVIOUS
  <2>1. Sooner(c, r4) /\ Sooner(r4, c)
    BY <1>18, <1>19, <1>22, SoonerIs
  <2>2. c \in HookRule /\ r4 \in HookRule
    BY <1>18, <1>22
  <2>3. /\ d[c] \in Nat /\ s[c] \in Nat /\ n[c] \in Nat /\ i[c] \in Nat
        /\ d[r4] \in Nat /\ s[r4] \in Nat /\ n[r4] \in Nat /\ i[r4] \in Nat
    BY <1>5, <2>2
  <2>4. \/ d[c] < d[r4]
        \/ d[c] = d[r4] /\ s[c] < s[r4]
        \/ d[c] = d[r4] /\ s[c] = s[r4] /\ n[c] < n[r4]
        \/ d[c] = d[r4] /\ s[c] = s[r4] /\ n[c] = n[r4] /\ i[c] < i[r4]
    BY <1>6, <2>1, <2>2
  <2>5. \/ d[r4] < d[c]
        \/ d[r4] = d[c] /\ s[r4] < s[c]
        \/ d[r4] = d[c] /\ s[r4] = s[c] /\ n[r4] < n[c]
        \/ d[r4] = d[c] /\ s[r4] = s[c] /\ n[r4] = n[c] /\ i[r4] < i[c]
    BY <1>6, <2>1, <2>2
  <2> QED BY <2>3, <2>4, <2>5
<1>24. \A q \in R : d[c] <= d[q]
  BY <1>8, <1>18, <1>23
<1>25. \A q \in R : PositionIn(c.decision, HookDecisions)
                      <= PositionIn(q.decision, HookDecisions)
  BY <1>1, <1>22, <1>24
<1> QED BY <1>20, <1>22, <1>25

\* What comes of a list of rules.
LEMMA DispatchIs ==
  ASSUME NEW rs, Listing(rs), NEW x
  PROVE  \/ /\ \E r \in RulesOf(rs) : Breaks(r, x)
            /\ Dispatch(rs, x) = [decision |-> "error", rule |-> 0]
         \/ /\ \A r \in RulesOf(rs) : ~Breaks(r, x)
            /\ Matched(rs, x) = {} /\ Dispatch(rs, x) = [decision |-> "allow", rule |-> 0]
         \/ /\ \A r \in RulesOf(rs) : ~Breaks(r, x)
            /\ \E c \in Matched(rs, x) :
                 /\ Dispatch(rs, x) = Says(c)
                 /\ \A q \in Matched(rs, x) : PositionIn(c.decision, HookDecisions)
                                                <= PositionIn(q.decision, HookDecisions)
PROOF
<1>1. RulesOf(rs) \subseteq HookRule
  BY DEF Listing, RulesOf
<1>2. \A r, q \in RulesOf(rs) : r.id = q.id => r = q
  BY DEF Listing, RulesOf
<1>3. CASE \E r \in RulesOf(rs) : Breaks(r, x)
  BY <1>3 DEF Dispatch
<1>4. CASE ~ (\E r \in RulesOf(rs) : Breaks(r, x)) /\ Matched(rs, x) = {}
  BY <1>4 DEF Dispatch
<1>5. CASE ~ (\E r \in RulesOf(rs) : Breaks(r, x)) /\ Matched(rs, x) # {}
  <2>1. PICK R : R = Matched(rs, x)
    OBVIOUS
  <2>2. R \subseteq HookRule /\ R # {} /\ \A r, q \in R : r.id = q.id => r = q
    BY <1>1, <1>2, <1>5, <2>1 DEF Matched
  <2>3. PICK c : c = Decisive(R)
    OBVIOUS
  <2>4. c \in R /\ \A q \in R : PositionIn(c.decision, HookDecisions)
                                  <= PositionIn(q.decision, HookDecisions)
    BY <2>2, <2>3, OneDecides
  <2>5. Dispatch(rs, x) = Says(c)
    BY <1>5, <2>1, <2>3 DEF Dispatch
  <2> QED BY <1>5, <2>1, <2>4, <2>5
<1> QED BY <1>3, <1>4, <1>5

\* What a rule comes to when there is no other.
Alone(r, x) ==
  IF Breaks(r, x) THEN [decision |-> "error", rule |-> 0]
  ELSE IF InScope(r, x) /\ TypeFits(r, x) /\ ToolFits(r, x) THEN Says(r)
  ELSE [decision |-> "allow", rule |-> 0]

\* That is what is made of it.
LEMMA AloneIs ==
  ASSUME NEW r \in HookRule, NEW x
  PROVE  Dispatch(<<r>>, x) = Alone(r, x)
PROOF
<1>1. PICK rs : rs = <<r>>
  OBVIOUS
<1>2. rs \in Seq(HookRule) /\ Len(rs) = 1 /\ rs[1] = r
  BY <1>1
<1>3. RulesOf(rs) = {r}
  BY <1>2 DEF RulesOf
<1>4. Listing(rs)
  BY <1>2 DEF Listing
<1>5. Matched(rs, x) = IF InScope(r, x) /\ TypeFits(r, x) /\ ToolFits(r, x) THEN {r} ELSE {}
  BY <1>3 DEF Matched
<1>6. CASE Breaks(r, x)
  BY <1>1, <1>3, <1>4, <1>6, DispatchIs DEF Alone
<1>7. CASE ~Breaks(r, x) /\ ~ (InScope(r, x) /\ TypeFits(r, x) /\ ToolFits(r, x))
  BY <1>1, <1>3, <1>4, <1>5, <1>7, DispatchIs DEF Alone
<1>8. CASE ~Breaks(r, x) /\ InScope(r, x) /\ TypeFits(r, x) /\ ToolFits(r, x)
  <2>1. Matched(rs, x) = {r}
    BY <1>5, <1>8
  <2>2. PICK c \in {r} : Dispatch(rs, x) = Says(c)
    BY <1>3, <1>4, <1>8, <2>1, DispatchIs
  <2> QED BY <1>1, <1>8, <2>2 DEF Alone
<1> QED BY <1>6, <1>7, <1>8

\* A list decides no less strictly than each of its rules, and as one of them.
LEMMA StrictestDecides ==
  ASSUME NEW rs, Listing(rs), NEW x
  PROVE  /\ \A r \in RulesOf(rs) :
              Strictness(Alone(r, x).decision) <= Strictness(Dispatch(rs, x).decision)
         /\ Dispatch(rs, x).decision \in
              {Alone(r, x).decision : r \in RulesOf(rs)} \cup {"allow"}
         /\ Dispatch(rs, x).rule # 0 =>
              \E r \in RulesOf(rs) : r.id = Dispatch(rs, x).rule /\ Alone(r, x) = Dispatch(rs, x)
PROOF
<1>1. RulesOf(rs) \subseteq HookRule
  BY DEF Listing, RulesOf
<1>2. \A r \in HookRule : r.decision \in {"deny", "ask", "allow", "unknown"}
  BY DEF HookRule
<1>3. \A r : Says(r).decision = (IF r.decision = "unknown" THEN "allow" ELSE r.decision)
             /\ Says(r).rule = r.id
  BY DEF Says
<1>4. \A r \in HookRule : Alone(r, x).decision \in {"allow", "ask", "deny", "error"}
  BY <1>2, <1>3 DEF Alone
<1>5. PICK d : d = Dispatch(rs, x)
  OBVIOUS
<1>6. CASE /\ \E r \in RulesOf(rs) : Breaks(r, x)
           /\ d = [decision |-> "error", rule |-> 0]
  <2>1. PICK r \in RulesOf(rs) : Breaks(r, x)
    BY <1>6
  <2>2. Alone(r, x).decision = "error" /\ d.decision = "error" /\ d.rule = 0
    BY <1>6, <2>1 DEF Alone
  <2>3. \A q \in RulesOf(rs) : Strictness(Alone(q, x).decision) <= Strictness("error")
    BY <1>1, <1>4, StrictnessPlaces
  <2> QED BY <1>5, <2>2, <2>3
<1>7. CASE /\ \A r \in RulesOf(rs) : ~Breaks(r, x)
           /\ Matched(rs, x) = {} /\ d = [decision |-> "allow", rule |-> 0]
  <2>1. \A r \in RulesOf(rs) : Alone(r, x).decision = "allow"
    BY <1>7 DEF Matched, Alone
  <2>2. d.decision = "allow" /\ d.rule = 0
    BY <1>7
  <2> QED BY <1>5, <2>1, <2>2, StrictnessPlaces
<1>8. ASSUME \A r \in RulesOf(rs) : ~Breaks(r, x), NEW c \in Matched(rs, x), d = Says(c),
             \A q \in Matched(rs, x) : PositionIn(c.decision, HookDecisions)
                                         <= PositionIn(q.decision, HookDecisions)
      PROVE  /\ \A r \in RulesOf(rs) :
                  Strictness(Alone(r, x).decision) <= Strictness(d.decision)
             /\ d.decision \in {Alone(r, x).decision : r \in RulesOf(rs)} \cup {"allow"}
             /\ d.rule # 0 => \E r \in RulesOf(rs) : r.id = d.rule /\ Alone(r, x) = d
  <2>1. /\ c \in RulesOf(rs) /\ c \in HookRule /\ Alone(c, x) = Says(c)
    BY <1>1, <1>8 DEF Matched, Alone
  <2>2. ASSUME NEW r \in RulesOf(rs)
        PROVE  Strictness(Alone(r, x).decision) <= Strictness(d.decision)
    <3>1. d.decision \in {"allow", "ask", "deny"} /\ r \in HookRule
      BY <1>1, <1>2, <1>3, <1>8, <2>1
    <3>2. CASE r \notin Matched(rs, x)
      <4>1. Alone(r, x).decision = "allow"
        BY <1>8, <3>2 DEF Matched, Alone
      <4> QED BY <3>1, <4>1, StrictnessPlaces
    <3>3. CASE r \in Matched(rs, x)
      <4>1. Alone(r, x).decision = Says(r).decision
        BY <1>8, <3>3 DEF Matched, Alone
      <4>2. PositionIn(c.decision, HookDecisions) <= PositionIn(r.decision, HookDecisions)
        BY <1>8, <3>3
      <4>3. /\ r.decision \in {"deny", "ask", "allow", "unknown"}
            /\ c.decision \in {"deny", "ask", "allow", "unknown"}
        BY <1>2, <2>1, <3>1
      <4>4. Strictness(Says(r).decision) <= Strictness(Says(c).decision)
        BY <1>3, <4>2, <4>3, DecisionPlaces, StrictnessPlaces
      <4> QED BY <1>8, <4>1, <4>4
    <3> QED BY <3>2, <3>3
  <2>3. d.rule = c.id
    BY <1>3, <1>8
  <2> QED BY <1>8, <2>1, <2>2, <2>3
<1> QED BY <1>5, <1>6, <1>7, <1>8, DispatchIs

\* It is the rules that count, not their order in the list.
LEMMA OrderIsNothing ==
  ASSUME NEW rs \in Seq(HookRule), NEW x
  PROVE  Dispatch(Backwards(rs), x) = Dispatch(rs, x)
PROOF
<1>1. PICK bs : bs = Backwards(rs)
  OBVIOUS
<1>2. PICK n : n = Len(rs)
  OBVIOUS
<1>3. n \in Nat
  BY <1>2
<1>4. bs = [i \in 1..n |-> rs[n + 1 - i]]
  BY <1>1, <1>2 DEF Backwards
<1>5. Len(bs) = n
  BY <1>3, <1>4, LenProperties
<1>6. \A i \in 1..n : n + 1 - i \in 1..n /\ n + 1 - (n + 1 - i) = i
  BY <1>3
<1>7. \A i \in 1..n : bs[i] = rs[n + 1 - i]
  BY <1>4
<1>8. RulesOf(bs) = RulesOf(rs)
  BY <1>2, <1>5, <1>6, <1>7 DEF RulesOf
<1>9. Matched(bs, x) = Matched(rs, x)
  BY <1>8 DEF Matched
<1> QED BY <1>1, <1>8, <1>9 DEF Dispatch

\* Numbered rules tighten only.
LEMMA ListTightens ==
  ASSUME HookInv
  PROVE  RulesOnlyTighten
PROOF
<1> SUFFICES ASSUME hookRules # <<>>, NEW x \in HookOccasions
             PROVE  LET d == Dispatch(hookRules, x)
                        fewer == Dispatch(SubSeq(hookRules, 1, Len(hookRules) - 1), x)
                    IN /\ \A v \in Voices(x) : Strictness(v) <= Strictness(d.decision)
                       /\ d.decision \in Voices(x) \cup {"allow"}
                       /\ d = Dispatch(Backwards(hookRules), x)
                       /\ d.rule # 0 => Dispatch(<<hookRules[d.rule]>>, x) = d
                       /\ Strictness(fewer.decision) <= Strictness(d.decision)
  BY DEF RulesOnlyTighten
<1>1. PICK rs : rs = hookRules
  OBVIOUS
<1>2. PICK n : n = Len(rs)
  OBVIOUS
<1>3. rs \in Seq(HookRule) /\ rs # <<>> /\ \A i \in 1..Len(rs) : rs[i].id = i
  BY <1>1 DEF HookInv
<1>4. n \in Nat /\ n # 0
  BY <1>2, <1>3, EmptySeq
<1>5. PICK less : less = SubSeq(rs, 1, n - 1)
  OBVIOUS
<1>6. /\ less \in Seq(HookRule) /\ Len(less) = n - 1
      /\ \A i \in 1..(n - 1) : less[i] = rs[i]
  <2>1. n - 1 \in Nat /\ n - 1 <= n
    BY <1>4
  <2> QED BY <1>2, <1>3, <1>4, <1>5, <2>1
<1>7. Listing(rs)
  BY <1>3 DEF Listing
<1>8. \A i \in 1..(n - 1) : i \in 1..n
  BY <1>4
<1>9. Listing(less)
  <2>1. \A i \in 1..(n - 1) : less[i].id = i
    BY <1>2, <1>3, <1>6, <1>8
  <2> QED BY <1>6, <2>1 DEF Listing
<1>10. RulesOf(less) \subseteq RulesOf(rs) /\ RulesOf(rs) \subseteq HookRule
  BY <1>2, <1>3, <1>6, <1>8 DEF RulesOf
<1>11. PICK d : d = Dispatch(rs, x)
  OBVIOUS
<1>12. PICK fewer : fewer = Dispatch(less, x)
  OBVIOUS
<1>13. \A r \in RulesOf(rs) : Dispatch(<<r>>, x) = Alone(r, x)
  BY <1>10, AloneIs
<1>14. Voices(x) = {Alone(r, x).decision : r \in RulesOf(rs)}
  BY <1>1, <1>13 DEF Voices, RulesOf
<1>15. /\ \A r \in RulesOf(rs) : Strictness(Alone(r, x).decision) <= Strictness(d.decision)
       /\ d.decision \in {Alone(r, x).decision : r \in RulesOf(rs)} \cup {"allow"}
       /\ d.rule # 0 => \E r \in RulesOf(rs) : r.id = d.rule /\ Alone(r, x) = d
  BY <1>7, <1>11, StrictestDecides
<1>16. fewer.decision \in {Alone(r, x).decision : r \in RulesOf(less)} \cup {"allow"}
  BY <1>9, <1>12, StrictestDecides
<1>17. d.rule # 0 => Dispatch(<<rs[d.rule]>>, x) = d
  <2> SUFFICES ASSUME d.rule # 0 PROVE Dispatch(<<rs[d.rule]>>, x) = d
    OBVIOUS
  <2>1. PICK r \in RulesOf(rs) : r.id = d.rule /\ Alone(r, x) = d
    BY <1>15
  <2>2. PICK i \in 1..Len(rs) : r = rs[i]
    BY <2>1 DEF RulesOf
  <2>3. d.rule = i
    BY <1>3, <2>1, <2>2
  <2>4. rs[d.rule] = r
    BY <2>2, <2>3
  <2> QED BY <1>13, <2>1, <2>4
<1>18. Strictness(fewer.decision) <= Strictness(d.decision)
  <2>1. CASE fewer.decision = "allow"
    <3>1. \A r \in HookRule : Alone(r, x).decision \in {"allow", "ask", "deny", "error"}
      BY DEF Alone, Says, HookRule
    <3>2. d.decision \in {"allow", "ask", "deny", "error"}
      BY <1>10, <1>15, <3>1
    <3> QED BY <2>1, <3>2, StrictnessPlaces
  <2>2. CASE fewer.decision # "allow"
    <3>1. PICK r \in RulesOf(less) : fewer.decision = Alone(r, x).decision
      BY <1>16, <2>2
    <3>2. r \in RulesOf(rs)
      BY <1>10
    <3> QED BY <1>15, <3>1, <3>2
  <2> QED BY <2>1, <2>2
<1>19. d = Dispatch(Backwards(rs), x)
  BY <1>3, <1>11, OrderIsNothing
<1> QED BY <1>1, <1>2, <1>5, <1>11, <1>12, <1>14, <1>15, <1>17, <1>18, <1>19

(* For every number of rules and every occasion: the dispatcher decides as the *)
(* strictest of its rules would alone, names a rule that came to it, does not  *)
(* look at the order in which it got them, and a rule more loosens nothing.    *)
THEOREM HooksOnlyTighten == HookSpec => []RulesOnlyTighten
PROOF
<1>1. HookInit => HookInv
  <2> SUFFICES ASSUME HookInit PROVE HookInv
    OBVIOUS
  <2>1. hookRules = <<>> /\ <<>> \in Seq(HookRule) /\ Len(<<>>) = 0
    BY DEF HookInit
  <2> QED BY <2>1 DEF HookInv
<1>2. HookInv /\ [HookNext]_hookRules => HookInv'
  <2> SUFFICES ASSUME HookInv, [HookNext]_hookRules PROVE HookInv'
    OBVIOUS
  <2>1. CASE HookNext
    <3>1. PICK b \in Bindings, p \in Patterns, k \in 1..Len(HookDecisions) :
            AddHookRule(b, p, HookDecisions[k])
      BY <2>1 DEF HookNext
    <3>2. PICK n : n = Len(hookRules)
      OBVIOUS
    <3>3. PICK r : r = [id |-> n + 1, scope |-> b[1], bound |-> b[2], typePattern |-> p[1],
                        toolPattern |-> p[2], decision |-> HookDecisions[k]]
      OBVIOUS
    <3>4. hookRules' = Append(hookRules, r)
      BY <3>1, <3>2, <3>3 DEF AddHookRule
    <3>5. hookRules \in Seq(HookRule) /\ n \in Nat /\ \A i \in 1..n : hookRules[i].id = i
      BY <3>2 DEF HookInv
    <3>6. /\ b[1] \in {"global", "workspace", "project", "session", "plugin"}
          /\ b[2] \in {"none", "project", "otherWorkspace", "otherProject", "session",
                       "otherSession"}
      BY DEF Bindings
    <3>7. /\ p[1] \in {"any", "exact", "glob", "broken"}
          /\ p[2] \in {"any", "exact", "glob", "broken"}
      BY DEF Patterns
    <3>8. HookDecisions[k] \in {"deny", "ask", "allow", "unknown"}
      BY DEF HookDecisions
    <3>9. r \in HookRule /\ r.id = n + 1
      BY <3>3, <3>5, <3>6, <3>7, <3>8 DEF HookRule
    <3>10. /\ hookRules' \in Seq(HookRule) /\ Len(hookRules') = n + 1
           /\ \A i \in 1..n : hookRules'[i] = hookRules[i]
           /\ hookRules'[n + 1] = r
      BY <3>2, <3>4, <3>5, <3>9
    <3>11. \A i \in 1..n + 1 : i \in 1..n \/ i = n + 1
      BY <3>5
    <3>12. \A i \in 1..n + 1 : hookRules'[i].id = i
      BY <3>5, <3>9, <3>10, <3>11
    <3> QED BY <3>10, <3>12 DEF HookInv
  <2>2. CASE UNCHANGED hookRules
    BY <2>2 DEF HookInv
  <2> QED BY <2>1, <2>2
<1>3. HookInv => RulesOnlyTighten
  BY ListTightens
<1> QED BY <1>1, <1>2, <1>3, PTL DEF HookSpec
===============================================================================
