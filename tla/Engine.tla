-------------------------------- MODULE Engine --------------------------------
(* The Agent v4 engine: agent/runtime/loop/engine.go, with the run-local      *)
(* control channels of agent/policy/approval/router.go and the approval and   *)
(* question waiters of agent/runtime/loop/default_model_executor.go.          *)
(*                                                                            *)
(* Clients call StartSession, Submit and Control; every run that starts gets  *)
(* a goroutine (executeRun). All of them share e.mu, so each action below is  *)
(* one critical section of e.mu, or a step of a goroutine outside it. The one *)
(* call that can block inside a critical section is Control's Send on a full  *)
(* control channel: "blocked" then holds the call, and with it e.mu.          *)
(*                                                                            *)
(* Runs and sessions are numbered in the order the engine allocates them.     *)
EXTENDS Naturals, Sequences, RunLifecycle

CONSTANTS MaxSessions,    \* bound: sessions started
          MaxRuns,        \* bound: runs submitted
          MaxControls,    \* bound: calls of Control
          MaxSteps,       \* bound: executor rounds (delta, approval, question) of a run
          ChannelBuffer   \* capacity of a run's control channel (16 in the code)

ASSUME BoundsAssumption == /\ MaxSessions \in Nat
                           /\ MaxRuns \in Nat
                           /\ MaxControls \in Nat
                           /\ MaxSteps \in Nat
ASSUME BufferAssumption == ChannelBuffer \in Nat \ {0}

VARIABLES
  nextSessionID,  \* sessions started so far
  nextRunID,      \* runs submitted so far
  sessionOf,      \* run -> session it was submitted to
  queue,          \* session -> FIFO of runs not started yet
  active,         \* session -> the run being executed, or NoRun
  feed,           \* session -> next sequence number and the stored events
  machine,        \* run -> lifecycle state
  signals,        \* run -> buffered control signals
  registered,     \* runs with an open control channel
  cancelled,      \* runs whose context was cancelled
  pc,             \* run -> where its goroutine is
  steps,          \* run -> executor rounds done
  controls,       \* calls of Control so far
  blocked         \* the Control call stuck in Send while it holds e.mu

vars == <<nextSessionID, nextRunID, sessionOf, queue, active, feed, machine,
          signals, registered, cancelled, pc, steps, controls, blocked>>

SessionIds == 1..MaxSessions
RunIds == 1..MaxRuns
NoRun == 0
NoSession == 0
NotCreated == "not_created"
NotBlocked == [run |-> NoRun, action |-> "stop"]

Sessions == 1..nextSessionID
Runs == 1..nextRunID

EventTypes == {"run_queued", "run_started", "run_output_delta",
               "run_approval_needed", "run_completed", "run_failed",
               "run_cancelled"}
TerminalEvents == {"run_completed", "run_failed", "run_cancelled"}
Events == [run : RunIds, type : EventTypes, seq : Nat]
Feeds == [next : Nat, items : Seq(Events)]

\* Where a run's goroutine is. The last four are on the way to the critical
\* section that ends the run: two with the outcome already decided
\* (context build), two that decide it there.
GoroutinePhases ==
  {"building", "compacting", "executing",
   "announce_approval", "await_approval", "approval_resolved", "approval_stopped",
   "announce_question", "await_answer", "answered",
   "end_failed", "end_cancelled", "returned_ok", "returned_err"}
Phases == {"none", "done"} \cup GoroutinePhases

Live(r) == pc[r] \in GoroutinePhases
-------------------------------------------------------------------------------
(* The event store: transport/events/store.go.                                *)

\* Store.Append: append, then a stable sort by sequence.
StoreAppend(items, e) ==
  LET k == CHOOSE k \in 0..Len(items) :
             /\ \A i \in 1..k : items[i].seq <= e.seq
             /\ \A i \in (k + 1)..Len(items) : items[i].seq > e.seq
  IN  SubSeq(items, 1, k) \o <<e>> \o SubSeq(items, k + 1, Len(items))

\* newSequencedEvent and emitEventLocked: number the event, store it.
Emit_SameNumber(f, r, type) ==
  [next |-> f.next,
   items |-> StoreAppend(f.items, [run |-> r, type |-> type, seq |-> f.next])]
Emit(f, r, type) ==
  [next |-> f.next + 1,
   items |-> StoreAppend(f.items, [run |-> r, type |-> type, seq |-> f.next])]
-------------------------------------------------------------------------------
Init ==
  /\ nextSessionID = 0
  /\ nextRunID = 0
  /\ sessionOf = [r \in RunIds |-> NoSession]
  /\ queue = [s \in SessionIds |-> <<>>]
  /\ active = [s \in SessionIds |-> NoRun]
  /\ feed = [s \in SessionIds |-> [next |-> 0, items |-> <<>>]]
  /\ machine = [r \in RunIds |-> NotCreated]
  /\ signals = [r \in RunIds |-> <<>>]
  /\ registered = {}
  /\ cancelled = {}
  /\ pc = [r \in RunIds |-> "none"]
  /\ steps = [r \in RunIds |-> 0]
  /\ controls = 0
  /\ blocked = NotBlocked

LockFree == blocked = NotBlocked

\* removeRunFromQueue; a run is queued at most once.
Without(q, r) ==
  IF \E k \in DOMAIN q : q[k] = r
  THEN LET k == CHOOSE k \in DOMAIN q : q[k] = r
       IN  [i \in 1..(Len(q) - 1) |-> IF i < k THEN q[i] ELSE q[i + 1]]
  ELSE q

Enqueue_First(q, r) == <<r>> \o q
Enqueue(q, r) == Append(q, r)

CanStartNext_Always(a, q) == q # <<>>
CanStartNext_KeepsLast(a, q) == a = NoRun /\ Len(q) > 1
CanStartNext(a, q) == a = NoRun /\ q # <<>>

\* startNextIfIdleLocked on session s, whose queue, active run and feed are by
\* now q, a and f, with machine states m and goroutines p. A head whose machine
\* refuses to run is dropped and the session stays idle.
StartNextIfIdle(s, q, a, f, m, p) ==
  \/ /\ ~CanStartNext(a, q)
     /\ queue' = [queue EXCEPT ![s] = q]
     /\ active' = [active EXCEPT ![s] = a]
     /\ feed' = [feed EXCEPT ![s] = f]
     /\ machine' = m
     /\ pc' = p
  \/ /\ CanStartNext(a, q)
     /\ CanTransition(m[Head(q)], "running")
     /\ queue' = [queue EXCEPT ![s] = Tail(q)]
     /\ active' = [active EXCEPT ![s] = Head(q)]
     /\ feed' = [feed EXCEPT ![s] = Emit(f, Head(q), "run_started")]
     /\ machine' = [m EXCEPT ![Head(q)] = "running"]
     /\ \E work \in {"building", "compacting"} : pc' = [p EXCEPT ![Head(q)] = work]
  \/ /\ CanStartNext(a, q)
     /\ ~CanTransition(m[Head(q)], "running")
     /\ queue' = [queue EXCEPT ![s] = Tail(q)]
     /\ active' = [active EXCEPT ![s] = NoRun]
     /\ feed' = [feed EXCEPT ![s] = f]
     /\ machine' = m
     /\ pc' = p

StartSession ==
  /\ LockFree
  /\ nextSessionID < MaxSessions
  /\ nextSessionID' = nextSessionID + 1
  /\ UNCHANGED <<nextRunID, sessionOf, queue, active, feed, machine, signals,
                 registered, cancelled, pc, steps, controls, blocked>>

Submit(s) ==
  /\ LockFree
  /\ nextRunID < MaxRuns
  /\ LET r == nextRunID + 1
     IN  /\ nextRunID' = r
         /\ sessionOf' = [sessionOf EXCEPT ![r] = s]
         /\ registered' = registered \cup {r}
         /\ StartNextIfIdle(s, Enqueue(queue[s], r), active[s],
                            Emit(feed[s], r, "run_queued"),
                            [machine EXCEPT ![r] = "queued"], pc)
  /\ UNCHANGED <<nextSessionID, signals, cancelled, steps, controls, blocked>>
-------------------------------------------------------------------------------
(* Control. The signal is sent first, whatever the action does afterwards.    *)

IsExecuting_ByState(r) == machine[r] = "running"
IsExecuting(r) == active[sessionOf[r]] = r

\* What Control does to run r after Send, sig being the channels by then.
ControlEffect(r, action, sig) ==
  LET s == sessionOf[r]
      halts == action \in {"stop", "deny"}
  IN  \/ /\ halts /\ IsTerminal(machine[r])
         /\ signals' = sig
         /\ UNCHANGED <<queue, feed, machine, registered, cancelled>>
      \/ /\ halts /\ ~IsTerminal(machine[r]) /\ IsExecuting(r)
         /\ cancelled' = cancelled \cup {r}
         /\ signals' = sig
         /\ UNCHANGED <<queue, feed, machine, registered>>
      \/ /\ halts /\ ~IsTerminal(machine[r]) /\ ~IsExecuting(r)
         /\ CanTransition(machine[r], "cancelled")
         /\ queue' = [queue EXCEPT ![s] = Without(@, r)]
         /\ machine' = [machine EXCEPT ![r] = "cancelled"]
         /\ feed' = [feed EXCEPT ![s] = Emit(@, r, "run_cancelled")]
         /\ registered' = registered \ {r}
         /\ signals' = [sig EXCEPT ![r] = <<>>]
         /\ UNCHANGED cancelled
      \/ /\ action \in {"approve", "resume", "answer"}
         /\ machine' = [machine EXCEPT ![r] = ApplyControl(@, action)]
         /\ signals' = sig
         /\ UNCHANGED <<queue, feed, registered, cancelled>>

ChannelFull(r) == r \in registered /\ Len(signals[r]) >= ChannelBuffer

\* Router.Send: an error, ignored by Control, when the run has no channel.
Sent(r, action) ==
  IF r \in registered THEN [signals EXCEPT ![r] = Append(@, action)] ELSE signals

Control(r, action) ==
  /\ LockFree
  /\ controls < MaxControls
  /\ ~ChannelFull(r)
  /\ ControlEffect(r, action, Sent(r, action))
  /\ controls' = controls + 1
  /\ UNCHANGED <<nextSessionID, nextRunID, sessionOf, active, pc, steps, blocked>>

\* Send blocks on a full channel, and Control keeps e.mu meanwhile.
ControlBlocks(r, action) ==
  /\ LockFree
  /\ controls < MaxControls
  /\ ChannelFull(r)
  /\ blocked' = [run |-> r, action |-> action]
  /\ controls' = controls + 1
  /\ UNCHANGED <<nextSessionID, nextRunID, sessionOf, queue, active, feed, machine,
                 signals, registered, cancelled, pc, steps>>

\* The goroutine made room: Send returns and Control goes on.
ControlUnblocks ==
  /\ ~LockFree
  /\ ~ChannelFull(blocked.run)
  /\ ControlEffect(blocked.run, blocked.action, Sent(blocked.run, blocked.action))
  /\ blocked' = NotBlocked
  /\ UNCHANGED <<nextSessionID, nextRunID, sessionOf, active, pc, steps, controls>>
-------------------------------------------------------------------------------
(* The goroutine of run r.                                                    *)

GoTo(r, phase) == pc' = [pc EXCEPT ![r] = phase]

Emits(r, type) ==
  LET s == sessionOf[r] IN feed' = [feed EXCEPT ![s] = Emit(@, r, type)]

\* contextBuilder.Build; an error is judged by the context at that moment.
BuildContext(r) ==
  /\ pc[r] = "building"
  /\ \/ GoTo(r, "executing")
     \/ r \in cancelled /\ GoTo(r, "end_cancelled")
     \/ r \notin cancelled /\ GoTo(r, "end_failed")
  /\ UNCHANGED <<nextSessionID, nextRunID, sessionOf, queue, active, feed, machine,
                 signals, registered, cancelled, steps, controls, blocked>>

\* The executor, or the compactor of a /compact run, returns.
Return(r) ==
  /\ pc[r] \in {"executing", "compacting"}
  /\ \E outcome \in {"returned_ok", "returned_err"} : GoTo(r, outcome)
  /\ UNCHANGED <<nextSessionID, nextRunID, sessionOf, queue, active, feed, machine,
                 signals, registered, cancelled, steps, controls, blocked>>

\* EmitOutputDelta of model text, a tool call or a tool result.
EmitDelta(r) ==
  /\ LockFree
  /\ pc[r] = "executing" /\ steps[r] < MaxSteps
  /\ steps' = [steps EXCEPT ![r] = @ + 1]
  /\ Emits(r, "run_output_delta")
  /\ UNCHANGED <<nextSessionID, nextRunID, sessionOf, queue, active, machine,
                 signals, registered, cancelled, pc, controls, blocked>>

\* SetRunState, the first thing both waiters do.
BeginWait(r) ==
  /\ LockFree
  /\ pc[r] = "executing" /\ steps[r] < MaxSteps
  /\ steps' = [steps EXCEPT ![r] = @ + 1]
  /\ \E wait \in {<<"waiting_approval", "announce_approval">>,
                  <<"waiting_user_input", "announce_question">>} :
       /\ machine' = [machine EXCEPT ![r] = Transition(@, wait[1])]
       /\ GoTo(r, wait[2])
  /\ UNCHANGED <<nextSessionID, nextRunID, sessionOf, queue, active, feed,
                 signals, registered, cancelled, controls, blocked>>

\* The event before the wait, and the one after it.
Announce(r) ==
  /\ LockFree
  /\ \E a \in {<<"announce_approval", "run_approval_needed", "await_approval">>,
               <<"announce_question", "run_output_delta", "await_answer">>,
               <<"approval_resolved", "run_output_delta", "executing">>,
               <<"approval_stopped", "run_output_delta", "returned_err">>,
               <<"answered", "run_output_delta", "executing">>} :
       /\ pc[r] = a[1]
       /\ Emits(r, a[2])
       /\ GoTo(r, a[3])
  /\ UNCHANGED <<nextSessionID, nextRunID, sessionOf, queue, active, machine,
                 signals, registered, cancelled, steps, controls, blocked>>

\* Router.WaitForApproval takes the oldest signal: an answer is thrown away, any
\* other one decides (a denied tool call leaves the executor running).
TakeApproval(r) ==
  /\ pc[r] = "await_approval"
  /\ signals[r] # <<>>
  /\ signals' = [signals EXCEPT ![r] = Tail(@)]
  /\ \/ Head(signals[r]) = "answer" /\ UNCHANGED pc
     \/ Head(signals[r]) = "stop" /\ GoTo(r, "approval_stopped")
     \/ Head(signals[r]) \in {"approve", "resume", "deny"} /\ GoTo(r, "approval_resolved")
  /\ UNCHANGED <<nextSessionID, nextRunID, sessionOf, queue, active, feed, machine,
                 registered, cancelled, steps, controls, blocked>>

\* Router.WaitForAnswer: stop and deny end the run, an answer to another question
\* and every other signal is thrown away.
TakeAnswer(r) ==
  /\ pc[r] = "await_answer"
  /\ signals[r] # <<>>
  /\ signals' = [signals EXCEPT ![r] = Tail(@)]
  /\ \/ Head(signals[r]) \in {"stop", "deny"} /\ GoTo(r, "returned_err")
     \/ Head(signals[r]) = "answer" /\ GoTo(r, "answered")
     \/ Head(signals[r]) \in {"answer", "approve", "resume"} /\ UNCHANGED pc
  /\ UNCHANGED <<nextSessionID, nextRunID, sessionOf, queue, active, feed, machine,
                 registered, cancelled, steps, controls, blocked>>

WaitCancelled_ApprovalOnly(r) ==
  /\ pc[r] = "await_approval"
  /\ r \in cancelled
  /\ GoTo(r, "returned_err")
  /\ UNCHANGED <<nextSessionID, nextRunID, sessionOf, queue, active, feed, machine,
                 signals, registered, cancelled, steps, controls, blocked>>
\* Either wait also ends when the run's context is cancelled.
WaitCancelled(r) ==
  /\ pc[r] \in {"await_approval", "await_answer"}
  /\ r \in cancelled
  /\ GoTo(r, "returned_err")
  /\ UNCHANGED <<nextSessionID, nextRunID, sessionOf, queue, active, feed, machine,
                 signals, registered, cancelled, steps, controls, blocked>>

\* The goroutine returns after the run's end.
Exited(r) == [pc EXCEPT ![r] = "done"]

\* The last critical section: the transition (refused or not), the events, the
\* channel, and the next run of the session.
EndRun(r, state, f) ==
  LET s == sessionOf[r]
  IN  /\ registered' = registered \ {r}
      /\ signals' = [signals EXCEPT ![r] = <<>>]
      /\ StartNextIfIdle(s, queue[s], IF active[s] = r THEN NoRun ELSE active[s], f,
                         [machine EXCEPT ![r] = Transition(@, state)],
                         Exited(r))
      /\ UNCHANGED <<nextSessionID, nextRunID, sessionOf, cancelled, steps,
                     controls, blocked>>

\* finishRunAsCancelled and finishRunAsFailed: decided before the lock.
EndUnbuilt(r) ==
  /\ LockFree
  /\ LET f == feed[sessionOf[r]]
     IN  \/ pc[r] = "end_cancelled" /\ EndRun(r, "cancelled", Emit(f, r, "run_cancelled"))
         \/ pc[r] = "end_failed" /\ EndRun(r, "failed", Emit(f, r, "run_failed"))

\* The end of executeRun and executeManualCompact: cancellation first, then the
\* error, then success with or without output.
EndExecuted(r) ==
  /\ LockFree
  /\ LET f == feed[sessionOf[r]]
         ended == {"returned_ok", "returned_err"}
     IN  \/ /\ pc[r] \in ended /\ r \in cancelled
            /\ EndRun(r, "cancelled", Emit(f, r, "run_cancelled"))
         \/ /\ pc[r] = "returned_err" /\ r \notin cancelled
            /\ EndRun(r, "failed", Emit(f, r, "run_failed"))
         \/ /\ pc[r] = "returned_ok" /\ r \notin cancelled
            /\ \E g \in {f, Emit(f, r, "run_output_delta")} :
                 EndRun(r, "completed", Emit(g, r, "run_completed"))

Goroutine(r) ==
  \/ BuildContext(r) \/ Return(r)
  \/ EmitDelta(r) \/ BeginWait(r) \/ Announce(r)
  \/ TakeApproval(r) \/ TakeAnswer(r) \/ WaitCancelled(r)
  \/ EndUnbuilt(r) \/ EndExecuted(r)

ControlCall(r, action) == Control(r, action) \/ ControlBlocks(r, action)

System ==
  \/ StartSession
  \/ \E s \in Sessions : Submit(s)
  \/ ControlUnblocks
  \/ \E r \in Runs : Goroutine(r)

Next == System \/ \E r \in Runs, action \in ControlKinds : ControlCall(r, action)

Spec == Init /\ [][Next]_vars

\* Every goroutine that can move does (the Go scheduler; the executor, the
\* context builder and the compactor return), and a Send that found room returns.
Fairness == /\ \A r \in RunIds : WF_vars(Goroutine(r))
            /\ WF_vars(ControlUnblocks)

FairSpec == Spec /\ Fairness

\* Clients that approve, resume or answer only a run that is waiting for it.
Prompted(r, action) ==
  \/ action \in {"stop", "deny"}
  \/ action \in {"approve", "resume"} /\ machine[r] = "waiting_approval"
  \/ action = "answer" /\ machine[r] = "waiting_user_input"

PromptedNext ==
  \/ System
  \/ \E r \in Runs, action \in ControlKinds : Prompted(r, action) /\ ControlCall(r, action)

PromptedSpec == Init /\ [][PromptedNext]_vars
-------------------------------------------------------------------------------
(* Properties.                                                                *)

InQueue(r) == \E s \in SessionIds : \E i \in DOMAIN queue[s] : queue[s][i] = r
Items(s) == feed[s].items
Ended(r) == \E i \in DOMAIN Items(sessionOf[r]) :
              /\ Items(sessionOf[r])[i].run = r
              /\ Items(sessionOf[r])[i].type \in TerminalEvents

\* Every variable has its type: the state the engine's struct fields can hold.
TypeOK ==
  /\ nextSessionID \in 0..MaxSessions
  /\ nextRunID \in 0..MaxRuns
  /\ sessionOf \in [RunIds -> SessionIds \cup {NoSession}]
  /\ queue \in [SessionIds -> Seq(RunIds)]
  /\ active \in [SessionIds -> RunIds \cup {NoRun}]
  /\ feed \in [SessionIds -> Feeds]
  /\ machine \in [RunIds -> RunStates \cup {NotCreated}]
  /\ signals \in [RunIds -> Seq(ControlKinds)]
  /\ registered \in SUBSET RunIds
  /\ cancelled \in SUBSET RunIds
  /\ pc \in [RunIds -> Phases]
  /\ steps \in [RunIds -> 0..MaxSteps]
  /\ controls \in 0..MaxControls
  /\ blocked \in [run : RunIds, action : ControlKinds] \cup {NotBlocked}

\* A session executes one run at a time: the runs with a goroutine at work are
\* exactly the active ones, so no session runs two and none is held by a run
\* whose goroutine is gone (startNextIfIdleLocked, executeRun).
OneExecutorPerSession ==
  \A r \in RunIds : Live(r) <=> sessionOf[r] # NoSession /\ active[sessionOf[r]] = r

\* FIFO: a session's runs start in the order they were submitted, and no queued
\* run is older than one that has already started.
StartsInSubmissionOrder ==
  \A s \in SessionIds :
    /\ \A i, j \in DOMAIN Items(s) :
         i < j /\ Items(s)[i].type = "run_started" /\ Items(s)[j].type = "run_started"
           => Items(s)[i].run < Items(s)[j].run
    /\ \A i \in DOMAIN Items(s), k \in DOMAIN queue[s] :
         Items(s)[i].type = "run_started" => Items(s)[i].run < queue[s][k]

\* The stored events of a session are numbered 0, 1, 2, ... without a gap or a
\* repetition, whichever goroutine emitted them (newSequencedEvent, Store.Append).
SequencesGapless ==
  \A s \in SessionIds :
    /\ feed[s].next = Len(Items(s))
    /\ \A i \in DOMAIN Items(s) : Items(s)[i].seq + 1 = i

\* What a client is told of a run follows its lifecycle: output, an approval
\* request, a success or a failure only after its start, and nothing but a second
\* end after its end.
EventsFollowLifecycle ==
  \A s \in SessionIds : \A j \in DOMAIN Items(s) :
    LET same == {i \in DOMAIN Items(s) : Items(s)[i].run = Items(s)[j].run /\ i < j}
    IN  /\ Items(s)[j].type \notin {"run_queued", "run_started", "run_cancelled"}
             => \E i \in same : Items(s)[i].type = "run_started"
        /\ Items(s)[j].type \notin TerminalEvents
             => \A i \in same : Items(s)[i].type \notin TerminalEvents

\* No run is lost: a submitted run is queued, or active, or its end was emitted.
EveryRunAccounted ==
  \A r \in Runs : InQueue(r) \/ active[sessionOf[r]] = r \/ Ended(r)

\* An idle session has nothing left to start ("starts it immediately when idle").
IdleMeansEmpty == \A s \in SessionIds : active[s] = NoRun => queue[s] = <<>>

\* The machine is the run's canonical lifecycle state: it is terminal exactly when
\* the run's end was emitted.
MachineAgreesWithEvents == \A r \in Runs : IsTerminal(machine[r]) <=> Ended(r)

\* Nothing is lost between the queue, the executor and the machine: every run is in
\* one of them or has ended, and all of them agree on whether it has.
RunsAreAccounted == EveryRunAccounted /\ MachineAgreesWithEvents

\* No tool runs on an old approval: unless it is being cancelled, a run whose
\* executor is at work has no approval left in its channel that a later request of
\* the run would take as its own.
NoStaleApproval ==
  \A r \in RunIds : pc[r] = "executing" /\ r \notin cancelled =>
    \A i \in DOMAIN signals[r] : signals[r][i] \notin {"approve", "resume"}

\* A Control call that waits for room in a run's channel gets it, so e.mu, which
\* every other client and goroutine needs, is free again and again.
LockIsReleased == []<>LockFree

\* A stopped or denied run ends, as long as no Control call sits on e.mu for good:
\* cancelling its context reaches it wherever its goroutine is.
CancelledRunEnds ==
  []<>LockFree => \A r \in RunIds : []<>(r \in cancelled => ~Live(r))

\* The queue moves: if every run that starts comes to an end (its questions are
\* answered, or it is stopped), every queued run leaves the queue.
QueueMoves ==
  (\A r \in RunIds : []<>~Live(r)) => \A r \in RunIds : []<>~InQueue(r)
===============================================================================
