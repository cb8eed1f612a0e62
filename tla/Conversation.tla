----------------------------- MODULE Conversation -----------------------------
(* One conversation in the hub: the prompts queued in httpapi, their dispatch *)
(* to the agent engine and the projection of the engine's events back.        *)
(*   handlers_composer_input.go, handlers_execution_flow.go,                  *)
(*   handlers_run_control.go, handlers_conversation_by_id.go,                 *)
(*   handlers_project_conversations_config.go, run_execution_dispatcher.go,   *)
(*   run_event_projector.go                                                   *)
(*                                                                            *)
(* A handler changes the conversation in one critical section of state.mu and *)
(* then, without the lock, makes the engine calls it decided on: its thread   *)
(* works off a list of them. The projection worker is such a thread too; it   *)
(* takes the next event when it has no call left.                             *)
(*                                                                            *)
(* The engine is what module Engine makes of it: FIFO sessions whose runs emit*)
(* events in order. Executions and engine runs are numbered as they are made. *)
EXTENDS Naturals, Sequences, FiniteSets, RunLifecycle

CONSTANTS MaxPrompts,   \* bound: prompts submitted
          MaxRuns,      \* bound: runs submitted to the engine
          MaxThreads,   \* bound: handlers at work at the same time
          MaxCalls,     \* bound: client calls other than prompts
          MaxWaits,     \* bound: approvals and questions the runs ask for
          Calls,        \* the client calls other than prompts that are made
          Faults        \* TRUE when preparing or submitting a run may fail

ASSUME ConversationAssumption ==
  /\ MaxPrompts \in Nat /\ MaxRuns \in Nat /\ MaxThreads \in Nat \ {0}
  /\ MaxCalls \in Nat /\ MaxWaits \in Nat
  /\ Calls \subseteq {"stop_session", "rollback", "restart", "delete"} \cup ControlKinds
  /\ Faults \in BOOLEAN

VARIABLES
  prompts,     \* executions created so far
  order,       \* conversationExecutionOrder
  state,       \* execution -> its state, or "absent"
  active,      \* conversation.ActiveExecutionID, or None
  queueState,  \* conversation.QueueState
  questions,   \* pendingUserQuestions: executions with an open question
  session,     \* conversationSessionIDs: the engine session, or None
  runOf,       \* executionRunIDs: execution -> engine run, or None
  worker,      \* the engine session the projection worker reads, or None
  threads,     \* thread -> engine calls still to make; thread 0 is the worker
  engine,      \* the agent engine
  calls        \* the client calls other than prompts so far

vars == <<prompts, order, state, active, queueState, questions, session, runOf,
          worker, threads, engine, calls>>

None == 0
Executions == 1..MaxPrompts
EngineRuns == 1..MaxRuns
EngineSessions == EngineRuns
Threads == 0..MaxThreads

Waiting == {"waiting_approval", "waiting_user_input"}
Working == {"running"} \cup Waiting
Underway == {"pending", "executing", "confirming", "awaiting_input"}
ExecutionStates == {"absent", "queued"} \cup Underway \cup TerminalStates
-------------------------------------------------------------------------------
(* The engine: loop/engine.go as refined by module RunQueue. A run knows the  *)
(* execution it was submitted for (the run_id metadata).                      *)

NoEngine == [sessions |-> 0, runs |-> 0,
             home |-> [r \in EngineRuns |-> None],
             execution |-> [r \in EngineRuns |-> None],
             phase |-> [r \in EngineRuns |-> "none"],
             halting |-> {},
             waits |-> 0,
             feed |-> [k \in EngineSessions |-> <<>>]]

Emitted(g, r, type) ==
  [g EXCEPT !.feed[g.home[r]] = Append(@, [run |-> r, type |-> type])]

Moved(g, r, phase, type) == Emitted([g EXCEPT !.phase[r] = phase], r, type)

\* startNextIfIdleLocked
StartNext(g, k) ==
  LET here(phases) == {r \in EngineRuns : g.home[r] = k /\ g.phase[r] \in phases}
      next == CHOOSE r \in here({"queued"}) : \A q \in here({"queued"}) : r <= q
  IN  IF here(Working) = {} /\ here({"queued"}) # {}
      THEN Moved(g, next, "running", "run_started") ELSE g

\* Submit of execution e in session k; the run it makes is g.runs + 1.
Submitted(g, k, e) ==
  LET r == g.runs + 1
  IN  StartNext(Moved([g EXCEPT !.runs = r, !.home[r] = k, !.execution[r] = e],
                      r, "queued", "run_queued"), k)

\* Control. A run under way ends later, when its goroutine sees the cancellation;
\* a signal to a run that does not wait for it is a matter of module Engine.
Controlled(g, r, action) ==
  IF action \in {"stop", "deny"}
  THEN IF g.phase[r] = "queued" THEN Moved(g, r, "cancelled", "cancelled")
       ELSE IF g.phase[r] \in Working THEN [g EXCEPT !.halting = @ \cup {r}]
       ELSE g
  ELSE IF \/ action \in {"approve", "resume"} /\ g.phase[r] = "waiting_approval"
          \/ action = "answer" /\ g.phase[r] = "waiting_user_input"
       THEN Moved(g, r, "running", IF action = "answer" THEN "answered" ELSE "resolved")
       ELSE g

\* The goroutine of run r asks, or ends; one that was told to halt while it waited
\* may first report the wait as over.
Asks(r) ==
  /\ engine.phase[r] = "running" /\ engine.waits < MaxWaits
  /\ \E wait \in Waiting :
       engine' = [Moved(engine, r, wait, wait) EXCEPT !.waits = @ + 1]

Resolves(r) ==
  /\ engine.phase[r] = "waiting_approval" /\ r \in engine.halting
  /\ engine' = Moved(engine, r, "running", "resolved")

Ends(r) ==
  /\ \/ engine.phase[r] \in Working /\ r \in engine.halting
     \/ engine.phase[r] = "running"
  /\ \E end \in IF r \in engine.halting THEN {"cancelled"} ELSE {"completed", "failed"} :
       engine' = StartNext(Moved(engine, r, end, end), engine.home[r])

EngineStep(r) ==
  /\ Asks(r) \/ Resolves(r) \/ Ends(r)
  /\ UNCHANGED <<prompts, order, state, active, queueState, questions, session, runOf,
                 worker, threads, calls>>
-------------------------------------------------------------------------------
(* Parts of critical sections of state.mu.                                    *)

Init ==
  /\ prompts = 0 /\ calls = <<>>
  /\ order = <<>>
  /\ state = [e \in Executions |-> "absent"]
  /\ active = None /\ queueState = "idle"
  /\ questions = {}
  /\ session = None /\ worker = None
  /\ runOf = [e \in Executions |-> None]
  /\ threads = [t \in Threads |-> <<>>]
  /\ engine = NoEngine

QueuedIn(s) == {i \in DOMAIN order : s[order[i]] = "queued"}

\* The execution startNextQueuedExecutionLocked picks, None if there is none.
NextQueued_Newest(s) ==
  IF QueuedIn(s) = {} THEN None
  ELSE order[CHOOSE i \in QueuedIn(s) : \A j \in QueuedIn(s) : i >= j]
NextQueued(s) ==
  IF QueuedIn(s) = {} THEN None
  ELSE order[CHOOSE i \in QueuedIn(s) : \A j \in QueuedIn(s) : i <= j]

\* The promoted execution becomes pending.
Promoted(s, e) == IF e = None THEN s ELSE [s EXCEPT ![e] = "pending"]

\* deriveQueueStateLocked
DerivedQueueState(s, a) ==
  IF a # None THEN "running" ELSE IF QueuedIn(s) # {} THEN "queued" ELSE "idle"

Op(call, e) == [call |-> call, e |-> e, at |-> "check", k |-> None, run |-> None]
SubmitOf(e) == IF e = None THEN <<>> ELSE <<Op("submit", e)>>

CancelOf_Nothing(e) == <<>>
\* cancelExecutionBestEffort
CancelOf(e) == <<Op("stop", e)>>

Advance_OnlyPromotes(t, s, before, rest) ==
  LET next == NextQueued(s)
  IN  /\ state' = Promoted(s, next)
      /\ active' = next
      /\ queueState' = IF next = None THEN "idle" ELSE "running"
      /\ threads' = [threads EXCEPT ![t] = before \o rest]
\* The conversation passes to the next queued execution, in the states s that the
\* section has made so far, and thread t makes the calls before and then submits it.
Advance(t, s, before, rest) ==
  LET next == NextQueued(s)
  IN  /\ state' = Promoted(s, next)
      /\ active' = next
      /\ queueState' = IF next = None THEN "idle" ELSE "running"
      /\ threads' = [threads EXCEPT ![t] = before \o SubmitOf(next) \o rest]

\* No handler finds a conversation that was deleted.
Deleted == \E i \in DOMAIN calls : calls[i] = "delete"

\* A handler runs on a thread of its own; the first free one stands for any.
Free(t) == /\ t \in Threads \ {0} /\ threads[t] = <<>>
           /\ \A u \in Threads \ {0} : threads[u] = <<>> => t <= u
Starts(t, ops) == threads' = [threads EXCEPT ![t] = ops]
-------------------------------------------------------------------------------
(* The handlers.                                                              *)

\* A prompt: ConversationInputSubmitHandler.
Prompt(t) ==
  /\ Free(t) /\ prompts < MaxPrompts /\ ~Deleted
  /\ LET e == prompts + 1
     IN  /\ prompts' = e
         /\ order' = Append(order, e)
         /\ IF active = None
            THEN /\ state' = [state EXCEPT ![e] = "pending"]
                 /\ active' = e /\ queueState' = "running"
                 /\ Starts(t, SubmitOf(e))
            ELSE /\ state' = [state EXCEPT ![e] = "queued"]
                 /\ queueState' = "queued"
                 /\ UNCHANGED <<active, threads>>
  /\ UNCHANGED <<questions, session, runOf, worker, engine, calls>>

\* One of the other calls.
Call(t, name) == /\ Free(t) /\ Len(calls) < MaxCalls /\ name \in Calls /\ ~Deleted
                 /\ calls' = Append(calls, name)

\* ConversationStopHandler: cancels the active execution, promotes the next.
StopSession(t) ==
  /\ Call(t, "stop_session")
  /\ IF active # None /\ state[active] # "absent"
     THEN Advance(t, [state EXCEPT ![active] = "cancelled"], CancelOf(active), <<>>)
     ELSE Advance(t, state, <<>>, <<>>)
  /\ UNCHANGED <<prompts, order, questions, session, runOf, worker, engine>>

\* mapRunStateToCoreState
CoreState(s) ==
  CASE s \in {"queued", "pending"} -> "queued"
    [] s = "executing" -> "running"
    [] s = "confirming" -> "waiting_approval"
    [] s = "awaiting_input" -> "waiting_user_input"
    [] OTHER -> s

\* RunControlHandler: the machine accepts the action in the execution's state, and
\* the handler by action. approve and resume submit a queued execution; a stopped
\* active one passes the conversation on, any other leaves it to the active one.
Grants(t, e, action) ==
  /\ action \in {"approve", "resume"}
  /\ active \in {None, e}
  /\ active' = e /\ queueState' = "running"
  /\ state' = [state EXCEPT ![e] = IF @ \in {"executing", "confirming"} THEN "executing"
                                                                        ELSE "pending"]
  /\ Starts(t, CASE state[e] = "confirming" -> <<Op(action, e)>>
                 [] state[e] = "queued" -> SubmitOf(e)
                 [] OTHER -> <<>>)

Denies(t, e, action) ==
  /\ action = "deny" /\ state[e] = "confirming"
  /\ active' = e /\ queueState' = "running"
  /\ state' = [state EXCEPT ![e] = "executing"]
  /\ Starts(t, <<Op("deny", e)>>)

Cancels(t, e, action) ==
  /\ action = "stop" \/ (action = "deny" /\ state[e] # "confirming")
  /\ IF active = e
     THEN Advance(t, [state EXCEPT ![e] = "cancelled"], CancelOf(e), <<>>)
     ELSE /\ state' = [state EXCEPT ![e] = "cancelled"]
          /\ queueState' = DerivedQueueState(state, active)
          /\ Starts(t, CancelOf(e))
          /\ UNCHANGED active

Answers(t, e, action) ==
  /\ action = "answer"
  /\ active \in {None, e} /\ e \in questions
  /\ active' = e /\ queueState' = "running"
  /\ state' = [state EXCEPT ![e] = "executing"]
  /\ Starts(t, <<Op("answer", e)>>)

ControlRun(t, e, action) ==
  /\ Call(t, action)
  /\ state[e] # "absent"
  /\ AcceptsControl(CoreState(state[e]), action)
  /\ Grants(t, e, action) \/ Denies(t, e, action) \/ Cancels(t, e, action)
                          \/ Answers(t, e, action)
  /\ questions' = questions \ {e}
  /\ UNCHANGED <<prompts, order, session, runOf, worker, engine>>

Rollback_KeepsActive(t, e) ==
  /\ Call(t, "rollback")
  /\ \E n \in DOMAIN order :
       /\ order[n] = e
       /\ order' = SubSeq(order, 1, n)
  /\ state' = [x \in Executions |-> IF x <= e THEN state[x] ELSE "absent"]
  /\ UNCHANGED <<prompts, active, queueState, questions, session, runOf, worker, threads,
                 engine>>
\* ConversationRollbackHandler: back to the prompt of execution e. Later executions
\* are forgotten; the engine is not called.
Rollback(t, e) ==
  /\ Call(t, "rollback")
  /\ \E n \in DOMAIN order :
       /\ order[n] = e
       /\ order' = SubSeq(order, 1, n)
  /\ state' = [x \in Executions |-> IF x <= e THEN state[x] ELSE "absent"]
  /\ LET underway == {i \in DOMAIN order' : state'[order'[i]] \in Underway}
     IN  active' = IF underway = {} THEN None
                   ELSE order'[CHOOSE i \in underway : \A j \in underway : i <= j]
  /\ queueState' = IF active' # None THEN "running"
                   ELSE IF \E i \in DOMAIN order' : state'[order'[i]] = "queued"
                        THEN "queued" ELSE "idle"
  /\ UNCHANGED <<prompts, questions, session, runOf, worker, threads, engine>>

\* The model of the active execution was reconfigured: cancel and resubmit it.
Restart(t) ==
  /\ Call(t, "restart")
  /\ active # None /\ state[active] \notin TerminalStates \cup {"absent"}
  /\ state' = [state EXCEPT ![active] = "pending"]
  /\ Starts(t, CancelOf(active) \o <<Op("forget", active)>> \o SubmitOf(active))
  /\ UNCHANGED <<prompts, order, active, queueState, questions, session, runOf, worker,
                 engine>>

\* ConversationByIDHandler, DELETE: everything is dropped, the run mapping included,
\* and then the executions are cancelled one by one, in any order.
Delete(t) ==
  LET present == {e \in Executions : state[e] # "absent"}
  IN  /\ Call(t, "delete")
      /\ order' = <<>>
      /\ state' = [e \in Executions |-> "absent"]
      /\ active' = None /\ queueState' = "idle"
      /\ session' = None
      /\ runOf' = [e \in Executions |-> IF e \in present THEN None ELSE runOf[e]]
      /\ \E p \in [1..Cardinality(present) -> present] :
           /\ \A i, j \in DOMAIN p : p[i] = p[j] => i = j
           /\ Starts(t, [i \in 1..(2 * Len(p)) |-> Op(IF i % 2 = 1 THEN "stop" ELSE "forget",
                                                    p[(i + 1) \div 2])])
      /\ UNCHANGED <<prompts, questions, worker, engine>>
-------------------------------------------------------------------------------
(* The calls of a thread, step by step.                                       *)

Does(t, call, at) ==
  threads[t] # <<>> /\ Head(threads[t]).call = call /\ Head(threads[t]).at = at
Finishes(t) == threads' = [threads EXCEPT ![t] = Tail(@)]
GoesOn(t, op) == threads' = [threads EXCEPT ![t] = <<op>> \o Tail(@)]
Fails(t) == Faults /\ GoesOn(t, [Head(threads[t]) EXCEPT !.at = "fail"])

\* submitExecutionBestEffort: an execution that has a run is not submitted again.
CheckUnbound(t) ==
  /\ Does(t, "submit", "check")
  /\ IF runOf[Head(threads[t]).e] # None
     THEN Finishes(t)
     ELSE GoesOn(t, [Head(threads[t]) EXCEPT !.at = "load"])
  /\ UNCHANGED <<prompts, order, state, active, queueState, questions, session, runOf,
                 worker, engine, calls>>

\* loadExecutionSubmitContext: a missing execution is given up.
LoadContext(t) ==
  LET op == Head(threads[t])
  IN  /\ Does(t, "submit", "load")
      /\ \/ state[op.e] = "absent" /\ Finishes(t)
         \/ state[op.e] # "absent" /\ Fails(t)
         \/ /\ state[op.e] # "absent"
            /\ GoesOn(t, [op EXCEPT !.k = session,
                                    !.at = IF session = None THEN "start" ELSE "submit"])
      /\ UNCHANGED <<prompts, order, state, active, queueState, questions, session, runOf,
                     worker, engine, calls>>

\* StartSession and bindConversationSessionID, which keeps a session bound before;
\* the submission goes on with its own.
StartEngineSession(t) ==
  /\ Does(t, "submit", "start")
  /\ \/ Fails(t) /\ UNCHANGED <<session, engine>>
     \/ LET k == engine.sessions + 1
        IN  /\ k \in EngineSessions
            /\ engine' = [engine EXCEPT !.sessions = k]
            /\ session' = IF session = None THEN k ELSE session
            /\ GoesOn(t, [Head(threads[t]) EXCEPT !.k = k, !.at = "submit"])
  /\ UNCHANGED <<prompts, order, state, active, queueState, questions, runOf, worker, calls>>

SubmitRun(t) ==
  LET op == Head(threads[t])
  IN  /\ Does(t, "submit", "submit")
      /\ \/ Fails(t) /\ UNCHANGED engine
         \/ /\ engine.runs < MaxRuns
            /\ engine' = Submitted(engine, op.k, op.e)
            /\ GoesOn(t, [op EXCEPT !.run = engine.runs + 1, !.at = "bind"])
      /\ UNCHANGED <<prompts, order, state, active, queueState, questions, session, runOf,
                     worker, calls>>

\* bindExecutionRunID
BindRun(t) ==
  LET op == Head(threads[t])
  IN  /\ Does(t, "submit", "bind")
      /\ runOf' = [runOf EXCEPT ![op.e] = op.run]
      /\ GoesOn(t, [op EXCEPT !.at = "project"])
      /\ UNCHANGED <<prompts, order, state, active, queueState, questions, session, worker,
                     engine, calls>>

\* ensureConversationProjection: a conversation has one worker.
EnsureProjection(t) ==
  /\ Does(t, "submit", "project")
  /\ worker' = IF worker = None THEN Head(threads[t]).k ELSE worker
  /\ Finishes(t)
  /\ UNCHANGED <<prompts, order, state, active, queueState, questions, session, runOf,
                 engine, calls>>

FailExecution_KeepsQueue(t) ==
  LET e == Head(threads[t]).e
  IN  /\ Does(t, "submit", "fail")
      /\ state' = IF state[e] \in TerminalStates \cup {"absent"} THEN state
                  ELSE [state EXCEPT ![e] = "failed"]
      /\ active' = IF active = e THEN None ELSE active
      /\ queueState' = IF active = e THEN "idle" ELSE queueState
      /\ Finishes(t)
      /\ UNCHANGED <<prompts, order, questions, session, runOf, worker, engine, calls>>
\* failExecutionAndAdvanceQueue: the same thread submits the next execution.
FailExecution(t) ==
  LET e == Head(threads[t]).e
  IN  /\ Does(t, "submit", "fail")
      /\ IF state[e] \in TerminalStates \cup {"absent"} THEN
           Finishes(t) /\ UNCHANGED <<state, active, queueState>>
         ELSE IF active = e THEN
           Advance(t, [state EXCEPT ![e] = "failed"], <<>>, Tail(threads[t]))
         ELSE
           /\ state' = [state EXCEPT ![e] = "failed"]
           /\ Finishes(t)
           /\ UNCHANGED <<active, queueState>>
      /\ UNCHANGED <<prompts, order, questions, session, runOf, worker, engine, calls>>

\* cancelExecutionBestEffort, controlExecutionBestEffort: nothing without a run.
ControlEngine(t) ==
  LET op == Head(threads[t])
  IN  /\ threads[t] # <<>> /\ op.call \in ControlKinds
      /\ engine' = IF runOf[op.e] = None THEN engine
                   ELSE Controlled(engine, runOf[op.e], op.call)
      /\ Finishes(t)
      /\ UNCHANGED <<prompts, order, state, active, queueState, questions, session, runOf,
                     worker, calls>>

\* clearExecutionRuntimeMapping
Forget(t) ==
  /\ Does(t, "forget", "check")
  /\ runOf' = [runOf EXCEPT ![Head(threads[t]).e] = None]
  /\ Finishes(t)
  /\ UNCHANGED <<prompts, order, state, active, queueState, questions, session, worker,
                 engine, calls>>

ThreadStep(t) ==
  \/ CheckUnbound(t) \/ LoadContext(t) \/ StartEngineSession(t) \/ SubmitRun(t)
  \/ BindRun(t) \/ EnsureProjection(t) \/ FailExecution(t)
  \/ ControlEngine(t) \/ Forget(t)
-------------------------------------------------------------------------------
(* The projection worker.                                                     *)

ProjectedState_NoQuestion(type, s) ==
  CASE type \in {"run_started", "resolved", "answered"} -> "executing"
    [] type = "waiting_approval" -> "confirming"
    [] type \in TerminalStates -> type
    [] OTHER -> s
\* mapRuntimeEnvelopeToExecutionEvent and applyProjectedExecutionStateLocked; the
\* events that end a run are named as the state it ends in.
ProjectedState(type, s) ==
  CASE type \in {"run_started", "resolved", "answered"} -> "executing"
    [] type = "waiting_approval" -> "confirming"
    [] type = "waiting_user_input" -> "awaiting_input"
    [] type \in TerminalStates -> type
    [] OTHER -> s

\* resolveExecutionByRuntimeRunIDLocked: a run that is not bound yet, or no longer, or
\* whose execution is gone, is nobody's.
Resolved(r) == {e \in Executions : runOf[e] = r /\ state[e] # "absent"}

\* projectRuntimeEvent: apply the event, and after the end of the active execution
\* submit the next one.
Project ==
  /\ threads[0] = <<>> /\ worker # None /\ engine.feed[worker] # <<>>
  /\ engine' = [engine EXCEPT !.feed[worker] = Tail(@)]
  /\ LET event == Head(engine.feed[worker])
     IN  \/ /\ Resolved(event.run) = {}
            /\ UNCHANGED <<state, active, queueState, questions, threads>>
         \/ \E e \in Resolved(event.run) :
              LET s == [state EXCEPT ![e] = ProjectedState(event.type, @)]
              IN  /\ IF event.type \in TerminalStates /\ active = e
                     THEN Advance(0, s, <<>>, <<>>)
                     ELSE state' = s /\ UNCHANGED <<active, queueState, threads>>
                  /\ questions' = CASE event.type = "waiting_user_input" -> questions \cup {e}
                                    [] event.type \in TerminalStates -> questions \ {e}
                                    [] event.type = "answered" -> questions \ {e}
                                    [] OTHER -> questions
  /\ UNCHANGED <<prompts, order, session, runOf, worker, calls>>
-------------------------------------------------------------------------------
ClientCall(t) ==
  \/ StopSession(t) \/ Restart(t) \/ Delete(t)
  \/ \E e \in Executions :
       Rollback(t, e) \/ \E action \in ControlKinds : ControlRun(t, e, action)

AgentEngine == \E r \in EngineRuns : EngineStep(r)

Next ==
  \/ Project \/ AgentEngine
  \/ \E t \in Threads : Prompt(t) \/ ClientCall(t) \/ ThreadStep(t)

Spec == Init /\ [][Next]_vars

\* Every handler runs on, the worker reads on, and runs that do not wait end.
Fairness == /\ \A t \in Threads : WF_vars(ThreadStep(t))
            /\ WF_vars(Project)
            /\ \A r \in EngineRuns : WF_vars(Ends(r) /\ EngineStep(r))

FairSpec == Spec /\ Fairness

\* The usual timing: clients make no other call than a prompt while a handler is at
\* work, and no event is projected while a run waits for its binding.
AtWork(t) == threads[t] # <<>>
Binding(t) == AtWork(t) /\ Head(threads[t]).at = "bind"

PatientNext ==
  \/ AgentEngine
  \/ Project /\ \A t \in Threads : ~Binding(t)
  \/ \E t \in Threads : Prompt(t) \/ ThreadStep(t)
  \/ (\A u \in Threads : ~AtWork(u)) /\ \E t \in Threads : ClientCall(t)

PatientSpec == Init /\ [][PatientNext]_vars

FairPatientSpec == PatientSpec /\ Fairness
-------------------------------------------------------------------------------
(* Properties.                                                                *)

\* No queued prompt is stranded: as long as one is queued the conversation has an
\* active execution, that one is not over, and the queue state tells which it is.
\* (Every handler, the failure path and the projector advance the queue on their own.)
ActiveCarriesQueue ==
  /\ active = None => (QueuedIn(state) = {} /\ queueState = "idle")
  /\ active # None => (state[active] \in Underway /\ queueState # "idle")

Live(r) == engine.phase[r] \in {"queued"} \cup Working /\ r \notin engine.halting

\* Whoever promotes an execution submits it, and nobody else does: the engine gets it
\* once, and once more for each restart.
DispatchedOnce ==
  LET restarts == {i \in DOMAIN calls : calls[i] = "restart"}
  IN  \A e \in Executions :
        Cardinality({r \in 1..engine.runs : engine.execution[r] = e})
          <= 1 + Cardinality(restarts)

\* The queue is served, every prompt of it once, whoever advances it.
QueueIsServedOnce == ActiveCarriesQueue /\ DispatchedOnce

\* The engine gets the prompts in their order.
DispatchedInOrder ==
  \A r, q \in 1..engine.runs : r < q => engine.execution[r] <= engine.execution[q]

\* When no handler is at work, a run that goes on in the engine is the active
\* execution's, so that the client sees it, can stop it, and no prompt waits behind
\* a run that nobody owns. ("Stop the current Run and go on with the queue".)
NoOrphanRun ==
  (\A t \in Threads : ~AtWork(t)) =>
    \A r \in EngineRuns : Live(r) => active # None /\ runOf[active] = r

Quiet == /\ \A t \in Threads : ~AtWork(t)
         /\ worker = None \/ engine.feed[worker] = <<>>
         /\ \A r \in engine.halting : engine.phase[r] \in TerminalStates

\* What the client sees of a run's state in the engine.
ShownAs(phase) ==
  CASE phase = "queued" -> "pending"
    [] phase = "running" -> "executing"
    [] phase = "waiting_approval" -> "confirming"
    [] phase = "waiting_user_input" -> "awaiting_input"
    [] OTHER -> phase

\* When nothing is on its way, every run that was told to halt included, the hub
\* shows each execution as its run is.
HubAgreesWithEngine ==
  Quiet => \A e \in Executions :
    runOf[e] # None /\ state[e] # "absent" => state[e] = ShownAs(engine.phase[runOf[e]])

\* Every prompt comes to an end, if every approval and question does.
PromptsEnd ==
  (\A r \in EngineRuns : []<>(engine.phase[r] \notin Waiting)) =>
    \A e \in Executions : []<>(state[e] \in TerminalStates \cup {"absent"})
===============================================================================
