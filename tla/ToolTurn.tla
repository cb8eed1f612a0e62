------------------------------- MODULE ToolTurn --------------------------------
(* The turns of one run: the model loop (agent/runtime/model/loop.go), the    *)
(* pipeline that carries out the tool calls of a turn                         *)
(* (agent/tools/executor/pipeline.go), the waiters through which a call asks  *)
(* the user (agent/runtime/loop/default_model_executor.go, agent/policy/      *)
(* approval/router.go), and the hub as it shows and answers what is asked     *)
(* (httpapi/run_event_projector.go, httpapi/handlers_run_control.go).         *)
(*                                                                            *)
(* A turn's calls run in order, neighbours that are safe for concurrency side *)
(* by side. A call passes the sandbox gate and the permission gate, and each  *)
(* may ask. All calls of the run wait on the one channel of the run, and the  *)
(* hub shows one state for the run, so that it cannot tell two asks apart.    *)
(*                                                                            *)
(* Left out: hooks (the runtime gives the pipeline no dispatcher), a runner   *)
(* that asks by itself (none does), and the run's lifecycle, for which see    *)
(* Engine. A malformed call ends like a denied one: with a result, not run.   *)
EXTENDS Naturals, Sequences, SequencesExt

CONSTANTS MaxCalls, \* bound: tool calls of one turn
          MaxTurns, \* MaxModelTurns of the configuration
          MaxClicks \* bound: controls the user gives

ASSUME TurnAssumption ==
  MaxCalls \in Nat \ {0} /\ MaxTurns \in Nat /\ MaxClicks \in Nat

VARIABLES
  step,       \* what the run's goroutine does
  turn,       \* turns begun
  safe,       \* the turn's calls: is the tool safe to run beside others?
  group,      \* the calls carried out now
  pc,         \* call -> where it is
  after,      \* call -> the gate that follows a yes to its ask
  took,       \* call -> the signal its wait took
  signals,    \* the run's control channel
  ctxDone,    \* the run's context is cancelled
  events,     \* events on their way to the hub
  sending,    \* control calls the hub's handlers are about to make
  hub,        \* the execution's state in the hub
  question,   \* pendingUserQuestions: the call whose question is open, or 0
  shown,      \* the group whose ask the hub was last told of
  clicks,     \* controls given
  crowded     \* a call of the group asked while another's ask was open

turnVars == <<step, turn, safe, group, pc, after, took, signals, ctxDone, events,
              sending, hub, question, shown, clicks, crowded>>

Slots == 1..MaxCalls
Calls == 1..Len(safe)
Waiting == {"wait", "told"}
Finished == {"done", "error"}
Active == Waiting \cup {"sandbox", "permission", "ask", "run", "pose", "await", "answered"}
HubTerminal == {"completed", "failed", "cancelled"}
NoGroup == <<0, {}>>
NoSignal == [action |-> "none", seen |-> NoGroup, answers |-> 0]

Groups == (0..MaxTurns) \X SUBSET Slots
Controls == {"approve", "deny", "stop", "answer"}
Signals == [action : Controls, seen : Groups, answers : 0..MaxCalls]
Announcements == [kind : HubTerminal \cup {"asked", "resolved", "question", "answered"},
                  call : 0..MaxCalls, of : Groups]

TurnTypeOK ==
  /\ step \in {"turn", "provider", "batch", "end_ok", "end_err", "over"}
  /\ turn \in 0..MaxTurns
  /\ safe \in Seq(BOOLEAN) /\ Len(safe) <= MaxCalls
  /\ group \subseteq Slots
  /\ pc \in [Slots -> Active \cup Finished \cup {"none"}]
  /\ after \in [Slots -> {"permission", "run"}]
  /\ took \in [Slots -> Signals \cup {NoSignal}]
  /\ signals \in Seq(Signals) /\ sending \in Seq(Signals)
  /\ ctxDone \in BOOLEAN /\ crowded \in BOOLEAN
  /\ events \in Seq(Announcements)
  /\ hub \in HubTerminal \cup {"executing", "confirming", "awaiting_input"}
  /\ question \in 0..MaxCalls /\ shown \in Groups
  /\ clicks \in 0..MaxClicks

TurnInit ==
  /\ step = "turn" /\ turn = 0
  /\ safe = <<>> /\ group = {}
  /\ pc = [c \in Slots |-> "none"]
  /\ after = [c \in Slots |-> "run"]
  /\ took = [c \in Slots |-> NoSignal]
  /\ signals = <<>> /\ ctxDone = FALSE
  /\ events = <<>> /\ sending = <<>>
  /\ hub = "executing" /\ question = 0 /\ shown = NoGroup /\ clicks = 0
  /\ crowded = FALSE

hubVars == <<sending, hub, question, shown, clicks>>
callVars == <<pc, after, took, crowded>>
-------------------------------------------------------------------------------
(* model.RunLoop.                                                             *)

\* The head of the loop: the context and the budget of turns are looked at.
BeginTurn ==
  /\ step = "turn"
  /\ IF turn < MaxTurns /\ ~ctxDone
     THEN step' = "provider" /\ turn' = turn + 1
     ELSE step' = "end_err" /\ UNCHANGED turn
  /\ UNCHANGED <<safe, group, callVars, signals, ctxDone, events, hubVars>>

\* Provider.Turn fails, answers with text, or asks for tools.
ProviderReturns ==
  /\ step = "provider"
  /\ \/ step' \in {"end_err", "end_ok"} /\ UNCHANGED <<safe, pc>>
     \/ /\ step' = "batch"
        /\ safe' \in UNION {[1..n -> BOOLEAN] : n \in Slots}
        /\ pc' = [c \in Slots |-> "none"]
  /\ group' = {} /\ crowded' = FALSE
  /\ UNCHANGED <<turn, after, took, signals, ctxDone, events, hubVars>>
-------------------------------------------------------------------------------
(* Pipeline.ExecuteBatch.                                                     *)

\* The next group: one call that is not safe, or all that are up to one such.
GroupFrom(i) ==
  IF safe[i] THEN {j \in i..Len(safe) : \A k \in i..j : safe[k]} ELSE {i}

\* wg.Wait returns. Errors are looked at only now.
GroupDone_AtFirstError ==
  (\A c \in group : pc[c] \in Finished) \/ \E c \in group : pc[c] = "error"
GroupDone == \A c \in group : pc[c] \in Finished

GroupFailed == \E c \in group : pc[c] = "error"

StartGroup ==
  /\ step = "batch" /\ GroupDone /\ ~GroupFailed
  /\ \E i \in Calls :
       /\ pc[i] = "none" /\ \A j \in 1..(i - 1) : pc[j] # "none"
       /\ group' = GroupFrom(i)
       /\ pc' = [c \in Slots |-> IF c \in group' THEN "sandbox" ELSE pc[c]]
  /\ crowded' = FALSE
  /\ UNCHANGED <<step, turn, safe, after, took, signals, ctxDone, events, hubVars>>

\* The batch returns: its results go into the next turn, an error ends the loop.
BatchReturns ==
  /\ step = "batch" /\ GroupDone
  /\ \/ GroupFailed /\ step' = "end_err"
     \/ ~GroupFailed /\ (\A c \in Calls : pc[c] # "none") /\ step' = "turn"
  /\ UNCHANGED <<turn, safe, group, callVars, signals, ctxDone, events, hubVars>>
-------------------------------------------------------------------------------
(* Pipeline.ExecuteSingle, the goroutine of call c.                           *)

Goes(c, next) == pc' = [pc EXCEPT ![c] = next]

\* A gate denies, asks, or lets the call on to what follows.
Gate(c, at, next) ==
  /\ pc[c] = at
  /\ \/ Goes(c, "done") /\ UNCHANGED after
     \/ Goes(c, "ask") /\ after' = [after EXCEPT ![c] = next]
     \/ Goes(c, next) /\ UNCHANGED after
  /\ UNCHANGED <<step, turn, safe, group, took, signals, ctxDone, events, hubVars, crowded>>

SandboxGate(c) == Gate(c, "sandbox", "permission")
PermissionGate(c) == Gate(c, "permission", "run")

\* The events the hub heeds; "of" is the group they come from.
GroupName == <<turn, group>>
Emitted(kind, c) == Append(events, [kind |-> kind, call |-> c, of |-> GroupName])

\* runtimeApprovalWaiters.WaitForApproval up to the wait itself.
Ask_FirstGateOnly(c) ==
  /\ pc[c] = "ask"
  /\ events' = IF after[c] = "run" THEN events ELSE Emitted("asked", c)
  /\ crowded' = (crowded \/ \E d \in group \ {c} : pc[d] \in Waiting)
  /\ Goes(c, "wait")
  /\ UNCHANGED <<step, turn, safe, group, after, took, signals, ctxDone, hubVars>>
Ask(c) ==
  /\ pc[c] = "ask"
  /\ events' = Emitted("asked", c)
  /\ crowded' = (crowded \/ \E d \in group \ {c} : pc[d] \in Waiting)
  /\ Goes(c, "wait")
  /\ UNCHANGED <<step, turn, safe, group, after, took, signals, ctxDone, hubVars>>

\* Router.WaitForApproval: a signal, if one is there and it is none that others
\* wait for; or the end of the context, if it has ended.
Wait(c) ==
  /\ pc[c] = "wait"
  /\ \/ /\ signals # <<>> /\ signals' = Tail(signals)
        /\ IF Head(signals).action = "answer"
           THEN UNCHANGED <<pc, took>>
           ELSE Goes(c, "told") /\ took' = [took EXCEPT ![c] = Head(signals)]
     \/ ctxDone /\ Goes(c, "error") /\ UNCHANGED <<signals, took>>
  /\ UNCHANGED <<step, turn, safe, group, after, ctxDone, events, hubVars, crowded>>

\* The rest of both WaitForApproval: what was said is announced and acted on.
Told(c) ==
  /\ pc[c] = "told"
  /\ events' = Emitted("resolved", c)
  /\ Goes(c, CASE took[c].action = "approve" -> after[c]
             [] took[c].action = "deny" -> "done"
             [] took[c].action = "stop" -> "error")
  /\ took' = [took EXCEPT ![c] = NoSignal]
  /\ after' = [after EXCEPT ![c] = "run"]
  /\ UNCHANGED <<step, turn, safe, group, signals, ctxDone, hubVars, crowded>>

\* Runner.Execute returns. Its output may pose a question; only the tools of MCP
\* servers do, and those are never safe.
RunReturns(c) ==
  /\ pc[c] = "run"
  /\ Goes(c, "done") \/ (~safe[c] /\ Goes(c, "pose"))
  /\ UNCHANGED <<step, turn, safe, group, after, took, signals, ctxDone, events, hubVars,
                 crowded>>

\* runtimeApprovalWaiters.WaitForAnswer up to the wait.
Pose(c) ==
  /\ pc[c] = "pose"
  /\ events' = Emitted("question", c)
  /\ Goes(c, "await")
  /\ UNCHANGED <<step, turn, safe, group, after, took, signals, ctxDone, hubVars,
                 crowded>>

\* Router.WaitForAnswer: a stop or a deny ends it as the context does, an answer
\* to another question and any other signal is dropped.
Await(c) ==
  /\ pc[c] = "await"
  /\ \/ /\ signals # <<>> /\ signals' = Tail(signals)
        /\ CASE Head(signals).action \in {"stop", "deny"} -> Goes(c, "error")
             [] Head(signals).action = "answer" /\ Head(signals).answers = c ->
                  Goes(c, "answered")
             [] OTHER -> UNCHANGED pc
     \/ ctxDone /\ Goes(c, "error") /\ UNCHANGED signals
  /\ UNCHANGED <<step, turn, safe, group, after, took, ctxDone, events, hubVars, crowded>>

Answered(c) ==
  /\ pc[c] = "answered"
  /\ events' = Emitted("answered", c)
  /\ Goes(c, "done")
  /\ UNCHANGED <<step, turn, safe, group, after, took, signals, ctxDone, hubVars,
                 crowded>>

CallStep ==
  \E c \in group : SandboxGate(c) \/ PermissionGate(c) \/ Ask(c) \/ Wait(c) \/ Told(c)
                   \/ RunReturns(c) \/ Pose(c) \/ Await(c) \/ Answered(c)
-------------------------------------------------------------------------------
\* The last section of Engine.executeRun; a cancelled context beats any result.
FinishRun ==
  /\ step \in {"end_ok", "end_err"}
  /\ step' = "over"
  /\ events' = Append(events,
       [kind |-> IF ctxDone THEN "cancelled"
                 ELSE IF step = "end_ok" THEN "completed" ELSE "failed",
        call |-> 0, of |-> NoGroup])
  /\ UNCHANGED <<turn, safe, group, callVars, signals, ctxDone, hubVars>>

\* Engine.Control for a call of the hub. The calls of several handlers overtake
\* each other. The channel of a run that is over is gone.
Control(i) ==
  /\ sending' = RemoveAt(sending, i)
  /\ IF step = "over" THEN UNCHANGED <<signals, ctxDone>>
     ELSE /\ signals' = Append(signals, sending[i])
          /\ ctxDone' = (ctxDone \/ sending[i].action \in {"stop", "deny"})
  /\ UNCHANGED <<step, turn, safe, group, callVars, events, hub, question, shown, clicks>>
-------------------------------------------------------------------------------
(* The hub.                                                                   *)

\* projectRuntimeEvent: each event sets the execution's state as it comes.
ProjectEvent ==
  /\ events # <<>>
  /\ LET e == Head(events) IN
     /\ hub' = CASE e.kind = "asked" -> "confirming"
                 [] e.kind = "question" -> "awaiting_input"
                 [] e.kind \in {"resolved", "answered"} -> "executing"
                 [] OTHER -> e.kind
     /\ question' = CASE e.kind = "question" -> e.call
                      [] e.kind \in {"asked", "resolved"} -> question
                      [] OTHER -> 0
     /\ shown' = IF e.kind = "asked" THEN e.of ELSE shown
  /\ events' = Tail(events)
  /\ UNCHANGED <<step, turn, safe, group, callVars, signals, ctxDone, sending, clicks>>

\* A handler of RunControlHandler moves the execution to state s, closes its
\* question, and is about to pass the action to the engine.
Handle(s, action, answers) ==
  /\ clicks < MaxClicks /\ clicks' = clicks + 1
  /\ hub' = s /\ question' = 0
  /\ sending' = Append(sending, [action |-> action, seen |-> shown, answers |-> answers])
  /\ UNCHANGED <<step, turn, safe, group, callVars, signals, ctxDone, events, shown>>

\* Approve (or resume) and deny. In any state but confirming an approve sends
\* nothing and a deny is a stop.
Approve == hub = "confirming" /\ Handle("executing", "approve", 0)
Deny == hub = "confirming" /\ Handle("executing", "deny", 0)
Stop == hub \notin HubTerminal /\ Handle("cancelled", "stop", 0)
Answer == hub = "awaiting_input" /\ question # 0 /\ Handle("executing", "answer", question)

TurnNext ==
  \/ BeginTurn \/ ProviderReturns \/ StartGroup \/ BatchReturns \/ CallStep \/ FinishRun
  \/ \E i \in DOMAIN sending : Control(i)
  \/ ProjectEvent \/ Approve \/ Deny \/ Stop \/ Answer

TurnSpec == TurnInit /\ [][TurnNext]_turnVars
-------------------------------------------------------------------------------
\* The end of a batch is the end of its calls, whatever happened to one of them,
\* and a tool that is not safe has no other tool beside it.
ToolsEndWithTheBatch ==
  \A c \in Slots : pc[c] \in Active =>
    /\ step = "batch" /\ c \in group
    /\ safe[c] \/ \A d \in Slots \ {c} : pc[d] \notin Active

\* A call that waits for the user can be answered: the hub shows that the run
\* waits, or is about to, or an answer or a stop is on its way. The code does
\* not promise it to calls that asked while another ask was open: the yes to
\* one of them takes the run out of "confirming" for both.
Answerable(c) ==
  \/ hub = (IF pc[c] = "wait" THEN "confirming" ELSE "awaiting_input")
  \/ \E i \in DOMAIN events :
       events[i].call = c /\ events[i].kind \in {"asked", "question"}
  \/ signals # <<>> \/ sending # <<>> \/ ctxDone
NoStrandedAsk ==
  \A c \in group : pc[c] \in {"wait", "await"} /\ ~crowded => Answerable(c)

\* A yes releases only what was on the screen when it was given: the call that
\* takes it belongs to the group whose ask was shown last.
YesMeantThisGroup ==
  \A c \in group : took[c].action = "approve" => took[c].seen = GroupName

\* Asks and answers of parallel calls on the one channel of their run meet: no
\* call waits for an answer nobody can give, and no answer gets to a later group.
AsksMeetAnswers == NoStrandedAsk /\ YesMeantThisGroup
===============================================================================
