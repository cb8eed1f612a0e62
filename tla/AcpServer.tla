------------------------------- MODULE AcpServer -------------------------------
(* goyais-acp: the server an editor starts and speaks JSON-RPC with over its  *)
(* standard input and output (agent/adapters/acp: stdio_transport.go,         *)
(* jsonrpc.go, server.go, bridge.go), before the engine.                      *)
(*                                                                            *)
(* One goroutine reads a line, serves the request or the batch of requests on *)
(* it, and only then reads the next. A prompt subscribes to its session's     *)
(* events, submits a run and reads until the run's end; what it read goes to  *)
(* the session's streams afterwards. Meanwhile the run emits events and the   *)
(* subscription's goroutine carries them, through channels of a fixed size.   *)
(*                                                                            *)
(* Left out: requests that change nothing (initialize, session.get of a known *)
(* session, session.list), those that need a lifecycle the program has none   *)
(* of (fork, clear, rewind, handoff, session.get of others), notifications    *)
(* for display, and lines that do not parse. A request without an id is       *)
(* served alike and its response not written.                                 *)
EXTENDS Naturals, Sequences

CONSTANTS MaxSessions, \* bound: sessions started
          MaxLines,    \* bound: lines the editor writes
          MaxBatch,    \* bound: requests on one line
          MaxDeltas,   \* bound: output deltas of one run
          BufferSize   \* capacity of a subscription's two channels

ASSUME AcpAssumption ==
  /\ {MaxSessions, MaxLines, MaxBatch, MaxDeltas} \subseteq Nat
  /\ BufferSize \in Nat \ {0}

VARIABLES
  opened,   \* sessions started, by the server and in the engine
  log,      \* session -> the events in the engine's store
  acpRuns,  \* the runs submitted: their session, phase and deltas
  lines,    \* lines read
  batch,    \* the requests of the line in hand still to serve
  held,     \* the responses to those served
  written,  \* the responses written last
  prompt,   \* the prompt in hand
  replay,   \* its subscription: stored events still to copy,
  live,     \* the channel the engine fills,
  out,      \* the channel the prompt reads,
  dropped,  \* and whether the full channel lost an event
  streams,  \* stream subscription -> its session, 0 when cancelled
  told      \* stream subscription -> the events sent to it

acpVars == <<opened, log, acpRuns, lines, batch, held, written, prompt, replay, live, out,
             dropped, streams, told>>
feedOfPrompt == <<replay, live, out, dropped>>
transportVars == <<lines, batch, held, written>>

SessionIds == 1..MaxSessions
AcpRequests == [method : {"start", "prompt", "subscribe", "unsubscribe", "approve", "stop"},
                of : 1..MaxSessions]
NoPrompt == [session |-> 0, run |-> 0, updates |-> <<>>]
Fails == [kind |-> "error", run |-> 0, updates |-> <<>>, lossy |-> FALSE]
Succeeds == [Fails EXCEPT !.kind = "ok"]

AcpInit ==
  /\ opened = 0 /\ log = [s \in SessionIds |-> <<>>] /\ acpRuns = <<>>
  /\ lines = 0 /\ batch = <<>> /\ held = <<>> /\ written = <<>>
  /\ prompt = NoPrompt
  /\ replay = <<>> /\ live = <<>> /\ out = <<>> /\ dropped = FALSE
  /\ streams = <<>> /\ told = <<>>
-------------------------------------------------------------------------------
(* The transport and the peer.                                                *)

\* StdioTransport.Start reads a line once the one before is served.
ReadLine ==
  /\ lines < MaxLines /\ lines' = lines + 1
  /\ batch = <<>> /\ held = <<>>
  /\ batch' \in UNION {[1..n -> AcpRequests] : n \in 1..MaxBatch}
  /\ UNCHANGED <<opened, log, acpRuns, held, written, prompt, feedOfPrompt, streams, told>>

\* Peer.HandleIncoming writes the responses of a line together.
WriteResponses ==
  /\ batch = <<>> /\ held # <<>>
  /\ written' = held /\ held' = <<>>
  /\ UNCHANGED <<opened, log, acpRuns, lines, batch, prompt, feedOfPrompt, streams, told>>

\* The request in hand, unless it is a prompt that goes on.
Serving(method) == batch # <<>> /\ prompt = NoPrompt /\ Head(batch).method = method
Respond(response) ==
  /\ batch' = Tail(batch) /\ held' = Append(held, response)
  /\ UNCHANGED <<lines, written>>
Open(s) == s <= opened
-------------------------------------------------------------------------------
(* The server's handlers.                                                     *)

SessionNew ==
  /\ Serving("start") /\ opened < MaxSessions
  /\ opened' = opened + 1
  /\ Respond(Succeeds)
  /\ UNCHANGED <<log, acpRuns, prompt, feedOfPrompt, streams, told>>

StreamSubscribe ==
  /\ Serving("subscribe")
  /\ IF Open(Head(batch).of)
     THEN /\ streams' = Append(streams, Head(batch).of) /\ told' = Append(told, <<>>)
          /\ Respond(Succeeds)
     ELSE Respond(Fails) /\ UNCHANGED <<streams, told>>
  /\ UNCHANGED <<opened, log, acpRuns, prompt, feedOfPrompt>>

StreamUnsubscribe ==
  /\ Serving("unsubscribe")
  /\ streams' = [k \in DOMAIN streams |-> IF k = Head(batch).of THEN 0 ELSE streams[k]]
  /\ Respond(Succeeds)
  /\ UNCHANGED <<opened, log, acpRuns, prompt, feedOfPrompt, told>>

\* run.control reaches Engine.Control. No line is read while a prompt goes on, so
\* that the runs it finds here are over: only their stop succeeds.
RunControl ==
  /\ Serving("approve") \/ Serving("stop")
  /\ LET r == Head(batch).of IN
     IF r \in DOMAIN acpRuns /\ acpRuns[r].phase # "over"
     THEN /\ acpRuns' = [acpRuns EXCEPT ![r].phase =
                           IF Head(batch).method = "stop" THEN "stopped" ELSE "running"]
          /\ Respond(Succeeds)
     ELSE /\ Respond(IF r \in DOMAIN acpRuns /\ Head(batch).method = "stop"
                     THEN Succeeds ELSE Fails)
          /\ UNCHANGED acpRuns
  /\ UNCHANGED <<opened, log, prompt, feedOfPrompt, streams, told>>
-------------------------------------------------------------------------------
(* Bridge.Prompt.                                                             *)

\* The whole of the session is replayed: the server passes no cursor.
BeginPrompt ==
  /\ Serving("prompt")
  /\ IF Open(Head(batch).of)
     THEN /\ prompt' = [NoPrompt EXCEPT !.session = Head(batch).of]
          /\ replay' = log[Head(batch).of]
          /\ UNCHANGED <<transportVars>>
     ELSE Respond(Fails) /\ UNCHANGED <<prompt, replay>>
  /\ UNCHANGED <<opened, log, acpRuns, live, out, dropped, streams, told>>

\* emitEventLocked: store the events, and hand to the subscription what it has
\* room for.
Emit(r, kinds) ==
  LET s == IF r \in DOMAIN acpRuns THEN acpRuns[r].session ELSE prompt.session
      new == [i \in DOMAIN kinds |-> [run |-> r, kind |-> kinds[i], seq |-> Len(log[s]) + i]]
      room == BufferSize - Len(live)
      taken == IF Len(new) <= room THEN live \o new ELSE live \o SubSeq(new, 1, room)
  IN /\ log' = [log EXCEPT ![s] = @ \o new]
     /\ live' = taken
     /\ dropped' = (dropped \/ Len(taken) < Len(live) + Len(new))

Submit ==
  /\ prompt.session # 0 /\ prompt.run = 0
  /\ LET r == Len(acpRuns) + 1 IN
     /\ acpRuns' = Append(acpRuns,
                     [session |-> prompt.session, phase |-> "running", deltas |-> 0])
     /\ prompt' = [prompt EXCEPT !.run = r]
     /\ Emit(r, <<"queued", "started">>)
  /\ UNCHANGED <<opened, transportVars, replay, out, streams, told>>

Mine_AnyRun(e) == TRUE
\* The events the prompt heeds.
Mine(e) == e.run = prompt.run

\* The prompt takes an event. The end of its run is the end of the prompt: the
\* subscription is closed and the streams of the session are told.
Read ==
  /\ prompt.run # 0 /\ out # <<>>
  /\ LET e == Head(out)
         updates == IF Mine(e) THEN Append(prompt.updates, e) ELSE prompt.updates
     IN IF Mine(e) /\ e.kind = "end"
        THEN /\ Respond([kind |-> "end_turn", run |-> prompt.run, updates |-> updates,
                         lossy |-> dropped])
             /\ told' = [k \in DOMAIN told |->
                           IF streams[k] = prompt.session THEN told[k] \o updates ELSE told[k]]
             /\ prompt' = NoPrompt
             /\ replay' = <<>> /\ live' = <<>> /\ out' = <<>> /\ dropped' = FALSE
        ELSE /\ prompt' = [prompt EXCEPT !.updates = updates]
             /\ out' = Tail(out)
             /\ UNCHANGED <<transportVars, told, replay, live, dropped>>
  /\ UNCHANGED <<opened, log, acpRuns, streams>>

\* The goroutine of Engine.Subscribe.
Pump ==
  /\ Len(out) < BufferSize
  /\ \/ /\ replay # <<>>
        /\ out' = Append(out, Head(replay)) /\ replay' = Tail(replay) /\ UNCHANGED live
     \/ /\ replay = <<>> /\ live # <<>>
        /\ out' = Append(out, Head(live)) /\ live' = Tail(live) /\ UNCHANGED replay
  /\ UNCHANGED <<opened, log, acpRuns, transportVars, prompt, dropped, streams, told>>
-------------------------------------------------------------------------------
(* The run in the engine, abstracted to what it emits.                        *)

Runs(phase) == {r \in DOMAIN acpRuns : acpRuns[r].phase = phase}

RunOutputs ==
  /\ \E r \in Runs("running") :
       /\ acpRuns[r].deltas < MaxDeltas /\ acpRuns' = [acpRuns EXCEPT ![r].deltas = @ + 1]
       /\ Emit(r, <<"delta">>)
  /\ UNCHANGED <<opened, transportVars, prompt, replay, out, streams, told>>

\* A tool of the run needs a yes: the built-in tools and the default mode hold when
\* a run has no configuration, as those of this program.
RunAsks ==
  /\ \E r \in Runs("running") :
       /\ acpRuns' = [acpRuns EXCEPT ![r].phase = "asked"]
       /\ Emit(r, <<"approval_needed">>)
  /\ UNCHANGED <<opened, transportVars, prompt, replay, out, streams, told>>

\* The last section of executeRun: the answer's text, if there is one, and the end.
RunFinishes ==
  /\ \E r \in Runs("running") \cup Runs("stopped") :
       /\ acpRuns' = [acpRuns EXCEPT ![r].phase = "over"]
       /\ \/ acpRuns[r].phase = "running" /\ Emit(r, <<"delta", "end">>)
          \/ Emit(r, <<"end">>)
  /\ UNCHANGED <<opened, transportVars, prompt, replay, out, streams, told>>

AcpNext ==
  \/ ReadLine \/ WriteResponses
  \/ SessionNew \/ StreamSubscribe \/ StreamUnsubscribe \/ RunControl
  \/ BeginPrompt \/ Submit \/ Read \/ Pump
  \/ RunOutputs \/ RunAsks \/ RunFinishes

AcpSpec == AcpInit /\ [][AcpNext]_acpVars
-------------------------------------------------------------------------------
\* The events of a run among others, in order.
OfRun(events, r) ==
  LET upTo[i \in 0..Len(events)] ==
        IF i = 0 THEN <<>>
        ELSE IF events[i].run = r THEN Append(upTo[i - 1], events[i]) ELSE upTo[i - 1]
  IN upTo[Len(events)]
EventsOf(r) == OfRun(log[acpRuns[r].session], r)

\* What a prompt answers is what its run did: all events of that run, in order, up
\* to its end, and none of the session's other runs, though the whole session is
\* replayed to it. While it reads, the end of its run is still before it. Both hold
\* as long as the run does not outpace the channel: a lost end would be waited for
\* for ever. A stream is told every event at most once and in order.
PromptSeesItsRun ==
  /\ \A i \in DOMAIN (written \o held) :
       LET answer == (written \o held)[i] IN
       answer.kind = "end_turn" /\ ~answer.lossy => answer.updates = EventsOf(answer.run)
  /\ prompt.run # 0 /\ ~dropped =>
       prompt.updates \o OfRun(out \o replay \o live, prompt.run)
         = EventsOf(prompt.run)
  /\ \A k \in DOMAIN told : \A i \in 1..(Len(told[k]) - 1) :
       told[k][i].seq < told[k][i + 1].seq

\* "Prompt submits user input and streams run updates to ACP": once the prompt has
\* read that its run asks for a yes, the session's streams have been told.
UpdatesAreStreamed ==
  prompt.run \in Runs("asked") /\ prompt.updates = EventsOf(prompt.run) =>
    \A k \in DOMAIN streams : streams[k] = prompt.session =>
      \E i \in DOMAIN told[k] :
        told[k][i].run = prompt.run /\ told[k][i].kind = "approval_needed"
===============================================================================
