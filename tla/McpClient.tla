------------------------------ MODULE McpClient -------------------------------
(* One call of a tool of an MCP server (extensions/mcp/client.go), or one     *)
(* connection to it from its settings page (httpapi/mcp_probe*.go and         *)
(* ResourceConfigConnectHandler), which goes the same way up to the list of   *)
(* tools and writes that into the stored config. A stdio server is a process  *)
(* of the shell `sh -lc command`, in the place of the shell or its child, and *)
(* speaks over pipes that hold a few frames; an http_sse one answers POSTs.   *)
(* The server is the environment: it answers in its own time or never, sends  *)
(* requests of its own, and writes to stderr.                                 *)
EXTENDS Naturals, Sequences

CONSTANTS PipeFrames,   \* frames a pipe holds
          MaxNoise,     \* bound: requests and lines of stderr from the server
          MaxConfigEdits \* bound: changes of the stored config

ASSUME McpAssumption ==
  PipeFrames \in Nat \ {0} /\ MaxNoise \in Nat /\ MaxConfigEdits \in Nat

VARIABLES
  way,      \* "stdio" or "http_sse"
  purpose,  \* "call" or "probe"
  at,       \* where the client is: a message and whether it is to send or awaited
  outcome,  \* "none", "ok", "error"
  listed,   \* the list of tools as the client got it
  taken,    \* what the client took for the answer to its last request
  expired,  \* the deadline has passed
  shell, child, \* the two processes: "none", "alive", "dead"; without a child the
                \* shell is the server
  toServer, toClient, \* the pipes
  serving,  \* the request the server is at, or "nothing"
  muted,    \* the server waits for room in the pipe of stderr
  chatter,  \* lines in the pipe of stderr
  listing,  \* the tools the server lists: with the called one, without it, or none
  ran,      \* times the server ran the tool
  noise,    \* requests and lines it sent unasked
  stored,   \* the config in the table: none, or the number of its last edit
  copy,     \* the config the handler read
  lastSaid, \* ghost: the config as last edited or deleted
  meanwhile, \* ghost: it was edited or deleted while a handler held a copy
  configEdits

serverVars == <<child, toServer, toClient, serving, muted, chatter, ran, noise>>
configVars == <<stored, copy, lastSaid, meanwhile, configEdits>>
mcpVars == <<way, purpose, at, outcome, listed, taken, expired, shell, serverVars,
             listing, configVars>>

\* The messages in their order, and the id an answer to one carries: a notification
\* has none.
Messages == <<"initialize", "initialized", "list", "call">>
LastMessage == IF purpose = "call" THEN 4 ELSE 3
Id(k) == CASE Messages[k] = "initialize" -> 1 [] Messages[k] = "initialized" -> 0
           [] Messages[k] = "list" -> 2 [] Messages[k] = "call" -> 3

AtMessage(what, k) == at = <<what, k>>

ServerAlive == IF child = "none" THEN shell = "alive" ELSE child = "alive"
-------------------------------------------------------------------------------
McpInit ==
  /\ way \in {"stdio", "http_sse"} /\ purpose \in {"call", "probe"}
  /\ listing \in {"with", "without", "none"}
  /\ at = <<"begin", 0>> /\ outcome = "none" /\ listed = "unseen"
  /\ taken = [id |-> 0, kind |-> "nothing"]
  /\ expired = FALSE /\ shell = "none" /\ child = "none"
  /\ toServer = <<>> /\ toClient = <<>> /\ serving = "nothing" /\ muted = FALSE
  /\ chatter = 0 /\ ran = 0 /\ noise = 0
  /\ stored = {0} /\ copy = 0 /\ lastSaid = {0} /\ meanwhile = FALSE /\ configEdits = 0

\* The client has its outcome; a process is killed and waited for.
CallEnds(result) ==
  /\ outcome' = result
  /\ at' = <<IF way = "stdio" /\ at[1] # "begin" THEN "closing" ELSE "returned", 0>>
CallFails == CallEnds("error") /\ UNCHANGED <<listed, taken>>

\* ensureMCPToolListed: an empty list lists everything.
Listed(list) == list # "without"

\* Frame f is taken for the answer to message k; only an answer has a list in it.
TakeAnswer(k, f) ==
  LET list == IF f.kind = "answer" THEN listing ELSE "none" IN
  /\ taken' = f /\ listed' = IF Messages[k] = "list" THEN list ELSE listed
  /\ IF k = LastMessage THEN CallEnds("ok")
     ELSE IF Messages[k] = "list" /\ ~Listed(list) THEN CallEnds("error")
     ELSE /\ at' = <<IF way = "stdio" THEN "send" ELSE "post", k + 1>>
          /\ UNCHANGED outcome

-------------------------------------------------------------------------------
(* The client of a stdio server: callMCPStdio, probeMCPStdio.                 *)

Untouched == <<way, purpose, listing>>

\* The handler has read the config; a call was configured when its run began.
ReadStored == IF purpose = "probe" THEN copy' \in stored ELSE UNCHANGED copy

StartStdio ==
  /\ way = "stdio" /\ AtMessage("begin", 0)
  /\ ReadStored
  /\ \/ /\ shell' = "alive" /\ child' \in {"none", "alive"}
        /\ at' = <<"send", 1>> /\ UNCHANGED <<outcome, listed, taken>>
     \/ CallFails /\ UNCHANGED <<shell, child>>
  /\ UNCHANGED <<Untouched, expired, toServer, toClient, serving, muted, chatter, ran,
                 noise, stored, lastSaid, meanwhile, configEdits>>

\* writeFrame blocks while the pipe is full, and fails when nobody holds its other
\* end. Whether the notification could be sent is not asked.
SendFrame ==
  \E k \in 1..LastMessage :
    /\ way = "stdio" /\ AtMessage("send", k)
    /\ \/ /\ ServerAlive \/ shell = "alive"
          /\ Len(toServer) < PipeFrames
          /\ toServer' = Append(toServer, k)
          /\ at' = IF Id(k) = 0 THEN <<"send", k + 1>> ELSE <<"await", k>>
          /\ UNCHANGED <<outcome, listed, taken>>
       \/ /\ ~ServerAlive /\ shell # "alive"
          /\ IF Id(k) = 0
             THEN at' = <<"send", k + 1>> /\ UNCHANGED <<outcome, listed, taken>>
             ELSE CallFails
          /\ UNCHANGED toServer
    /\ UNCHANGED <<Untouched, expired, shell, child, toClient, serving, muted, chatter,
                   ran, noise, configVars>>

\* readResponseByID takes the first frame that carries the id, whoever's it is. The
\* call passes over a result that is no object, the probe does not.
Matches_AnyFrame(f, k) == f.kind = "odd" => purpose = "probe"
Matches(f, k) == f.id = Id(k) /\ (f.kind = "odd" => purpose = "probe")

ReadFrame ==
  \E k \in 1..LastMessage :
    /\ way = "stdio" /\ AtMessage("await", k)
    /\ \/ /\ toClient # <<>>
          /\ toClient' = Tail(toClient)
          /\ LET f == Head(toClient) IN
             IF ~Matches(f, k) THEN UNCHANGED <<at, outcome, listed, taken>>
             ELSE IF f.kind = "error" THEN CallFails
             ELSE TakeAnswer(k, f)
       \/ /\ toClient = <<>> /\ ~ServerAlive /\ shell # "alive"
          /\ CallFails /\ UNCHANGED toClient
       \/ expired /\ CallFails /\ UNCHANGED toClient
    /\ UNCHANGED <<Untouched, expired, shell, child, toServer, serving, muted, chatter,
                   ran, noise, configVars>>

\* The deferred end of both: the shell is killed, ...
KillShell ==
  /\ way = "stdio" /\ at[1] = "closing"
  /\ shell' = "dead" /\ at' = <<"draining", 0>>
  /\ serving' = IF child = "none" THEN "nothing" ELSE serving
  /\ UNCHANGED <<Untouched, outcome, listed, taken, expired, child, toServer, toClient,
                 muted, chatter, ran, noise, configVars>>

\* ... stderr is read ...
DrainStderr ==
  /\ at[1] = "draining" /\ (muted \/ chatter > 0)
  /\ muted' = FALSE /\ chatter' = 0
  /\ UNCHANGED <<Untouched, at, outcome, listed, taken, expired, shell, child,
                 toServer, toClient, serving, ran, noise, configVars>>

\* ... until nobody holds it, and the shell is waited for. Only then is stdin closed.
WaitForShell ==
  /\ at[1] = "draining" /\ shell # "alive" /\ ~ServerAlive
  /\ at' = <<"returned", 0>>
  /\ UNCHANGED <<Untouched, outcome, listed, taken, expired, shell, serverVars,
                 configVars>>
-------------------------------------------------------------------------------
(* The client of an http_sse server: callMCPHTTPSSE, probeMCPHTTPSSE.         *)

\* The stream is opened.
OpenStream ==
  /\ way = "http_sse" /\ AtMessage("begin", 0)
  /\ ReadStored
  /\ \/ at' = <<"discover", 0>> /\ UNCHANGED <<outcome, listed, taken>>
     \/ CallFails
  /\ UNCHANGED <<Untouched, expired, shell, serverVars, stored, lastSaid, meanwhile,
                 configEdits>>

\* The endpoint is the one the stream names, or the one configured when the stream
\* ends, or the time, without naming any.
DiscoverEndpoint ==
  /\ AtMessage("discover", 0)
  /\ at' = <<"post", 1>>
  /\ UNCHANGED <<Untouched, outcome, listed, taken, expired, shell, serverVars,
                 configVars>>

\* What comes of a POST: the server answers, or takes the request and says no more
\* than that it did, or refuses it; or the answer, or the request with it, is lost.
Replies == IF expired THEN {"unsent"}
           ELSE {"answer", "empty", "odd", "error", "lost", "unsent"}

\* The reply to the notification is not looked at.
Post ==
  \E k \in 1..LastMessage, reply \in Replies :
    /\ way = "http_sse" /\ AtMessage("post", k)
    /\ ran' = IF Messages[k] = "call" /\ reply \notin {"error", "unsent"} THEN ran + 1
              ELSE ran
    /\ IF Id(k) = 0 THEN at' = <<"post", k + 1>> /\ UNCHANGED <<outcome, listed, taken>>
       ELSE IF reply \in {"error", "lost", "unsent"} THEN CallFails
       ELSE TakeAnswer(k, [id |-> Id(k), kind |-> reply])
    /\ UNCHANGED <<Untouched, expired, shell, child, toServer, toClient, serving, muted,
                   chatter, noise, configVars>>
-------------------------------------------------------------------------------
(* The deadline, and the server.                                              *)

\* The context is done: the shell is killed, and no other process.
Expire ==
  /\ ~expired /\ at # <<"begin", 0>> /\ at[1] # "returned"
  /\ expired' = TRUE
  /\ shell' = IF shell = "alive" THEN "dead" ELSE shell
  /\ serving' = IF child = "none" THEN "nothing" ELSE serving
  /\ UNCHANGED <<Untouched, at, outcome, listed, taken, child, toServer, toClient,
                 muted, chatter, ran, noise, configVars>>

ServerMoves == way = "stdio" /\ ServerAlive /\ ~muted
ClientRests == <<Untouched, at, outcome, listed, taken, expired, configVars>>

ServerReads ==
  /\ ServerMoves /\ serving = "nothing" /\ toServer # <<>>
  /\ toServer' = Tail(toServer)
  /\ serving' = IF Id(Head(toServer)) = 0 THEN "nothing" ELSE Messages[Head(toServer)]
  /\ ran' = IF serving' = "call" THEN ran + 1 ELSE ran
  /\ UNCHANGED <<ClientRests, shell, child, toClient, muted, chatter, noise>>

ServerAnswers ==
  /\ ServerMoves /\ serving # "nothing" /\ Len(toClient) < PipeFrames
  /\ \E k \in 1..4, kind \in {"answer", "odd", "error"} :
       /\ Messages[k] = serving
       /\ toClient' = Append(toClient, [id |-> Id(k), kind |-> kind])
  /\ serving' = "nothing"
  /\ UNCHANGED <<ClientRests, shell, child, toServer, muted, chatter, ran, noise>>

\* A request of the server's own has an id of its own count, or is a notification.
ServerAsks ==
  /\ ServerMoves /\ noise < MaxNoise /\ Len(toClient) < PipeFrames
  /\ \E id \in 0..3 : toClient' = Append(toClient, [id |-> id, kind |-> "request"])
  /\ noise' = noise + 1
  /\ UNCHANGED <<ClientRests, shell, child, toServer, serving, muted, chatter, ran>>

ServerChatters ==
  /\ ServerMoves /\ noise < MaxNoise /\ noise' = noise + 1
  /\ IF chatter < PipeFrames THEN chatter' = chatter + 1 /\ UNCHANGED muted
     ELSE muted' = TRUE /\ UNCHANGED chatter
  /\ UNCHANGED <<ClientRests, shell, child, toServer, toClient, serving, ran>>

\* It ends of itself, and its shell with it.
ServerExits ==
  /\ ServerMoves
  /\ shell' = "dead" /\ child' = IF child = "none" THEN "none" ELSE "dead"
  /\ serving' = "nothing"
  /\ UNCHANGED <<ClientRests, toServer, toClient, muted, chatter, ran, noise>>
-------------------------------------------------------------------------------
(* The stored config.                                                         *)

\* ResourceConfigConnectHandler saves the whole of what it read with what it found.
SaveProbe ==
  /\ purpose = "probe" /\ at = <<"returned", 0>>
  /\ stored' = {copy} /\ at' = <<"over", 0>>
  /\ UNCHANGED <<Untouched, outcome, listed, taken, expired, shell, serverVars, copy,
                 lastSaid, meanwhile, configEdits>>

ChangeConfig ==
  /\ configEdits < MaxConfigEdits /\ configEdits' = configEdits + 1 /\ stored # {}
  /\ stored' \in {{}, {configEdits'}} /\ lastSaid' = stored'
  /\ meanwhile' = (purpose = "probe" /\ at[1] \notin {"begin", "over"})
  /\ UNCHANGED <<Untouched, at, outcome, listed, taken, expired, shell, serverVars,
                 copy>>

ClientMoves ==
  \/ StartStdio \/ SendFrame \/ ReadFrame \/ KillShell \/ DrainStderr \/ WaitForShell
  \/ OpenStream \/ DiscoverEndpoint \/ Post \/ SaveProbe

McpNext ==
  \/ ClientMoves \/ Expire \/ ChangeConfig
  \/ ServerReads \/ ServerAnswers \/ ServerAsks \/ ServerChatters \/ ServerExits

McpSpec == McpInit /\ [][McpNext]_mcpVars
-------------------------------------------------------------------------------
\* What the model is told of a tool is what the tool did: a result means that it ran,
\* once, after a list that does not leave it out, and that the server answered, with
\* two exceptions: a request of the server's own that carries the id, and, over http,
\* an empty reply.
ResultMeansItRan ==
  purpose = "call" =>
    /\ ran <= 1
    /\ ran = 1 => listed # "without" /\ listed # "unseen"
    /\ outcome = "ok" =>
         \/ ran = 1 /\ taken.kind \in {"answer", "odd"}
         \/ ran = 1 /\ taken.kind = "empty" /\ way = "http_sse"
         \/ taken.kind = "request" /\ taken.id = Id(LastMessage)

\* Once the time is over the client can go on until it returns. What keeps it is a
\* server that the shell started and that lives on: nobody kills it, its stdin stays
\* open, and it holds the client at stderr or at a full pipe.
DeadlineFrees ==
  expired /\ at[1] \notin {"returned", "over"} =>
    \/ child = "alive" /\ at[1] \in {"send", "draining"}
    \/ ENABLED ClientMoves

\* A connection does not bring back what was edited or deleted before it began or
\* after it was over.
ConfigStands == meanwhile \/ stored = lastSaid

\* A call of an MCP server, whatever the server does (callMCPStdio, callMCPHTTPSSE,
\* ResourceConfigConnectHandler).
CallsAreAccounted == ResultMeansItRan /\ DeadlineFrees /\ ConfigStands
===============================================================================
