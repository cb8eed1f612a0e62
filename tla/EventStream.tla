----------------------------- MODULE EventStream ------------------------------
(* The events of one conversation on their way to a desktop client: the hub's *)
(* bounded history, the lossy channel of a subscriber, the server-sent event  *)
(* stream that breaks and is resumed by event id, and the fetch of the whole  *)
(* conversation that makes up for events the history no longer has.           *)
(*   execution_events_store.go, handlers_conversation_events.go,              *)
(*   runtime/application/event_stream.go, and in the client sseClient.ts and  *)
(*   session/store/stream.ts                                                  *)
(*                                                                            *)
(* Events are numbered as they are made (their ids are random); what the hub  *)
(* and the client know of the conversation is the set of events they took in. *)
EXTENDS Naturals, Sequences, FiniteSets, SequencesExt

CONSTANTS HistoryLimit, \* maxConversationEventHistory
          ChannelSize,  \* room in the channel of a subscriber
          MaxEvents,    \* bound: events appended
          MaxBreaks,    \* bound: broken, closed or failed connections
          MaxCrashes    \* bound: restarts of the hub

ASSUME StreamAssumption ==
  /\ HistoryLimit \in Nat \ {0} /\ ChannelSize \in Nat \ {0}
  /\ MaxEvents \in Nat /\ MaxBreaks \in Nat /\ MaxCrashes \in Nat

VARIABLES
  facts,     \* the events the hub's state reflects, in their order
  saved,     \* how many of them its database has
  lastEvent, \* the newest event ever made
  up,        \* is the client connected
  channel,   \* the subscriber's channel in the hub
  wire,      \* messages written to the stream and not yet received
  lastSeen,  \* lastId of sseClient: the id of the last message, or None
  view,      \* the events the client's copy of the conversation reflects
  fetch,     \* the fetch of the conversation under way
  blocking,  \* resyncInFlight: incoming events are discarded
  skipped,   \* something was ignored since the fetch was asked for
  lost,      \* events lost to the client for a reason named below
  kept,      \* events the view may keep though a crash took them from the hub
  breaks, crashes \* faults so far

streamVars == <<facts, saved, lastEvent, up, channel, wire, lastSeen, view, fetch,
                blocking, skipped, lost, kept, breaks, crashes>>

None == 0
Unknown == MaxEvents + 1  \* the id of a resync event: no event has it
NoFetch == [stage |-> "none", events |-> {}]
Ids(s) == {s[i].id : i \in DOMAIN s}
Event(id) == [id |-> id, resync |-> FALSE]

History(s) ==
  SubSeq(s, IF Len(s) > HistoryLimit THEN Len(s) - HistoryLimit + 1 ELSE 1, Len(s))
-------------------------------------------------------------------------------
StreamInit ==
  /\ facts = <<>> /\ saved = 0 /\ lastEvent = None
  /\ up = TRUE /\ channel = <<>> /\ wire = <<>> /\ lastSeen = None
  /\ view = {} /\ fetch = NoFetch /\ blocking = FALSE /\ skipped = FALSE
  /\ lost = {} /\ kept = {} /\ breaks = 0 /\ crashes = 0

(* appendExecutionEventLocked: a subscriber whose channel is full goes without*)
(* and is not told.                                                           *)
AppendEvent ==
  LET id == lastEvent + 1
  IN /\ lastEvent < MaxEvents /\ lastEvent' = id
     /\ facts' = Append(facts, id)
     /\ channel' = IF up /\ Len(channel) < ChannelSize THEN Append(channel, Event(id))
                   ELSE channel
     /\ lost' = IF up /\ Len(channel) = ChannelSize THEN lost \cup {id} ELSE lost
     /\ UNCHANGED <<saved, up, wire, lastSeen, view, fetch, blocking, skipped, kept,
                    breaks, crashes>>

(* syncExecutionDomainBestEffort, some time after the lock was released.      *)
Persist ==
  /\ saved < Len(facts) /\ saved' = Len(facts)
  /\ UNCHANGED <<facts, lastEvent, up, channel, wire, lastSeen, view, fetch, blocking,
                 skipped, lost, kept, breaks, crashes>>

ListEventsSince_NoWarning(s, last) ==
  [events |-> SelectSeq(s, LAMBDA id : id > last), resync |-> FALSE]

(* ListEventsSince: the events after the named one; all of them and a warning *)
(* in front when the history does not have it.                                *)
ListEventsSince(s, last) ==
  LET found == {i \in DOMAIN s : s[i] = last}
  IN IF last = None THEN [events |-> s, resync |-> FALSE]
     ELSE IF found = {} THEN [events |-> s, resync |-> TRUE]
     ELSE [events |-> SubSeq(s, (CHOOSE i \in found : TRUE) + 1, Len(s)), resync |-> FALSE]

(* What a connection starts with.                                             *)
Backlog ==
  LET listed == ListEventsSince(History(facts), lastSeen)
      events == [i \in DOMAIN listed.events |-> Event(listed.events[i])]
  IN IF listed.resync THEN <<[id |-> Unknown, resync |-> TRUE]>> \o events ELSE events

(* Events that are still to reach the client without its doing anything more  *)
(* than to reconnect; a resync event brings everything.                       *)
Coming ==
  LET messages == IF up THEN wire \o channel ELSE Backlog
  IN IF \E i \in DOMAIN messages : messages[i].resync THEN ToSet(facts)
     ELSE Ids(messages)

(* The client opens the stream again with the id it saw last; the backlog is  *)
(* taken and the subscriber registered under one lock. One that never saw an  *)
(* event names none, and gets no warning if the history is not complete.      *)
Connect ==
  /\ ~up /\ up' = TRUE /\ wire' = Backlog /\ channel' = <<>>
  /\ lost' = IF lastSeen # None THEN lost
             ELSE lost \cup (ToSet(facts) \ (view \cup ToSet(History(facts))))
  /\ UNCHANGED <<facts, saved, lastEvent, lastSeen, view, fetch, blocking, skipped,
                 kept, breaks, crashes>>

(* The handler's loop writes the next event of its channel to the stream.     *)
Forward ==
  /\ up /\ channel # <<>>
  /\ wire' = Append(wire, Head(channel)) /\ channel' = Tail(channel)
  /\ UNCHANGED <<facts, saved, lastEvent, up, lastSeen, view, fetch, blocking, skipped,
                 lost, kept, breaks, crashes>>

Cut == up' = FALSE /\ wire' = <<>> /\ channel' = <<>>
CountBreak == breaks < MaxBreaks /\ breaks' = breaks + 1

Break ==
  /\ up /\ Cut /\ CountBreak
  /\ UNCHANGED <<facts, saved, lastEvent, lastSeen, view, fetch, blocking, skipped, lost,
                 kept, crashes>>

(* detachSessionStream and a later attachSessionStream: the new stream does   *)
(* not know of a fetch that is still under way.                               *)
Detach ==
  /\ up /\ Cut /\ CountBreak /\ blocking' = FALSE /\ skipped' = (fetch # NoFetch)
  /\ UNCHANGED <<facts, saved, lastEvent, lastSeen, view, fetch, lost, kept, crashes>>

(* The hub dies; it comes back with what its database has.                    *)
Crash ==
  /\ crashes < MaxCrashes /\ crashes' = crashes + 1
  /\ facts' = SubSeq(facts, 1, saved) /\ Cut
  /\ UNCHANGED <<saved, lastEvent, lastSeen, view, fetch, blocking, skipped, lost,
                 kept, breaks>>

(* source.onmessage and onEvent: the id counts as seen whatever becomes of the*)
(* event. The first resync event starts a fetch, and until it is answered all *)
(* that comes is discarded. (A second fetch beside one of an earlier stream is*)
(* not considered.)                                                           *)
Receive ==
  /\ up /\ wire # <<>> /\ wire' = Tail(wire) /\ lastSeen' = Head(wire).id
  /\ \/ /\ blocking /\ skipped' = TRUE
        /\ UNCHANGED <<view, fetch, blocking>>
     \/ /\ ~blocking /\ Head(wire).resync /\ fetch = NoFetch
        /\ fetch' = [stage |-> "asked", events |-> {}]
        /\ blocking' = TRUE /\ skipped' = FALSE /\ UNCHANGED view
     \/ /\ ~blocking /\ ~Head(wire).resync
        /\ view' = view \cup {Head(wire).id}
        /\ UNCHANGED <<fetch, blocking, skipped>>
  /\ UNCHANGED <<facts, saved, lastEvent, up, channel, lost, kept, breaks, crashes>>

(* getSessionDetail is answered by the hub ...                                *)
AnswerFetch ==
  /\ fetch.stage = "asked" /\ fetch' = [stage |-> "answered", events |-> ToSet(facts)]
  /\ UNCHANGED <<facts, saved, lastEvent, up, channel, wire, lastSeen, view, blocking,
                 skipped, lost, kept, breaks, crashes>>

(* ... and the answer, or a failure, reaches the client. The answer replaces  *)
(* what the client had; what it ignored meanwhile and the answer does not have*)
(* is lost, and after a failure so is all that the resync was for.            *)
EndFetch(answered) ==
  /\ IF answered THEN fetch.stage = "answered" ELSE fetch.stage # "none" /\ CountBreak
  /\ view' = IF answered THEN fetch.events ELSE view
  /\ kept' = kept \cup IF answered THEN fetch.events ELSE view \ ToSet(facts)
  /\ lost' = IF skipped \/ ~answered THEN lost \cup (ToSet(facts) \ view') ELSE lost
  /\ fetch' = NoFetch /\ blocking' = FALSE /\ skipped' = FALSE
  /\ IF answered THEN UNCHANGED breaks ELSE TRUE
  /\ UNCHANGED <<facts, saved, lastEvent, up, channel, wire, lastSeen, crashes>>

StreamNext ==
  \/ AppendEvent \/ Persist \/ Connect \/ Forward \/ Break \/ Detach \/ Crash \/ Receive
  \/ AnswerFetch \/ EndFetch(TRUE) \/ EndFetch(FALSE)

StreamSpec == StreamInit /\ [][StreamNext]_streamVars
-------------------------------------------------------------------------------
(* What the client does not know of is on its way to it, or a reconnection or *)
(* the fetch under way brings it, or it was lost in one of the ways the       *)
(* actions name: a full channel, an event ignored while a fetch was under way,*)
(* a failed fetch, a history that ran over before a client that had seen no   *)
(* event yet came back.                                                       *)
NothingMissedSilently ==
  fetch = NoFetch /\ (up \/ lastSeen # None) =>
    ToSet(facts) \subseteq view \cup Coming \cup lost

(* A client shows nothing the hub has forgotten in a crash: it names an event *)
(* the hub does not know, and a resync follows. The exceptions are a fetch    *)
(* that had told it more than its stream had, and a resync that failed.       *)
NoPhantoms ==
  up /\ fetch = NoFetch /\ (\A i \in DOMAIN wire : ~wire[i].resync) =>
    view \subseteq ToSet(facts) \cup kept

(* What a client shows is the hub's history, but for the named ways to lose or*)
(* to keep an event: it misses nothing silently and shows nothing that is not.*)
ViewFollowsHub == NothingMissedSilently /\ NoPhantoms
===============================================================================
