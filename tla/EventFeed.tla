------------------------------- MODULE EventFeed -------------------------------
(* One session's event feed: emitEventLocked and Subscribe of                 *)
(* agent/runtime/loop/engine.go with transport/events/store.go and            *)
(* transport/subscribers/manager.go.                                          *)
(*                                                                            *)
(* The emitter appends an event to the store and hands it to the subscribers  *)
(* registered at that moment, one after the other, holding e.mu throughout    *)
(* and the subscriber's item.mu while it hands over. A subscription replays   *)
(* the stored events after its cursor and then forwards the live ones: a      *)
(* goroutine (the pump) copies them to the channel its client reads.          *)
(*                                                                            *)
(* An event is its sequence number (Engine: they count 0, 1, 2, ...).         *)
EXTENDS Integers, Sequences, FiniteSets

CONSTANTS Subs,        \* subscriptions, each made at most once
          MaxEvents,   \* bound: events emitted
          BufferSize,  \* capacity of both channels of a subscription
          Closable,    \* bound: the subscriptions their client may close
          Prunable     \* bound: the subscriptions that may be pruned as idle

ASSUME FeedAssumption ==
  /\ MaxEvents \in Nat
  /\ "nobody" \notin Subs
  /\ BufferSize \in Nat \ {0}
  /\ Closable \subseteq Subs
  /\ Prunable \subseteq Subs

VARIABLES
  policy,      \* Config.BackpressurePolicy, chosen when the manager is made
  store,       \* stored events, in order
  publishing,  \* the event being handed out: to whom still, and whose item.mu is held
  members,     \* subscriptions in the manager's map
  live,        \* subscription -> the manager's channel to its pump
  liveClosed,  \* subscriptions whose live channel was closed
  pump,        \* subscription -> what its goroutine does
  replay,      \* subscription -> stored events still to copy
  hand,        \* subscription -> the live event its pump holds, if any
  out,         \* subscription -> the channel to its client
  closer,      \* subscription -> where its client's call of Close is
  cursor,      \* subscription -> the cursor it asked for (-1: none)
  joined,      \* subscription -> events stored when it was made
  delivered,   \* subscription -> what its client read
  lost         \* subscription -> events publishOne dropped for it

feedVars == <<policy, store, publishing, members, live, liveClosed, pump, replay, hand,
              out, closer, cursor, joined, delivered, lost>>

Policies == {"block_producer", "drop_oldest", "drop_newest", "overflow_error"}
Nobody == "nobody"
Idle == [todo |-> {}, at |-> Nobody]
LockFree == publishing = Idle
PumpPhases == {"none", "replaying", "forwarding", "leaving", "unsubscribing", "gone"}
Made(i) == pump[i] # "none"
Closed(i) == closer[i] # "none"

Init ==
  /\ policy \in Policies
  /\ store = <<>>
  /\ publishing = Idle
  /\ members = {} /\ liveClosed = {}
  /\ pump = [i \in Subs |-> "none"] /\ closer = [i \in Subs |-> "none"]
  /\ live = [i \in Subs |-> <<>>] /\ replay = [i \in Subs |-> <<>>]
  /\ hand = [i \in Subs |-> <<>>] /\ out = [i \in Subs |-> <<>>]
  /\ delivered = [i \in Subs |-> <<>>]
  /\ cursor = [i \in Subs |-> -1] /\ joined = [i \in Subs |-> 0]
  /\ lost = [i \in Subs |-> 0]

Replay_FromCursor(c) == SelectSeq(store, LAMBDA e : e >= c)
Replay_Limited(c) == SelectSeq(store, LAMBDA e : e = c + 1)
\* Store.Replay: the events after the cursor. Event e stands at place e + 1.
Replay(c) == SubSeq(store, c + 2, Len(store))

Subscribe_Unlocked(i, c) ==
  /\ ~Made(i)
  /\ members' = members \cup {i}
  /\ publishing' = [publishing EXCEPT !.todo = IF LockFree THEN @ ELSE @ \cup {i}]
  /\ replay' = [replay EXCEPT ![i] = Replay(c)]
  /\ pump' = [pump EXCEPT ![i] = "replaying"]
  /\ cursor' = [cursor EXCEPT ![i] = c]
  /\ joined' = [joined EXCEPT ![i] = Len(store)]
  /\ UNCHANGED <<policy, store, live, liveClosed, hand, out, closer, delivered,
                 lost>>
\* Engine.Subscribe: registration and replay under the one lock.
Subscribe(i, c) ==
  /\ LockFree
  /\ ~Made(i)
  /\ members' = members \cup {i}
  /\ replay' = [replay EXCEPT ![i] = Replay(c)]
  /\ pump' = [pump EXCEPT ![i] = "replaying"]
  /\ cursor' = [cursor EXCEPT ![i] = c]
  /\ joined' = [joined EXCEPT ![i] = Len(store)]
  /\ UNCHANGED <<policy, store, publishing, live, liveClosed, hand, out, closer,
                 delivered, lost>>
-------------------------------------------------------------------------------
(* The emitter: emitEventLocked, Publish, publishOne.                         *)

\* The emitter goes on with the subscribers still to serve, holding one's item.mu
\* or nobody's. Having served all of them it releases e.mu.
GoOn(todo, at) == publishing' = [todo |-> todo, at |-> at]

Emit ==
  /\ LockFree
  /\ Len(store) < MaxEvents
  /\ store' = Append(store, Len(store))
  /\ GoOn(members, Nobody)
  /\ UNCHANGED <<policy, members, live, liveClosed, pump, replay, hand, out, closer,
                 cursor, joined, delivered, lost>>

Event == Len(store) - 1

HasRoom(i) == Len(live[i]) < BufferSize

Drop(i) == lost' = [lost EXCEPT ![i] = @ + 1]

\* The policy: wait (block_producer) or make room (drop_oldest) with item.mu held,
\* drop the event (drop_newest), or give up on it and on all who are still to be
\* served (overflow_error).
OnFull(i) ==
  \/ /\ policy \in {"block_producer", "drop_oldest"}
     /\ GoOn(publishing.todo \ {i}, i)
     /\ UNCHANGED lost
  \/ /\ policy = "drop_newest"
     /\ GoOn(publishing.todo \ {i}, Nobody)
     /\ Drop(i)
  \/ /\ policy = "overflow_error"
     /\ GoOn({}, Nobody)
     /\ Drop(i)

\* publishOne: skip a closed subscriber, fill its channel, or follow the policy.
PublishOne(i) ==
  /\ publishing.at = Nobody
  /\ i \in publishing.todo
  /\ \/ /\ i \in liveClosed
        /\ GoOn(publishing.todo \ {i}, Nobody)
        /\ UNCHANGED <<live, lost>>
     \/ /\ i \notin liveClosed /\ HasRoom(i)
        /\ live' = [live EXCEPT ![i] = Append(@, Event)]
        /\ GoOn(publishing.todo \ {i}, Nobody)
        /\ UNCHANGED lost
     \/ /\ i \notin liveClosed /\ ~HasRoom(i)
        /\ OnFull(i)
        /\ UNCHANGED live
  /\ UNCHANGED <<policy, store, members, liveClosed, pump, replay, hand, out,
                 closer, cursor, joined, delivered>>

\* The send block_producer waits for.
Unblock(i) ==
  /\ publishing.at = i /\ policy = "block_producer"
  /\ HasRoom(i)
  /\ live' = [live EXCEPT ![i] = Append(@, Event)]
  /\ GoOn(publishing.todo, Nobody)
  /\ UNCHANGED <<policy, store, members, liveClosed, pump, replay, hand, out,
                 closer, cursor, joined, delivered, lost>>

Evict_SendsNothing(i) ==
  /\ publishing.at = i /\ policy = "drop_oldest"
  /\ \/ live[i] = <<>> /\ UNCHANGED <<live, lost>>
     \/ live[i] # <<>> /\ live' = [live EXCEPT ![i] = Tail(@)] /\ Drop(i)
  /\ GoOn(publishing.todo, Nobody)
  /\ UNCHANGED <<policy, store, members, liveClosed, pump, replay, hand, out,
                 closer, cursor, joined, delivered>>
\* drop_oldest takes the oldest event out, if the pump has not emptied the channel
\* since it was found full, and sends again.
Evict(i) ==
  /\ publishing.at = i /\ policy = "drop_oldest"
  /\ \/ live[i] = <<>> /\ live' = [live EXCEPT ![i] = <<Event>>] /\ UNCHANGED lost
     \/ /\ live[i] # <<>>
        /\ live' = [live EXCEPT ![i] = Append(Tail(@), Event)]
        /\ Drop(i)
  /\ GoOn(publishing.todo, Nobody)
  /\ UNCHANGED <<policy, store, members, liveClosed, pump, replay, hand, out,
                 closer, cursor, joined, delivered>>

Publish == \E i \in Subs : PublishOne(i) \/ Unblock(i) \/ Evict(i)
-------------------------------------------------------------------------------
(* Unsubscribe: out of the map first, then the channel under item.mu, which a  *)
(* blocked emitter keeps.                                                     *)

CloseLive(i) ==
  /\ publishing.at # i
  /\ liveClosed' = liveClosed \cup {i}

\* The client: reads, and calls Close once.
Read(i) ==
  /\ ~Closed(i)
  /\ out[i] # <<>>
  /\ delivered' = [delivered EXCEPT ![i] = Append(@, Head(out[i]))]
  /\ out' = [out EXCEPT ![i] = Tail(@)]
  /\ UNCHANGED <<policy, store, publishing, members, live, liveClosed, pump, replay,
                 hand, closer, cursor, joined, lost>>

Close(i) ==
  /\ Made(i) /\ i \in Closable /\ ~Closed(i)
  /\ closer' = [closer EXCEPT ![i] = "leaving"]
  /\ UNCHANGED <<policy, store, publishing, members, live, liveClosed, pump, replay,
                 hand, out, cursor, joined, delivered, lost>>

\* Whoever finds the subscriber still in the map removes it and closes its channel.
CloseUnsubscribes(i) ==
  /\ closer[i] = "leaving"
  /\ closer' = [closer EXCEPT ![i] = IF i \in members THEN "unsubscribing" ELSE "gone"]
  /\ members' = members \ {i}
  /\ UNCHANGED <<policy, store, publishing, live, liveClosed, pump, replay, hand,
                 out, cursor, joined, delivered, lost>>

CloseReturns(i) ==
  /\ closer[i] = "unsubscribing"
  /\ CloseLive(i)
  /\ closer' = [closer EXCEPT ![i] = "gone"]
  /\ UNCHANGED <<policy, store, publishing, members, live, pump, replay, hand, out,
                 cursor, joined, delivered, lost>>

Closing(i) == CloseUnsubscribes(i) \/ CloseReturns(i)

\* PruneIdle, called under e.mu; any subscriber may have been idle long enough.
PruneIdle(i) ==
  /\ LockFree
  /\ i \in members \cap Prunable
  /\ members' = members \ {i}
  /\ CloseLive(i)
  /\ UNCHANGED <<policy, store, publishing, live, pump, replay, hand, out, closer,
                 cursor, joined, delivered, lost>>
-------------------------------------------------------------------------------
(* The pump.                                                                  *)

OutHasRoom(i) == Len(out[i]) < BufferSize

CopyReplayed(i) ==
  /\ pump[i] = "replaying"
  /\ \/ /\ replay[i] # <<>> /\ OutHasRoom(i)
        /\ out' = [out EXCEPT ![i] = Append(@, Head(replay[i]))]
        /\ replay' = [replay EXCEPT ![i] = Tail(@)]
        /\ UNCHANGED pump
     \/ /\ replay[i] = <<>>
        /\ pump' = [pump EXCEPT ![i] = "forwarding"]
        /\ UNCHANGED <<out, replay>>
  /\ UNCHANGED <<policy, store, publishing, members, live, liveClosed, hand, closer,
                 cursor, joined, delivered, lost>>

Take(i) ==
  /\ pump[i] = "forwarding"
  /\ hand[i] = <<>> /\ live[i] # <<>>
  /\ hand' = [hand EXCEPT ![i] = <<Head(live[i])>>]
  /\ live' = [live EXCEPT ![i] = Tail(@)]
  /\ UNCHANGED <<policy, store, publishing, members, liveClosed, pump, replay, out,
                 closer, cursor, joined, delivered, lost>>

Forward(i) ==
  /\ pump[i] = "forwarding"
  /\ hand[i] # <<>> /\ OutHasRoom(i)
  /\ out' = [out EXCEPT ![i] = Append(@, hand[i][1])]
  /\ hand' = [hand EXCEPT ![i] = <<>>]
  /\ UNCHANGED <<policy, store, publishing, members, live, liveClosed, pump, replay,
                 closer, cursor, joined, delivered, lost>>

Leave_OnlyWhenClosed(i) ==
  /\ pump[i] = "forwarding"
  /\ hand[i] = <<>> /\ live[i] = <<>> /\ i \in liveClosed
  /\ pump' = [pump EXCEPT ![i] = "leaving"]
  /\ UNCHANGED <<policy, store, publishing, members, live, liveClosed, replay, hand,
                 out, closer, cursor, joined, delivered, lost>>
\* Every select watches the client's Close; the pump also leaves when the live
\* channel is closed and empty.
Leave(i) ==
  /\ \/ pump[i] \in {"replaying", "forwarding"} /\ Closed(i)
     \/ pump[i] = "forwarding" /\ hand[i] = <<>> /\ live[i] = <<>> /\ i \in liveClosed
  /\ pump' = [pump EXCEPT ![i] = "leaving"]
  /\ UNCHANGED <<policy, store, publishing, members, live, liveClosed, replay, hand,
                 out, closer, cursor, joined, delivered, lost>>

\* The deferred Unsubscribe, which finds the subscriber removed or removes it, and
\* the deferred close of the client's channel.
PumpUnsubscribes(i) ==
  /\ pump[i] = "leaving"
  /\ pump' = [pump EXCEPT ![i] = IF i \in members THEN "unsubscribing" ELSE "gone"]
  /\ members' = members \ {i}
  /\ UNCHANGED <<policy, store, publishing, live, liveClosed, replay, hand, out,
                 closer, cursor, joined, delivered, lost>>

PumpGone(i) ==
  /\ pump[i] = "unsubscribing"
  /\ CloseLive(i)
  /\ pump' = [pump EXCEPT ![i] = "gone"]
  /\ UNCHANGED <<policy, store, publishing, members, live, replay, hand, out,
                 closer, cursor, joined, delivered, lost>>

Pump(i) == \/ CopyReplayed(i) \/ Take(i) \/ Forward(i)
           \/ Leave(i) \/ PumpUnsubscribes(i) \/ PumpGone(i)

Next ==
  \/ Emit \/ Publish
  \/ \E i \in Subs :
       \/ \E c \in -1..MaxEvents : Subscribe(i, c)
       \/ Read(i) \/ Close(i) \/ Closing(i) \/ PruneIdle(i)
       \/ Pump(i)

Spec == Init /\ [][Next]_feedVars
-------------------------------------------------------------------------------
(* Properties.                                                                *)

\* What a subscription has delivered and still holds, oldest first.
Stream(i) == delivered[i] \o out[i] \o replay[i] \o hand[i] \o live[i]

\* The events a subscription is for: those after its cursor that were stored when it
\* was made, and all that came later.
Wanted(i) == {e \in 0..(Len(store) - 1) : e > cursor[i] \/ e >= joined[i]}

\* The event of an emission under way that has not reached subscription i.
Pending(i) == IF i \in publishing.todo \/ publishing.at = i THEN 1 ELSE 0

\* A subscriber misses only what publishOne dropped for itself, and gets nothing it is
\* not for: the stream of an open subscription, what was dropped for it and what is
\* on its way add up to what it is for. A slow reader costs the others nothing
\* (overflow_error apart, where the first full subscriber ends the hand-out).
OnlyOwnLosses ==
  /\ \A i \in members : policy # "overflow_error" =>
       Len(Stream(i)) + lost[i] + Pending(i) = Cardinality(Wanted(i))
  /\ \A i \in Subs : \A k \in DOMAIN Stream(i) : Stream(i)[k] \in Wanted(i)

\* Emitting returns, so that no reader, however slow or gone, holds the engine's lock:
\* true of every policy that does not wait for readers.
EmitterReturns == policy # "block_producer" => []<>LockFree

\* A client that keeps reading gets all that was not dropped for it, unless its
\* subscription ends or the emitter is stuck.
ReadersCatchUp ==
  (policy # "overflow_error" /\ []<>LockFree /\ \A i \in Subs : WF_feedVars(Read(i))) =>
    \A i \in Subs :
      <>[](\/ ~Made(i) \/ Closed(i) \/ i \in liveClosed
           \/ Len(delivered[i]) + lost[i] = Cardinality(Wanted(i)))

\* A closed subscription ends its goroutine and Close returns, whether its client
\* had read everything or not, unless the emitter is stuck.
ClosedIsReleased ==
  []<>LockFree =>
    \A i \in Subs :
      []<>(Closed(i) => pump[i] = "gone" /\ closer[i] = "gone" /\ i \in liveClosed)
===============================================================================
