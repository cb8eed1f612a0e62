------------------------------- MODULE MCLiveness ------------------------------
(* What must go on happening in the engine and in a session's event feed,     *)
(* checked in one run. They share no variable: which of them moves is chosen  *)
(* at the start and the other rests (a feed that rests has any one policy),   *)
(* and the fairness of each is asked of it only when it is the one that       *)
(* moves. How an emission that waits for a slow reader holds up the engine is *)
(* not in reach of this: each is told that the lock is released again and     *)
(* again ([]<>LockFree).                                                      *)
EXTENDS Engine

CONSTANTS Subs, MaxEvents, BufferSize, Closable, Prunable

VARIABLES part, \* the component that moves
          policy, store, publishing, members, live, liveClosed, pump, replay, hand, out,
          closer, cursor, joined, delivered, lost

Feed == INSTANCE EventFeed

feedVars == <<policy, store, publishing, members, live, liveClosed, pump, replay, hand,
              out, closer, cursor, joined, delivered, lost>>
bothVars == <<part, vars, feedVars>>

BothInit ==
  /\ part \in {"engine", "feed"} /\ Init /\ Feed!Init
  /\ part = "engine" => policy = "drop_newest"

EngineActs(A) == part = "engine" /\ A /\ UNCHANGED <<part, feedVars>>
FeedActs(A) == part = "feed" /\ A /\ UNCHANGED <<part, vars>>

MoveEngine == part = "engine" /\ PromptedNext /\ UNCHANGED <<part, feedVars>>
MoveFeed == part = "feed" /\ Feed!Next /\ UNCHANGED <<part, vars>>
BothNext == MoveEngine \/ MoveFeed

\* The goroutines that can move do: those of the runs and a Send that found room
\* (Fairness of Engine, for clients that answer only what is asked), the emitter, the
\* pumps and a client in Close. Clients may stop reading.
FairBothSpec ==
  /\ BothInit
  /\ [][BothNext]_bothVars
  /\ \A r \in RunIds : WF_bothVars(EngineActs(Goroutine(r)))
  /\ WF_bothVars(EngineActs(ControlUnblocks))
  /\ WF_bothVars(FeedActs(Feed!Publish))
  /\ \A i \in Subs : /\ WF_bothVars(FeedActs(Feed!Pump(i)))
                     /\ WF_bothVars(FeedActs(Feed!Closing(i)))
-------------------------------------------------------------------------------
\* A client that keeps reading gets all that was not dropped for it (EventFeed).
ReadersCatchUp == Feed!ReadersCatchUp

\* Emitting returns unless the policy waits for readers, and a closed subscription
\* ends its goroutine and its Close returns (EventFeed).
NobodyIsHeld == Feed!EmitterReturns /\ Feed!ClosedIsReleased
===============================================================================
