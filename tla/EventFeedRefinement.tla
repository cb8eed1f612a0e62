-------------------------- MODULE EventFeedRefinement --------------------------
(* The event feed is a log with readers that only move forward in it.         *)
EXTENDS EventFeed

\* A reader starts at its cursor, or at the end of the log if that comes first.
Start(i) == IF cursor[i] < joined[i] THEN cursor[i] ELSE joined[i] - 1

\* Where each reader started and what it was handed.
Handed == [i \in Subs |-> IF Made(i) THEN <<Start(i)>> \o delivered[i] ELSE <<>>]

Log == INSTANCE Broadcast
         WITH Readers <- Subs, lossy <- policy # "block_producer",
              last <- Len(store) - 1,
              seen <- Handed

\* Whatever the pumps, the policy and the closing of subscriptions do, a client sees
\* the log in order, from its cursor on, each event once, and without a hole under
\* block_producer.
ImplementsBroadcast == Log!Spec
===============================================================================
