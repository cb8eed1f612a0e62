------------------------------- MODULE Broadcast -------------------------------
(* What a client relies on in a session's event feed, without channels, pumps *)
(* and locks: one log that only grows, and readers that start somewhere in it *)
(* and are handed later and later events of it, each the next one unless the  *)
(* feed may skip some.                                                        *)
EXTENDS Integers, Sequences

CONSTANT Readers

VARIABLES lossy,      \* TRUE when the feed may skip events for a slow reader
          last,       \* the newest event of the log, or -1
          seen        \* reader -> where it started and what it was handed

logVars == <<lossy, last, seen>>

Init == lossy \in BOOLEAN /\ last = -1 /\ seen = [i \in Readers |-> <<>>]

Publish == last' = last + 1 /\ UNCHANGED <<lossy, seen>>

Attach(i) ==
  /\ seen[i] = <<>>
  /\ \E start \in -1..last : seen' = [seen EXCEPT ![i] = <<start>>]
  /\ UNCHANGED <<lossy, last>>

Deliver(i) ==
  LET position == seen[i][Len(seen[i])]
  IN  /\ seen[i] # <<>>
      /\ \E e \in (position + 1)..last :
           /\ lossy \/ e = position + 1
           /\ seen' = [seen EXCEPT ![i] = Append(@, e)]
      /\ UNCHANGED <<lossy, last>>

Next == Publish \/ \E i \in Readers : Attach(i) \/ Deliver(i)

Spec == Init /\ [][Next]_logVars
===============================================================================
