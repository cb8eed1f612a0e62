------------------------------- MODULE RunQueue -------------------------------
(* What a client relies on in the engine, without its goroutines, channels,   *)
(* machines and events: every session is a FIFO server. A run waits in line,  *)
(* is served alone, and is over; an idle session with a run in line serves it *)
(* in the same step; a waiting run may be withdrawn.                          *)
EXTENDS Naturals, Sequences

CONSTANTS Sessions,
          Runs,
          NoRun      \* not a run

VARIABLES line,    \* session -> the runs waiting, oldest first
          served,  \* session -> the run being served, or NoRun
          over     \* runs that ended

queueVars == <<line, served, over>>

Init == /\ line = [s \in Sessions |-> <<>>]
        /\ served = [s \in Sessions |-> NoRun]
        /\ over = {}

\* Session s goes on with line q, its server taken by a or idle.
Serve(s, q, a) ==
  LET next == a = NoRun /\ q # <<>>
  IN  /\ line' = [line EXCEPT ![s] = IF next THEN Tail(q) ELSE q]
      /\ served' = [served EXCEPT ![s] = IF next THEN Head(q) ELSE a]

InLine(s, r) == \E i \in DOMAIN line[s] : line[s][i] = r

Unseen(r) == /\ r \notin over
             /\ \A s \in Sessions : served[s] # r /\ ~InLine(s, r)

Arrive(s, r) == /\ Unseen(r)
                /\ Serve(s, Append(line[s], r), served[s])
                /\ UNCHANGED over

Withdraw(s, r) ==
  /\ \E k \in DOMAIN line[s] :
       /\ line[s][k] = r
       /\ line' = [line EXCEPT ![s] = SubSeq(@, 1, k - 1) \o SubSeq(@, k + 1, Len(@))]
  /\ over' = over \cup {r}
  /\ UNCHANGED served

Finish(s) == /\ served[s] # NoRun
             /\ over' = over \cup {served[s]}
             /\ Serve(s, line[s], NoRun)

Next == \E s \in Sessions :
          \/ \E r \in Runs : Arrive(s, r) \/ Withdraw(s, r)
          \/ Finish(s)

Spec == Init /\ [][Next]_queueVars
===============================================================================
