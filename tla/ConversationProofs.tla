-------------------------- MODULE ConversationProofs --------------------------
(* Proofs about a conversation of the hub, for every number of prompts,       *)
(* handlers, engine runs and waits, whatever the clients call and in whatever *)
(* order the handlers, the engine and the projection worker take their steps. *)
EXTENDS Conversation, TLAPS, SequenceTheorems, FiniteSetTheorems, WellFoundedInduction

EventTypes == {"run_queued", "run_started", "resolved", "answered"}
                \cup Waiting \cup TerminalStates
EnginePhases == {"none", "queued"} \cup Working \cup TerminalStates
Stages == {"check", "load", "start", "submit", "bind", "project", "fail"}

Ops == [call : {"submit", "forget"} \cup ControlKinds, e : Executions, at : Stages,
        k : {None} \cup EngineSessions, run : {None} \cup EngineRuns]

Events == [run : EngineRuns, type : EventTypes]

Engines ==
  [sessions : 0..MaxRuns, runs : 0..MaxRuns,
   home : [EngineRuns -> {None} \cup EngineSessions],
   execution : [EngineRuns -> {None} \cup Executions],
   phase : [EngineRuns -> EnginePhases],
   halting : SUBSET EngineRuns,
   waits : Nat,
   feed : [EngineSessions -> Seq(Events)]]

ConversationTypes ==
  /\ prompts \in 0..MaxPrompts /\ order \in Seq(Executions)
  /\ state \in [Executions -> ExecutionStates]
  /\ active \in {None} \cup Executions /\ queueState \in {"idle", "queued", "running"}
  /\ questions \subseteq Executions
  /\ session \in {None} \cup EngineSessions /\ worker \in {None} \cup EngineSessions
  /\ runOf \in [Executions -> {None} \cup EngineRuns]
  /\ threads \in [Threads -> Seq(Ops)]
  /\ engine \in Engines
  /\ calls \in Seq(Calls)

\* The executions are in the order of their prompts, and exactly those are there.
Orderly(p, o, s) ==
  /\ \A i, j \in DOMAIN o : i < j => o[i] < o[j]
  /\ \A e \in Executions : s[e] # "absent" <=> \E i \in DOMAIN o : o[i] = e
  /\ \A e \in Executions : e > p => s[e] = "absent"

\* ActiveCarriesQueue without the order.
Carried(s, a, q) ==
  /\ a = None => (\A e \in Executions : s[e] # "queued") /\ q = "idle"
  /\ a # None => s[a] \in Underway /\ q # "idle"

\* The submissions a thread has still to make: all of them, and those whose run the
\* engine does not have yet.
Carries(q, e) == \E i \in DOMAIN q : q[i].call = "submit" /\ q[i].e = e
Owes(q, e) == \E i \in DOMAIN q : /\ q[i].call = "submit" /\ q[i].e = e
                                  /\ q[i].at \notin {"bind", "project"}
RunsFor(g, e) == {r \in 1..g.runs : g.execution[r] = e}
Owing(th, e) == {t \in Threads : Owes(th[t], e)}
Restarts(c) == {i \in DOMAIN c : c[i] = "restart"}

\* From the first queued execution on nothing was submitted yet, and the engine knows
\* nothing of it.
Behind(p, s, f) == f > p \/ \E e \in Executions : e <= f /\ s[e] = "queued"
Untouched(p, s, rho, th, g) ==
  \A f \in Executions : Behind(p, s, f) =>
    /\ s[f] \in {"absent", "queued", "cancelled"}
    /\ rho[f] = None /\ RunsFor(g, f) = {}
    /\ \A t \in Threads : ~Carries(th[t], f)

\* A submission is the last call a thread has to make.
Single(q) == \A i \in DOMAIN q : q[i].call = "submit" => i = Len(q)
SingleMinded(th) == \A t \in Threads : Single(th[t])

\* Runs made and submissions owed do not exceed the promotions of an execution.
Paid(g, th, c) ==
  \A e \in Executions :
    Cardinality(RunsFor(g, e)) + Cardinality(Owing(th, e)) <= 1 + Cardinality(Restarts(c))

QueueInv ==
  /\ ConversationTypes
  /\ Orderly(prompts, order, state)
  /\ Carried(state, active, queueState)
  /\ Untouched(prompts, state, runOf, threads, engine)
  /\ SingleMinded(threads)
  /\ Paid(engine, threads, calls)
-------------------------------------------------------------------------------
(* Numbers, lists of calls, the engine.                                       *)

\* A set of numbers that is not empty has a least one: what the code finds first.
LEMMA LeastExists ==
  ASSUME NEW S, S \subseteq Nat, S # {}
  PROVE  \E x \in S : \A y \in S : x <= y
PROOF
<1> DEFINE R == {ss \in Nat \X Nat : ss[1] < ss[2]}
<1>1. IsWellFoundedOn(R, Nat)
  BY NatLessThanWellFounded DEF OpToRel
<1>2. \E x \in S : \A y \in S : <<y, x>> \notin R
  <2> HIDE DEF R
  <2> QED BY <1>1, WFMin
<1>3. \A x, y \in Nat : <<y, x>> \notin R => x <= y
  OBVIOUS
<1> HIDE DEF R
<1> QED BY <1>2, <1>3

\* The execution that startNextQueuedExecutionLocked picks is the first queued one.
LEMMA NextQueuedIsFirst ==
  ASSUME ConversationTypes, Orderly(prompts, order, state),
         NEW s \in [Executions -> ExecutionStates],
         \A e \in Executions : s[e] = "queued" => state[e] = "queued"
  PROVE  \/ /\ NextQueued(s) = None
            /\ \A e \in Executions : s[e] # "queued"
         \/ /\ NextQueued(s) \in Executions
            /\ s[NextQueued(s)] = "queued"
            /\ \A f \in Executions : s[f] = "queued" => NextQueued(s) <= f
PROOF
<1> DEFINE Q == QueuedIn(s)
           First(i) == i \in Q /\ \A j \in Q : i <= j
<1>1. order \in Seq(Executions) /\ DOMAIN order = 1..Len(order) /\ Len(order) \in Nat
  BY DEF ConversationTypes
<1>2. \A i \in DOMAIN order : order[i] \in Executions
  BY <1>1
<1>3. \A e \in Executions : s[e] = "queued" => \E i \in Q : order[i] = e
  BY <1>1 DEF Orderly, QueuedIn
<1>4. CASE Q = {}
  <2>1. NextQueued(s) = None
    BY <1>4 DEF NextQueued
  <2>2. \A e \in Executions : s[e] # "queued"
    BY <1>4, <1>3
  <2>3. QED BY <2>1, <2>2
<1>5. CASE Q # {}
  <2>1. Q \subseteq Nat
    BY <1>1 DEF QueuedIn
  <2>2. \E i \in Q : \A j \in Q : i <= j
    <3> HIDE DEF Q
    <3> QED BY <2>1, <1>5, LeastExists
  <2> DEFINE i == CHOOSE i \in Q : \A j \in Q : i <= j
  <2>3. i \in Q /\ \A j \in Q : i <= j
    <3> HIDE DEF Q
    <3> QED BY <2>2
  <2>4. NextQueued(s) = order[i]
    BY <1>5 DEF NextQueued
  <2> HIDE DEF i
  <2>5. order[i] \in Executions /\ s[order[i]] = "queued"
    BY <2>3, <1>2 DEF QueuedIn
  <2>6. ASSUME NEW f \in Executions, s[f] = "queued" PROVE order[i] <= f
    <3>1. PICK j \in Q : order[j] = f
      BY <2>6, <1>3
    <3>2. i <= j /\ i \in DOMAIN order /\ j \in DOMAIN order
      BY <2>3, <3>1 DEF QueuedIn
    <3>3. i = j \/ i < j
      BY <3>2, <1>1
    <3>4. order[i] \in Nat /\ order[j] \in Nat
      BY <3>2, <1>2 DEF Executions
    <3>5. QED BY <3>1, <3>2, <3>3, <3>4 DEF Orderly
  <2>7. QED BY <2>4, <2>5, <2>6
<1>6. QED BY <1>4, <1>5

\* The feeds after an event of run r in session k.
Told(feed, k, r, type) == [feed EXCEPT ![k] = Append(@, [run |-> r, type |-> type])]

\* The phases after run r moved.
Phased(phases, r, phase) == [phases EXCEPT ![r] = phase]

\* An event goes into the feed of the run's session and changes nothing else.
LEMMA EmittedTypes ==
  ASSUME NEW g \in Engines, NEW r \in EngineRuns, NEW type \in EventTypes
  PROVE  /\ Emitted(g, r, type) \in Engines
         /\ Emitted(g, r, type).runs = g.runs
         /\ Emitted(g, r, type).execution = g.execution
         /\ Emitted(g, r, type).home = g.home
         /\ Emitted(g, r, type).phase = g.phase
         /\ Emitted(g, r, type).halting = g.halting
         /\ Emitted(g, r, type).feed = Told(g.feed, g.home[r], r, type)
PROOF
<1> DEFINE feed == [g.feed EXCEPT ![g.home[r]] = Append(@, [run |-> r, type |-> type])]
<1>1. Emitted(g, r, type) = [g EXCEPT !.feed = feed]
  BY DEF Emitted, Engines
<1>2. feed \in [EngineSessions -> Seq(Events)]
  <2>1. [run |-> r, type |-> type] \in Events
    BY DEF Events
  <2>2. g.feed \in [EngineSessions -> Seq(Events)]
    BY DEF Engines
  <2>3. \A q \in Seq(Events) : Append(q, [run |-> r, type |-> type]) \in Seq(Events)
    BY <2>1
  <2>4. QED BY <2>2, <2>3
<1> HIDE DEF feed
<1>3. [g EXCEPT !.feed = feed] \in Engines
  BY <1>2 DEF Engines
<1>4. QED BY <1>1, <1>3 DEF Engines, feed, Told

\* A run moves to another phase and tells so.
LEMMA MovedTypes ==
  ASSUME NEW g \in Engines, NEW r \in EngineRuns, NEW phase \in EnginePhases, NEW type \in EventTypes
  PROVE  /\ Moved(g, r, phase, type) \in Engines
         /\ Moved(g, r, phase, type).runs = g.runs
         /\ Moved(g, r, phase, type).execution = g.execution
         /\ Moved(g, r, phase, type).home = g.home
         /\ Moved(g, r, phase, type).phase = Phased(g.phase, r, phase)
         /\ Moved(g, r, phase, type).halting = g.halting
         /\ Moved(g, r, phase, type).feed = Told(g.feed, g.home[r], r, type)
PROOF
<1> DEFINE h == [g EXCEPT !.phase[r] = phase]
<1>1. /\ h \in Engines /\ h.runs = g.runs /\ h.execution = g.execution /\ h.home = g.home
      /\ h.phase = Phased(g.phase, r, phase) /\ h.halting = g.halting /\ h.feed = g.feed
  BY DEF Engines, Phased
<1>2. Moved(g, r, phase, type) = Emitted(h, r, type)
  BY DEF Moved
<1> HIDE DEF h
<1>3. QED BY <1>1, <1>2, EmittedTypes

\* The engine starts the first queued run of an idle session, or none.
LEMMA StartNextTypes ==
  ASSUME NEW g \in Engines, NEW k
  PROVE  \/ StartNext(g, k) = g
         \/ \E r \in EngineRuns :
              /\ StartNext(g, k) = Moved(g, r, "running", "run_started")
              /\ g.phase[r] = "queued" /\ g.home[r] = k
              /\ \A q \in EngineRuns : g.home[q] = k => g.phase[q] \notin Working
              /\ \A q \in EngineRuns : g.home[q] = k /\ g.phase[q] = "queued" => r <= q
PROOF
<1> DEFINE here(phases) == {r \in EngineRuns : g.home[r] = k /\ g.phase[r] \in phases}
           next == CHOOSE r \in here({"queued"}) : \A q \in here({"queued"}) : r <= q
<1>1. CASE here(Working) = {} /\ here({"queued"}) # {}
  <2>1. here({"queued"}) \subseteq Nat
    BY DEF EngineRuns
  <2>2. \E r \in here({"queued"}) : \A q \in here({"queued"}) : r <= q
    <3> HIDE DEF here
    <3> QED BY <2>1, <1>1, LeastExists
  <2>3. next \in here({"queued"}) /\ \A q \in here({"queued"}) : next <= q
    <3> HIDE DEF here
    <3> QED BY <2>2
  <2>4. StartNext(g, k) = Moved(g, next, "running", "run_started")
    BY <1>1 DEF StartNext
  <2>5. \A q \in EngineRuns : g.home[q] = k => g.phase[q] \notin Working
    BY <1>1
  <2> HIDE DEF next
  <2>6. QED BY <2>3, <2>4, <2>5
<1>2. CASE ~(here(Working) = {} /\ here({"queued"}) # {})
  BY <1>2 DEF StartNext
<1>3. QED BY <1>1, <1>2

\* Starting a run makes none and gives none away.
LEMMA StartNextKeeps ==
  ASSUME NEW g \in Engines, NEW k
  PROVE  /\ StartNext(g, k) \in Engines
         /\ StartNext(g, k).runs = g.runs
         /\ StartNext(g, k).execution = g.execution
         /\ StartNext(g, k).home = g.home
PROOF
<1>1. "running" \in EnginePhases /\ "run_started" \in EventTypes
  BY DEF EnginePhases, EventTypes, Working
<1>2. QED BY <1>1, StartNextTypes, MovedTypes

\* A submission makes one run, the execution's.
LEMMA SubmittedTypes ==
  ASSUME NEW g \in Engines, g.runs < MaxRuns, NEW k \in {None} \cup EngineSessions, NEW e \in Executions
  PROVE  /\ Submitted(g, k, e) \in Engines
         /\ Submitted(g, k, e).runs = g.runs + 1
         /\ Submitted(g, k, e).execution = [g.execution EXCEPT ![g.runs + 1] = e]
PROOF
<1> DEFINE r == g.runs + 1
           h == [g EXCEPT !.runs = r, !.home[r] = k, !.execution[r] = e]
           m == Moved(h, r, "queued", "run_queued")
<1>1. MaxRuns \in Nat /\ g.runs \in Nat
  BY ConversationAssumption DEF Engines
<1>2. r \in EngineRuns /\ r \in 0..MaxRuns
  BY <1>1 DEF EngineRuns
<1>3. h \in Engines /\ h.runs = r /\ h.execution = [g.execution EXCEPT ![r] = e]
  BY <1>2 DEF Engines, None
<1>4. "queued" \in EnginePhases /\ "run_queued" \in EventTypes
  BY DEF EnginePhases, EventTypes
<1>5. Submitted(g, k, e) = StartNext(m, k)
  BY DEF Submitted
<1>6. m \in Engines /\ m.runs = h.runs /\ m.execution = h.execution
  <2> HIDE DEF h, r
  <2> QED BY <1>2, <1>3, <1>4, MovedTypes
<1> HIDE DEF m, h
<1>7. QED BY <1>3, <1>5, <1>6, StartNextKeeps

\* A control call makes no run.
LEMMA ControlledTypes ==
  ASSUME NEW g \in Engines, NEW r \in EngineRuns, NEW action \in ControlKinds
  PROVE  /\ Controlled(g, r, action) \in Engines
         /\ Controlled(g, r, action).runs = g.runs
         /\ Controlled(g, r, action).execution = g.execution
PROOF
<1>1. /\ "cancelled" \in EnginePhases /\ "running" \in EnginePhases
      /\ "cancelled" \in EventTypes /\ "answered" \in EventTypes /\ "resolved" \in EventTypes
  BY DEF EnginePhases, EventTypes, TerminalStates, Working
<1>2. /\ [g EXCEPT !.halting = @ \cup {r}] \in Engines
      /\ [g EXCEPT !.halting = @ \cup {r}].runs = g.runs
      /\ [g EXCEPT !.halting = @ \cup {r}].execution = g.execution
  BY DEF Engines
<1>3. \/ Controlled(g, r, action) \in {g, [g EXCEPT !.halting = @ \cup {r}]}
      \/ Controlled(g, r, action) = Moved(g, r, "cancelled", "cancelled")
      \/ Controlled(g, r, action) = Moved(g, r, "running", "answered")
      \/ Controlled(g, r, action) = Moved(g, r, "running", "resolved")
  BY DEF Controlled
<1>4. \A h \in {Moved(g, r, "cancelled", "cancelled"), Moved(g, r, "running", "answered"),
              Moved(g, r, "running", "resolved")} :
        h \in Engines /\ h.runs = g.runs /\ h.execution = g.execution
  BY <1>1, MovedTypes
<1>5. QED BY <1>2, <1>3, <1>4

\* What a run does of itself makes no run either.
LEMMA EngineStepTypes ==
  ASSUME ConversationTypes, NEW r \in EngineRuns, EngineStep(r)
  PROVE  /\ engine' \in Engines
         /\ engine'.runs = engine.runs /\ engine'.execution = engine.execution
PROOF
<1>0. engine \in Engines
  BY DEF ConversationTypes
<1>1. CASE Asks(r)
  <2>1. PICK wait \in Waiting : engine' = [Moved(engine, r, wait, wait) EXCEPT !.waits = @ + 1]
    BY <1>1 DEF Asks
  <2>2. wait \in EnginePhases /\ wait \in EventTypes
    BY DEF EnginePhases, EventTypes, Working, Waiting
  <2> DEFINE m == Moved(engine, r, wait, wait)
  <2>3. m \in Engines /\ m.runs = engine.runs /\ m.execution = engine.execution
    BY <1>0, <2>2, MovedTypes
  <2> HIDE DEF m
  <2>4. engine' = [m EXCEPT !.waits = @ + 1]
    BY <2>1 DEF m
  <2>5. QED BY <2>3, <2>4 DEF Engines
<1>2. CASE Resolves(r)
  <2> DEFINE m == Moved(engine, r, "running", "resolved")
  <2>1. "running" \in EnginePhases /\ "resolved" \in EventTypes
    BY DEF EnginePhases, EventTypes, Working
  <2>2. m \in Engines /\ m.runs = engine.runs /\ m.execution = engine.execution
    BY <1>0, <2>1, MovedTypes
  <2>3. engine' = m
    BY <1>2 DEF Resolves
  <2> HIDE DEF m
  <2>4. QED BY <2>2, <2>3
<1>3. CASE Ends(r)
  <2>1. PICK end \in TerminalStates : engine' = StartNext(Moved(engine, r, end, end), engine.home[r])
    BY <1>3 DEF Ends, TerminalStates
  <2>2. end \in EnginePhases /\ end \in EventTypes
    BY DEF EnginePhases, EventTypes
  <2> DEFINE m == Moved(engine, r, end, end)
             k == engine.home[r]
  <2>3. m \in Engines /\ m.runs = engine.runs /\ m.execution = engine.execution
    BY <1>0, <2>2, MovedTypes
  <2> HIDE DEF m, k
  <2>4. engine' = StartNext(m, k)
    BY <2>1 DEF m, k
  <2>5. QED BY <2>3, <2>4, StartNextKeeps
<1>4. QED BY <1>1, <1>2, <1>3 DEF EngineStep

-------------------------------------------------------------------------------
(* The lists of calls of the threads.                                         *)

\* A thread that has done its first call owes nothing new.
LEMMA FinishedList ==
  ASSUME NEW q \in Seq(Ops), q # <<>>, Single(q)
  PROVE  /\ Tail(q) \in Seq(Ops) /\ Single(Tail(q))
         /\ \A e : Carries(Tail(q), e) => Carries(q, e)
         /\ \A e : Owes(Tail(q), e) => Owes(q, e)
         /\ Head(q).call = "submit" => Tail(q) = <<>>
PROOF
<1>1. /\ Tail(q) \in Seq(Ops) /\ Len(q) \in Nat \ {0} /\ Len(Tail(q)) = Len(q) - 1
      /\ DOMAIN q = 1..Len(q) /\ DOMAIN Tail(q) = 1..(Len(q) - 1)
  OBVIOUS
<1>2. \A i \in DOMAIN Tail(q) : Tail(q)[i] = q[i + 1] /\ i + 1 \in DOMAIN q /\ i + 1 # 1
  BY <1>1
<1>3. Head(q) = q[1] /\ 1 \in DOMAIN q
  BY <1>1
<1>4. Single(Tail(q))
  BY <1>1, <1>2 DEF Single
<1>5. (\A e : Carries(Tail(q), e) => Carries(q, e)) /\ \A e : Owes(Tail(q), e) => Owes(q, e)
  BY <1>2 DEF Carries, Owes
<1>6. ASSUME Head(q).call = "submit" PROVE Tail(q) = <<>>
  BY <1>1, <1>3, <1>6 DEF Single
<1>7. QED BY <1>1, <1>4, <1>5, <1>6

\* A thread that goes on with its first call owes nothing new.
LEMMA GoneOnList ==
  ASSUME NEW q \in Seq(Ops), q # <<>>, Single(q), NEW op \in Ops,
         op.call = Head(q).call, op.e = Head(q).e,
         op.at \notin {"bind", "project"} => Head(q).at \notin {"bind", "project"}
  PROVE  /\ <<op>> \o Tail(q) \in Seq(Ops) /\ Single(<<op>> \o Tail(q))
         /\ \A e : Carries(<<op>> \o Tail(q), e) => Carries(q, e)
         /\ \A e : Owes(<<op>> \o Tail(q), e) => Owes(q, e)
         /\ op.call = "submit" /\ op.at = "bind" => \A e : ~Owes(<<op>> \o Tail(q), e)
PROOF
<1> DEFINE p == <<op>> \o Tail(q)
<1>1. /\ Tail(q) \in Seq(Ops) /\ Len(q) \in Nat \ {0} /\ Len(Tail(q)) = Len(q) - 1
      /\ DOMAIN q = 1..Len(q) /\ DOMAIN Tail(q) = 1..(Len(q) - 1)
      /\ \A i \in DOMAIN Tail(q) : Tail(q)[i] = q[i + 1]
  OBVIOUS
<1>2. <<op>> \in Seq(Ops) /\ Len(<<op>>) = 1 /\ <<op>>[1] = op
  OBVIOUS
<1>3. /\ p \in Seq(Ops) /\ Len(p) = 1 + Len(Tail(q))
      /\ \A i \in 1..(1 + Len(Tail(q))) : p[i] = IF i <= 1 THEN <<op>>[i] ELSE Tail(q)[i - 1]
  BY <1>1, <1>2, ConcatProperties
<1> HIDE DEF p
<1>4. DOMAIN p = DOMAIN q /\ 1 \in DOMAIN q
  BY <1>1, <1>3
<1>5. p[1] = op /\ q[1] = Head(q)
  BY <1>1, <1>2, <1>3
<1>6. \A i \in DOMAIN q : i # 1 => p[i] = q[i]
  BY <1>1, <1>3
<1>7. \A i \in DOMAIN q : p[i].call = q[i].call /\ p[i].e = q[i].e
  BY <1>5, <1>6
<1>8. \A i \in DOMAIN q : p[i].at \notin {"bind", "project"} => q[i].at \notin {"bind", "project"}
  BY <1>5, <1>6
<1>9. Single(p)
  BY <1>1, <1>3, <1>4, <1>7 DEF Single
<1>10. (\A e : Carries(p, e) => Carries(q, e)) /\ \A e : Owes(p, e) => Owes(q, e)
  BY <1>4, <1>7, <1>8 DEF Carries, Owes
<1>11. ASSUME op.call = "submit", op.at = "bind" PROVE \A e : ~Owes(p, e)
  BY <1>4, <1>5, <1>9, <1>11 DEF Owes, Single
<1>12. QED BY <1>3, <1>9, <1>10, <1>11 DEF p

\* What a handler starts with: nothing, one submission, a cancellation and then one,
\* or calls that submit nothing.
LEMMA NewLists ==
  ASSUME NEW e \in {None} \cup Executions, NEW before, NEW f,
         before = <<>> \/ (f \in Executions /\ before = <<Op("stop", f)>>)
  PROVE  /\ before \o SubmitOf(e) \in Seq(Ops)
         /\ Single(before \o SubmitOf(e))
         /\ \A x : Carries(before \o SubmitOf(e), x) => e # None /\ x = e
         /\ \A x : Owes(before \o SubmitOf(e), x) => e # None /\ x = e
PROOF
<1> DEFINE b == SubmitOf(e)
           p == before \o b
<1>1. \A x \in Executions : Op("stop", x) \in Ops /\ Op("submit", x) \in Ops
  BY DEF Ops, Op, Stages, ControlKinds, None
<1>2. /\ before \in Seq(Ops) /\ Len(before) \in {0, 1}
      /\ \A i \in 1..Len(before) : before[i].call = "stop"
  <2>1. CASE before = <<>>
    BY <2>1
  <2>2. CASE f \in Executions /\ before = <<Op("stop", f)>>
    <3>1. Len(before) = 1 /\ before[1] = Op("stop", f) /\ Op("stop", f) \in Ops
      BY <1>1, <2>2
    <3>2. Op("stop", f).call = "stop"
      BY DEF Op
    <3>3. QED BY <2>2, <3>1, <3>2
  <2>3. QED BY <2>1, <2>2
<1>3. /\ b \in Seq(Ops) /\ Len(b) \in {0, 1}
      /\ \A i \in 1..Len(b) : e # None /\ b[i].e = e
  <2>1. CASE e = None
    BY <2>1 DEF SubmitOf
  <2>2. CASE e # None
    <3>1. b = <<Op("submit", e)>> /\ Op("submit", e) \in Ops
      BY <1>1, <2>2 DEF SubmitOf
    <3>2. Len(b) = 1 /\ b[1] = Op("submit", e) /\ b \in Seq(Ops)
      BY <3>1
    <3>3. Op("submit", e).e = e
      BY DEF Op
    <3>4. QED BY <2>2, <3>2, <3>3
  <2>3. QED BY <2>1, <2>2
<1> HIDE DEF b
<1>4. /\ p \in Seq(Ops) /\ Len(p) = Len(before) + Len(b)
      /\ \A i \in 1..Len(p) : p[i] = IF i <= Len(before) THEN before[i] ELSE b[i - Len(before)]
  BY <1>2, <1>3, ConcatProperties
<1> HIDE DEF p
<1>5. \A i \in DOMAIN p : p[i].call = "submit" => e # None /\ p[i].e = e /\ i = Len(p)
  <2>1. SUFFICES ASSUME NEW i \in DOMAIN p, p[i].call = "submit"
                 PROVE  e # None /\ p[i].e = e /\ i = Len(p)
    OBVIOUS
  <2>2. i \in 1..Len(p) /\ ~(i <= Len(before))
    BY <1>2, <1>4, <2>1
  <2>3. p[i] = b[i - Len(before)] /\ i - Len(before) \in 1..Len(b)
    BY <1>2, <1>3, <1>4, <2>2
  <2>4. i = Len(p)
    BY <1>2, <1>3, <1>4, <2>2, <2>3
  <2>5. QED BY <1>3, <2>3, <2>4
<1>6. QED BY <1>4, <1>5 DEF Single, Carries, Owes, p, b

\* The threads owe nothing they did not owe before.
Calm ==
  /\ threads' \in [Threads -> Seq(Ops)] /\ SingleMinded(threads')
  /\ \A t \in Threads, e \in Executions :
       /\ Carries(threads'[t], e) => Carries(threads[t], e)
       /\ Owes(threads'[t], e) => Owes(threads[t], e)

\* A thread finishes a call.
LEMMA FinishesIsCalm ==
  ASSUME QueueInv, NEW t \in Threads, threads[t] # <<>>, Finishes(t)
  PROVE  Calm
PROOF
<1>1. /\ threads \in [Threads -> Seq(Ops)] /\ threads[t] \in Seq(Ops)
      /\ \A u \in Threads : Single(threads[u])
  BY DEF QueueInv, ConversationTypes, SingleMinded
<1>2. /\ Tail(threads[t]) \in Seq(Ops) /\ Single(Tail(threads[t]))
      /\ \A e : Carries(Tail(threads[t]), e) => Carries(threads[t], e)
      /\ \A e : Owes(Tail(threads[t]), e) => Owes(threads[t], e)
  BY <1>1, FinishedList
<1>3. threads' = [threads EXCEPT ![t] = Tail(threads[t])]
  BY DEF Finishes
<1>4. QED BY <1>1, <1>2, <1>3 DEF Calm, SingleMinded

\* A thread goes on with a call.
LEMMA GoesOnIsCalm ==
  ASSUME QueueInv, NEW t \in Threads, threads[t] # <<>>, NEW op \in Ops, GoesOn(t, op),
         op.call = Head(threads[t]).call, op.e = Head(threads[t]).e,
         op.at \notin {"bind", "project"} => Head(threads[t]).at \notin {"bind", "project"}
  PROVE  Calm
PROOF
<1> DEFINE q == <<op>> \o Tail(threads[t])
<1>1. /\ threads \in [Threads -> Seq(Ops)] /\ threads[t] \in Seq(Ops)
      /\ \A u \in Threads : Single(threads[u])
  BY DEF QueueInv, ConversationTypes, SingleMinded
<1>2. /\ q \in Seq(Ops) /\ Single(q)
      /\ \A e : Carries(q, e) => Carries(threads[t], e)
      /\ \A e : Owes(q, e) => Owes(threads[t], e)
  BY <1>1, GoneOnList
<1>3. threads' = [threads EXCEPT ![t] = q]
  BY DEF GoesOn
<1> HIDE DEF q
<1>4. QED BY <1>1, <1>2, <1>3 DEF Calm, SingleMinded

\* A thread starts a list of calls that submits nothing.
LEMMA StartsIsCalm ==
  ASSUME QueueInv, NEW t \in Threads, NEW q \in Seq(Ops), Starts(t, q),
         \A i \in DOMAIN q : q[i].call # "submit"
  PROVE  Calm
PROOF
<1>1. threads \in [Threads -> Seq(Ops)] /\ \A u \in Threads : Single(threads[u])
  BY DEF QueueInv, ConversationTypes, SingleMinded
<1>2. Single(q) /\ \A e : ~Carries(q, e) /\ ~Owes(q, e)
  BY DEF Single, Carries, Owes
<1>3. threads' = [threads EXCEPT ![t] = q]
  BY DEF Starts
<1>4. QED BY <1>1, <1>2, <1>3 DEF Calm, SingleMinded

\* Nothing happens to the threads.
LEMMA UnchangedIsCalm ==
  ASSUME QueueInv, UNCHANGED threads
  PROVE  Calm
BY DEF QueueInv, ConversationTypes, SingleMinded, Calm

\* Who owes what is finite, and less is owed by fewer threads.
LEMMA OwingIsFinite ==
  ASSUME NEW th, NEW e
  PROVE  IsFiniteSet(Owing(th, e)) /\ Cardinality(Owing(th, e)) \in Nat
PROOF
<1>1. IsFiniteSet(Threads)
  BY ConversationAssumption, FS_Interval DEF Threads
<1>2. Owing(th, e) \in SUBSET Threads
  BY DEF Owing
<1>3. QED BY <1>1, <1>2, FS_Subset, FS_CardinalityType

\* So are the runs of an execution.
LEMMA RunsForIsFinite ==
  ASSUME NEW g, g.runs \in Nat, NEW e
  PROVE  IsFiniteSet(RunsFor(g, e)) /\ Cardinality(RunsFor(g, e)) \in Nat
PROOF
<1>1. IsFiniteSet(1..g.runs)
  BY FS_Interval
<1>2. RunsFor(g, e) \in SUBSET (1..g.runs)
  BY DEF RunsFor
<1>3. QED BY <1>1, <1>2, FS_Subset, FS_CardinalityType

\* And the restarts among the calls.
LEMMA RestartsIsFinite ==
  ASSUME NEW c \in Seq(Calls)
  PROVE  IsFiniteSet(Restarts(c)) /\ Cardinality(Restarts(c)) \in Nat
PROOF
<1>1. IsFiniteSet(1..Len(c)) /\ DOMAIN c = 1..Len(c)
  BY FS_Interval
<1>2. Restarts(c) \in SUBSET (1..Len(c))
  BY <1>1 DEF Restarts
<1>3. QED BY <1>1, <1>2, FS_Subset, FS_CardinalityType

\* As long as nothing new is owed nor submitted, the account stays settled.
LEMMA CalmIsPaid ==
  ASSUME QueueInv, Calm, ConversationTypes',
         engine'.runs = engine.runs, engine'.execution = engine.execution,
         Restarts(calls) \subseteq Restarts(calls')
  PROVE  Paid(engine', threads', calls')
PROOF
<1>1. SUFFICES ASSUME NEW e \in Executions
               PROVE  Cardinality(RunsFor(engine', e)) + Cardinality(Owing(threads', e))
                        <= 1 + Cardinality(Restarts(calls'))
  BY DEF Paid
<1>2. RunsFor(engine', e) = RunsFor(engine, e)
  BY DEF RunsFor
<1>3. Owing(threads', e) \in SUBSET Owing(threads, e)
  BY DEF Calm, Owing
<1>4. Cardinality(Owing(threads', e)) <= Cardinality(Owing(threads, e))
  BY <1>3, OwingIsFinite, FS_Subset
<1>5. calls \in Seq(Calls) /\ calls' \in Seq(Calls)
  BY DEF QueueInv, ConversationTypes
<1>6. Cardinality(Restarts(calls)) <= Cardinality(Restarts(calls'))
  BY <1>5, RestartsIsFinite, FS_Subset
<1>7. engine.runs \in Nat
  BY DEF QueueInv, ConversationTypes, Engines
<1>8. Cardinality(RunsFor(engine, e)) \in Nat
  BY <1>7, RunsForIsFinite
<1>9. /\ Cardinality(Owing(threads, e)) \in Nat /\ Cardinality(Owing(threads', e)) \in Nat
      /\ Cardinality(Restarts(calls)) \in Nat /\ Cardinality(Restarts(calls')) \in Nat
  BY <1>5, OwingIsFinite, RestartsIsFinite
<1>10. Cardinality(RunsFor(engine, e)) + Cardinality(Owing(threads, e)) <= 1 + Cardinality(Restarts(calls))
  BY DEF QueueInv, Paid
<1>11. QED BY <1>2, <1>4, <1>6, <1>8, <1>9, <1>10

\* A step that neither promotes nor submits keeps the invariant if it keeps the order,
\* the active execution's state and the untouched executions.
LEMMA CalmStep ==
  ASSUME QueueInv, Calm, ConversationTypes',
         engine'.runs = engine.runs, engine'.execution = engine.execution,
         Restarts(calls) \subseteq Restarts(calls'),
         Orderly(prompts', order', state'), Carried(state', active', queueState'),
         \A f \in Executions : Behind(prompts', state', f) =>
           /\ Behind(prompts, state, f)
           /\ state'[f] \in {"absent", "queued", "cancelled"}
           /\ runOf'[f] = None
  PROVE  QueueInv'
PROOF
<1>1. Paid(engine', threads', calls')
  BY CalmIsPaid
<1>2. \A f : RunsFor(engine', f) = RunsFor(engine, f)
  BY DEF RunsFor
<1>3. Untouched(prompts', state', runOf', threads', engine')
  <2>1. SUFFICES ASSUME NEW f \in Executions, Behind(prompts', state', f)
                 PROVE  /\ state'[f] \in {"absent", "queued", "cancelled"}
                        /\ runOf'[f] = None /\ RunsFor(engine', f) = {}
                        /\ \A t \in Threads : ~Carries(threads'[t], f)
    BY DEF Untouched
  <2>2. Behind(prompts, state, f)
    BY <2>1
  <2>3. RunsFor(engine, f) = {} /\ \A t \in Threads : ~Carries(threads[t], f)
    BY <2>2 DEF QueueInv, Untouched
  <2>4. QED BY <1>2, <2>1, <2>3 DEF Calm
<1>4. QED BY <1>1, <1>3 DEF QueueInv, Calm

\* An execution nothing was owed for is submitted once.
LEMMA PromotionIsPaid ==
  ASSUME QueueInv, NEW t \in Threads, NEW q \in Seq(Ops), threads' = [threads EXCEPT ![t] = q],
         NEW next, \A x \in Executions : Owes(q, x) => x = next,
         next \in Executions => Behind(prompts, state, next), calls' \in Seq(Calls),
         engine'.runs = engine.runs, engine'.execution = engine.execution,
         Restarts(calls) \subseteq Restarts(calls')
  PROVE  Paid(engine', threads', calls')
PROOF
<1>0. ConversationTypes
  BY DEF QueueInv
<1>1. SUFFICES ASSUME NEW e \in Executions
               PROVE  Cardinality(RunsFor(engine', e)) + Cardinality(Owing(threads', e))
                        <= 1 + Cardinality(Restarts(calls'))
  BY DEF Paid
<1>2. RunsFor(engine', e) = RunsFor(engine, e)
  BY DEF RunsFor
<1>3. engine.runs \in Nat /\ calls \in Seq(Calls)
  BY <1>0 DEF ConversationTypes, Engines
<1>4. /\ Cardinality(RunsFor(engine, e)) \in Nat
      /\ Cardinality(Owing(threads, e)) \in Nat /\ Cardinality(Owing(threads', e)) \in Nat
      /\ Cardinality(Restarts(calls)) \in Nat /\ Cardinality(Restarts(calls')) \in Nat
  BY <1>3, RunsForIsFinite, OwingIsFinite, RestartsIsFinite
<1>5. Cardinality(Restarts(calls)) <= Cardinality(Restarts(calls'))
  BY <1>3, RestartsIsFinite, FS_Subset
<1>6. Cardinality(RunsFor(engine, e)) + Cardinality(Owing(threads, e)) <= 1 + Cardinality(Restarts(calls))
  BY DEF QueueInv, Paid
<1>7. CASE e = next
  <2>1. RunsFor(engine, e) = {} /\ \A u \in Threads : ~Carries(threads[u], e)
    BY <1>7 DEF QueueInv, Untouched
  <2>2. Owing(threads', e) \subseteq {t}
    <3>1. \A u \in Threads \ {t} : threads'[u] = threads[u]
      BY <1>0 DEF ConversationTypes
    <3>2. \A u \in Threads : ~Owes(threads[u], e)
      BY <2>1 DEF Owes, Carries
    <3>3. QED BY <3>1, <3>2 DEF Owing
  <2>3. IsFiniteSet({t}) /\ Cardinality({t}) = 1
    BY FS_Singleton
  <2>4. Cardinality(Owing(threads', e)) <= 1
    BY <2>2, <2>3, FS_Subset
  <2>5. Cardinality(RunsFor(engine, e)) = 0
    BY <2>1, FS_EmptySet
  <2>6. QED BY <1>2, <1>4, <1>5, <2>4, <2>5
<1>8. CASE e # next
  <2>1. Owing(threads', e) \in SUBSET Owing(threads, e)
    <3>1. \A u \in Threads : Owes(threads'[u], e) => Owes(threads[u], e)
      BY <1>0, <1>8 DEF ConversationTypes
    <3>2. QED BY <3>1 DEF Owing
  <2>2. Cardinality(Owing(threads', e)) <= Cardinality(Owing(threads, e))
    BY <2>1, OwingIsFinite, FS_Subset
  <2>3. QED BY <1>2, <1>4, <1>5, <1>6, <2>2
<1>9. QED BY <1>7, <1>8

\* The same when the conversation passes to the next queued execution: it was not
\* submitted before, and now one thread owes it.
LEMMA AdvanceKeeps ==
  ASSUME QueueInv, NEW t \in Threads, NEW s \in [Executions -> ExecutionStates],
         NEW before, NEW d, before = <<>> \/ (d \in Executions /\ before = <<Op("stop", d)>>),
         Advance(t, s, before, <<>>),
         \A e \in Executions : s[e] = "queued" => state[e] = "queued",
         \A e \in Executions : s[e] = "absent" <=> state[e] = "absent",
         \A e \in Executions : Behind(prompts, s, e) => s[e] \in {"absent", "queued", "cancelled"},
         UNCHANGED <<prompts, order, session, runOf, worker>>,
         questions' \subseteq Executions, engine' \in Engines, calls' \in Seq(Calls),
         engine'.runs = engine.runs, engine'.execution = engine.execution,
         Restarts(calls) \subseteq Restarts(calls')
  PROVE  QueueInv'
PROOF
<1> DEFINE next == NextQueued(s)
           q == before \o SubmitOf(next)
<1>1. ConversationTypes /\ Orderly(prompts, order, state)
  BY DEF QueueInv
<1>2. \/ next = None /\ \A e \in Executions : s[e] # "queued"
      \/ /\ next \in Executions /\ s[next] = "queued"
         /\ \A f \in Executions : s[f] = "queued" => next <= f
  BY <1>1, NextQueuedIsFirst
<1>3. /\ q \in Seq(Ops) /\ Single(q)
      /\ \A x : Carries(q, x) => next # None /\ x = next
      /\ \A x : Owes(q, x) => next # None /\ x = next
  <2>1. next \in {None} \cup Executions
    BY <1>2
  <2> HIDE DEF next
  <2>2. QED BY <2>1, NewLists
<1>4. threads' = [threads EXCEPT ![t] = q]
  <2>1. threads' = [threads EXCEPT ![t] = q \o <<>>]
    BY DEF Advance
  <2>2. q \o <<>> = q
    BY <1>3, ConcatEmptySeq
  <2>3. QED BY <2>1, <2>2
<1> HIDE DEF q
<1>5. /\ state' = Promoted(s, next) /\ active' = next
      /\ queueState' = IF next = None THEN "idle" ELSE "running"
  BY DEF Advance
<1> HIDE DEF next
<1>6. /\ state' \in [Executions -> ExecutionStates]
      /\ next = None => state' = s
      /\ next # None => state' = [s EXCEPT ![next] = "pending"]
  BY <1>5 DEF Promoted, ExecutionStates, Underway
<1>7. ConversationTypes'
  BY <1>1, <1>2, <1>3, <1>4, <1>5, <1>6 DEF ConversationTypes
<1>8. \A e \in Executions : state'[e] = "absent" <=> state[e] = "absent"
  BY <1>2, <1>6
<1>9. Orderly(prompts', order', state')
  BY <1>1, <1>8 DEF Orderly
<1>10. Carried(state', active', queueState')
  BY <1>2, <1>5, <1>6 DEF Carried, Underway, None, Executions
<1>11. \A f \in Executions : Behind(prompts, s, f) => Behind(prompts, state, f)
  BY DEF Behind
<1>14. Untouched(prompts', state', runOf', threads', engine')
  <2>1. SUFFICES ASSUME NEW f \in Executions, Behind(prompts, state', f)
                 PROVE  /\ state'[f] \in {"absent", "queued", "cancelled"}
                        /\ runOf[f] = None /\ RunsFor(engine', f) = {}
                        /\ \A u \in Threads : ~Carries(threads'[u], f)
    BY DEF Untouched
  <2>2. Behind(prompts, s, f) /\ f # next
    <3>1. CASE f > prompts
      <4>1. state[f] = "absent"
        BY <1>1, <3>1 DEF Orderly
      <4>2. f # None
        BY DEF Executions, None
      <4>3. f # next
        BY <4>1, <4>2, <1>2
      <4>4. QED BY <3>1, <4>3 DEF Behind
    <3>2. CASE \E e \in Executions : e <= f /\ state'[e] = "queued"
      <4>1. PICK e \in Executions : e <= f /\ state'[e] = "queued"
        BY <3>2
      <4>2. s[e] = "queued" /\ e # next
        <5>1. e # None
          BY DEF Executions, None
        <5>2. CASE next = None
          BY <4>1, <5>1, <5>2, <1>6
        <5>3. CASE next # None
          BY <4>1, <5>3, <1>2, <1>6
        <5>4. QED BY <5>2, <5>3
      <4>3. CASE next = None
        BY <4>1, <4>2, <4>3, <2>1 DEF Behind, Executions, None
      <4>4. CASE next # None
        <5>1. next <= e /\ next \in Nat /\ e \in Nat /\ f \in Nat
          BY <4>2, <4>4, <1>2 DEF Executions
        <5>2. QED BY <4>1, <4>2, <5>1 DEF Behind
      <4>5. QED BY <4>3, <4>4
    <3>3. QED BY <2>1, <3>1, <3>2 DEF Behind
  <2>3. /\ runOf[f] = None /\ RunsFor(engine, f) = {}
        /\ \A u \in Threads : ~Carries(threads[u], f)
    BY <1>11, <2>2 DEF QueueInv, Untouched
  <2>4. state'[f] \in {"absent", "queued", "cancelled"}
    BY <1>6, <2>2
  <2>5. RunsFor(engine', f) = {}
    BY <2>3 DEF RunsFor
  <2>6. ASSUME NEW u \in Threads PROVE ~Carries(threads'[u], f)
    BY <1>1, <1>3, <1>4, <2>2, <2>3 DEF ConversationTypes
  <2>7. QED BY <2>3, <2>4, <2>5, <2>6
<1>15. SingleMinded(threads')
  BY <1>1, <1>3, <1>4 DEF QueueInv, SingleMinded, ConversationTypes
<1>16. Paid(engine', threads', calls')
  <2>1. next \in Executions => Behind(prompts, state, next)
    BY <1>2 DEF Behind, Executions, None
  <2>2. \A x \in Executions : Owes(q, x) => x = next
    BY <1>3
  <2>3. QED BY <1>3, <1>4, <2>1, <2>2, PromotionIsPaid
<1>17. QED
  BY <1>7, <1>9, <1>10, <1>14, <1>15, <1>16 DEF QueueInv

-------------------------------------------------------------------------------
(* The actions, one by one.                                                   *)

\* The empty conversation.
LEMMA InitServed == Init => QueueInv
PROOF
<1> SUFFICES ASSUME Init PROVE QueueInv
  OBVIOUS
<1> USE DEF Init, NoEngine
<1>1. ConversationTypes
  BY ConversationAssumption
     DEF ConversationTypes, Engines, ExecutionStates, EnginePhases, None
<1>2. Orderly(prompts, order, state) /\ Carried(state, active, queueState) /\ SingleMinded(threads)
  BY DEF Orderly, Carried, SingleMinded, Single
<1>3. \A e : RunsFor(engine, e) = {} /\ Owing(threads, e) = {}
  BY DEF RunsFor, Owing, Owes
<1>4. Untouched(prompts, state, runOf, threads, engine)
  <2>1. \A t \in Threads : \A e : ~Carries(threads[t], e)
    BY DEF Carries
  <2>2. \A e \in Executions : state[e] = "absent" /\ runOf[e] = None
    OBVIOUS
  <2>3. QED BY <1>3, <2>1, <2>2 DEF Untouched
<1>5. Paid(engine, threads, calls)
  <2>1. Restarts(calls) = {}
    BY DEF Restarts
  <2>2. Cardinality({}) = 0
    BY FS_EmptySet
  <2>3. \A e : Cardinality(RunsFor(engine, e)) = 0 /\ Cardinality(Owing(threads, e)) = 0
    BY <1>3, <2>2
  <2>4. Cardinality(Restarts(calls)) = 0
    BY <2>1, <2>2
  <2> HIDE DEF Init, NoEngine
  <2>5. QED BY <2>3, <2>4 DEF Paid
<1>6. QED BY <1>1, <1>2, <1>4, <1>5 DEF QueueInv

\* A prompt is the last in the order; it starts at once when nothing is active.
LEMMA PromptKeeps ==
  ASSUME QueueInv, NEW t \in Threads, Prompt(t)
  PROVE  QueueInv'
PROOF
<1> DEFINE e == prompts + 1
<1>1. ConversationTypes
  BY DEF QueueInv
<1>2. e \in Executions /\ prompts \in Nat /\ e \in 0..MaxPrompts /\ e # None /\ e > prompts
  BY <1>1, ConversationAssumption DEF Prompt, ConversationTypes, Executions, None
<1> HIDE DEF e
<1>3. /\ prompts' = e /\ order' = Append(order, e)
      /\ UNCHANGED <<questions, session, runOf, worker, engine, calls>>
  BY DEF Prompt, e
<1>4. \/ /\ active = None /\ state' = [state EXCEPT ![e] = "pending"]
         /\ active' = e /\ queueState' = "running"
         /\ threads' = [threads EXCEPT ![t] = SubmitOf(e)]
      \/ /\ active # None /\ state' = [state EXCEPT ![e] = "queued"]
         /\ queueState' = "queued" /\ UNCHANGED <<active, threads>>
  BY DEF Prompt, e, Starts
<1>5. state[e] = "absent" /\ Behind(prompts, state, e)
  BY <1>2 DEF QueueInv, Orderly, Behind
<1>6. Orderly(prompts', order', state')
  <2>1. /\ order \in Seq(Executions) /\ Len(order) \in Nat /\ DOMAIN order = 1..Len(order)
        /\ order' \in Seq(Executions) /\ DOMAIN order' = 1..(Len(order) + 1)
        /\ order'[Len(order) + 1] = e /\ \A i \in 1..Len(order) : order'[i] = order[i]
    BY <1>1, <1>2, <1>3 DEF ConversationTypes
  <2>2. \A i \in 1..Len(order) : order[i] \in Nat /\ order[i] < e
    <3>1. \A i \in 1..Len(order) : order[i] \in Executions /\ state[order[i]] # "absent"
      BY <2>1 DEF QueueInv, Orderly
    <3>2. \A x \in Executions : state[x] # "absent" => x <= prompts
      BY <1>2 DEF QueueInv, Orderly, Executions
    <3>3. QED BY <3>1, <3>2, <1>2 DEF Executions, e
  <2>3. \A i, j \in DOMAIN order' : i < j => order'[i] < order'[j]
    BY <2>1, <2>2 DEF QueueInv, Orderly
  <2>4. state \in [Executions -> ExecutionStates]
    BY <1>1 DEF ConversationTypes
  <2>5. \A x \in Executions : state'[x] # "absent" <=> x = e \/ state[x] # "absent"
    BY <1>2, <1>4, <2>4
  <2>6. \A x \in Executions : state[x] # "absent" <=> \E i \in 1..Len(order) : order[i] = x
    BY <2>1 DEF QueueInv, Orderly
  <2>7. \A x \in Executions : (\E i \in DOMAIN order' : order'[i] = x)
                                <=> (x = e \/ \E i \in 1..Len(order) : order[i] = x)
    BY <2>1
  <2>8. \A x \in Executions : x > e => state'[x] = "absent"
    BY <1>2, <2>5 DEF QueueInv, Orderly, Executions, e
  <2>9. QED BY <1>3, <2>3, <2>5, <2>6, <2>7, <2>8 DEF Orderly
<1>7. \A f \in Executions : f > e => Behind(prompts, state, f) /\ state'[f] = "absent" /\ f # e
  BY <1>2, <1>3, <1>6 DEF Behind, Orderly, Executions, e
<1>8. CASE active = None
  <2>1. /\ SubmitOf(e) \in Seq(Ops) /\ Single(SubmitOf(e))
        /\ \A x : Carries(SubmitOf(e), x) => x = e
        /\ \A x : Owes(SubmitOf(e), x) => x = e
    <3> DEFINE before == <<>>
    <3>1. /\ before \o SubmitOf(e) \in Seq(Ops) /\ Single(before \o SubmitOf(e))
          /\ \A x : Carries(before \o SubmitOf(e), x) => x = e
          /\ \A x : Owes(before \o SubmitOf(e), x) => x = e
      <4>1. before = <<>> \/ (e \in Executions /\ before = <<Op("stop", e)>>)
        OBVIOUS
      <4> HIDE DEF before
      <4>2. QED BY <1>2, <4>1, NewLists
    <3>2. before \o SubmitOf(e) = SubmitOf(e)
      BY <1>2 DEF SubmitOf
    <3>3. QED BY <3>1, <3>2
  <2>2. threads' = [threads EXCEPT ![t] = SubmitOf(e)] /\ active' = e /\ queueState' = "running"
        /\ state' = [state EXCEPT ![e] = "pending"]
    BY <1>2, <1>4, <1>8
  <2>3. \A x \in Executions : state[x] # "queued"
    BY <1>8 DEF QueueInv, Carried
  <2>4. ConversationTypes'
    BY <1>1, <1>2, <1>3, <2>1, <2>2 DEF ConversationTypes, ExecutionStates, Underway
  <2>5. Carried(state', active', queueState')
    BY <1>1, <1>2, <2>2 DEF Carried, Underway, ConversationTypes
  <2>6. Paid(engine', threads', calls')
    BY <1>3, <1>5, <2>1, <2>2, <2>4, PromotionIsPaid DEF ConversationTypes
  <2>7. SingleMinded(threads')
    BY <1>1, <2>1, <2>2 DEF QueueInv, SingleMinded, ConversationTypes
  <2>8. Untouched(prompts', state', runOf', threads', engine')
    <3>1. \A f \in Executions : Behind(prompts', state', f) => f > e
      BY <1>1, <1>2, <1>3, <2>2, <2>3 DEF Behind, ConversationTypes
    <3>2. SUFFICES ASSUME NEW f \in Executions, f > e
                   PROVE  /\ state'[f] \in {"absent", "queued", "cancelled"}
                          /\ runOf'[f] = None /\ RunsFor(engine', f) = {}
                          /\ \A u \in Threads : ~Carries(threads'[u], f)
      BY <3>1 DEF Untouched
    <3>3. runOf[f] = None /\ RunsFor(engine, f) = {} /\ \A u \in Threads : ~Carries(threads[u], f)
      BY <1>7, <3>2 DEF QueueInv, Untouched
    <3>4. \A u \in Threads : ~Carries(threads'[u], f)
      BY <1>1, <1>7, <2>1, <2>2, <3>2, <3>3 DEF ConversationTypes
    <3>5. QED BY <1>3, <1>7, <3>2, <3>3, <3>4
  <2>9. QED BY <1>6, <2>4, <2>5, <2>6, <2>7, <2>8 DEF QueueInv
<1>9. CASE active # None
  <2>1. /\ state' = [state EXCEPT ![e] = "queued"] /\ queueState' = "queued"
        /\ UNCHANGED <<active, threads>>
    BY <1>4, <1>9
  <2>2. ConversationTypes'
    BY <1>1, <1>2, <1>3, <2>1 DEF ConversationTypes, ExecutionStates
  <2>3. Carried(state', active', queueState')
    BY <1>1, <1>5, <1>9, <2>1 DEF QueueInv, Carried, ConversationTypes, Underway
  <2>4. \A f \in Executions : Behind(prompts', state', f) =>
           /\ Behind(prompts, state, f)
           /\ state'[f] \in {"absent", "queued", "cancelled"}
           /\ runOf'[f] = None
    <3>1. SUFFICES ASSUME NEW f \in Executions, Behind(prompts', state', f)
                   PROVE  Behind(prompts, state, f) /\ state'[f] \in {"absent", "queued", "cancelled"}
      BY <1>3 DEF QueueInv, Untouched
    <3>2. Behind(prompts, state, f)
      BY <1>1, <1>2, <1>3, <2>1, <3>1 DEF Behind, ConversationTypes, Executions, e
    <3>3. state[f] \in {"absent", "queued", "cancelled"}
      BY <3>2 DEF QueueInv, Untouched
    <3>4. QED BY <1>1, <2>1, <3>2, <3>3 DEF ConversationTypes
  <2>5. Calm
    BY <2>1, UnchangedIsCalm
  <2>6. QED BY <1>3, <1>6, <2>2, <2>3, <2>4, <2>5, CalmStep
<1>10. QED BY <1>8, <1>9

\* Another call is one more in the list of them.
LEMMA CallTypes ==
  ASSUME QueueInv, NEW t \in Threads, NEW name, Call(t, name)
  PROVE  /\ calls' \in Seq(Calls) /\ Restarts(calls) \subseteq Restarts(calls')
         /\ name = "restart" => \E n \in Nat : n \notin Restarts(calls) /\ Restarts(calls') = Restarts(calls) \cup {n}
         /\ threads[t] = <<>>
PROOF
<1>1. name \in Calls /\ calls' = Append(calls, name) /\ threads[t] = <<>>
  BY DEF Call, Free
<1>2. /\ calls \in Seq(Calls) /\ Len(calls) \in Nat /\ DOMAIN calls = 1..Len(calls)
      /\ calls' \in Seq(Calls) /\ DOMAIN calls' = 1..(Len(calls) + 1)
      /\ calls'[Len(calls) + 1] = name /\ \A i \in 1..Len(calls) : calls'[i] = calls[i]
  BY <1>1 DEF QueueInv, ConversationTypes
<1>3. Restarts(calls) \subseteq Restarts(calls')
  BY <1>2 DEF Restarts
<1>4. ASSUME name = "restart"
      PROVE  /\ Len(calls) + 1 \notin Restarts(calls)
             /\ Restarts(calls') = Restarts(calls) \cup {Len(calls) + 1}
  BY <1>2, <1>4 DEF Restarts
<1>5. Len(calls) + 1 \in Nat
  BY <1>2
<1>6. QED BY <1>1, <1>2, <1>3, <1>4, <1>5

\* The session is stopped: its active execution is cancelled, the next one promoted.
LEMMA StopSessionKeeps ==
  ASSUME QueueInv, NEW t \in Threads, StopSession(t)
  PROVE  QueueInv'
PROOF
<1>1. ConversationTypes
  BY DEF QueueInv
<1>2. /\ calls' \in Seq(Calls) /\ Restarts(calls) \subseteq Restarts(calls')
  BY CallTypes DEF StopSession
<1>3. /\ UNCHANGED <<prompts, order, session, runOf, worker>>
      /\ questions' \subseteq Executions /\ engine' \in Engines
      /\ engine'.runs = engine.runs /\ engine'.execution = engine.execution
  BY <1>1 DEF StopSession, ConversationTypes
<1>4. \A e \in Executions : Behind(prompts, state, e) => state[e] \in {"absent", "queued", "cancelled"}
  BY DEF QueueInv, Untouched
<1>5. state \in [Executions -> ExecutionStates]
  BY <1>1 DEF ConversationTypes
<1>6. CASE active # None /\ state[active] # "absent"
  <2> DEFINE s == [state EXCEPT ![active] = "cancelled"]
             before == CancelOf(active)
  <2>1. Advance(t, s, before, <<>>)
    BY <1>6 DEF StopSession
  <2>2. active \in Executions
    BY <1>1, <1>6 DEF ConversationTypes
  <2>3. before = <<Op("stop", active)>>
    BY DEF CancelOf
  <2>4. /\ s \in [Executions -> ExecutionStates]
        /\ \A e \in Executions : s[e] = "queued" => state[e] = "queued"
        /\ \A e \in Executions : s[e] = "absent" <=> state[e] = "absent"
        /\ \A e \in Executions : s[e] \in {state[e], "cancelled"}
    BY <1>5, <1>6, <2>2 DEF ExecutionStates, TerminalStates
  <2> HIDE DEF s, before
  <2>5. \A e \in Executions : Behind(prompts, s, e) => Behind(prompts, state, e)
    BY <2>4 DEF Behind
  <2>6. \A e \in Executions : Behind(prompts, s, e) => s[e] \in {"absent", "queued", "cancelled"}
    BY <1>4, <2>4, <2>5
  <2>7. QED BY <1>2, <1>3, <2>1, <2>2, <2>3, <2>4, <2>6, AdvanceKeeps
<1>7. CASE ~(active # None /\ state[active] # "absent")
  <2> DEFINE before == <<>>
  <2>1. Advance(t, state, before, <<>>)
    BY <1>7 DEF StopSession
  <2>2. before = <<>> \/ (active \in Executions /\ before = <<Op("stop", active)>>)
    OBVIOUS
  <2> HIDE DEF before
  <2>3. QED BY <1>2, <1>3, <1>4, <1>5, <2>1, <2>2, AdvanceKeeps
<1>8. QED BY <1>6, <1>7

\* A control: only stopping the active execution promotes another.
LEMMA ControlRunKeeps ==
  ASSUME QueueInv, NEW t \in Threads, NEW e \in Executions, NEW action \in ControlKinds,
         ControlRun(t, e, action)
  PROVE  QueueInv'
PROOF
<1>1. ConversationTypes /\ state \in [Executions -> ExecutionStates] /\ threads \in [Threads -> Seq(Ops)]
  BY DEF QueueInv, ConversationTypes
<1>2. /\ calls' \in Seq(Calls) /\ Restarts(calls) \subseteq Restarts(calls')
  BY CallTypes DEF ControlRun
<1>3. /\ UNCHANGED <<prompts, order, session, runOf, worker, engine>>
      /\ questions' \subseteq Executions /\ engine' \in Engines
      /\ engine'.runs = engine.runs /\ engine'.execution = engine.execution
      /\ state[e] # "absent" /\ AcceptsControl(CoreState(state[e]), action)
  BY <1>1 DEF ControlRun, ConversationTypes
<1>4. \A f \in Executions : Behind(prompts, state, f) =>
        state[f] \in {"absent", "queued", "cancelled"} /\ runOf[f] = None
  BY DEF QueueInv, Untouched
<1>5. ASSUME Calm, state' \in [Executions -> ExecutionStates], active' \in {None} \cup Executions,
             queueState' \in {"idle", "queued", "running"},
             \A f \in Executions : f # e => state'[f] = state[f],
             state'[e] # "queued", state'[e] # "absent", 
             state[e] = "queued" => state'[e] = "cancelled",
             Carried(state', active', queueState')
      PROVE  QueueInv'
  <2>0. ~Behind(prompts, state, e) \/ state[e] = "queued" \/ state[e] = "cancelled"
    BY <1>3, <1>4
  <2>1. state[e] # "cancelled"
    BY <1>3 DEF AcceptsControl, CoreState, CanTransition, AllowedTransitions, RunStates, TerminalStates
  <2>2. ConversationTypes'
    BY <1>1, <1>2, <1>3, <1>5 DEF ConversationTypes, Calm
  <2>3. \A f \in Executions : state'[f] = "absent" <=> state[f] = "absent"
    BY <1>3, <1>5
  <2>4. Orderly(prompts', order', state')
    BY <1>3, <2>3 DEF QueueInv, Orderly
  <2>5. \A f \in Executions : state'[f] = "queued" => state[f] = "queued"
    BY <1>5
  <2>6. \A f \in Executions : Behind(prompts', state', f) => Behind(prompts, state, f)
    BY <1>3, <2>5 DEF Behind
  <2>7. \A f \in Executions : Behind(prompts', state', f) =>
           /\ Behind(prompts, state, f)
           /\ state'[f] \in {"absent", "queued", "cancelled"}
           /\ runOf'[f] = None
    BY <1>3, <1>4, <1>5, <2>0, <2>1, <2>6
  <2>8. QED BY <1>2, <1>3, <1>5, <2>2, <2>4, <2>7, CalmStep
<1>6. active = None => \A f \in Executions : state[f] # "queued"
  BY DEF QueueInv, Carried
<1>7. ASSUME Grants(t, e, action) PROVE QueueInv'
  <2>1. /\ active' = e /\ queueState' = "running"
        /\ state' = [state EXCEPT ![e] = IF @ \in {"executing", "confirming"} THEN "executing" ELSE "pending"]
    BY <1>7 DEF Grants
  <2>2. state[e] # "queued"
    BY <1>6, <1>7 DEF Grants, QueueInv, Carried, Underway
  <2>3. Starts(t, <<Op(action, e)>>) \/ Starts(t, <<>>)
    BY <1>7, <2>2 DEF Grants
  <2>4. /\ <<Op(action, e)>> \in Seq(Ops)
        /\ \A i \in DOMAIN <<Op(action, e)>> : <<Op(action, e)>>[i].call # "submit"
    BY DEF Ops, Op, Stages, ControlKinds, None
  <2>5. Calm
    <3>1. CASE Starts(t, <<Op(action, e)>>)
      BY <2>4, <3>1, StartsIsCalm
    <3>2. CASE Starts(t, <<>>)
      <4> DEFINE q == <<>>
      <4>1. q \in Seq(Ops) /\ (\A i \in DOMAIN q : q[i].call # "submit") /\ Starts(t, q)
        BY <3>2
      <4> HIDE DEF q
      <4>2. QED BY <4>1, StartsIsCalm
    <3>3. QED BY <2>3, <3>1, <3>2
  <2>6. state' \in [Executions -> ExecutionStates] /\ state'[e] \in {"executing", "pending"}
    BY <1>1, <2>1 DEF ExecutionStates, Underway
  <2>7. Carried(state', active', queueState')
    BY <2>1, <2>6 DEF Carried, Underway, None, Executions
  <2>8. \A f \in Executions : f # e => state'[f] = state[f]
    BY <1>1, <2>1
  <2>9. QED BY <1>5, <2>1, <2>2, <2>5, <2>6, <2>7, <2>8
<1>8. ASSUME Denies(t, e, action) \/ Answers(t, e, action) PROVE QueueInv'
  <2>1. /\ active' = e /\ queueState' = "running"
        /\ state' = [state EXCEPT ![e] = "executing"]
        /\ Starts(t, <<Op(action, e)>>)
    BY <1>8 DEF Denies, Answers
  <2>2. state[e] # "queued"
    BY <1>3, <1>8 DEF Denies, Answers, AcceptsControl, CoreState
  <2>3. /\ <<Op(action, e)>> \in Seq(Ops)
        /\ \A i \in DOMAIN <<Op(action, e)>> : <<Op(action, e)>>[i].call # "submit"
    BY DEF Ops, Op, Stages, ControlKinds, None
  <2>4. Calm
    BY <2>1, <2>3, StartsIsCalm
  <2>5. state' \in [Executions -> ExecutionStates] /\ state'[e] = "executing"
    BY <1>1, <2>1 DEF ExecutionStates, Underway
  <2>6. Carried(state', active', queueState')
    BY <2>1, <2>5 DEF Carried, Underway, None, Executions
  <2>7. \A f \in Executions : f # e => state'[f] = state[f]
    BY <1>1, <2>1
  <2>8. QED BY <1>5, <2>1, <2>2, <2>4, <2>5, <2>6, <2>7
<1>9. ASSUME Cancels(t, e, action), active # e PROVE QueueInv'
  <2>1. /\ state' = [state EXCEPT ![e] = "cancelled"] /\ active' = active
        /\ queueState' = DerivedQueueState(state, active)
        /\ Starts(t, <<Op("stop", e)>>)
    BY <1>9 DEF Cancels, CancelOf
  <2>2. /\ <<Op("stop", e)>> \in Seq(Ops)
        /\ \A i \in DOMAIN <<Op("stop", e)>> : <<Op("stop", e)>>[i].call # "submit"
    BY DEF Ops, Op, Stages, ControlKinds, None
  <2>3. Calm
    BY <2>1, <2>2, StartsIsCalm
  <2>4. state' \in [Executions -> ExecutionStates] /\ state'[e] = "cancelled"
    BY <1>1, <2>1 DEF ExecutionStates, TerminalStates
  <2>5. \A f \in Executions : f # e => state'[f] = state[f]
    BY <1>1, <2>1
  <2>6. active = None => QueuedIn(state) = {}
    BY <1>1, <1>6 DEF QueuedIn, ConversationTypes
  <2>7. Carried(state', active', queueState')
    BY <1>1, <1>6, <1>9, <2>1, <2>4, <2>5, <2>6 DEF QueueInv, Carried, DerivedQueueState, ConversationTypes
  <2>8. queueState' \in {"idle", "queued", "running"} /\ active' \in {None} \cup Executions
    BY <1>1, <2>1 DEF DerivedQueueState, ConversationTypes
  <2>9. QED BY <1>5, <2>3, <2>4, <2>5, <2>7, <2>8
<1>10. ASSUME Cancels(t, e, action), active = e PROVE QueueInv'
  <2> DEFINE s == [state EXCEPT ![e] = "cancelled"]
             before == CancelOf(e)
  <2>1. Advance(t, s, before, <<>>)
    BY <1>10 DEF Cancels
  <2>2. before = <<Op("stop", e)>>
    BY DEF CancelOf
  <2>3. /\ s \in [Executions -> ExecutionStates]
        /\ \A f \in Executions : s[f] = "queued" => state[f] = "queued"
        /\ \A f \in Executions : s[f] = "absent" <=> state[f] = "absent"
        /\ \A f \in Executions : s[f] \in {state[f], "cancelled"}
    BY <1>1, <1>3 DEF ExecutionStates, TerminalStates
  <2> HIDE DEF s, before
  <2>4. \A f \in Executions : Behind(prompts, s, f) => Behind(prompts, state, f)
    BY <2>3 DEF Behind
  <2>5. \A f \in Executions : Behind(prompts, s, f) => s[f] \in {"absent", "queued", "cancelled"}
    BY <1>4, <2>3, <2>4
  <2>6. QED BY <1>2, <1>3, <2>1, <2>2, <2>3, <2>5, AdvanceKeeps
<1>11. QED BY <1>7, <1>8, <1>9, <1>10 DEF ControlRun

\* Back to an earlier prompt: if one is still queued, the active execution was asked
\* for before it and stays.
LEMMA RollbackKeeps ==
  ASSUME QueueInv, NEW t \in Threads, NEW e \in Executions, Rollback(t, e)
  PROVE  QueueInv'
PROOF
<1>1. /\ ConversationTypes /\ state \in [Executions -> ExecutionStates]
      /\ order \in Seq(Executions) /\ Len(order) \in Nat /\ DOMAIN order = 1..Len(order)
      /\ \A i \in 1..Len(order) : order[i] \in Executions
  BY DEF QueueInv, ConversationTypes
<1>2. PICK n \in DOMAIN order : order[n] = e /\ order' = SubSeq(order, 1, n)
  BY DEF Rollback
<1>3. /\ order' \in Seq(Executions) /\ DOMAIN order' = 1..n /\ n \in 1..Len(order)
      /\ \A i \in 1..n : order'[i] = order[i]
  BY <1>1, <1>2
<1>4. /\ state' = [x \in Executions |-> IF x <= e THEN state[x] ELSE "absent"]
      /\ UNCHANGED <<prompts, questions, session, runOf, worker, threads, engine>>
  BY DEF Rollback
<1> DEFINE underway == {i \in DOMAIN order' : state'[order'[i]] \in Underway}
<1>5. /\ active' = IF underway = {} THEN None
                   ELSE order'[CHOOSE i \in underway : \A j \in underway : i <= j]
      /\ queueState' = IF active' # None THEN "running"
                       ELSE IF \E i \in DOMAIN order' : state'[order'[i]] = "queued"
                            THEN "queued" ELSE "idle"
  BY DEF Rollback
<1>6. /\ calls' \in Seq(Calls) /\ Restarts(calls) \subseteq Restarts(calls')
  BY CallTypes DEF Rollback
<1>7. state' \in [Executions -> ExecutionStates]
  BY <1>1, <1>4 DEF ExecutionStates
<1>8. Orderly(prompts, order, state) /\ Carried(state, active, queueState)
      /\ Untouched(prompts, state, runOf, threads, engine)
  BY DEF QueueInv
<1>9. \A i \in 1..Len(order) : order[i] <= e <=> i <= n
  <2>1. SUFFICES ASSUME NEW i \in 1..Len(order) PROVE order[i] <= e <=> i <= n
    OBVIOUS
  <2>2. order[i] \in Nat /\ e \in Nat
    BY <1>1 DEF Executions
  <2>3. i < n => order[i] < order[n]
    BY <1>1, <1>3, <1>8 DEF Orderly
  <2>4. n < i => order[n] < order[i]
    BY <1>1, <1>3, <1>8 DEF Orderly
  <2>5. QED BY <1>2, <1>3, <2>2, <2>3, <2>4
<1>10. \A x \in Executions : state'[x] # "absent" <=> \E i \in DOMAIN order' : order'[i] = x
  <2>1. SUFFICES ASSUME NEW x \in Executions
                 PROVE  state'[x] # "absent" <=> \E i \in DOMAIN order' : order'[i] = x
    OBVIOUS
  <2>2. state'[x] # "absent" <=> x <= e /\ state[x] # "absent"
    BY <1>4
  <2>3. state[x] # "absent" <=> \E i \in 1..Len(order) : order[i] = x
    BY <1>1, <1>8 DEF Orderly
  <2>4. QED BY <1>3, <1>9, <2>2, <2>3
<1>11. Orderly(prompts', order', state')
  <2>1. \A i, j \in DOMAIN order' : i < j => order'[i] < order'[j]
    BY <1>1, <1>3, <1>8 DEF Orderly
  <2>2. \A x \in Executions : x > prompts' => state'[x] = "absent"
    BY <1>4, <1>8 DEF Orderly
  <2>3. QED BY <1>10, <2>1, <2>2 DEF Orderly
<1>12. active' # None => active' \in Executions /\ state'[active'] \in Underway
  <2>1. SUFFICES ASSUME underway # {} PROVE active' \in Executions /\ state'[active'] \in Underway
    BY <1>5
  <2>2. underway \subseteq Nat
    BY <1>3
  <2> DEFINE i == CHOOSE i \in underway : \A j \in underway : i <= j
  <2>3. i \in underway
    <3> HIDE DEF underway
    <3> QED BY <2>1, <2>2, LeastExists
  <2>4. active' = order'[i]
    BY <1>5, <2>1
  <2> HIDE DEF i
  <2>5. QED BY <1>1, <1>3, <2>3, <2>4
<1>13. (\E x \in Executions : state'[x] = "queued") => active' # None
  <2>1. SUFFICES ASSUME NEW x \in Executions, state'[x] = "queued" PROVE active' # None
    OBVIOUS
  <2>2. x <= e /\ state[x] = "queued"
    BY <1>4, <2>1
  <2>3. active \in Executions /\ state[active] \in Underway
    BY <1>1, <1>8, <2>2 DEF Carried, ConversationTypes
  <2>4. ~Behind(prompts, state, active)
    BY <1>8, <2>3 DEF Untouched, Underway
  <2>5. active < x
    BY <2>2, <2>3, <2>4 DEF Behind, Executions
  <2>6. active <= e
    BY <2>2, <2>3, <2>5 DEF Executions
  <2>7. state'[active] \in Underway
    BY <1>4, <2>3, <2>6
  <2>8. PICK at \in DOMAIN order' : order'[at] = active
    BY <1>10, <2>3, <2>7 DEF Underway
  <2>9. at \in underway
    BY <2>7, <2>8
  <2> HIDE DEF underway
  <2> DEFINE k == CHOOSE i \in underway : \A j \in underway : i <= j
  <2>10. underway \subseteq Nat
    BY <1>3 DEF underway
  <2>11. k \in underway
    BY <2>9, <2>10, LeastExists
  <2>12. active' = order'[k]
    BY <1>5, <2>9
  <2> HIDE DEF k
  <2>13. order'[k] \in Executions
    BY <1>1, <1>3, <2>11 DEF underway
  <2>14. QED BY <2>12, <2>13 DEF Executions, None
<1> HIDE DEF underway
<1>14. Carried(state', active', queueState')
  <2>1. active' = None => queueState' = "idle"
    BY <1>1, <1>3, <1>5, <1>13
  <2>2. QED BY <1>5, <1>12, <1>13, <2>1 DEF Carried
<1>15. queueState' \in {"idle", "queued", "running"} /\ active' \in {None} \cup Executions
  BY <1>5, <1>12
<1>16. ConversationTypes'
  BY <1>1, <1>3, <1>4, <1>6, <1>7, <1>15 DEF ConversationTypes
<1>17. \A f \in Executions : Behind(prompts', state', f) =>
           /\ Behind(prompts, state, f)
           /\ state'[f] \in {"absent", "queued", "cancelled"}
           /\ runOf'[f] = None
  <2>1. \A f \in Executions : Behind(prompts', state', f) => Behind(prompts, state, f)
    BY <1>4 DEF Behind
  <2>2. \A f \in Executions : state'[f] \in {state[f], "absent"}
    BY <1>4
  <2>3. QED BY <1>4, <1>8, <2>1, <2>2 DEF Untouched
<1>18. Calm
  BY <1>4, UnchangedIsCalm
<1>19. QED BY <1>4, <1>6, <1>11, <1>14, <1>16, <1>17, <1>18, CalmStep

\* The list of calls a deletion starts cancels and forgets; it submits nothing.
LEMMA DeleteStarts ==
  ASSUME NEW t \in Threads, Delete(t)
  PROVE  \E q \in Seq(Ops) : Starts(t, q) /\ \A i \in DOMAIN q : q[i].call # "submit"
PROOF
<1> DEFINE present == {e \in Executions : state[e] # "absent"}
           list(p) == [i \in 1..(2 * Len(p)) |-> Op(IF i % 2 = 1 THEN "stop" ELSE "forget",
                                                    p[(i + 1) \div 2])]
<1>1. PICK p \in [1..Cardinality(present) -> present] : Starts(t, list(p))
  BY DEF Delete
<1>2. Cardinality(present) \in Nat
  <2>1. IsFiniteSet(Executions)
    BY ConversationAssumption, FS_Interval DEF Executions
  <2>2. present \in SUBSET Executions
    OBVIOUS
  <2>3. QED BY <2>1, <2>2, FS_Subset, FS_CardinalityType
<1>3. \A e \in present : e \in Executions
  OBVIOUS
<1> HIDE DEF present
<1>4. p \in Seq(present) /\ Len(p) = Cardinality(present)
  BY <1>1, <1>2
<1> DEFINE q == list(p)
<1>5. q \in Seq(Ops) /\ \A i \in DOMAIN q : q[i].call # "submit"
  <2>1. Len(p) \in Nat
    BY <1>2, <1>4
  <2>2. ASSUME NEW i \in 1..(2 * Len(p)) PROVE (i + 1) \div 2 \in 1..Len(p)
    BY <2>1
  <2>3. ASSUME NEW i \in 1..(2 * Len(p)) PROVE p[(i + 1) \div 2] \in Executions
    BY <1>1, <1>3, <1>4, <2>2
  <2>4. \A x \in Executions, c \in {"stop", "forget"} : Op(c, x) \in Ops /\ Op(c, x).call = c
    BY DEF Op, Ops, Stages, ControlKinds, None
  <2>5. ASSUME NEW i \in 1..(2 * Len(p))
        PROVE  q[i] \in Ops /\ q[i].call # "submit"
    BY <2>3, <2>4
  <2>6. 2 * Len(p) \in Nat /\ DOMAIN q = 1..(2 * Len(p)) /\ q = [i \in 1..(2 * Len(p)) |-> q[i]]
    BY <2>1
  <2> HIDE DEF q
  <2>7. q \in [1..(2 * Len(p)) -> Ops]
    BY <2>5, <2>6
  <2>8. QED BY <2>5, <2>6, <2>7
<1>6. Starts(t, q)
  BY <1>1
<1> HIDE DEF q, list
<1>7. QED BY <1>5, <1>6

\* A conversation is deleted: all is forgotten, nothing is submitted.
LEMMA DeleteKeeps ==
  ASSUME QueueInv, NEW t \in Threads, Delete(t)
  PROVE  QueueInv'
PROOF
<1> DEFINE present == {e \in Executions : state[e] # "absent"}
<1>1. ConversationTypes /\ Untouched(prompts, state, runOf, threads, engine)
  BY DEF QueueInv
<1>2. PICK q \in Seq(Ops) : Starts(t, q) /\ \A i \in DOMAIN q : q[i].call # "submit"
  BY DeleteStarts
<1>3. /\ calls' \in Seq(Calls) /\ Restarts(calls) \subseteq Restarts(calls')
  BY CallTypes DEF Delete
<1>4. /\ order' = <<>> /\ state' = [e \in Executions |-> "absent"]
      /\ active' = None /\ queueState' = "idle" /\ session' = None
      /\ runOf' = [e \in Executions |-> IF e \in present THEN None ELSE runOf[e]]
      /\ UNCHANGED <<prompts, questions, worker, engine>>
  BY DEF Delete
<1>10. Calm
  BY <1>2, StartsIsCalm
<1>11. ConversationTypes'
  BY <1>1, <1>3, <1>4, <1>10 DEF ConversationTypes, Calm, ExecutionStates, None
<1>12. Orderly(prompts', order', state') /\ Carried(state', active', queueState')
  BY <1>4 DEF Orderly, Carried
<1>13. \A f \in Executions : Behind(prompts', state', f) =>
           /\ Behind(prompts, state, f)
           /\ state'[f] \in {"absent", "queued", "cancelled"}
           /\ runOf'[f] = None
  <2>1. \A f \in Executions : Behind(prompts', state', f) => Behind(prompts, state, f)
    BY <1>4 DEF Behind
  <2>2. \A f \in Executions : Behind(prompts, state, f) => runOf'[f] = None
    BY <1>1, <1>4 DEF Untouched
  <2>3. QED BY <1>4, <2>1, <2>2
<1>14. QED BY <1>3, <1>4, <1>10, <1>11, <1>12, <1>13, CalmStep

\* The active execution is cancelled and submitted once more, which the restart pays.
LEMMA RestartKeeps ==
  ASSUME QueueInv, NEW t \in Threads, Restart(t)
  PROVE  QueueInv'
PROOF
<1> DEFINE a == active
           q == CancelOf(active) \o <<Op("forget", active)>> \o SubmitOf(active)
<1>1. /\ ConversationTypes /\ Untouched(prompts, state, runOf, threads, engine)
      /\ Orderly(prompts, order, state) /\ Carried(state, active, queueState)
      /\ SingleMinded(threads) /\ threads \in [Threads -> Seq(Ops)]
      /\ state \in [Executions -> ExecutionStates]
  BY DEF QueueInv, ConversationTypes
<1>2. /\ calls' \in Seq(Calls) /\ threads[t] = <<>>
      /\ \E n \in Nat : n \notin Restarts(calls) /\ Restarts(calls') = Restarts(calls) \cup {n}
  BY CallTypes DEF Restart
<1>3. /\ active # None /\ active \in Executions /\ state' = [state EXCEPT ![active] = "pending"]
      /\ threads' = [threads EXCEPT ![t] = q]
      /\ UNCHANGED <<prompts, order, active, queueState, questions, session, runOf, worker, engine>>
  BY <1>1 DEF Restart, Starts, ConversationTypes
<1>4. state[active] \in Underway /\ ~Behind(prompts, state, active)
  BY <1>1, <1>3 DEF Carried, Untouched, Underway
<1>5. q \in Seq(Ops) /\ Single(q) /\ \A x : Carries(q, x) => x = active
  <2>1. /\ Op("stop", active) \in Ops /\ Op("forget", active) \in Ops /\ Op("submit", active) \in Ops
        /\ Op("stop", active).call = "stop" /\ Op("forget", active).call = "forget"
        /\ Op("submit", active).e = active
    BY <1>3 DEF Op, Ops, Stages, ControlKinds, None
  <2> DEFINE b == <<Op("stop", active)>>  c == <<Op("forget", active)>>  d == <<Op("submit", active)>>
  <2>2. q = (b \o c) \o d
    BY <1>3 DEF CancelOf, SubmitOf
  <2>3. /\ b \in Seq(Ops) /\ c \in Seq(Ops) /\ d \in Seq(Ops)
        /\ Len(b) = 1 /\ Len(c) = 1 /\ Len(d) = 1
        /\ b[1] = Op("stop", active) /\ c[1] = Op("forget", active) /\ d[1] = Op("submit", active)
    BY <2>1
  <2> HIDE DEF b, c, d, q
  <2>4. /\ b \o c \in Seq(Ops) /\ Len(b \o c) = Len(b) + Len(c)
        /\ \A i \in 1..(Len(b) + Len(c)) : (b \o c)[i] = IF i <= Len(b) THEN b[i] ELSE c[i - Len(b)]
    BY <2>3, ConcatProperties
  <2>5. Len(b \o c) = 2 /\ (b \o c)[1] = Op("stop", active) /\ (b \o c)[2] = Op("forget", active)
    <3>1. 1 \in 1..(Len(b) + Len(c)) /\ 2 \in 1..(Len(b) + Len(c)) /\ 2 - Len(b) = 1 /\ ~(2 <= Len(b))
      BY <2>3
    <3>2. (b \o c)[1] = b[1] /\ (b \o c)[2] = c[1]
      BY <2>3, <2>4, <3>1
    <3>3. QED BY <2>3, <2>4, <3>2
  <2> DEFINE bc == b \o c
  <2> HIDE DEF bc
  <2>6. /\ q \in Seq(Ops) /\ Len(q) = Len(bc) + Len(d)
        /\ \A i \in 1..(Len(bc) + Len(d)) : q[i] = IF i <= Len(bc) THEN bc[i] ELSE d[i - Len(bc)]
    BY <2>2, <2>3, <2>4, ConcatProperties DEF bc
  <2>7. Len(q) = 3 /\ q[1] = Op("stop", active) /\ q[2] = Op("forget", active) /\ q[3] = Op("submit", active)
    <3>1. Len(bc) = 2 /\ bc[1] = Op("stop", active) /\ bc[2] = Op("forget", active)
      BY <2>5 DEF bc
    <3>2. q[1] = bc[1] /\ q[2] = bc[2]
      BY <2>3, <2>6, <3>1
    <3>3. q[3] = d[1]
      <4>1. 3 \in 1..(Len(bc) + Len(d)) /\ ~(3 <= Len(bc)) /\ 3 - Len(bc) = 1
        BY <2>3, <3>1
      <4>2. QED BY <2>6, <4>1
    <3>4. QED BY <2>3, <2>6, <3>1, <3>2, <3>3
  <2>8. \A i \in DOMAIN q : q[i].call = "submit" => i = 3
    <3>1. DOMAIN q = 1..3
      <4>1. q \in Seq(Ops) /\ Len(q) = 3
        BY <2>6, <2>7
      <4>2. QED BY <4>1
    <3>2. q[1].call = "stop" /\ q[2].call = "forget"
      BY <2>1, <2>7
    <3>3. QED BY <3>1, <3>2
  <2>9. QED BY <2>1, <2>6, <2>7, <2>8 DEF Single, Carries
<1> HIDE DEF q
<1>6. ConversationTypes'
  BY <1>1, <1>2, <1>3, <1>5 DEF ConversationTypes, ExecutionStates, Underway
<1>7. \A f \in Executions : state'[f] = "absent" <=> state[f] = "absent"
  BY <1>1, <1>3, <1>4 DEF Underway
<1>8. Orderly(prompts', order', state')
  BY <1>1, <1>3, <1>7 DEF Orderly
<1>9. Carried(state', active', queueState')
  BY <1>1, <1>3 DEF Carried, Underway
<1>10. SingleMinded(threads')
  BY <1>1, <1>3, <1>5 DEF SingleMinded
<1>11. Untouched(prompts', state', runOf', threads', engine')
  <2>1. SUFFICES ASSUME NEW f \in Executions, Behind(prompts, state', f)
                 PROVE  /\ state'[f] \in {"absent", "queued", "cancelled"}
                        /\ runOf[f] = None /\ RunsFor(engine, f) = {}
                        /\ \A u \in Threads : ~Carries(threads'[u], f)
    BY <1>3 DEF Untouched
  <2>2. Behind(prompts, state, f)
    BY <1>1, <1>3, <2>1 DEF Behind
  <2>3. f # active
    BY <1>4, <2>2
  <2>4. QED BY <1>1, <1>3, <1>5, <2>2, <2>3 DEF Untouched
<1>12. Paid(engine', threads', calls')
  <2>1. SUFFICES ASSUME NEW e \in Executions
                 PROVE  Cardinality(RunsFor(engine, e)) + Cardinality(Owing(threads', e))
                          <= 1 + Cardinality(Restarts(calls'))
    BY <1>3 DEF Paid
  <2>2. engine.runs \in Nat /\ calls \in Seq(Calls)
    BY <1>1 DEF ConversationTypes, Engines
  <2>3. /\ Cardinality(RunsFor(engine, e)) \in Nat
        /\ Cardinality(Owing(threads, e)) \in Nat /\ IsFiniteSet(Owing(threads, e))
        /\ Cardinality(Owing(threads', e)) \in Nat
        /\ Cardinality(Restarts(calls)) \in Nat /\ IsFiniteSet(Restarts(calls))
    BY <2>2, RunsForIsFinite, OwingIsFinite, RestartsIsFinite
  <2>4. Cardinality(Restarts(calls')) = Cardinality(Restarts(calls)) + 1
    BY <1>2, <2>3, FS_AddElement
  <2>5. Cardinality(RunsFor(engine, e)) + Cardinality(Owing(threads, e)) <= 1 + Cardinality(Restarts(calls))
    BY DEF QueueInv, Paid
  <2>6. Owing(threads', e) \in SUBSET (Owing(threads, e) \cup {t})
    BY <1>1, <1>3 DEF Owing
  <2>7. /\ IsFiniteSet(Owing(threads, e) \cup {t})
        /\ Cardinality(Owing(threads, e) \cup {t}) <= Cardinality(Owing(threads, e)) + 1
        /\ Cardinality(Owing(threads, e) \cup {t}) \in Nat
    <3>1. /\ IsFiniteSet(Owing(threads, e) \cup {t})
          /\ Cardinality(Owing(threads, e) \cup {t})
               = IF t \in Owing(threads, e) THEN Cardinality(Owing(threads, e))
                                            ELSE Cardinality(Owing(threads, e)) + 1
      BY <2>3, FS_AddElement
    <3>2. QED BY <2>3, <3>1
  <2>8. Cardinality(Owing(threads', e)) <= Cardinality(Owing(threads, e) \cup {t})
    BY <2>6, <2>7, FS_Subset
  <2>9. QED BY <2>3, <2>4, <2>5, <2>7, <2>8
<1>13. QED BY <1>6, <1>8, <1>9, <1>10, <1>11, <1>12 DEF QueueInv

\* What the calls of a thread leave alone: with the order, the active execution and the
\* states as they were, only the bindings of the untouched executions matter.
LEMMA ThreadCallKeeps ==
  ASSUME QueueInv, Calm,
         UNCHANGED <<prompts, order, state, active, queueState, questions, calls>>,
         session' \in {None} \cup EngineSessions, worker' \in {None} \cup EngineSessions,
         engine' \in Engines, engine'.runs = engine.runs, engine'.execution = engine.execution,
         runOf' \in [Executions -> {None} \cup EngineRuns],
         \A f \in Executions : Behind(prompts, state, f) => runOf'[f] = None
  PROVE  QueueInv'
PROOF
<1>1. ConversationTypes' /\ Orderly(prompts', order', state') /\ Carried(state', active', queueState')
  BY DEF QueueInv, ConversationTypes, Calm
<1>2. \A f \in Executions : Behind(prompts', state', f) =>
           /\ Behind(prompts, state, f)
           /\ state'[f] \in {"absent", "queued", "cancelled"}
           /\ runOf'[f] = None
  BY DEF QueueInv, Untouched
<1>3. Restarts(calls) \subseteq Restarts(calls')
  OBVIOUS
<1>4. QED BY <1>1, <1>2, <1>3, CalmStep

\* The first call of a thread that has one.
LEMMA HeadTypes ==
  ASSUME QueueInv, NEW t \in Threads, threads[t] # <<>>
  PROVE  /\ threads[t] \in Seq(Ops) /\ Head(threads[t]) \in Ops
         /\ Head(threads[t]) = threads[t][1] /\ 1 \in DOMAIN threads[t]
         /\ Head(threads[t]).e \in Executions
         /\ Head(threads[t]).k \in {None} \cup EngineSessions
         /\ Head(threads[t]).run \in {None} \cup EngineRuns
         /\ Head(threads[t]).call = "submit" => ~Behind(prompts, state, Head(threads[t]).e)
PROOF
<1>1. threads[t] \in Seq(Ops)
  BY DEF QueueInv, ConversationTypes
<1>2. Head(threads[t]) \in Ops /\ Head(threads[t]) = threads[t][1] /\ 1 \in DOMAIN threads[t]
  BY <1>1
<1>3. ASSUME Head(threads[t]).call = "submit" PROVE Carries(threads[t], Head(threads[t]).e)
  BY <1>2, <1>3 DEF Carries
<1>4. QED BY <1>1, <1>2, <1>3 DEF Ops, QueueInv, Untouched

\* The steps of a submission before the engine is called, and after.
LEMMA SubmitStepsKeep ==
  ASSUME QueueInv, NEW t \in Threads,
         \/ CheckUnbound(t) \/ LoadContext(t) \/ StartEngineSession(t) \/ BindRun(t)
         \/ EnsureProjection(t)
  PROVE  QueueInv'
PROOF
<1> DEFINE op == Head(threads[t])
<1>1. threads[t] # <<>> /\ op.call = "submit"
  BY DEF CheckUnbound, LoadContext, StartEngineSession, BindRun, EnsureProjection, Does
<1>2. /\ op \in Ops /\ op.e \in Executions /\ op.k \in {None} \cup EngineSessions
      /\ op.run \in {None} \cup EngineRuns /\ ~Behind(prompts, state, op.e)
  BY <1>1, HeadTypes
<1>3. /\ ConversationTypes /\ session \in {None} \cup EngineSessions
      /\ worker \in {None} \cup EngineSessions /\ engine \in Engines
      /\ runOf \in [Executions -> {None} \cup EngineRuns]
  BY DEF QueueInv, ConversationTypes
<1>4. \A f \in Executions : Behind(prompts, state, f) => runOf[f] = None
  BY DEF QueueInv, Untouched
<1>5. \A at \in Stages : [op EXCEPT !.at = at] \in Ops /\ [op EXCEPT !.at = at].call = op.call
                          /\ [op EXCEPT !.at = at].e = op.e /\ [op EXCEPT !.at = at].at = at
  BY <1>2 DEF Ops
<1>6. \A at \in Stages, k \in {None} \cup EngineSessions :
        /\ [op EXCEPT !.k = k, !.at = at] \in Ops /\ [op EXCEPT !.k = k, !.at = at].call = op.call
        /\ [op EXCEPT !.k = k, !.at = at].e = op.e /\ [op EXCEPT !.k = k, !.at = at].at = at
  BY <1>2 DEF Ops
<1> HIDE DEF op
<1>7. ASSUME op.at \notin {"bind", "project"},
             \/ Finishes(t) \/ \E at \in Stages : GoesOn(t, [op EXCEPT !.at = at])
             \/ \E at \in Stages, k \in {None} \cup EngineSessions : GoesOn(t, [op EXCEPT !.k = k, !.at = at])
      PROVE  Calm
  <2>1. CASE Finishes(t)
    BY <1>1, <2>1, FinishesIsCalm
  <2>2. CASE \E at \in Stages : GoesOn(t, [op EXCEPT !.at = at])
    BY <1>1, <1>5, <1>7, <2>2, GoesOnIsCalm DEF op
  <2>3. CASE \E at \in Stages, k \in {None} \cup EngineSessions : GoesOn(t, [op EXCEPT !.k = k, !.at = at])
    BY <1>1, <1>6, <1>7, <2>3, GoesOnIsCalm DEF op
  <2>4. QED BY <1>7, <2>1, <2>2, <2>3
<1>8. {"load", "fail", "start", "submit", "bind", "project"} \subseteq Stages
  BY DEF Stages
<1>9. CASE CheckUnbound(t)
  <2>1. Finishes(t) \/ GoesOn(t, [op EXCEPT !.at = "load"])
    BY <1>9 DEF CheckUnbound, op
  <2>2. op.at = "check"
    BY <1>9 DEF CheckUnbound, Does, op
  <2>3. Calm
    BY <1>7, <1>8, <2>1, <2>2
  <2>4. UNCHANGED <<prompts, order, state, active, queueState, questions, session, runOf, worker, engine, calls>>
    BY <1>9 DEF CheckUnbound
  <2>5. QED BY <1>3, <1>4, <2>3, <2>4, ThreadCallKeeps
<1>10. CASE LoadContext(t)
  <2>1. \/ Finishes(t) \/ GoesOn(t, [op EXCEPT !.at = "fail"])
        \/ \E at \in {"start", "submit"} : GoesOn(t, [op EXCEPT !.k = session, !.at = at])
    BY <1>10 DEF LoadContext, Fails, op
  <2>2. op.at = "load"
    BY <1>10 DEF LoadContext, Does, op
  <2>3. Calm
    BY <1>3, <1>7, <1>8, <2>1, <2>2
  <2>4. UNCHANGED <<prompts, order, state, active, queueState, questions, session, runOf, worker, engine, calls>>
    BY <1>10 DEF LoadContext
  <2>5. QED BY <1>3, <1>4, <2>3, <2>4, ThreadCallKeeps
<1>11. CASE StartEngineSession(t)
  <2>1. op.at = "start"
    BY <1>11 DEF StartEngineSession, Does, op
  <2>2. \/ Fails(t) /\ UNCHANGED <<session, engine>>
        \/ /\ engine.sessions + 1 \in EngineSessions
           /\ engine' = [engine EXCEPT !.sessions = engine.sessions + 1]
           /\ session' \in {session, engine.sessions + 1}
           /\ GoesOn(t, [op EXCEPT !.k = engine.sessions + 1, !.at = "submit"])
    BY <1>11 DEF StartEngineSession, op
  <2>3. Calm
    BY <1>7, <1>8, <2>1, <2>2 DEF Fails, op
  <2>4. /\ session' \in {None} \cup EngineSessions /\ engine' \in Engines
        /\ engine'.runs = engine.runs /\ engine'.execution = engine.execution
    <3>1. CASE engine.sessions + 1 \in EngineSessions /\ engine' = [engine EXCEPT !.sessions = engine.sessions + 1]
      <4>1. engine.sessions + 1 \in 0..MaxRuns
        BY <3>1 DEF EngineSessions, EngineRuns
      <4>2. QED BY <1>3, <2>2, <3>1, <4>1 DEF Engines
    <3>2. QED BY <1>3, <2>2, <3>1
  <2>5. UNCHANGED <<prompts, order, state, active, queueState, questions, runOf, worker, calls>>
    BY <1>11 DEF StartEngineSession
  <2>6. QED BY <1>3, <1>4, <2>3, <2>4, <2>5, ThreadCallKeeps
<1>12. CASE BindRun(t)
  <2>1. GoesOn(t, [op EXCEPT !.at = "project"]) /\ runOf' = [runOf EXCEPT ![op.e] = op.run]
    BY <1>12 DEF BindRun, op
  <2>2. Head(threads[t]).at = "bind"
    BY <1>12 DEF BindRun, Does
  <2>3. Calm
    BY <1>1, <1>5, <1>8, <2>1, <2>2, GoesOnIsCalm DEF op
  <2>4. /\ runOf' \in [Executions -> {None} \cup EngineRuns]
        /\ \A f \in Executions : Behind(prompts, state, f) => runOf'[f] = None
    BY <1>2, <1>3, <1>4, <2>1
  <2>5. UNCHANGED <<prompts, order, state, active, queueState, questions, session, worker, engine, calls>>
    BY <1>12 DEF BindRun
  <2>6. QED BY <1>3, <2>3, <2>4, <2>5, ThreadCallKeeps
<1>13. CASE EnsureProjection(t)
  <2>1. Finishes(t) /\ worker' \in {worker, op.k}
    BY <1>13 DEF EnsureProjection, op
  <2>2. Calm
    BY <1>1, <2>1, FinishesIsCalm
  <2>3. worker' \in {None} \cup EngineSessions
    BY <1>2, <1>3, <2>1
  <2>4. UNCHANGED <<prompts, order, state, active, queueState, questions, session, runOf, engine, calls>>
    BY <1>13 DEF EnsureProjection
  <2>5. QED BY <1>3, <1>4, <2>2, <2>3, <2>4, ThreadCallKeeps
<1>14. QED BY <1>9, <1>10, <1>11, <1>12, <1>13

\* The engine gets the run: it is no longer owed, or the submission fails.
LEMMA SubmitRunKeeps ==
  ASSUME QueueInv, NEW t \in Threads, SubmitRun(t)
  PROVE  QueueInv'
PROOF
<1> DEFINE op == Head(threads[t])
<1>1. /\ threads[t] # <<>> /\ op.call = "submit" /\ op.at = "submit"
      /\ UNCHANGED <<prompts, order, state, active, queueState, questions, session, runOf, worker, calls>>
  BY DEF SubmitRun, Does
<1>2. /\ threads[t] \in Seq(Ops) /\ op \in Ops /\ op.e \in Executions
      /\ op.k \in {None} \cup EngineSessions /\ op = threads[t][1] /\ 1 \in DOMAIN threads[t]
      /\ ~Behind(prompts, state, op.e)
  BY <1>1, HeadTypes
<1>3. /\ ConversationTypes /\ engine \in Engines /\ threads \in [Threads -> Seq(Ops)]
      /\ Untouched(prompts, state, runOf, threads, engine) /\ SingleMinded(threads)
      /\ engine.runs \in Nat /\ MaxRuns \in Nat
  BY ConversationAssumption DEF QueueInv, ConversationTypes, Engines
<1>4. CASE Fails(t) /\ UNCHANGED engine
  <2>1. GoesOn(t, [op EXCEPT !.at = "fail"])
    BY <1>4 DEF Fails, op
  <2>2. [op EXCEPT !.at = "fail"] \in Ops /\ [op EXCEPT !.at = "fail"].call = op.call
        /\ [op EXCEPT !.at = "fail"].e = op.e
    BY <1>2 DEF Ops, Stages
  <2>3. Calm
    <3> DEFINE new == [op EXCEPT !.at = "fail"]
    <3> HIDE DEF new
    <3>1. new \in Ops /\ GoesOn(t, new) /\ new.call = Head(threads[t]).call /\ new.e = Head(threads[t]).e
          /\ Head(threads[t]).at \notin {"bind", "project"}
      BY <1>1, <2>1, <2>2 DEF new
    <3>2. QED BY <1>1, <3>1, GoesOnIsCalm
  <2>4. QED BY <1>1, <1>3, <1>4, <2>3, ThreadCallKeeps DEF ConversationTypes, Untouched
<1>5. CASE /\ engine.runs < MaxRuns
           /\ engine' = Submitted(engine, op.k, op.e)
           /\ GoesOn(t, [op EXCEPT !.run = engine.runs + 1, !.at = "bind"])
  <2> DEFINE new == [op EXCEPT !.run = engine.runs + 1, !.at = "bind"]
             q == <<new>> \o Tail(threads[t])
             r == engine.runs + 1
  <2>1. r \in EngineRuns
    BY <1>3, <1>5 DEF EngineRuns
  <2>2. new \in Ops /\ new.call = "submit" /\ new.e = op.e /\ new.at = "bind"
    BY <1>1, <1>2, <2>1 DEF Ops, Stages
  <2>3. /\ engine' \in Engines /\ engine'.runs = r
        /\ engine'.execution = [engine.execution EXCEPT ![r] = op.e]
    <3>1. /\ Submitted(engine, op.k, op.e) \in Engines
          /\ Submitted(engine, op.k, op.e).runs = engine.runs + 1
          /\ Submitted(engine, op.k, op.e).execution = [engine.execution EXCEPT ![engine.runs + 1] = op.e]
      <4> HIDE DEF op
      <4>1. engine \in Engines /\ engine.runs < MaxRuns /\ op.k \in {None} \cup EngineSessions
            /\ op.e \in Executions
        BY <1>2, <1>3, <1>5
      <4>2. QED BY ONLY <4>1, SubmittedTypes
    <3>2. QED BY <1>5, <3>1
  <2>4. GoesOn(t, new) /\ threads' = [threads EXCEPT ![t] = q]
    BY <1>5 DEF GoesOn
  <2> HIDE DEF new
  <2>5. Single(threads[t])
    BY <1>3 DEF SingleMinded
  <2>6. /\ q \in Seq(Ops) /\ Single(q)
        /\ \A e : Carries(q, e) => Carries(threads[t], e)
        /\ \A e : Owes(q, e) => Owes(threads[t], e)
        /\ \A e : ~Owes(q, e)
    BY <1>1, <1>2, <2>2, <2>5, GoneOnList
  <2> HIDE DEF q
  <2>7. /\ threads' \in [Threads -> Seq(Ops)] /\ SingleMinded(threads')
        /\ \A u \in Threads, e \in Executions : Carries(threads'[u], e) => Carries(threads[u], e)
        /\ \A u \in Threads, e \in Executions : Owes(threads'[u], e) => Owes(threads[u], e) /\ u # t
    BY <1>3, <2>4, <2>6 DEF SingleMinded
  <2>8. ConversationTypes'
    BY <1>1, <1>3, <2>3, <2>7 DEF ConversationTypes
  <2>9. \A e \in Executions : e # op.e => RunsFor(engine', e) = RunsFor(engine, e)
    <3>1. SUFFICES ASSUME NEW e \in Executions, e # op.e, NEW x
                   PROVE  x \in RunsFor(engine', e) <=> x \in RunsFor(engine, e)
      OBVIOUS
    <3>2. engine.execution \in [EngineRuns -> {None} \cup Executions] /\ engine.runs \in 0..MaxRuns
      BY <1>3 DEF Engines
    <3>3. x \in 1..r => x \in EngineRuns
      BY <1>3, <2>1 DEF EngineRuns
    <3>4. CASE x = r
      BY <1>3, <2>1, <2>3, <3>1, <3>2, <3>4 DEF RunsFor
    <3>5. CASE x # r
      BY <1>3, <2>1, <2>3, <3>2, <3>3, <3>5 DEF RunsFor
    <3>6. QED BY <3>4, <3>5
  <2>10. RunsFor(engine', op.e) \subseteq RunsFor(engine, op.e) \cup {r}
    <3>1. SUFFICES ASSUME NEW x \in RunsFor(engine', op.e), x # r
                   PROVE  x \in RunsFor(engine, op.e)
      OBVIOUS
    <3>2. engine.execution \in [EngineRuns -> {None} \cup Executions] /\ engine.runs \in 0..MaxRuns
      BY <1>3 DEF Engines
    <3>3. x \in 1..engine.runs /\ x \in EngineRuns
      BY <1>3, <2>1, <2>3, <3>1 DEF EngineRuns, RunsFor
    <3>4. QED BY <2>3, <3>1, <3>2, <3>3 DEF RunsFor
  <2>11. Untouched(prompts', state', runOf', threads', engine')
    <3>1. \A f \in Executions : Behind(prompts, state, f) => RunsFor(engine', f) = {}
      BY <1>2, <1>3, <2>9 DEF Untouched
    <3>2. QED BY <1>1, <1>3, <2>7, <3>1 DEF Untouched
  <2>12. Paid(engine', threads', calls')
    <3>1. SUFFICES ASSUME NEW e \in Executions
                   PROVE  Cardinality(RunsFor(engine', e)) + Cardinality(Owing(threads', e))
                            <= 1 + Cardinality(Restarts(calls))
      BY <1>1 DEF Paid
    <3>2. /\ IsFiniteSet(RunsFor(engine, e)) /\ Cardinality(RunsFor(engine, e)) \in Nat
          /\ Cardinality(RunsFor(engine', e)) \in Nat
          /\ IsFiniteSet(Owing(threads, e)) /\ Cardinality(Owing(threads, e)) \in Nat
          /\ Cardinality(Owing(threads', e)) \in Nat
          /\ Cardinality(Restarts(calls)) \in Nat
      <4>1. engine'.runs \in Nat /\ calls \in Seq(Calls)
        BY <1>3, <2>3 DEF ConversationTypes
      <4>2. QED BY <1>3, <4>1, RunsForIsFinite, OwingIsFinite, RestartsIsFinite
    <3>3. Cardinality(RunsFor(engine, e)) + Cardinality(Owing(threads, e)) <= 1 + Cardinality(Restarts(calls))
      BY DEF QueueInv, Paid
    <3>4. Owing(threads', e) \in SUBSET (Owing(threads, e) \ {t})
      BY <2>7 DEF Owing
    <3>5. CASE e = op.e
      <4>1. t \in Owing(threads, e)
        BY <1>1, <1>2, <3>5 DEF Owing, Owes
      <4>2. /\ IsFiniteSet(Owing(threads, e) \ {t})
            /\ Cardinality(Owing(threads, e) \ {t}) = Cardinality(Owing(threads, e)) - 1
        BY <3>2, <4>1, FS_RemoveElement
      <4>3. Cardinality(Owing(threads', e)) <= Cardinality(Owing(threads, e)) - 1
        BY <3>4, <4>2, FS_Subset
      <4>4. /\ IsFiniteSet(RunsFor(engine, e) \cup {r})
            /\ Cardinality(RunsFor(engine, e) \cup {r})
                 = IF r \in RunsFor(engine, e) THEN Cardinality(RunsFor(engine, e))
                                               ELSE Cardinality(RunsFor(engine, e)) + 1
        BY <3>2, FS_AddElement
      <4>5. RunsFor(engine', e) \in SUBSET (RunsFor(engine, e) \cup {r})
        BY <2>10, <3>5
      <4>6. Cardinality(RunsFor(engine', e)) <= Cardinality(RunsFor(engine, e) \cup {r})
        BY <4>4, <4>5, FS_Subset
      <4>7. Cardinality(RunsFor(engine', e)) <= Cardinality(RunsFor(engine, e)) + 1
        BY <3>2, <4>4, <4>6
      <4>8. QED BY <3>2, <3>3, <4>3, <4>7
    <3>6. CASE e # op.e
      <4>1. Owing(threads', e) \in SUBSET Owing(threads, e)
        BY <3>4
      <4>2. Cardinality(Owing(threads', e)) <= Cardinality(Owing(threads, e))
        BY <3>2, <4>1, FS_Subset
      <4>3. QED BY <2>9, <3>2, <3>3, <3>6, <4>2
    <3>7. QED BY <3>5, <3>6
  <2>13. QED BY <1>1, <2>7, <2>8, <2>11, <2>12 DEF QueueInv
<1>6. QED BY <1>4, <1>5 DEF SubmitRun

\* A submission that failed: the conversation passes on if its execution was active.
LEMMA FailExecutionKeeps ==
  ASSUME QueueInv, NEW t \in Threads, FailExecution(t)
  PROVE  QueueInv'
PROOF
<1> DEFINE e == Head(threads[t]).e
<1>1. /\ threads[t] # <<>> /\ Head(threads[t]).call = "submit"
      /\ UNCHANGED <<prompts, order, questions, session, runOf, worker, engine, calls>>
  BY DEF FailExecution, Does
<1>2. e \in Executions /\ threads[t] \in Seq(Ops) /\ ~Behind(prompts, state, e)
  BY <1>1, HeadTypes
<1>3. /\ ConversationTypes /\ state \in [Executions -> ExecutionStates]
      /\ Orderly(prompts, order, state) /\ Carried(state, active, queueState)
      /\ Single(threads[t])
  BY DEF QueueInv, ConversationTypes, SingleMinded
<1>4. \A f \in Executions : Behind(prompts, state, f) =>
        state[f] \in {"absent", "queued", "cancelled"} /\ runOf[f] = None
  BY DEF QueueInv, Untouched
<1>5. /\ questions' \subseteq Executions /\ engine' \in Engines /\ calls' \in Seq(Calls)
      /\ engine'.runs = engine.runs /\ engine'.execution = engine.execution
      /\ Restarts(calls) \subseteq Restarts(calls')
  BY <1>1, <1>3 DEF ConversationTypes
<1> DEFINE s == [state EXCEPT ![e] = "failed"]
<1>6. CASE state[e] \in TerminalStates \cup {"absent"}
  <2>1. Finishes(t) /\ UNCHANGED <<state, active, queueState>>
    BY <1>6 DEF FailExecution
  <2>2. Calm
    BY <1>1, <2>1, FinishesIsCalm
  <2>3. QED BY <1>1, <1>3, <1>4, <2>1, <2>2, ThreadCallKeeps DEF ConversationTypes
<1>7. CASE state[e] \notin TerminalStates \cup {"absent"}
  <2>1. /\ s \in [Executions -> ExecutionStates]
        /\ \A f \in Executions : s[f] = "queued" => state[f] = "queued"
        /\ \A f \in Executions : s[f] = "absent" <=> state[f] = "absent"
        /\ \A f \in Executions : f # e => s[f] = state[f]
    BY <1>2, <1>3, <1>7 DEF ExecutionStates, TerminalStates
  <2>2. \A f \in Executions : Behind(prompts, s, f) => Behind(prompts, state, f)
    BY <2>1 DEF Behind
  <2>3. \A f \in Executions : Behind(prompts, s, f) => s[f] \in {"absent", "queued", "cancelled"}
    BY <1>2, <1>4, <2>1, <2>2
  <2>4. CASE active = e
    <3> DEFINE before == <<>>
    <3>1. Advance(t, s, before, Tail(threads[t]))
      BY <1>7, <2>4 DEF FailExecution
    <3>2. Tail(threads[t]) = <<>>
      BY <1>1, <1>2, <1>3, FinishedList
    <3>3. Advance(t, s, before, <<>>)
      BY <3>1, <3>2
    <3>4. before = <<>> \/ (e \in Executions /\ before = <<Op("stop", e)>>)
      OBVIOUS
    <3> HIDE DEF before, s, e
    <3>5. QED BY <1>1, <1>5, <2>1, <2>3, <3>3, <3>4, AdvanceKeeps
  <2>5. CASE active # e
    <3>1. state' = s /\ Finishes(t) /\ UNCHANGED <<active, queueState>>
      BY <1>7, <2>5 DEF FailExecution
    <3> HIDE DEF s, e
    <3>2. Calm
      BY <1>1, <3>1, FinishesIsCalm
    <3>3. ConversationTypes'
      BY <1>1, <1>3, <2>1, <3>1, <3>2 DEF ConversationTypes, Calm
    <3>4. Orderly(prompts', order', state')
      BY <1>1, <1>3, <2>1, <3>1 DEF Orderly
    <3>5. Carried(state', active', queueState')
      BY <1>3, <2>1, <2>5, <3>1 DEF Carried, ConversationTypes
    <3>6. \A f \in Executions : Behind(prompts', state', f) =>
             /\ Behind(prompts, state, f)
             /\ state'[f] \in {"absent", "queued", "cancelled"}
             /\ runOf'[f] = None
      BY <1>1, <1>4, <2>2, <2>3, <3>1
    <3>7. QED BY <1>5, <3>2, <3>3, <3>4, <3>5, <3>6, CalmStep
  <2>6. QED BY <2>4, <2>5
<1>8. QED BY <1>6, <1>7

\* A control or a cancellation reaches the engine, or a binding is forgotten.
LEMMA ControlEngineKeeps ==
  ASSUME QueueInv, NEW t \in Threads, ControlEngine(t) \/ Forget(t)
  PROVE  QueueInv'
PROOF
<1> DEFINE op == Head(threads[t])
<1>1. threads[t] # <<>> /\ Finishes(t)
  BY DEF ControlEngine, Forget, Does
<1>2. Calm
  BY <1>1, FinishesIsCalm
<1>3. /\ op.e \in Executions
      /\ engine \in Engines /\ runOf \in [Executions -> {None} \cup EngineRuns]
      /\ session \in {None} \cup EngineSessions /\ worker \in {None} \cup EngineSessions
  BY <1>1, HeadTypes DEF QueueInv, ConversationTypes
<1>4. \A f \in Executions : Behind(prompts, state, f) => runOf[f] = None
  BY DEF QueueInv, Untouched
<1>5. CASE ControlEngine(t)
  <2>1. /\ op.call \in ControlKinds
        /\ engine' = IF runOf[op.e] = None THEN engine ELSE Controlled(engine, runOf[op.e], op.call)
        /\ UNCHANGED <<prompts, order, state, active, queueState, questions, session, runOf, worker, calls>>
    BY <1>5 DEF ControlEngine
  <2> HIDE DEF op
  <2>2. engine' \in Engines /\ engine'.runs = engine.runs /\ engine'.execution = engine.execution
    BY <1>3, <2>1, ControlledTypes
  <2>3. QED BY <1>2, <1>3, <1>4, <2>1, <2>2, ThreadCallKeeps
<1>6. CASE Forget(t)
  <2>1. /\ runOf' = [runOf EXCEPT ![op.e] = None]
        /\ UNCHANGED <<prompts, order, state, active, queueState, questions, session, worker, engine, calls>>
    BY <1>6 DEF Forget
  <2> HIDE DEF op
  <2>2. /\ runOf' \in [Executions -> {None} \cup EngineRuns]
        /\ \A f \in Executions : Behind(prompts, state, f) => runOf'[f] = None
    BY <1>3, <1>4, <2>1
  <2>3. QED BY <1>2, <1>3, <2>1, <2>2, ThreadCallKeeps
<1>7. QED BY <1>5, <1>6

\* An event reaches its execution, which is not a queued one; the end of the active
\* execution promotes the next.
LEMMA ProjectKeeps ==
  ASSUME QueueInv, Project
  PROVE  QueueInv'
PROOF
<1> DEFINE event == Head(engine.feed[worker])
<1>1. /\ ConversationTypes /\ state \in [Executions -> ExecutionStates]
      /\ engine \in Engines /\ engine.feed \in [EngineSessions -> Seq(Events)]
      /\ Orderly(prompts, order, state) /\ Carried(state, active, queueState)
      /\ active \in {None} \cup Executions
  BY DEF QueueInv, ConversationTypes, Engines
<1>2. /\ worker \in EngineSessions /\ engine.feed[worker] # <<>> /\ threads[0] = <<>>
      /\ engine' = [engine EXCEPT !.feed[worker] = Tail(@)]
      /\ UNCHANGED <<prompts, order, session, runOf, worker, calls>>
  BY <1>1 DEF Project, ConversationTypes
<1>3. event \in Events /\ event.run \in EngineRuns /\ event.type \in EventTypes
  <2>1. event \in Events
    BY <1>1, <1>2
  <2>2. QED BY <2>1 DEF Events
<1>4. engine' \in Engines /\ engine'.runs = engine.runs /\ engine'.execution = engine.execution
  <2>1. Tail(engine.feed[worker]) \in Seq(Events)
    BY <1>1, <1>2
  <2>2. QED BY <1>1, <1>2, <2>1 DEF Engines
<1>5. 0 \in Threads
  BY ConversationAssumption DEF Threads
<1>6. \A f \in Executions : Behind(prompts, state, f) =>
        state[f] \in {"absent", "queued", "cancelled"} /\ runOf[f] = None
  BY DEF QueueInv, Untouched
<1>7. Restarts(calls) \subseteq Restarts(calls') /\ calls' \in Seq(Calls)
  BY <1>1, <1>2 DEF ConversationTypes
<1> HIDE DEF event
<1>8. CASE UNCHANGED <<state, active, queueState, questions, threads>>
  <2>1. Calm
    BY <1>8, UnchangedIsCalm
  <2>2. QED BY <1>1, <1>2, <1>4, <1>6, <1>8, <2>1, ThreadCallKeeps DEF ConversationTypes
<1>9. ASSUME NEW e \in Resolved(event.run), NEW s,
             s = [state EXCEPT ![e] = ProjectedState(event.type, @)],
             IF event.type \in TerminalStates /\ active = e
             THEN Advance(0, s, <<>>, <<>>)
             ELSE state' = s /\ UNCHANGED <<active, queueState, threads>>,
             questions' \subseteq Executions
      PROVE  QueueInv'
  <2>1. e \in Executions /\ runOf[e] # None /\ state[e] # "absent"
    BY <1>3, <1>9 DEF Resolved, EngineRuns, None
  <2>2. ~Behind(prompts, state, e)
    BY <1>6, <2>1
  <2>3. state[e] # "queued"
    BY <2>1, <2>2 DEF Behind, Executions
  <2>4. /\ s[e] = ProjectedState(event.type, state[e])
        /\ \A f \in Executions : f # e => s[f] = state[f]
    BY <1>1, <1>9, <2>1
  <2>5. s[e] \in ExecutionStates \ {"absent", "queued"}
    <3>1. state[e] \in ExecutionStates \ {"absent", "queued"}
      BY <1>1, <2>1, <2>3
    <3>2. ProjectedState(event.type, state[e]) \in {state[e], "executing", "confirming", "awaiting_input"} \cup TerminalStates
      BY DEF ProjectedState
    <3>3. QED BY <2>4, <3>1, <3>2 DEF ExecutionStates, Underway, TerminalStates
  <2>6. event.type \notin TerminalStates =>
           s[e] \in {state[e], "executing", "confirming", "awaiting_input"}
    BY <2>4 DEF ProjectedState
  <2>7. /\ s \in [Executions -> ExecutionStates]
        /\ \A f \in Executions : s[f] = "queued" => state[f] = "queued"
        /\ \A f \in Executions : s[f] = "absent" <=> state[f] = "absent"
    <3>1. s \in [Executions -> ExecutionStates]
      BY <1>1, <1>9, <2>1, <2>4, <2>5
    <3>2. QED BY <2>1, <2>4, <2>5, <3>1
  <2>8. \A f \in Executions : Behind(prompts, s, f) => Behind(prompts, state, f)
    BY <2>7 DEF Behind
  <2>9. \A f \in Executions : Behind(prompts, s, f) => s[f] \in {"absent", "queued", "cancelled"}
    BY <1>6, <2>2, <2>4, <2>8
  <2>10. CASE event.type \in TerminalStates /\ active = e
    <3> DEFINE before == <<>>
    <3>1. Advance(0, s, before, <<>>)
      BY <1>9, <2>10
    <3>2. before = <<>> \/ (e \in Executions /\ before = <<Op("stop", e)>>)
      OBVIOUS
    <3>3. UNCHANGED <<prompts, order, session, runOf, worker>>
      BY <1>2
    <3>4. \A f \in Executions : s[f] = "queued" => state[f] = "queued"
      BY <2>7
    <3>5. \A f \in Executions : s[f] = "absent" <=> state[f] = "absent"
      BY <2>7
    <3>6. questions' \subseteq Executions
      BY <1>9
    <3>7. s \in [Executions -> ExecutionStates]
      BY <2>7
    <3>8. calls' \in Seq(Calls) /\ Restarts(calls) \subseteq Restarts(calls')
      BY <1>7
    <3> HIDE DEF before
    <3>9. QED BY ONLY QueueInv, <1>4, <1>5, <2>9, <3>1, <3>2, <3>3, <3>4, <3>5, <3>6, <3>7, <3>8, AdvanceKeeps
  <2>11. CASE ~(event.type \in TerminalStates /\ active = e)
    <3>1. state' = s /\ UNCHANGED <<active, queueState, threads>>
      BY <1>9, <2>11
    <3>2. Calm
      BY <3>1, UnchangedIsCalm
    <3>3. ConversationTypes'
      BY <1>1, <1>2, <1>4, <1>9, <2>7, <3>1 DEF ConversationTypes
    <3>4. Orderly(prompts', order', state')
      BY <1>1, <1>2, <2>7, <3>1 DEF Orderly
    <3>5. active # None => s[active] \in Underway
      <4>1. CASE active = e
        <5>1. s[e] \in {state[e], "executing", "confirming", "awaiting_input"}
          BY <2>6, <2>11, <4>1
        <5>2. QED BY <1>1, <4>1, <5>1 DEF Carried, Underway
      <4>2. CASE active # e
        BY <1>1, <2>4, <4>2 DEF Carried
      <4>3. QED BY <4>1, <4>2
    <3>6. Carried(state', active', queueState')
      BY <1>1, <2>7, <3>1, <3>5 DEF Carried
    <3>7. \A f \in Executions : Behind(prompts', state', f) =>
             /\ Behind(prompts, state, f)
             /\ state'[f] \in {"absent", "queued", "cancelled"}
             /\ runOf'[f] = None
      BY <1>2, <1>6, <2>8, <2>9, <3>1
    <3>8. QED BY <1>4, <1>7, <3>2, <3>3, <3>4, <3>6, <3>7, CalmStep
  <2>12. QED BY <2>10, <2>11
<1>10. \/ UNCHANGED <<state, active, queueState, questions, threads>>
       \/ \E e \in Resolved(event.run) :
            LET s == [state EXCEPT ![e] = ProjectedState(event.type, @)]
            IN  /\ IF event.type \in TerminalStates /\ active = e
                   THEN Advance(0, s, <<>>, <<>>)
                   ELSE state' = s /\ UNCHANGED <<active, queueState, threads>>
                /\ questions' \in {questions, questions \cup {e}, questions \ {e}}
  BY DEF Project, event
<1>11. ASSUME NEW e \in Resolved(event.run),
              questions' \in {questions, questions \cup {e}, questions \ {e}}
       PROVE  questions' \subseteq Executions
  BY <1>1, <1>11 DEF ConversationTypes, Resolved
<1>12. CASE ~UNCHANGED <<state, active, queueState, questions, threads>>
  <2>1. PICK e \in Resolved(event.run) :
          /\ IF event.type \in TerminalStates /\ active = e
             THEN Advance(0, [state EXCEPT ![e] = ProjectedState(event.type, @)], <<>>, <<>>)
             ELSE /\ state' = [state EXCEPT ![e] = ProjectedState(event.type, @)]
                  /\ UNCHANGED <<active, queueState, threads>>
          /\ questions' \in {questions, questions \cup {e}, questions \ {e}}
    BY <1>10, <1>12
  <2> DEFINE s == [state EXCEPT ![e] = ProjectedState(event.type, @)]
  <2>2. /\ s = [state EXCEPT ![e] = ProjectedState(event.type, @)]
        /\ IF event.type \in TerminalStates /\ active = e
           THEN Advance(0, s, <<>>, <<>>)
           ELSE state' = s /\ UNCHANGED <<active, queueState, threads>>
    BY <2>1
  <2>3. questions' \subseteq Executions
    BY <1>11, <2>1
  <2> HIDE DEF s
  <2>4. QED BY <1>9, <2>2, <2>3
<1>13. QED BY <1>8, <1>12

\* Every step of a conversation, whoever takes it.
LEMMA EveryStepKeeps ==
  ASSUME QueueInv, [Next]_vars
  PROVE  QueueInv'
PROOF
<1>1. CASE UNCHANGED vars
  <2>1. UNCHANGED <<prompts, order, state, active, queueState, questions, session, runOf, worker, threads, engine, calls>>
    BY <1>1 DEF vars
  <2>2. Calm
    BY <2>1, UnchangedIsCalm
  <2>3. QED BY <2>1, <2>2, ThreadCallKeeps DEF QueueInv, ConversationTypes, Untouched
<1>2. CASE Project
  BY <1>2, ProjectKeeps
<1>3. ASSUME NEW r \in EngineRuns, EngineStep(r) PROVE QueueInv'
  <2>1. UNCHANGED <<prompts, order, state, active, queueState, questions, session, runOf, worker, threads, calls>>
    BY <1>3 DEF EngineStep
  <2>2. engine' \in Engines /\ engine'.runs = engine.runs /\ engine'.execution = engine.execution
    BY <1>3, EngineStepTypes DEF QueueInv
  <2>3. Calm
    BY <2>1, UnchangedIsCalm
  <2>4. QED BY <2>1, <2>2, <2>3, ThreadCallKeeps DEF QueueInv, ConversationTypes, Untouched
<1>4. ASSUME NEW t \in Threads, Prompt(t) PROVE QueueInv'
  BY <1>4, PromptKeeps
<1>5. ASSUME NEW t \in Threads, ClientCall(t) PROVE QueueInv'
  BY <1>5, StopSessionKeeps, RestartKeeps, DeleteKeeps, RollbackKeeps, ControlRunKeeps DEF ClientCall
<1>6. ASSUME NEW t \in Threads, ThreadStep(t) PROVE QueueInv'
  BY <1>6, SubmitStepsKeep, SubmitRunKeeps, FailExecutionKeeps, ControlEngineKeeps DEF ThreadStep
<1>7. QED BY <1>1, <1>2, <1>3, <1>4, <1>5, <1>6 DEF Next, AgentEngine

\* What the invariant says of the queue.
LEMMA QueueInvServes == QueueInv => QueueIsServedOnce
PROOF
<1> SUFFICES ASSUME QueueInv PROVE QueueIsServedOnce
  OBVIOUS
<1>1. ActiveCarriesQueue
  <2>1. \A i \in DOMAIN order : order[i] \in Executions
    BY DEF QueueInv, ConversationTypes
  <2>2. active = None => QueuedIn(state) = {}
    BY <2>1 DEF QueueInv, Carried, QueuedIn
  <2>3. QED BY <2>2 DEF QueueInv, Carried, ActiveCarriesQueue
<1>2. DispatchedOnce
  <2>1. SUFFICES ASSUME NEW e \in Executions
                 PROVE  Cardinality(RunsFor(engine, e)) <= 1 + Cardinality(Restarts(calls))
    BY DEF DispatchedOnce, RunsFor, Restarts
  <2>2. engine.runs \in Nat /\ calls \in Seq(Calls)
    BY DEF QueueInv, ConversationTypes, Engines
  <2>3. /\ Cardinality(RunsFor(engine, e)) \in Nat /\ Cardinality(Owing(threads, e)) \in Nat
        /\ Cardinality(Restarts(calls)) \in Nat
    BY <2>2, RunsForIsFinite, OwingIsFinite, RestartsIsFinite
  <2>4. Cardinality(RunsFor(engine, e)) + Cardinality(Owing(threads, e)) <= 1 + Cardinality(Restarts(calls))
    BY DEF QueueInv, Paid
  <2>5. QED BY <2>3, <2>4
<1>3. QED BY <1>1, <1>2 DEF QueueIsServedOnce

\* However the handlers, the failure path, the projector and the clients' calls
\* interleave: a queued prompt always has an active execution before it that will pass
\* the conversation on, and the engine gets a prompt once, and once more per restart.
THEOREM QueueIsServed == Spec => []QueueIsServedOnce
PROOF
<1>1. Spec => []QueueInv
  BY InitServed, EveryStepKeeps, PTL DEF Spec
<1>2. QED BY <1>1, QueueInvServes, PTL
===============================================================================
