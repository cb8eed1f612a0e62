----------------------- MODULE ConversationPatientProofs -----------------------
(* Proofs about a conversation under the usual timing: the clients make no    *)
(* call but a prompt while a handler is at work, and no event is projected    *)
(* while a run waits for its binding. They hold for every number of prompts,  *)
(* handlers, runs and waits, with every submission free to fail; which calls  *)
(* the clients may make is said with each theorem.                            *)
EXTENDS ConversationProofs

(* What the feed of an engine session says of its runs.                       *)

\* The places in a feed that say something of the state of run r.
About(q, r) == {i \in DOMAIN q : q[i].run = r /\ q[i].type # "run_queued"}

\* The phase an event reports.
Tells(type) == IF type \in {"run_started", "resolved", "answered"} THEN "running" ELSE type

\* The last event about run r reports the phase it is in.
Truthful(q, r, phase) ==
  \A i \in About(q, r) : (\A j \in About(q, r) : j <= i) => Tells(q[i].type) = phase

\* An event is about a run that was made, and one of an end about a run that ended.
Known(g, v) == /\ v.run <= g.runs
               /\ v.type \in TerminalStates => g.phase[v.run] \in TerminalStates

Sound(g) ==
  /\ g \in Engines
  /\ \A r \in EngineRuns : g.phase[r] = "none" <=> r > g.runs
  /\ \A k \in EngineSessions : \A i \in DOMAIN g.feed[k] : Known(g, g.feed[k][i])
  /\ \A r \in EngineRuns, k \in EngineSessions :
       g.home[r] = k => Truthful(g.feed[k], r, g.phase[r])

\* A run that goes on (Live, of any engine).
Living(g, r) == g.phase[r] \in {"queued"} \cup Working /\ r \notin g.halting

\* What the engine may do to the runs it has: none is revived, and no phase changes
\* without an event that says so.
Follows(g, h) ==
  /\ g.halting \subseteq h.halting
  /\ \A r \in 1..g.runs :
       /\ h.home[r] = g.home[r]
       /\ Living(h, r) => Living(g, r)
       /\ \A k \in EngineSessions :
            g.home[r] = k /\ About(h.feed[k], r) = {} =>
              h.phase[r] = g.phase[r] /\ About(g.feed[k], r) = {}

\* An event at the end of a feed is the last word about its run, and says nothing of
\* the others.
LEMMA AppendTells ==
  ASSUME NEW q \in Seq(Events), NEW v \in Events
  PROVE  /\ Append(q, v) \in Seq(Events)
         /\ \A i \in DOMAIN Append(q, v) : Append(q, v)[i] = v \/ \E j \in DOMAIN q : Append(q, v)[i] = q[j]
         /\ \A r : r # v.run \/ v.type = "run_queued" => About(Append(q, v), r) = About(q, r)
         /\ v.type # "run_queued" => About(Append(q, v), v.run) # {}
         /\ \A r, p : (r # v.run \/ v.type = "run_queued") /\ Truthful(q, r, p) =>
                        Truthful(Append(q, v), r, p)
         /\ v.type # "run_queued" => Truthful(Append(q, v), v.run, Tells(v.type))
PROOF
<1> DEFINE w == Append(q, v)
<1>1. /\ Len(q) \in Nat /\ DOMAIN q = 1..Len(q) /\ w \in Seq(Events) /\ DOMAIN w = 1..(Len(q) + 1)
      /\ w[Len(q) + 1] = v /\ \A i \in 1..Len(q) : w[i] = q[i]
  OBVIOUS
<1> HIDE DEF w
<1>2. \A i \in DOMAIN w : w[i] = v \/ \E j \in DOMAIN q : w[i] = q[j]
  BY <1>1
<1>3. ASSUME NEW r, r # v.run \/ v.type = "run_queued" PROVE About(w, r) = About(q, r)
  BY <1>1, <1>3 DEF About
<1>4. ASSUME v.type # "run_queued"
      PROVE  Len(q) + 1 \in About(w, v.run) /\ \A j \in About(w, v.run) : j <= Len(q) + 1
  BY <1>1, <1>4 DEF About
<1>5. ASSUME NEW r, NEW p, r # v.run \/ v.type = "run_queued", Truthful(q, r, p)
      PROVE  Truthful(w, r, p)
  <2>1. About(w, r) = About(q, r) /\ \A i \in About(q, r) : w[i] = q[i]
    BY <1>1, <1>3, <1>5 DEF About
  <2>2. QED BY <1>5, <2>1 DEF Truthful
<1>6. ASSUME v.type # "run_queued" PROVE Truthful(w, v.run, Tells(v.type))
  <2>1. SUFFICES ASSUME NEW i \in About(w, v.run), \A j \in About(w, v.run) : j <= i
                 PROVE  Tells(w[i].type) = Tells(v.type)
    BY DEF Truthful
  <2>2. i \in 1..(Len(q) + 1) /\ Len(q) + 1 <= i
    BY <1>1, <1>4, <1>6, <2>1 DEF About
  <2>3. i = Len(q) + 1
    BY <1>1, <2>2
  <2>4. QED BY <1>1, <2>3
<1>7. QED BY <1>1, <1>2, <1>3, <1>4, <1>5, <1>6 DEF w

\* Taking the first event away leaves the last word about every run, if one is left.
LEMMA TailTells ==
  ASSUME NEW q \in Seq(Events), q # <<>>
  PROVE  /\ Tail(q) \in Seq(Events)
         /\ \A i \in DOMAIN Tail(q) : \E j \in DOMAIN q : Tail(q)[i] = q[j]
         /\ \A r, p : Truthful(q, r, p) => Truthful(Tail(q), r, p)
         /\ \A r : About(Tail(q), r) = {} =>
              \/ About(q, r) = {}
              \/ /\ Head(q).run = r /\ Head(q).type # "run_queued"
                 /\ \A p : Truthful(q, r, p) => Tells(Head(q).type) = p
         /\ \A r : Head(q).run # r \/ Head(q).type = "run_queued" =>
              (About(Tail(q), r) = {} => About(q, r) = {})
PROOF
<1> DEFINE w == Tail(q)
<1>1. /\ Len(q) \in Nat \ {0} /\ DOMAIN q = 1..Len(q) /\ w \in Seq(Events)
      /\ DOMAIN w = 1..(Len(q) - 1) /\ \A i \in 1..(Len(q) - 1) : w[i] = q[i + 1]
      /\ Head(q) = q[1]
  OBVIOUS
<1> HIDE DEF w
<1>2. \A i \in DOMAIN w : \E j \in DOMAIN q : w[i] = q[j]
  <2>1. \A i \in DOMAIN w : i + 1 \in DOMAIN q
    BY <1>1
  <2>2. QED BY <1>1, <2>1
<1>3. \A r : \A i \in 1..(Len(q) - 1) : i \in About(w, r) <=> i + 1 \in About(q, r)
  BY <1>1 DEF About
<1>4. ASSUME NEW r, NEW p, Truthful(q, r, p) PROVE Truthful(w, r, p)
  <2>1. SUFFICES ASSUME NEW i \in About(w, r), \A j \in About(w, r) : j <= i
                 PROVE  Tells(w[i].type) = p
    BY DEF Truthful
  <2>2. i \in 1..(Len(q) - 1) /\ i + 1 \in About(q, r) /\ w[i] = q[i + 1]
    BY <1>1, <1>3, <2>1 DEF About
  <2>3. ASSUME NEW j \in About(q, r) PROVE j <= i + 1
    <3>1. j \in 1..Len(q)
      BY <1>1 DEF About
    <3>2. CASE j = 1
      BY <2>2, <3>2
    <3>3. CASE j # 1
      <4>1. j - 1 \in 1..(Len(q) - 1) /\ (j - 1) + 1 = j
        BY <1>1, <3>1, <3>3
      <4>2. j - 1 \in About(w, r)
        BY <1>3, <2>3, <4>1
      <4>3. j - 1 <= i
        BY <2>1, <4>2
      <4>4. QED BY <2>2, <3>1, <4>3
    <3>4. QED BY <3>2, <3>3
  <2>4. QED BY <1>4, <2>2, <2>3 DEF Truthful
<1>5. ASSUME NEW r, About(w, r) = {} PROVE About(q, r) \subseteq {1}
  <2>1. SUFFICES ASSUME NEW j \in About(q, r), j # 1 PROVE FALSE
    OBVIOUS
  <2>2. j \in 1..Len(q)
    BY <1>1 DEF About
  <2>3. j - 1 \in 1..(Len(q) - 1) /\ (j - 1) + 1 = j
    BY <1>1, <2>1, <2>2
  <2>4. QED BY <1>3, <1>5, <2>1, <2>3
<1>6. ASSUME NEW r, About(w, r) = {}, About(q, r) # {}
      PROVE  /\ Head(q).run = r /\ Head(q).type # "run_queued"
             /\ \A p : Truthful(q, r, p) => Tells(Head(q).type) = p
  <2>1. 1 \in About(q, r) /\ \A j \in About(q, r) : j <= 1
    BY <1>5, <1>6
  <2>2. QED BY <1>1, <2>1 DEF About, Truthful
<1>7. \A r : Head(q).run # r \/ Head(q).type = "run_queued" => (About(w, r) = {} => About(q, r) = {})
  BY <1>6
<1>8. QED BY <1>1, <1>2, <1>4, <1>6, <1>7 DEF w


\* Doing nothing is a way to go on.
LEMMA FollowsItself == ASSUME NEW g PROVE Follows(g, g)
BY DEF Follows

\* What the engine does in two steps it does in one.
LEMMA FollowsOn ==
  ASSUME NEW g, NEW m, NEW h, Follows(g, m), Follows(m, h), g.runs \in Nat, m.runs \in Nat,
         g.runs <= m.runs
  PROVE  Follows(g, h)
PROOF
<1>1. \A r \in 1..g.runs : r \in 1..m.runs
  OBVIOUS
<1>2. QED BY <1>1 DEF Follows

\* A run under way moves on and says so.
LEMMA MovedFollows ==
  ASSUME NEW g, Sound(g), NEW r \in EngineRuns, NEW phase \in EnginePhases \ {"none"},
         NEW type \in EventTypes \ {"run_queued"},
         g.phase[r] \in {"queued"} \cup Working, Tells(type) = phase
  PROVE  /\ Sound(Moved(g, r, phase, type)) /\ Follows(g, Moved(g, r, phase, type))
         /\ \A k \in EngineSessions : g.home[r] = k => About(Moved(g, r, phase, type).feed[k], r) # {}
PROOF
<1> DEFINE h == Moved(g, r, phase, type)
           v == [run |-> r, type |-> type]
<1>1. /\ g \in Engines /\ g.phase \in [EngineRuns -> EnginePhases] /\ g.runs \in Nat
      /\ g.feed \in [EngineSessions -> Seq(Events)]
      /\ g.home \in [EngineRuns -> {None} \cup EngineSessions]
  BY DEF Sound, Engines
<1>2. v \in Events /\ v.run = r /\ v.type = type
  BY DEF Events
<1>3. /\ h \in Engines /\ h.runs = g.runs /\ h.home = g.home /\ h.halting = g.halting
      /\ h.phase = Phased(g.phase, r, phase)
      /\ h.feed = Told(g.feed, g.home[r], r, type)
  BY <1>1, MovedTypes
<1> HIDE DEF h
<1>4. /\ h.phase[r] = phase /\ \A q \in EngineRuns : q # r => h.phase[q] = g.phase[q]
      /\ \A k \in EngineSessions : g.home[r] # k => h.feed[k] = g.feed[k]
      /\ \A k \in EngineSessions : g.home[r] = k => h.feed[k] = Append(g.feed[k], v)
  <2>1. h.phase[r] = phase /\ \A q \in EngineRuns : q # r => h.phase[q] = g.phase[q]
    BY <1>1, <1>3 DEF Phased
  <2>2. \A k \in EngineSessions : g.home[r] # k => h.feed[k] = g.feed[k]
    BY <1>1, <1>3 DEF Told
  <2>3. \A k \in EngineSessions : g.home[r] = k => h.feed[k] = Append(g.feed[k], v)
    BY <1>1, <1>3 DEF Told
  <2>4. QED BY <2>1, <2>2, <2>3
<1> HIDE DEF v
<1>5. r <= g.runs /\ g.phase[r] \notin TerminalStates /\ (type \in TerminalStates => phase \in TerminalStates)
  <2>1. g.phase[r] \notin TerminalStates /\ g.phase[r] # "none"
    BY DEF Working, Waiting, TerminalStates
  <2>2. type \in TerminalStates => phase \in TerminalStates
    BY DEF Tells, TerminalStates
  <2>3. r <= g.runs
    BY <1>1, <2>1 DEF Sound, EngineRuns
  <2>4. QED BY <2>1, <2>2, <2>3
<1>6. \A q \in EngineRuns : h.phase[q] = "none" <=> q > h.runs
  <2>1. h.phase[r] # "none" /\ ~(r > h.runs)
    BY <1>1, <1>3, <1>4, <1>5 DEF EngineRuns
  <2>2. \A q \in EngineRuns : g.phase[q] = "none" <=> q > g.runs
    BY DEF Sound
  <2>3. QED BY <1>3, <1>4, <2>1, <2>2
<1>7. ASSUME NEW w, w.run \in EngineRuns, Known(g, w) PROVE Known(h, w)
  <2>1. w.run <= h.runs
    BY <1>3, <1>7 DEF Known
  <2>2. CASE w.run = r
    BY <1>5, <1>7, <2>1, <2>2 DEF Known
  <2>3. CASE w.run # r
    BY <1>4, <1>7, <2>1, <2>3 DEF Known
  <2>4. QED BY <2>2, <2>3
<1>8. ASSUME NEW k \in EngineSessions, NEW i \in DOMAIN h.feed[k] PROVE Known(h, h.feed[k][i])
  <2>1. \A j \in DOMAIN g.feed[k] : Known(h, g.feed[k][j])
    <3>1. \A j \in DOMAIN g.feed[k] : g.feed[k][j].run \in EngineRuns
      <4>1. g.feed[k] \in Seq(Events)
        BY <1>1
      <4>2. \A j \in DOMAIN g.feed[k] : g.feed[k][j] \in Events
        BY <4>1
      <4>3. QED BY <4>2 DEF Events
    <3>2. QED BY <1>7, <3>1 DEF Sound
  <2>2. Known(h, v)
    BY <1>2, <1>3, <1>4, <1>5 DEF Known
  <2>3. h.feed[k][i] = v \/ \E j \in DOMAIN g.feed[k] : h.feed[k][i] = g.feed[k][j]
    <3>1. CASE g.home[r] # k
      BY <1>4, <1>8, <3>1
    <3>2. CASE g.home[r] = k
      <4>1. g.feed[k] \in Seq(Events) /\ h.feed[k] = Append(g.feed[k], v)
        BY <1>1, <1>4, <3>2
      <4>2. \A j \in DOMAIN Append(g.feed[k], v) :
              Append(g.feed[k], v)[j] = v \/ \E x \in DOMAIN g.feed[k] : Append(g.feed[k], v)[j] = g.feed[k][x]
        BY <1>2, <4>1, AppendTells
      <4>3. QED BY <1>8, <4>1, <4>2
    <3>3. QED BY <3>1, <3>2
  <2>4. QED BY <2>1, <2>2, <2>3
<1>9. ASSUME NEW q \in EngineRuns, NEW k \in EngineSessions, g.home[q] = k
      PROVE  /\ Truthful(h.feed[k], q, h.phase[q])
             /\ q # r => About(h.feed[k], q) = About(g.feed[k], q)
             /\ q = r => About(h.feed[k], q) # {}
  <2>1. Truthful(g.feed[k], q, g.phase[q])
    BY <1>9 DEF Sound
  <2>2. CASE q = r
    <3>1. g.feed[k] \in Seq(Events) /\ h.feed[k] = Append(g.feed[k], v) /\ v.type # "run_queued"
      BY <1>1, <1>2, <1>4, <1>9, <2>2
    <3>2. /\ About(Append(g.feed[k], v), v.run) # {}
          /\ Truthful(Append(g.feed[k], v), v.run, Tells(v.type))
      BY <1>2, <3>1, AppendTells
    <3>3. QED BY <1>2, <1>4, <2>2, <3>1, <3>2
  <2>3. CASE q # r
    <3>1. CASE g.home[r] # k
      BY <1>4, <2>1, <2>3, <3>1
    <3>2. CASE g.home[r] = k
      <4>1. g.feed[k] \in Seq(Events) /\ h.feed[k] = Append(g.feed[k], v) /\ q # v.run
        BY <1>1, <1>2, <1>4, <2>3, <3>2
      <4>2. /\ About(Append(g.feed[k], v), q) = About(g.feed[k], q)
            /\ Truthful(Append(g.feed[k], v), q, g.phase[q])
        BY <1>2, <2>1, <4>1, AppendTells
      <4>3. QED BY <1>4, <2>3, <4>1, <4>2
    <3>3. QED BY <3>1, <3>2
  <2>4. QED BY <2>2, <2>3
<1>10. Sound(h)
  BY <1>3, <1>6, <1>8, <1>9 DEF Sound
<1>11. \A q \in 1..g.runs : q \in EngineRuns
  <2>1. g.runs \in 0..MaxRuns /\ MaxRuns \in Nat
    BY <1>1, ConversationAssumption DEF Engines
  <2>2. QED BY <2>1 DEF EngineRuns
<1>12. \A q \in EngineRuns : Living(h, q) => Living(g, q)
  BY <1>3, <1>4 DEF Living
<1>13. Follows(g, h)
  <2>1. \A q \in 1..g.runs, k \in EngineSessions : g.home[q] = k /\ About(h.feed[k], q) = {} =>
          h.phase[q] = g.phase[q] /\ About(g.feed[k], q) = {}
    BY <1>4, <1>9, <1>11
  <2>2. QED BY <1>3, <1>11, <1>12, <2>1 DEF Follows
<1>14. QED BY <1>9, <1>10, <1>13 DEF h

\* The engine starts the next run, or none.
LEMMA StartNextFollows ==
  ASSUME NEW g, Sound(g), NEW k
  PROVE  Sound(StartNext(g, k)) /\ Follows(g, StartNext(g, k)) /\ StartNext(g, k).runs = g.runs
PROOF
<1>1. g \in Engines
  BY DEF Sound
<1>2. StartNext(g, k).runs = g.runs
  BY <1>1, StartNextKeeps
<1>3. CASE StartNext(g, k) = g
  BY <1>2, <1>3 DEF Follows
<1>4. ASSUME NEW r \in EngineRuns, StartNext(g, k) = Moved(g, r, "running", "run_started"),
             g.phase[r] = "queued"
      PROVE  Sound(StartNext(g, k)) /\ Follows(g, StartNext(g, k))
  <2>1. /\ "running" \in EnginePhases \ {"none"} /\ "run_started" \in EventTypes \ {"run_queued"}
        /\ Tells("run_started") = "running"
    BY DEF EnginePhases, EventTypes, Tells, Working
  <2>2. QED BY <1>4, <2>1, MovedFollows
<1>5. QED BY <1>1, <1>2, <1>3, <1>4, StartNextTypes

\* A submission makes one run, which is queued until an event says it goes on.
LEMMA SubmittedFollows ==
  ASSUME NEW g, Sound(g), g.runs < MaxRuns, NEW k \in EngineSessions, NEW e \in Executions
  PROVE  LET h == Submitted(g, k, e)
             r == g.runs + 1
         IN  /\ Sound(h) /\ Follows(g, h)
             /\ h.home[r] = k
             /\ About(h.feed[k], r) = {} => h.phase[r] = "queued"
PROOF
<1> DEFINE h == Submitted(g, k, e)
           r == g.runs + 1
           n == [g EXCEPT !.runs = r, !.home[r] = k, !.execution[r] = e]
           m == Moved(n, r, "queued", "run_queued")
           v == [run |-> r, type |-> "run_queued"]
<1>1. /\ g \in Engines /\ g.phase \in [EngineRuns -> EnginePhases]
      /\ g.feed \in [EngineSessions -> Seq(Events)] /\ g.runs \in 0..MaxRuns /\ MaxRuns \in Nat
      /\ g.home \in [EngineRuns -> {None} \cup EngineSessions]
  BY ConversationAssumption DEF Sound, Engines
<1>2. r \in EngineRuns /\ r \in 0..MaxRuns /\ r = g.runs + 1
  BY <1>1 DEF EngineRuns
<1> HIDE DEF r
<1>3. /\ n \in Engines /\ n.runs = r /\ n.phase = g.phase /\ n.feed = g.feed /\ n.halting = g.halting
      /\ n.home = [g.home EXCEPT ![r] = k]
  BY <1>1, <1>2 DEF Engines
<1> HIDE DEF n
<1>4. "queued" \in EnginePhases /\ "run_queued" \in EventTypes
  BY DEF EnginePhases, EventTypes
<1>5. /\ m \in Engines /\ m.runs = r /\ m.home = n.home /\ m.halting = g.halting
      /\ m.phase = Phased(g.phase, r, "queued")
      /\ m.feed = Told(g.feed, n.home[r], r, "run_queued")
  <2>1. /\ m \in Engines /\ m.runs = n.runs /\ m.home = n.home /\ m.halting = n.halting
        /\ m.phase = Phased(n.phase, r, "queued")
        /\ m.feed = Told(n.feed, n.home[r], r, "run_queued")
    <3>1. n \in Engines
      BY <1>3
    <3>2. QED BY <1>2, <1>4, <3>1, MovedTypes
  <2> HIDE DEF m
  <2>2. n.runs = r /\ n.phase = g.phase /\ n.feed = g.feed /\ n.halting = g.halting
    BY <1>3
  <2>3. QED BY <2>1, <2>2
<1> HIDE DEF m
<1>6. v \in Events /\ v.run = r /\ v.type = "run_queued"
  BY <1>2, <1>4 DEF Events
<1>7. /\ m.phase[r] = "queued" /\ \A q \in EngineRuns : q # r => m.phase[q] = g.phase[q]
      /\ m.home[r] = k /\ \A q \in EngineRuns : q # r => m.home[q] = g.home[q]
      /\ m.feed[k] = Append(g.feed[k], v)
      /\ \A x \in EngineSessions : x # k => m.feed[x] = g.feed[x]
  <2>1. m.home[r] = k /\ \A q \in EngineRuns : q # r => m.home[q] = g.home[q]
    BY <1>1, <1>2, <1>3, <1>5
  <2>2. m.phase[r] = "queued" /\ \A q \in EngineRuns : q # r => m.phase[q] = g.phase[q]
    BY <1>1, <1>2, <1>5 DEF Phased
  <2>3. m.feed[k] = Append(g.feed[k], v) /\ \A x \in EngineSessions : x # k => m.feed[x] = g.feed[x]
    BY <1>1, <1>5, <2>1 DEF Told
  <2>4. QED BY <2>1, <2>2, <2>3
<1> HIDE DEF v
<1>8. \A q \in 1..g.runs : q \in EngineRuns /\ q # r
  BY <1>1, <1>2 DEF EngineRuns
<1>9. g.phase[r] = "none"
  BY <1>1, <1>2 DEF Sound
<1>10. ASSUME NEW q \in EngineRuns, NEW x \in EngineSessions
       PROVE  About(m.feed[x], q) = About(g.feed[x], q)
  <2>1. CASE x # k
    BY <1>7, <2>1
  <2>2. CASE x = k
    <3>1. g.feed[k] \in Seq(Events)
      BY <1>1
    <3>2. About(Append(g.feed[k], v), q) = About(g.feed[k], q)
      BY <1>6, <3>1, AppendTells
    <3>3. QED BY <1>7, <2>2, <3>2
  <2>3. QED BY <2>1, <2>2
<1>11. \A x \in EngineSessions : \A i \in DOMAIN g.feed[x] :
         g.feed[x][i].run \in EngineRuns /\ g.feed[x][i].run <= g.runs /\ g.feed[x][i].run # r
  <2>1. SUFFICES ASSUME NEW x \in EngineSessions, NEW i \in DOMAIN g.feed[x]
                 PROVE  /\ g.feed[x][i].run \in EngineRuns /\ g.feed[x][i].run <= g.runs
                        /\ g.feed[x][i].run # r
    OBVIOUS
  <2>2. g.feed[x] \in Seq(Events)
    BY <1>1
  <2>3. g.feed[x][i] \in Events
    BY <2>2
  <2>4. g.feed[x][i].run \in EngineRuns
    BY <2>3 DEF Events
  <2>5. g.feed[x][i].run <= g.runs
    BY DEF Sound, Known
  <2>6. QED BY <1>1, <1>2, <2>4, <2>5 DEF EngineRuns
<1>12. \A x \in EngineSessions : About(g.feed[x], r) = {}
  BY <1>11 DEF About
<1>13. Sound(m)
  <2>1. \A q \in EngineRuns : m.phase[q] = "none" <=> q > m.runs
    <3>1. SUFFICES ASSUME NEW q \in EngineRuns PROVE m.phase[q] = "none" <=> q > r
      BY <1>5
    <3>2. q \in Nat /\ g.runs \in Nat
      BY <1>1 DEF EngineRuns
    <3>3. g.phase[q] = "none" <=> q > g.runs
      BY DEF Sound
    <3>4. CASE q = r
      BY <1>2, <1>7, <3>2, <3>4
    <3>5. CASE q # r
      BY <1>2, <1>7, <3>2, <3>3, <3>5
    <3>6. QED BY <3>4, <3>5
  <2>2. \A x \in EngineSessions : \A i \in DOMAIN g.feed[x] : Known(m, g.feed[x][i])
    <3>1. SUFFICES ASSUME NEW x \in EngineSessions, NEW i \in DOMAIN g.feed[x]
                   PROVE  Known(m, g.feed[x][i])
      OBVIOUS
    <3>2. Known(g, g.feed[x][i])
      BY DEF Sound
    <3>3. g.feed[x][i].run \in Nat
      BY <1>11 DEF EngineRuns
    <3>4. QED BY <1>1, <1>2, <1>5, <1>7, <1>11, <3>2, <3>3 DEF Known
  <2>3. Known(m, v)
    BY <1>2, <1>5, <1>6 DEF Known, TerminalStates, EngineRuns
  <2>4. ASSUME NEW x \in EngineSessions, NEW i \in DOMAIN m.feed[x] PROVE Known(m, m.feed[x][i])
    <3>1. CASE x # k
      BY <1>7, <2>2, <2>4, <3>1
    <3>2. CASE x = k
      <4>1. g.feed[k] \in Seq(Events)
        BY <1>1
      <4>2. \A j \in DOMAIN Append(g.feed[k], v) :
              Append(g.feed[k], v)[j] = v \/ \E y \in DOMAIN g.feed[k] : Append(g.feed[k], v)[j] = g.feed[k][y]
        BY <1>6, <4>1, AppendTells
      <4>3. m.feed[x][i] = v \/ \E y \in DOMAIN g.feed[k] : m.feed[x][i] = g.feed[k][y]
        <5>1. m.feed[x] = Append(g.feed[k], v)
          BY <1>7, <3>2
        <5>2. i \in DOMAIN Append(g.feed[k], v)
          BY <2>4, <5>1
        <5>3. QED BY <4>2, <5>1, <5>2
      <4>4. QED BY <2>2, <2>3, <3>2, <4>3
    <3>3. QED BY <3>1, <3>2
  <2>5. ASSUME NEW q \in EngineRuns, NEW x \in EngineSessions, m.home[q] = x
        PROVE  Truthful(m.feed[x], q, m.phase[q])
    <3>1. CASE q = r
      BY <1>10, <1>12, <3>1 DEF Truthful
    <3>2. CASE q # r
      <4>1. Truthful(g.feed[x], q, g.phase[q])
        BY <1>7, <2>5, <3>2 DEF Sound
      <4>2. CASE x # k
        BY <1>7, <3>2, <4>1, <4>2
      <4>3. CASE x = k
        <5>1. g.feed[k] \in Seq(Events)
          BY <1>1
        <5>2. Truthful(Append(g.feed[k], v), q, g.phase[q])
          BY <1>6, <4>1, <4>3, <5>1, AppendTells
        <5>3. QED BY <1>7, <3>2, <4>3, <5>2
      <4>4. QED BY <4>2, <4>3
    <3>3. QED BY <3>1, <3>2
  <2>6. QED BY <1>5, <2>1, <2>4, <2>5 DEF Sound
<1>14. Follows(g, m)
  <2>1. \A q \in 1..g.runs : m.home[q] = g.home[q] /\ (Living(m, q) => Living(g, q))
    BY <1>5, <1>7, <1>8 DEF Living
  <2>2. \A q \in 1..g.runs, x \in EngineSessions : g.home[q] = x /\ About(m.feed[x], q) = {} =>
          m.phase[q] = g.phase[q] /\ About(g.feed[x], q) = {}
    BY <1>7, <1>8, <1>10
  <2>3. QED BY <1>5, <2>1, <2>2 DEF Follows
<1>15. Sound(StartNext(m, k)) /\ Follows(m, StartNext(m, k)) /\ StartNext(m, k).runs = m.runs
  BY <1>13, StartNextFollows
<1>16. h = StartNext(m, k)
  BY DEF Submitted, m, n, r
<1> HIDE DEF h
<1>17. Follows(g, h)
  <2>1. g.runs \in Nat /\ m.runs \in Nat /\ g.runs <= m.runs
    BY <1>1, <1>2, <1>5
  <2>2. QED BY <1>14, <1>15, <1>16, <2>1, FollowsOn
<1>18. r \in 1..m.runs
  BY <1>2, <1>5 DEF EngineRuns
<1>19. h.home[r] = k /\ (About(h.feed[k], r) = {} => h.phase[r] = "queued")
  BY <1>7, <1>15, <1>16, <1>18 DEF Follows
<1>20. QED BY <1>15, <1>16, <1>17, <1>19 DEF h, r

\* A control of a run that was made: one that is stopped is told to halt or ends with
\* an event, an approval or an answer that is waited for says so.
LEMMA ControlledFollows ==
  ASSUME NEW g, Sound(g), NEW r \in EngineRuns, r <= g.runs, NEW action \in ControlKinds
  PROVE  LET h == Controlled(g, r, action)
         IN  /\ Sound(h) /\ Follows(g, h)
             /\ action = "stop" => ~Living(h, r)
             /\ \A k \in EngineSessions : g.home[r] = k /\ About(h.feed[k], r) = {} =>
                  /\ action = "stop" /\ g.phase[r] \notin TerminalStates => r \in h.halting
                  /\ action \in {"approve", "resume"} => g.phase[r] # "waiting_approval"
                  /\ action = "answer" => g.phase[r] # "waiting_user_input"
PROOF
<1> DEFINE h == Controlled(g, r, action)
<1>1. /\ g \in Engines /\ g.phase \in [EngineRuns -> EnginePhases] /\ r \in Nat /\ g.runs \in Nat
      /\ g.phase[r] \in EnginePhases /\ g.phase[r] # "none"
  <2>1. /\ g \in Engines /\ g.phase \in [EngineRuns -> EnginePhases] /\ r \in Nat /\ g.runs \in Nat
        /\ g.phase[r] \in EnginePhases
    <3>1. g \in Engines
      BY DEF Sound
    <3>2. g.phase \in [EngineRuns -> EnginePhases] /\ g.runs \in 0..MaxRuns
      BY <3>1 DEF Engines
    <3>3. r \in Nat /\ g.runs \in Nat
      BY <3>2, ConversationAssumption DEF EngineRuns
    <3>4. QED BY <3>1, <3>2, <3>3
  <2>2. g.phase[r] = "none" <=> r > g.runs
    BY DEF Sound
  <2>3. QED BY <2>1, <2>2
<1>2. /\ {"cancelled", "running"} \subseteq EnginePhases \ {"none"}
      /\ {"cancelled", "resolved", "answered"} \subseteq EventTypes \ {"run_queued"}
      /\ Tells("cancelled") = "cancelled" /\ Tells("resolved") = "running" /\ Tells("answered") = "running"
  BY DEF EnginePhases, EventTypes, Tells, TerminalStates, Working
<1>3. CASE action \in {"stop", "deny"} /\ g.phase[r] = "queued"
  <2>1. h = Moved(g, r, "cancelled", "cancelled")
    BY <1>3 DEF Controlled
  <2>2. /\ Sound(h) /\ Follows(g, h)
        /\ \A k \in EngineSessions : g.home[r] = k => About(h.feed[k], r) # {}
    BY <1>2, <1>3, <2>1, MovedFollows
  <2>3. h.phase = Phased(g.phase, r, "cancelled")
    BY <1>1, <1>2, <2>1, MovedTypes
  <2> HIDE DEF h
  <2>4. ~Living(h, r)
    BY <1>1, <2>3 DEF Living, Phased, Working, Waiting
  <2>5. QED BY <2>2, <2>4 DEF h
<1>4. CASE action \in {"stop", "deny"} /\ g.phase[r] \in Working
  <2>1. h = [g EXCEPT !.halting = @ \cup {r}]
    BY <1>4 DEF Controlled, Working, Waiting
  <2>2. /\ h \in Engines /\ h.runs = g.runs /\ h.home = g.home /\ h.phase = g.phase
        /\ h.feed = g.feed /\ h.halting = g.halting \cup {r}
    BY <1>1, <2>1 DEF Engines
  <2> HIDE DEF h
  <2>3. Sound(h)
    BY <2>2 DEF Sound, Known
  <2>4. Follows(g, h) /\ ~Living(h, r) /\ r \in h.halting
    BY <2>2 DEF Follows, Living
  <2>5. QED BY <1>4, <2>3, <2>4 DEF h
<1>5. CASE action \in {"stop", "deny"} /\ g.phase[r] \notin {"queued"} \cup Working
  <2>1. h = g
    BY <1>5 DEF Controlled
  <2>2. g.phase[r] \in TerminalStates /\ ~Living(g, r)
    BY <1>1, <1>5 DEF EnginePhases, Living
  <2> HIDE DEF h
  <2>3. QED BY <1>5, <2>1, <2>2, FollowsItself DEF h
<1>6. ASSUME action \notin {"stop", "deny"},
             \/ action \in {"approve", "resume"} /\ g.phase[r] = "waiting_approval"
             \/ action = "answer" /\ g.phase[r] = "waiting_user_input"
      PROVE  /\ Sound(h) /\ Follows(g, h)
             /\ \A k \in EngineSessions : g.home[r] = k => About(h.feed[k], r) # {}
  <2>1. h \in {Moved(g, r, "running", "answered"), Moved(g, r, "running", "resolved")}
    BY <1>6 DEF Controlled
  <2>2. g.phase[r] \in {"queued"} \cup Working
    BY <1>6 DEF Working, Waiting
  <2> HIDE DEF h
  <2>3. CASE h = Moved(g, r, "running", "answered")
    BY <1>2, <2>2, <2>3, MovedFollows
  <2>4. CASE h = Moved(g, r, "running", "resolved")
    BY <1>2, <2>2, <2>4, MovedFollows
  <2>5. QED BY <2>1, <2>3, <2>4
<1>7. ASSUME action \notin {"stop", "deny"},
             ~(\/ action \in {"approve", "resume"} /\ g.phase[r] = "waiting_approval"
               \/ action = "answer" /\ g.phase[r] = "waiting_user_input")
      PROVE  h = g
  BY <1>7 DEF Controlled
<1>8. CASE action \notin {"stop", "deny"}
  <2> HIDE DEF h
  <2>1. QED BY <1>6, <1>7, <1>8, FollowsItself DEF h
<1>9. QED BY <1>3, <1>4, <1>5, <1>8

\* A run that asks, reports a wait as over, or ends.
LEMMA EngineStepFollows ==
  ASSUME Sound(engine), NEW r \in EngineRuns, EngineStep(r)
  PROVE  Sound(engine') /\ Follows(engine, engine')
PROOF
<1>1. engine \in Engines /\ engine.runs \in Nat
  BY DEF Sound, Engines
<1>2. CASE Asks(r)
  <2>1. PICK wait \in Waiting : engine' = [Moved(engine, r, wait, wait) EXCEPT !.waits = @ + 1]
    BY <1>2 DEF Asks
  <2>2. /\ wait \in EnginePhases \ {"none"} /\ wait \in EventTypes \ {"run_queued"} /\ Tells(wait) = wait
        /\ engine.phase[r] \in {"queued"} \cup Working
    BY <1>2 DEF Asks, EnginePhases, EventTypes, Working, Waiting, Tells
  <2> DEFINE m == Moved(engine, r, wait, wait)
  <2>3. Sound(m) /\ Follows(engine, m) /\ m \in Engines
    BY <2>2, MovedFollows DEF Sound
  <2> HIDE DEF m
  <2>4. engine' = [m EXCEPT !.waits = @ + 1]
    BY <2>1 DEF m
  <2>5. /\ engine' \in Engines /\ engine'.runs = m.runs /\ engine'.home = m.home /\ engine'.phase = m.phase
        /\ engine'.feed = m.feed /\ engine'.halting = m.halting
    <3>1. m \in Engines /\ m.waits \in Nat /\ m.waits + 1 \in Nat
      BY <2>3 DEF Engines
    <3>2. engine' = [m EXCEPT !.waits = m.waits + 1]
      BY <2>4
    <3>3. engine' \in Engines
      BY <3>1, <3>2 DEF Engines
    <3>4. QED BY <3>1, <3>2, <3>3 DEF Engines
  <2>6. Sound(engine')
    BY <2>3, <2>5 DEF Sound, Known
  <2>7. Follows(engine, engine')
    BY <2>3, <2>5 DEF Follows, Living
  <2>8. QED BY <2>6, <2>7
<1>3. CASE Resolves(r)
  <2>1. /\ "running" \in EnginePhases \ {"none"} /\ "resolved" \in EventTypes \ {"run_queued"}
        /\ Tells("resolved") = "running" /\ engine.phase[r] \in {"queued"} \cup Working
        /\ engine' = Moved(engine, r, "running", "resolved")
    BY <1>3 DEF Resolves, EnginePhases, EventTypes, Working, Waiting, Tells
  <2>2. QED BY <2>1, MovedFollows
<1>4. CASE Ends(r)
  <2>1. PICK end \in TerminalStates : engine' = StartNext(Moved(engine, r, end, end), engine.home[r])
    BY <1>4 DEF Ends, TerminalStates
  <2>2. /\ end \in EnginePhases \ {"none"} /\ end \in EventTypes \ {"run_queued"} /\ Tells(end) = end
        /\ engine.phase[r] \in {"queued"} \cup Working
    BY <1>4 DEF Ends, EnginePhases, EventTypes, Working, TerminalStates, Tells
  <2> DEFINE m == Moved(engine, r, end, end)
  <2>3. Sound(m) /\ Follows(engine, m) /\ m.runs = engine.runs
    BY <1>1, <2>2, MovedFollows, MovedTypes
  <2>4. Sound(StartNext(m, engine.home[r])) /\ Follows(m, StartNext(m, engine.home[r]))
    <3> HIDE DEF m
    <3> QED BY <2>3, StartNextFollows
  <2> HIDE DEF m
  <2>5. engine' = StartNext(m, engine.home[r])
    BY <2>1 DEF m
  <2>6. Follows(engine, engine')
    <3>1. m.runs \in Nat /\ engine.runs <= m.runs
      BY <1>1, <2>3
    <3>2. QED BY <1>1, <2>3, <2>4, <2>5, <3>1, FollowsOn
  <2>7. QED BY <2>4, <2>5, <2>6
<1>5. QED BY <1>2, <1>3, <1>4 DEF EngineStep
-------------------------------------------------------------------------------
(* The order of dispatch.                                                     *)

\* The engine has its runs in the order of the prompts.
Ordered(g) == \A r, q \in 1..g.runs : r < q => g.execution[r] <= g.execution[q]

\* What is still to be submitted is the active execution, which no run is ahead of.
OwedIsActive(th, a, g) ==
  \A t \in Threads, e \in Executions : Owes(th[t], e) =>
    a = e /\ \A r \in 1..g.runs : g.execution[r] <= e

\* A handler binds the run it made, and a bound run is the execution's.
BindsOwn(q, g) ==
  \A i \in DOMAIN q : q[i].call = "submit" /\ q[i].at = "bind" =>
    q[i].run \in 1..g.runs /\ g.execution[q[i].run] = q[i].e
Bound(rho, g) ==
  \A e \in Executions : rho[e] # None => rho[e] \in 1..g.runs /\ g.execution[rho[e]] = e

OrderInv ==
  /\ QueueInv
  /\ Ordered(engine)
  /\ OwedIsActive(threads, active, engine)
  /\ \A t \in Threads : BindsOwn(threads[t], engine)
  /\ Bound(runOf, engine)

\* The parts of the state most steps need the types of.
LEMMA PatientTypes ==
  ASSUME QueueInv
  PROVE  /\ engine \in Engines /\ engine.runs \in 0..MaxRuns /\ engine.runs \in Nat /\ MaxRuns \in Nat
         /\ engine.execution \in [EngineRuns -> {None} \cup Executions]
         /\ \A r \in 1..engine.runs : r \in EngineRuns
         /\ threads \in [Threads -> Seq(Ops)]
         /\ runOf \in [Executions -> {None} \cup EngineRuns]
         /\ state \in [Executions -> ExecutionStates]
         /\ active \in {None} \cup Executions
PROOF
<1>1. engine \in Engines /\ MaxRuns \in Nat
  BY ConversationAssumption DEF QueueInv, ConversationTypes
<1>2. engine.runs \in 0..MaxRuns /\ engine.execution \in [EngineRuns -> {None} \cup Executions]
  BY <1>1 DEF Engines
<1>3. \A r \in 1..engine.runs : r \in EngineRuns
  BY <1>1, <1>2 DEF EngineRuns
<1>4. QED BY <1>1, <1>2, <1>3 DEF QueueInv, ConversationTypes

\* Without restarts an execution has one run, or one submission is owed for it.
LEMMA PaidOnce ==
  ASSUME "restart" \notin Calls, QueueInv, NEW e \in Executions
  PROVE  /\ \A r, q \in RunsFor(engine, e) : r = q
         /\ \A t, u \in Owing(threads, e) : t = u
         /\ Owing(threads, e) # {} => RunsFor(engine, e) = {}
PROOF
<1>1. engine.runs \in Nat /\ calls \in Seq(Calls)
  BY PatientTypes DEF QueueInv, ConversationTypes
<1>2. Restarts(calls) = {}
  <2>1. \A i \in DOMAIN calls : calls[i] \in Calls
    BY <1>1
  <2>2. QED BY <2>1 DEF Restarts
<1> DEFINE R == RunsFor(engine, e)
           O == Owing(threads, e)
<1>3. /\ IsFiniteSet(R) /\ Cardinality(R) \in Nat /\ IsFiniteSet(O) /\ Cardinality(O) \in Nat
  BY <1>1, RunsForIsFinite, OwingIsFinite
<1>4. Cardinality(R) + Cardinality(O) <= 1
  <2>1. Cardinality(R) + Cardinality(O) <= 1 + Cardinality(Restarts(calls))
    BY DEF QueueInv, Paid
  <2>2. Cardinality(Restarts(calls)) = 0
    BY <1>2, FS_EmptySet
  <2>3. QED BY <1>3, <2>1, <2>2
<1> HIDE DEF R, O
<1>5. ASSUME NEW S, IsFiniteSet(S), Cardinality(S) \in Nat, Cardinality(S) <= 1, NEW x \in S, NEW y \in S
      PROVE  x = y
  <2>1. SUFFICES ASSUME x # y PROVE FALSE
    OBVIOUS
  <2>2. IsFiniteSet({x}) /\ Cardinality({x}) = 1
    BY FS_Singleton
  <2>3. IsFiniteSet({x} \cup {y}) /\ Cardinality({x} \cup {y}) = 2
    <3>1. Cardinality({x} \cup {y}) = IF y \in {x} THEN Cardinality({x}) ELSE Cardinality({x}) + 1
      BY <2>2, FS_AddElement
    <3>2. IsFiniteSet({x} \cup {y})
      BY <2>2, FS_AddElement
    <3>3. QED BY <2>1, <2>2, <3>1, <3>2
  <2>4. {x} \cup {y} \in SUBSET S
    BY <1>5
  <2>5. Cardinality({x} \cup {y}) <= Cardinality(S)
    BY <1>5, <2>4, FS_Subset
  <2>6. QED BY <1>5, <2>3, <2>5
<1>6. \A r, q \in R : r = q
  BY <1>3, <1>4, <1>5
<1>7. \A t, u \in O : t = u
  BY <1>3, <1>4, <1>5
<1>8. ASSUME O # {} PROVE R = {}
  <2>1. Cardinality(O) # 0
    BY <1>3, <1>8, FS_EmptySet
  <2>2. Cardinality(R) = 0
    BY <1>3, <1>4, <2>1
  <2>3. QED BY <1>3, <2>2, FS_EmptySet
<1>9. QED BY <1>6, <1>7, <1>8 DEF R, O

\* So a submission is owed by one handler at most, for an execution that has no run yet.
LEMMA OwedOnce ==
  ASSUME "restart" \notin Calls, OrderInv, NEW t \in Threads, NEW e \in Executions, Owes(threads[t], e)
  PROVE  /\ RunsFor(engine, e) = {} /\ runOf[e] = None /\ active = e
         /\ \A u \in Threads, f \in Executions : Owes(threads[u], f) => u = t /\ f = e
PROOF
<1>1. QueueInv /\ t \in Owing(threads, e)
  BY DEF OrderInv, Owing
<1>2. RunsFor(engine, e) = {}
  BY <1>1, PaidOnce
<1>3. active = e
  BY DEF OrderInv, OwedIsActive
<1>4. runOf[e] = None
  BY <1>2 DEF OrderInv, Bound, RunsFor
<1>5. ASSUME NEW u \in Threads, NEW f \in Executions, Owes(threads[u], f) PROVE u = t /\ f = e
  <2>1. f = e
    BY <1>3, <1>5 DEF OrderInv, OwedIsActive
  <2>2. u \in Owing(threads, e)
    BY <1>5, <2>1 DEF Owing
  <2>3. QED BY <1>1, <2>1, <2>2, PaidOnce
<1>6. QED BY <1>2, <1>3, <1>4, <1>5

\* No run is for an execution from which on nothing was submitted.
LEMMA RunsAreBefore ==
  ASSUME QueueInv, NEW n \in Executions, \A f \in Executions : f >= n => Behind(prompts, state, f)
  PROVE  \A r \in 1..engine.runs : engine.execution[r] < n
PROOF
<1>1. SUFFICES ASSUME NEW r \in 1..engine.runs PROVE engine.execution[r] < n
  OBVIOUS
<1>2. r \in EngineRuns /\ engine.execution[r] \in {None} \cup Executions
  BY PatientTypes
<1>3. n \in Nat /\ n > None /\ \A f \in Executions : f \in Nat
  BY DEF Executions, None
<1>4. CASE engine.execution[r] = None
  BY <1>3, <1>4
<1>5. CASE engine.execution[r] \in Executions /\ engine.execution[r] >= n
  <2>1. PICK f \in Executions : f = engine.execution[r] /\ f >= n
    BY <1>5
  <2>2. RunsFor(engine, f) = {}
    BY <2>1 DEF QueueInv, Untouched
  <2>3. r \in RunsFor(engine, f)
    BY <2>1 DEF RunsFor
  <2>4. QED BY <2>2, <2>3
<1>6. engine.execution[r] \in Nat /\ n \in Nat
  BY <1>2 DEF Executions, None
<1>7. engine.execution[r] \in Executions => engine.execution[r] < n
  BY <1>5, <1>6
<1>8. QED BY <1>2, <1>4, <1>7

\* A thread that finishes a call or goes on with it binds only what it made.
LEMMA ListBinds ==
  ASSUME NEW q \in Seq(Ops), q # <<>>, NEW g, BindsOwn(q, g)
  PROVE  /\ BindsOwn(Tail(q), g)
         /\ \A op \in Ops : (op.at = "bind" => op.run \in 1..g.runs /\ g.execution[op.run] = op.e) =>
              BindsOwn(<<op>> \o Tail(q), g)
PROOF
<1>1. /\ Len(q) \in Nat \ {0} /\ DOMAIN q = 1..Len(q) /\ Tail(q) \in Seq(Ops) /\ Len(Tail(q)) = Len(q) - 1
      /\ DOMAIN Tail(q) = 1..Len(Tail(q)) /\ \A i \in 1..(Len(q) - 1) : Tail(q)[i] = q[i + 1]
  OBVIOUS
<1>2. \A i \in 1..(Len(q) - 1) : i + 1 \in DOMAIN q
  BY <1>1
<1>3. BindsOwn(Tail(q), g)
  BY <1>1, <1>2 DEF BindsOwn
<1>4. ASSUME NEW op \in Ops, op.at = "bind" => op.run \in 1..g.runs /\ g.execution[op.run] = op.e
      PROVE  BindsOwn(<<op>> \o Tail(q), g)
  <2> DEFINE a == <<op>>  b == Tail(q)  w == a \o b
  <2>1. a \in Seq(Ops) /\ Len(a) = 1 /\ a[1] = op
    OBVIOUS
  <2>2. b \in Seq(Ops) /\ Len(b) \in Nat /\ BindsOwn(b, g) /\ DOMAIN b = 1..Len(b)
    BY <1>1, <1>3
  <2> HIDE DEF a, b
  <2>3. /\ w \in Seq(Ops) /\ Len(w) = Len(a) + Len(b)
        /\ \A i \in 1..(Len(a) + Len(b)) : w[i] = IF i <= Len(a) THEN a[i] ELSE b[i - Len(a)]
    BY <2>1, <2>2, ConcatProperties
  <2> HIDE DEF w
  <2>4. ASSUME NEW i \in DOMAIN w PROVE w[i] = op \/ \E j \in DOMAIN b : w[i] = b[j]
    <3>1. i \in 1..(Len(a) + Len(b)) /\ i \in Nat
      BY <2>1, <2>2, <2>3, <2>4
    <3>2. CASE i <= Len(a)
      BY <2>1, <2>3, <3>1, <3>2
    <3>3. CASE ~(i <= Len(a))
      <4>1. i - Len(a) \in DOMAIN b
        BY <2>1, <2>2, <3>1, <3>3
      <4>2. QED BY <2>3, <3>1, <3>3, <4>1
    <3>4. QED BY <3>2, <3>3
  <2>5. BindsOwn(w, g)
    BY <1>4, <2>2, <2>4 DEF BindsOwn
  <2>6. QED BY <2>5 DEF a, b, w
<1>5. QED BY <1>3, <1>4
-------------------------------------------------------------------------------

\* What a handler starts with has not begun; the cancellation comes first.
LEMMA NewListsWait ==
  ASSUME NEW e \in {None} \cup Executions, NEW before, NEW f,
         before = <<>> \/ (f \in Executions /\ before = <<Op("stop", f)>>)
  PROVE  LET q == before \o SubmitOf(e)
         IN  /\ \A i \in DOMAIN q : \/ before # <<>> /\ q[i] = Op("stop", f)
                                    \/ e # None /\ q[i] = Op("submit", e)
             /\ before # <<>> => 1 \in DOMAIN q /\ q[1] = Op("stop", f)
             /\ before = <<>> => q = SubmitOf(e)
PROOF
<1> DEFINE b == SubmitOf(e)
           q == before \o b
<1>1. /\ before \in Seq(Ops) /\ Len(before) \in {0, 1}
      /\ before # <<>> => Len(before) = 1 /\ before[1] = Op("stop", f)
      /\ before = <<>> => Len(before) = 0
  <2>1. CASE before = <<>>
    BY <2>1
  <2>2. CASE f \in Executions /\ before = <<Op("stop", f)>>
    <3>1. Op("stop", f) \in Ops
      BY <2>2 DEF Ops, Op, Stages, ControlKinds, None
    <3>2. before \in Seq(Ops) /\ Len(before) = 1 /\ before[1] = Op("stop", f) /\ before # <<>>
      BY <2>2, <3>1
    <3>3. QED BY <3>2
  <2>3. QED BY <2>1, <2>2
<1>2. /\ b \in Seq(Ops) /\ Len(b) \in {0, 1} /\ \A i \in 1..Len(b) : e # None /\ b[i] = Op("submit", e)
  <2>1. CASE e = None
    BY <2>1 DEF SubmitOf
  <2>2. CASE e # None
    <3>1. b = <<Op("submit", e)>> /\ Op("submit", e) \in Ops
      BY <2>2 DEF SubmitOf, Ops, Op, Stages, None
    <3>2. Len(b) = 1 /\ b[1] = Op("submit", e) /\ b \in Seq(Ops)
      BY <3>1
    <3>3. QED BY <2>2, <3>2
  <2>3. QED BY <2>1, <2>2
<1>3. before = <<>> => q = b
  BY <1>2
<1> HIDE DEF b
<1>4. /\ q \in Seq(Ops) /\ Len(q) = Len(before) + Len(b)
      /\ \A i \in 1..Len(q) : q[i] = IF i <= Len(before) THEN before[i] ELSE b[i - Len(before)]
  BY <1>1, <1>2, ConcatProperties
<1> HIDE DEF q
<1>5. ASSUME NEW i \in DOMAIN q
      PROVE  (before # <<>> /\ q[i] = Op("stop", f)) \/ (e # None /\ q[i] = Op("submit", e))
  <2>1. i \in 1..Len(q)
    BY <1>4
  <2>2. CASE i <= Len(before)
    <3>1. Len(before) = 1 /\ i = 1 /\ before # <<>>
      <4>1. i >= 1 /\ i \in Int
        BY <1>1, <1>2, <1>4, <2>1
      <4>2. Len(before) = 1
        BY <1>1, <2>2, <4>1
      <4>3. QED BY <1>1, <2>2, <4>1, <4>2
    <3>2. QED BY <1>1, <1>4, <2>1, <2>2, <3>1
  <2>3. CASE ~(i <= Len(before))
    <3>1. i - Len(before) \in 1..Len(b)
      BY <1>1, <1>2, <1>4, <2>1, <2>3
    <3>2. QED BY <1>2, <1>4, <2>1, <2>3, <3>1
  <2>4. QED BY <2>2, <2>3
<1>6. ASSUME before # <<>> PROVE 1 \in DOMAIN q /\ q[1] = Op("stop", f)
  <2>1. 1 \in 1..Len(q) /\ 1 <= Len(before)
    BY <1>1, <1>2, <1>4, <1>6
  <2>2. QED BY <1>1, <1>4, <1>6, <2>1
<1>7. QED BY <1>3, <1>5, <1>6 DEF q, b

\* What passing on leaves: the thread makes the calls before and submits the next
\* execution, which every run of the engine is before.
PassesOn(t, s, before, d) ==
  \E q \in Seq(Ops), next \in {None} \cup Executions :
    /\ threads' = [threads EXCEPT ![t] = q] /\ active' = next
    /\ \A x \in Executions : Owes(q, x) => x = next
    /\ \A i \in DOMAIN q : \/ before # <<>> /\ q[i] = Op("stop", d)
                           \/ next # None /\ q[i] = Op("submit", next)
    /\ before # <<>> => 1 \in DOMAIN q /\ q[1] = Op("stop", d)
    /\ next # None => /\ state[next] = "queued" /\ state' = [s EXCEPT ![next] = "pending"]
                      /\ \A r \in 1..engine.runs : engine.execution[r] < next
                      /\ runOf[next] = None
    /\ next = None => state' = s

\* Advance passes on.
LEMMA AdvanceTells ==
  ASSUME QueueInv, NEW t \in Threads, NEW s \in [Executions -> ExecutionStates],
         NEW before, NEW d, before = <<>> \/ (d \in Executions /\ before = <<Op("stop", d)>>),
         Advance(t, s, before, <<>>),
         \A e \in Executions : s[e] = "queued" => state[e] = "queued"
  PROVE  PassesOn(t, s, before, d)
PROOF
<1> DEFINE next == NextQueued(s)
           q == before \o SubmitOf(next)
<1>1. ConversationTypes /\ Orderly(prompts, order, state)
  BY DEF QueueInv
<1>2. \/ next = None
      \/ next \in Executions /\ s[next] = "queued"
  BY <1>1, NextQueuedIsFirst
<1>3. /\ q \in Seq(Ops)
      /\ \A x : Owes(q, x) => x = next
      /\ \A i \in DOMAIN q : \/ before # <<>> /\ q[i] = Op("stop", d)
                             \/ next # None /\ q[i] = Op("submit", next)
      /\ before # <<>> => 1 \in DOMAIN q /\ q[1] = Op("stop", d)
  <2>1. next \in {None} \cup Executions
    BY <1>2
  <2> HIDE DEF next
  <2>2. QED BY <2>1, NewLists, NewListsWait
<1>4. threads' = [threads EXCEPT ![t] = q]
  <2>1. threads' = [threads EXCEPT ![t] = q \o <<>>]
    BY DEF Advance
  <2>2. q \o <<>> = q
    BY <1>3, ConcatEmptySeq
  <2>3. QED BY <2>1, <2>2
<1>5. state' = Promoted(s, next) /\ active' = next
  BY DEF Advance
<1> HIDE DEF q, next
<1>6. ASSUME next # None
      PROVE  /\ state[next] = "queued" /\ state' = [s EXCEPT ![next] = "pending"]
             /\ \A r \in 1..engine.runs : engine.execution[r] < next
             /\ runOf[next] = None
  <2>1. next \in Executions /\ state[next] = "queued"
    BY <1>2, <1>6
  <2>2. \A f \in Executions : f >= next => Behind(prompts, state, f)
    BY <2>1 DEF Behind, Executions
  <2>3. runOf[next] = None
    BY <2>1, <2>2 DEF QueueInv, Untouched, Executions
  <2>4. QED BY <1>5, <1>6, <2>1, <2>2, <2>3, RunsAreBefore DEF Promoted
<1>7. next = None => state' = s
  BY <1>5 DEF Promoted
<1>8. next \in {None} \cup Executions /\ \A x \in Executions : Owes(q, x) => x = next
  BY <1>2, <1>3
<1>9. QED BY <1>3, <1>4, <1>5, <1>6, <1>7, <1>8 DEF PassesOn

\* A step that makes no run keeps the order, if what is owed after it is the active
\* execution's and was owed before or is ahead of every run.
LEMMA OrderKept ==
  ASSUME OrderInv, QueueInv', engine'.runs = engine.runs, engine'.execution = engine.execution,
         \A t \in Threads, e \in Executions : Owes(threads'[t], e) =>
           /\ active' = e
           /\ (\E u \in Threads : Owes(threads[u], e)) \/ \A r \in 1..engine.runs : engine.execution[r] <= e,
         \A t \in Threads : BindsOwn(threads'[t], engine),
         Bound(runOf', engine)
  PROVE  OrderInv'
PROOF
<1>1. Ordered(engine')
  BY DEF OrderInv, Ordered
<1>2. OwedIsActive(threads', active', engine')
  BY DEF OrderInv, OwedIsActive
<1>3. (\A t \in Threads : BindsOwn(threads'[t], engine')) /\ Bound(runOf', engine')
  BY DEF BindsOwn, Bound
<1>4. QED BY <1>1, <1>2, <1>3 DEF OrderInv

\* Most calls only take something off the lists.
LEMMA CalmOrder ==
  ASSUME OrderInv, QueueInv', Calm, active' = active,
         engine'.runs = engine.runs, engine'.execution = engine.execution,
         \A t \in Threads : BindsOwn(threads'[t], engine),
         Bound(runOf', engine)
  PROVE  OrderInv'
PROOF
<1>1. ASSUME NEW t \in Threads, NEW e \in Executions, Owes(threads'[t], e)
      PROVE  active' = e /\ \E u \in Threads : Owes(threads[u], e)
  <2>1. Owes(threads[t], e)
    BY <1>1 DEF Calm
  <2>2. active = e
    BY <2>1 DEF OrderInv, OwedIsActive
  <2>3. QED BY <2>1, <2>2
<1>2. QED BY <1>1, OrderKept

\* A list that has not begun binds nothing.
LEMMA WaitingBinds ==
  ASSUME NEW q, NEW g, \A i \in DOMAIN q : q[i].at = "check"
  PROVE  BindsOwn(q, g)
BY DEF BindsOwn

\* The bindings after a call is finished or goes on.
LEMMA StepsBind ==
  ASSUME OrderInv, NEW t \in Threads, threads[t] # <<>>
  PROVE  /\ Finishes(t) => \A u \in Threads : BindsOwn(threads'[u], engine)
         /\ \A op \in Ops : op.at # "bind" /\ GoesOn(t, op) => \A u \in Threads : BindsOwn(threads'[u], engine)
PROOF
<1>1. /\ threads \in [Threads -> Seq(Ops)] /\ threads[t] \in Seq(Ops)
      /\ \A u \in Threads : BindsOwn(threads[u], engine)
  BY PatientTypes DEF OrderInv
<1>2. /\ BindsOwn(Tail(threads[t]), engine)
      /\ \A op \in Ops : op.at # "bind" => BindsOwn(<<op>> \o Tail(threads[t]), engine)
  BY <1>1, ListBinds
<1>3. ASSUME Finishes(t), NEW u \in Threads PROVE BindsOwn(threads'[u], engine)
  <2>1. threads' = [threads EXCEPT ![t] = Tail(threads[t])]
    BY <1>3 DEF Finishes
  <2>2. QED BY <1>1, <1>2, <2>1
<1>4. ASSUME NEW op \in Ops, op.at # "bind", GoesOn(t, op), NEW u \in Threads PROVE BindsOwn(threads'[u], engine)
  <2> DEFINE q == <<op>> \o Tail(threads[t])
  <2>1. threads' = [threads EXCEPT ![t] = q]
    BY <1>4 DEF GoesOn
  <2>2. BindsOwn(q, engine)
    BY <1>2, <1>4
  <2> HIDE DEF q
  <2>3. QED BY <1>1, <2>1, <2>2
<1>5. QED BY <1>3, <1>4

\* A thread passes the conversation on and no other owes anything.
LEMMA AdvanceOrder ==
  ASSUME OrderInv, QueueInv', NEW t \in Threads, NEW s \in [Executions -> ExecutionStates],
         NEW before, NEW d, before = <<>> \/ (d \in Executions /\ before = <<Op("stop", d)>>),
         Advance(t, s, before, <<>>),
         \A e \in Executions : s[e] = "queued" => state[e] = "queued",
         \A u \in Threads \ {t}, e \in Executions : ~Owes(threads[u], e),
         engine'.runs = engine.runs, engine'.execution = engine.execution, runOf' = runOf
  PROVE  OrderInv'
PROOF
<1>1. QueueInv /\ threads \in [Threads -> Seq(Ops)] /\ engine.runs \in Nat
      /\ \A r \in 1..engine.runs : engine.execution[r] \in Nat
  <2>1. \A r \in 1..engine.runs : engine.execution[r] \in {None} \cup Executions
    BY PatientTypes DEF OrderInv
  <2>2. QED BY <2>1, PatientTypes DEF OrderInv, None, Executions
<1>2. PICK q \in Seq(Ops), next \in {None} \cup Executions :
        /\ threads' = [threads EXCEPT ![t] = q] /\ active' = next
        /\ \A x \in Executions : Owes(q, x) => x = next
        /\ \A i \in DOMAIN q : \/ before # <<>> /\ q[i] = Op("stop", d)
                               \/ next # None /\ q[i] = Op("submit", next)
        /\ next # None => \A r \in 1..engine.runs : engine.execution[r] < next
  <2>1. PassesOn(t, s, before, d)
    BY <1>1, AdvanceTells
  <2>2. QED BY <2>1 DEF PassesOn
<1>3. BindsOwn(q, engine)
  <2>1. \A i \in DOMAIN q : q[i].at = "check"
    BY <1>2 DEF Op
  <2>2. QED BY <2>1, WaitingBinds
<1>4. \A u \in Threads : BindsOwn(threads'[u], engine)
  BY <1>1, <1>2, <1>3 DEF OrderInv
<1>5. ASSUME NEW u \in Threads, NEW e \in Executions, Owes(threads'[u], e)
      PROVE  active' = e /\ \A r \in 1..engine.runs : engine.execution[r] <= e
  <2>1. u = t /\ e = next
    BY <1>1, <1>2, <1>5
  <2>2. e # None /\ e \in Nat
    BY DEF Executions, None
  <2>3. \A r \in 1..engine.runs : engine.execution[r] < e
    BY <1>2, <2>1, <2>2
  <2>4. QED BY <1>1, <1>2, <2>1, <2>2, <2>3
<1>6. Bound(runOf', engine)
  BY DEF OrderInv
<1>7. QED BY <1>4, <1>5, <1>6, OrderKept

\* A handler that starts while none is at work, with calls that submit nothing.
LEMMA StartsOrder ==
  ASSUME OrderInv, QueueInv', \A u \in Threads : ~AtWork(u), NEW t \in Threads, NEW q,
         threads' = [threads EXCEPT ![t] = q],
         \A i \in DOMAIN q : q[i].call # "submit",
         engine'.runs = engine.runs, engine'.execution = engine.execution, Bound(runOf', engine)
  PROVE  OrderInv'
PROOF
<1>1. threads \in [Threads -> Seq(Ops)] /\ \A u \in Threads : threads[u] = <<>>
  BY PatientTypes DEF OrderInv, AtWork
<1>2. \A e : ~Owes(q, e) /\ ~Owes(<<>>, e)
  BY DEF Owes
<1>3. \A u \in Threads, e \in Executions : ~Owes(threads'[u], e)
  BY <1>1, <1>2
<1>4. BindsOwn(q, engine) /\ BindsOwn(<<>>, engine)
  BY DEF BindsOwn
<1>5. \A u \in Threads : BindsOwn(threads'[u], engine)
  BY <1>1, <1>4
<1>6. QED BY <1>3, <1>5, OrderKept
-------------------------------------------------------------------------------
(* The actions, one by one.                                                   *)

\* A prompt that starts at once is the last one: every run is before it.
LEMMA PromptOrder ==
  ASSUME "restart" \notin Calls, OrderInv, QueueInv', NEW t \in Threads, Prompt(t)
  PROVE  OrderInv'
PROOF
<1> DEFINE e == prompts + 1
<1>1. ConversationTypes /\ QueueInv /\ threads \in [Threads -> Seq(Ops)]
      /\ engine.runs \in Nat
  BY PatientTypes DEF OrderInv, QueueInv
<1>2. e \in Executions /\ prompts \in Nat /\ e # None
  BY <1>1, ConversationAssumption DEF Prompt, ConversationTypes, Executions, None
<1>3. \A r \in 1..engine.runs : engine.execution[r] < e
  <2>1. \A f \in Executions : f >= e => Behind(prompts, state, f)
    BY <1>2 DEF Behind, Executions
  <2>2. QED BY <1>1, <1>2, <2>1, RunsAreBefore
<1>4. \A r \in 1..engine.runs : engine.execution[r] \in Nat
  <2>1. \A r \in 1..engine.runs : engine.execution[r] \in {None} \cup Executions
    BY <1>1, PatientTypes
  <2>2. QED BY <2>1 DEF None, Executions
<1>5. UNCHANGED <<runOf, engine>>
  BY DEF Prompt
<1>6. Bound(runOf', engine)
  BY <1>5 DEF OrderInv
<1>7. CASE active = None
  <2>1. active' = e /\ threads' = [threads EXCEPT ![t] = SubmitOf(e)]
    BY <1>7 DEF Prompt, Starts
  <2> HIDE DEF e
  <2>2. SubmitOf(e) = <<Op("submit", e)>>
    BY <1>2 DEF SubmitOf
  <2>3. BindsOwn(SubmitOf(e), engine) /\ \A x \in Executions : Owes(SubmitOf(e), x) => x = e
    BY <2>2 DEF BindsOwn, Owes, Op
  <2>4. \A u \in Threads, x \in Executions : ~Owes(threads[u], x)
    BY <1>7 DEF OrderInv, OwedIsActive, Executions, None
  <2>5. \A u \in Threads : BindsOwn(threads'[u], engine)
    BY <1>1, <2>1, <2>3 DEF OrderInv
  <2>6. ASSUME NEW u \in Threads, NEW x \in Executions, Owes(threads'[u], x)
        PROVE  active' = x /\ \A r \in 1..engine.runs : engine.execution[r] <= x
    <3>1. x = e
      BY <1>1, <2>1, <2>3, <2>4, <2>6
    <3>2. e \in Nat
      BY <1>2 DEF Executions
    <3>3. QED BY <1>3, <1>4, <2>1, <3>1, <3>2
  <2>7. QED BY <1>5, <1>6, <2>5, <2>6, OrderKept
<1>8. CASE active # None
  <2>1. UNCHANGED <<active, threads>>
    BY <1>8 DEF Prompt
  <2>2. Calm
    BY <1>1, <2>1, UnchangedIsCalm
  <2>3. \A u \in Threads : BindsOwn(threads'[u], engine)
    BY <2>1 DEF OrderInv
  <2>4. QED BY <1>5, <1>6, <2>1, <2>2, <2>3, CalmOrder
<1>9. QED BY <1>7, <1>8

\* A call of a client starts its handler while no other is at work, and only the end of
\* the active execution has one submitted.
LEMMA ClientOrder ==
  ASSUME "restart" \notin Calls, OrderInv, QueueInv', \A u \in Threads : ~AtWork(u),
         NEW t \in Threads, ClientCall(t)
  PROVE  OrderInv'
PROOF
<1>1. /\ ConversationTypes /\ QueueInv /\ threads \in [Threads -> Seq(Ops)]
      /\ state \in [Executions -> ExecutionStates] /\ active \in {None} \cup Executions
      /\ runOf \in [Executions -> {None} \cup EngineRuns]
      /\ Bound(runOf, engine)
  BY PatientTypes DEF OrderInv, QueueInv
<1>2. \A u \in Threads : threads[u] = <<>>
  BY DEF AtWork
<1>3. \A u \in Threads, e \in Executions : ~Owes(threads[u], e)
  BY <1>2 DEF Owes
<1>4. CASE StopSession(t)
  <2>1. UNCHANGED <<runOf, engine>>
    BY <1>4 DEF StopSession
  <2>2. CASE active # None /\ state[active] # "absent"
    <3> DEFINE s == [state EXCEPT ![active] = "cancelled"]
               before == CancelOf(active)
    <3>1. Advance(t, s, before, <<>>)
      BY <1>4, <2>2 DEF StopSession
    <3>2. active \in Executions /\ before = <<Op("stop", active)>>
      BY <1>1, <2>2 DEF CancelOf
    <3>3. s \in [Executions -> ExecutionStates] /\ \A e \in Executions : s[e] = "queued" => state[e] = "queued"
      BY <1>1, <3>2 DEF ExecutionStates, TerminalStates
    <3> HIDE DEF s, before
    <3>4. QED BY <1>3, <2>1, <3>1, <3>2, <3>3, AdvanceOrder
  <2>3. CASE ~(active # None /\ state[active] # "absent")
    <3> DEFINE before == <<>>
    <3>1. Advance(t, state, before, <<>>)
      BY <1>4, <2>3 DEF StopSession
    <3>2. before = <<>> \/ (active \in Executions /\ before = <<Op("stop", active)>>)
      OBVIOUS
    <3> HIDE DEF before
    <3>3. QED BY <1>1, <1>3, <2>1, <3>1, <3>2, AdvanceOrder
  <2>4. QED BY <2>2, <2>3
<1>5. ~Restart(t)
  BY DEF Restart, Call
<1>6. CASE Delete(t)
  <2>1. PICK q \in Seq(Ops) : Starts(t, q) /\ \A i \in DOMAIN q : q[i].call # "submit"
    BY <1>6, DeleteStarts
  <2>2. engine' = engine /\ \A e \in Executions : runOf'[e] \in {None, runOf[e]}
    BY <1>6 DEF Delete
  <2>3. Bound(runOf', engine)
    BY <1>1, <2>2 DEF Bound
  <2>4. QED BY <2>1, <2>2, <2>3, StartsOrder DEF Starts
<1>7. ASSUME NEW e \in Executions, Rollback(t, e) PROVE OrderInv'
  <2> DEFINE q == <<>>
  <2>1. UNCHANGED <<runOf, threads, engine>>
    BY <1>7 DEF Rollback
  <2>2. threads' = [threads EXCEPT ![t] = q]
    BY <1>1, <1>2, <2>1
  <2>3. \A i \in DOMAIN q : q[i].call # "submit"
    OBVIOUS
  <2> HIDE DEF q
  <2>4. QED BY <1>1, <2>1, <2>2, <2>3, StartsOrder
<1>8. ASSUME NEW e \in Executions, NEW action \in ControlKinds, ControlRun(t, e, action) PROVE OrderInv'
  <2>1. /\ UNCHANGED <<runOf, engine>> /\ state[e] # "absent"
        /\ AcceptsControl(CoreState(state[e]), action)
    BY <1>8 DEF ControlRun
  <2>2. \A c \in ControlKinds : Op(c, e).call # "submit"
    BY DEF Op, ControlKinds
  <2>3. ASSUME \/ Starts(t, <<>>) \/ \E c \in ControlKinds : Starts(t, <<Op(c, e)>>) PROVE OrderInv'
    <3>1. PICK q \in {<<>>} \cup {<<Op(c, e)>> : c \in ControlKinds} : Starts(t, q)
      BY <2>3
    <3>2. \A i \in DOMAIN q : q[i].call # "submit"
      <4>1. CASE q = <<>>
        BY <4>1
      <4>2. CASE \E c \in ControlKinds : q = <<Op(c, e)>>
        BY <2>2, <4>2
      <4>3. QED BY <4>1, <4>2
    <3>3. threads' = [threads EXCEPT ![t] = q]
      BY <3>1 DEF Starts
    <3>4. QED BY <1>1, <2>1, <3>2, <3>3, StartsOrder
  <2>4. CASE Grants(t, e, action)
    <3>1. state[e] # "queued"
      BY <1>1, <2>4 DEF Grants, QueueInv, Carried, Underway
    <3>2. Starts(t, <<Op(action, e)>>) \/ Starts(t, <<>>)
      BY <2>4, <3>1 DEF Grants
    <3>3. QED BY <2>3, <3>2
  <2>5. CASE Denies(t, e, action)
    BY <2>3, <2>5 DEF Denies, ControlKinds
  <2>6. CASE Answers(t, e, action)
    BY <2>3, <2>6 DEF Answers, ControlKinds
  <2>7. CASE Cancels(t, e, action) /\ active # e
    BY <2>3, <2>7 DEF Cancels, CancelOf, ControlKinds
  <2>8. CASE Cancels(t, e, action) /\ active = e
    <3> DEFINE s == [state EXCEPT ![e] = "cancelled"]
               before == CancelOf(e)
    <3>1. Advance(t, s, before, <<>>)
      BY <2>8 DEF Cancels
    <3>2. before = <<Op("stop", e)>>
      BY DEF CancelOf
    <3>3. s \in [Executions -> ExecutionStates] /\ \A f \in Executions : s[f] = "queued" => state[f] = "queued"
      BY <1>1 DEF ExecutionStates, TerminalStates
    <3> HIDE DEF s, before
    <3>4. QED BY <1>3, <2>1, <3>1, <3>2, <3>3, AdvanceOrder
  <2>9. QED BY <1>8, <2>4, <2>5, <2>6, <2>7, <2>8 DEF ControlRun
<1>9. QED BY <1>4, <1>5, <1>6, <1>7, <1>8 DEF ClientCall

\* The steps of a submission before the engine is called, and after.
LEMMA SubmitStepsOrder ==
  ASSUME OrderInv, QueueInv', NEW t \in Threads,
         \/ CheckUnbound(t) \/ LoadContext(t) \/ StartEngineSession(t) \/ BindRun(t)
         \/ EnsureProjection(t) \/ ControlEngine(t) \/ Forget(t)
  PROVE  OrderInv'
PROOF
<1> DEFINE op == Head(threads[t])
<1>1. /\ QueueInv /\ threads[t] # <<>> /\ engine \in Engines
      /\ runOf \in [Executions -> {None} \cup EngineRuns] /\ session \in {None} \cup EngineSessions
      /\ Bound(runOf, engine) /\ BindsOwn(threads[t], engine)
  BY PatientTypes
     DEF OrderInv, QueueInv, ConversationTypes, CheckUnbound, LoadContext, StartEngineSession, BindRun,
         EnsureProjection, ControlEngine, Forget, Does
<1>2. /\ op \in Ops /\ op.e \in Executions /\ op.k \in {None} \cup EngineSessions
      /\ op.run \in {None} \cup EngineRuns /\ op = threads[t][1] /\ 1 \in DOMAIN threads[t]
  BY <1>1, HeadTypes
<1>3. \A at \in Stages : [op EXCEPT !.at = at] \in Ops /\ [op EXCEPT !.at = at].call = op.call
                          /\ [op EXCEPT !.at = at].e = op.e /\ [op EXCEPT !.at = at].at = at
  BY <1>2 DEF Ops
<1>4. \A at \in Stages, k \in {None} \cup EngineSessions :
        /\ [op EXCEPT !.k = k, !.at = at] \in Ops /\ [op EXCEPT !.k = k, !.at = at].call = op.call
        /\ [op EXCEPT !.k = k, !.at = at].e = op.e /\ [op EXCEPT !.k = k, !.at = at].at = at
  BY <1>2 DEF Ops
<1>5. active' = active /\ engine'.runs = engine.runs /\ engine'.execution = engine.execution
  <2>1. CASE ControlEngine(t)
    <3>1. op.call \in ControlKinds /\ active' = active
          /\ engine' = IF runOf[op.e] = None THEN engine ELSE Controlled(engine, runOf[op.e], op.call)
      BY <2>1 DEF ControlEngine
    <3>2. runOf[op.e] = None \/ runOf[op.e] \in EngineRuns
      BY <1>1, <1>2
    <3> HIDE DEF op
    <3>3. QED BY <1>1, <3>1, <3>2, ControlledTypes
  <2>2. CASE StartEngineSession(t)
    BY <1>1, <2>2 DEF StartEngineSession, Engines
  <2>3. CASE CheckUnbound(t) \/ LoadContext(t) \/ BindRun(t) \/ EnsureProjection(t) \/ Forget(t)
    BY <2>3 DEF CheckUnbound, LoadContext, BindRun, EnsureProjection, Forget
  <2>4. QED BY <2>1, <2>2, <2>3
<1>6. Bound(runOf', engine)
  <2>1. CASE BindRun(t)
    <3>1. op.call = "submit" /\ op.at = "bind" /\ runOf' = [runOf EXCEPT ![op.e] = op.run]
      BY <2>1 DEF BindRun, Does
    <3>2. op.run \in 1..engine.runs /\ engine.execution[op.run] = op.e
      BY <1>1, <1>2, <3>1 DEF BindsOwn
    <3> HIDE DEF op
    <3>3. QED BY <1>1, <1>2, <3>1, <3>2 DEF Bound
  <2>2. CASE Forget(t)
    <3>1. runOf' = [runOf EXCEPT ![op.e] = None]
      BY <2>2 DEF Forget
    <3> HIDE DEF op
    <3>2. QED BY <1>1, <1>2, <3>1 DEF Bound
  <2>3. CASE CheckUnbound(t) \/ LoadContext(t) \/ StartEngineSession(t) \/ EnsureProjection(t) \/ ControlEngine(t)
    BY <1>1, <2>3 DEF CheckUnbound, LoadContext, StartEngineSession, EnsureProjection, ControlEngine
  <2>4. QED BY <2>1, <2>2, <2>3
<1>7. \/ Finishes(t)
      \/ \E new \in Ops : /\ GoesOn(t, new) /\ new.at # "bind" /\ new.call = op.call /\ new.e = op.e
                          /\ new.at \notin {"bind", "project"} => op.at \notin {"bind", "project"}
  <2>1. {"load", "fail", "start", "submit", "project"} \subseteq Stages
    BY DEF Stages
  <2>2. CASE CheckUnbound(t)
    <3>1. op.at = "check" /\ (Finishes(t) \/ GoesOn(t, [op EXCEPT !.at = "load"]))
      BY <2>2 DEF CheckUnbound, Does
    <3> HIDE DEF op
    <3>2. QED BY <1>3, <2>1, <3>1
  <2>3. CASE LoadContext(t)
    <3>1. /\ op.at = "load"
          /\ \/ Finishes(t) \/ GoesOn(t, [op EXCEPT !.at = "fail"])
             \/ \E at \in {"start", "submit"} : GoesOn(t, [op EXCEPT !.k = session, !.at = at])
      BY <2>3 DEF LoadContext, Fails, Does
    <3> HIDE DEF op
    <3>2. QED BY <1>1, <1>3, <1>4, <2>1, <3>1
  <2>4. CASE StartEngineSession(t)
    <3>1. /\ op.at = "start"
          /\ \/ GoesOn(t, [op EXCEPT !.at = "fail"])
             \/ /\ engine.sessions + 1 \in EngineSessions
                /\ GoesOn(t, [op EXCEPT !.k = engine.sessions + 1, !.at = "submit"])
      BY <2>4 DEF StartEngineSession, Fails, Does
    <3> HIDE DEF op
    <3>2. QED BY <1>3, <1>4, <2>1, <3>1
  <2>5. CASE BindRun(t)
    <3>1. op.at = "bind" /\ GoesOn(t, [op EXCEPT !.at = "project"])
      BY <2>5 DEF BindRun, Does
    <3> HIDE DEF op
    <3>2. QED BY <1>3, <2>1, <3>1
  <2>6. CASE EnsureProjection(t) \/ ControlEngine(t) \/ Forget(t)
    BY <2>6 DEF EnsureProjection, ControlEngine, Forget
  <2>7. QED BY <2>2, <2>3, <2>4, <2>5, <2>6
<1>8. Calm
  BY <1>1, <1>7, FinishesIsCalm, GoesOnIsCalm
<1>9. \A u \in Threads : BindsOwn(threads'[u], engine)
  BY <1>1, <1>7, StepsBind
<1>10. QED BY <1>5, <1>6, <1>8, <1>9, CalmOrder

\* The engine gets the run of the active execution, after those of the ones before it.
LEMMA SubmitRunOrder ==
  ASSUME "restart" \notin Calls, OrderInv, QueueInv', NEW t \in Threads, SubmitRun(t)
  PROVE  OrderInv'
PROOF
<1> DEFINE op == Head(threads[t])
<1>1. /\ threads[t] # <<>> /\ op.call = "submit" /\ op.at = "submit"
      /\ UNCHANGED <<active, runOf>>
  BY DEF SubmitRun, Does
<1>2. /\ threads[t] \in Seq(Ops) /\ op \in Ops /\ op.e \in Executions
      /\ op.k \in {None} \cup EngineSessions /\ op = threads[t][1] /\ 1 \in DOMAIN threads[t]
      /\ threads \in [Threads -> Seq(Ops)] /\ QueueInv
  BY <1>1, HeadTypes, PatientTypes DEF OrderInv
<1>3. /\ engine \in Engines /\ engine.runs \in Nat /\ engine.runs \in 0..MaxRuns /\ MaxRuns \in Nat
      /\ engine.execution \in [EngineRuns -> {None} \cup Executions]
      /\ \A r \in 1..engine.runs : r \in EngineRuns
  BY <1>2, PatientTypes
<1>4. CASE Fails(t) /\ UNCHANGED engine
  <2> DEFINE new == [op EXCEPT !.at = "fail"]
  <2>1. GoesOn(t, new)
    BY <1>4 DEF Fails
  <2>2. new \in Ops /\ new.call = op.call /\ new.e = op.e /\ new.at = "fail"
    BY <1>2 DEF Ops, Stages
  <2> HIDE DEF new
  <2>3. Calm
    BY <1>1, <1>2, <2>1, <2>2, GoesOnIsCalm
  <2>4. \A u \in Threads : BindsOwn(threads'[u], engine)
    BY <1>1, <2>1, <2>2, StepsBind
  <2>5. Bound(runOf', engine)
    BY <1>1 DEF OrderInv
  <2>6. QED BY <1>1, <1>4, <2>3, <2>4, <2>5, CalmOrder
<1>5. CASE /\ engine.runs < MaxRuns
           /\ engine' = Submitted(engine, op.k, op.e)
           /\ GoesOn(t, [op EXCEPT !.run = engine.runs + 1, !.at = "bind"])
  <2> DEFINE r == engine.runs + 1
             new == [op EXCEPT !.run = r, !.at = "bind"]
             q == <<new>> \o Tail(threads[t])
  <2>1. r \in EngineRuns /\ r \in Nat
    BY <1>3, <1>5 DEF EngineRuns
  <2>2. new \in Ops /\ new.call = "submit" /\ new.e = op.e /\ new.at = "bind" /\ new.run = r
    BY <1>1, <1>2, <2>1 DEF Ops, Stages
  <2>3. engine'.runs = r /\ engine'.execution = [engine.execution EXCEPT ![r] = op.e]
    <3>1. /\ Submitted(engine, op.k, op.e).runs = engine.runs + 1
          /\ Submitted(engine, op.k, op.e).execution = [engine.execution EXCEPT ![engine.runs + 1] = op.e]
      <4> HIDE DEF op
      <4>1. engine \in Engines /\ engine.runs < MaxRuns /\ op.k \in {None} \cup EngineSessions
            /\ op.e \in Executions
        BY <1>2, <1>3, <1>5
      <4>2. QED BY ONLY <4>1, SubmittedTypes
    <3>2. QED BY <1>5, <3>1
  <2>4. GoesOn(t, new) /\ threads' = [threads EXCEPT ![t] = q]
    BY <1>5 DEF GoesOn
  <2> HIDE DEF new
  <2>5. Single(threads[t])
    BY <1>2 DEF QueueInv, SingleMinded
  <2>6. /\ q \in Seq(Ops) /\ \A e : ~Owes(q, e)
    BY <1>1, <1>2, <2>2, <2>5, GoneOnList
  <2>7. Owes(threads[t], op.e)
    BY <1>1, <1>2 DEF Owes
  <2>8. active = op.e /\ \A x \in 1..engine.runs : engine.execution[x] <= op.e
    BY <1>2, <2>7 DEF OrderInv, OwedIsActive
  <2> HIDE DEF r, op
  <2>9. /\ engine'.execution[r] = op.e
        /\ \A x \in 1..engine.runs : engine'.execution[x] = engine.execution[x]
        /\ \A x \in 1..r : x = r \/ x \in 1..engine.runs
        /\ \A x \in 1..engine.runs : x \in 1..r
        /\ r \in 1..r
    <3>1. r = engine.runs + 1
      BY DEF r
    <3>2. engine'.execution[r] = op.e
      BY <1>3, <2>1, <2>3
    <3>3. \A x \in 1..engine.runs : engine'.execution[x] = engine.execution[x]
      BY <1>3, <2>1, <2>3, <3>1
    <3>4. QED BY <1>3, <3>1, <3>2, <3>3
  <2>10. Ordered(engine')
    <3>1. SUFFICES ASSUME NEW x \in 1..r, NEW y \in 1..r, x < y
                   PROVE  engine'.execution[x] <= engine'.execution[y]
      BY <2>3 DEF Ordered
    <3>2. x \in 1..engine.runs
      BY <1>3, <3>1 DEF r
    <3>3. CASE y = r
      BY <2>8, <2>9, <3>2, <3>3
    <3>4. CASE y \in 1..engine.runs
      BY <2>9, <3>1, <3>2, <3>4 DEF OrderInv, Ordered
    <3>5. QED BY <2>9, <3>3, <3>4
  <2>11. OwedIsActive(threads', active', engine')
    <3>1. SUFFICES ASSUME NEW u \in Threads, NEW e \in Executions, Owes(threads'[u], e) PROVE FALSE
      BY DEF OwedIsActive
    <3>2. u # t /\ Owes(threads[u], e)
      BY <1>2, <2>4, <2>6, <3>1
    <3>3. e = op.e
      BY <2>8, <3>2 DEF OrderInv, OwedIsActive
    <3>4. QED BY <1>2, <2>7, <3>2, <3>3, OwedOnce
  <2>12. ASSUME NEW u \in Threads PROVE BindsOwn(threads'[u], engine')
    <3>1. BindsOwn(threads[u], engine) /\ BindsOwn(threads[t], engine)
      BY DEF OrderInv
    <3>2. BindsOwn(threads[u], engine') /\ BindsOwn(threads[t], engine')
      BY <2>3, <2>9, <3>1 DEF BindsOwn
    <3>3. BindsOwn(q, engine')
      BY <1>1, <1>2, <2>2, <2>3, <2>9, <3>2, ListBinds
    <3> HIDE DEF q
    <3>4. QED BY <1>2, <2>4, <3>2, <3>3
  <2>13. Bound(runOf', engine')
    BY <1>1, <2>3, <2>9 DEF OrderInv, Bound
  <2>14. QED BY <2>10, <2>11, <2>12, <2>13 DEF OrderInv
<1>6. QED BY <1>4, <1>5 DEF SubmitRun

\* A submission that failed: nobody else owed anything, and the next execution is after
\* every run.
LEMMA FailOrder ==
  ASSUME "restart" \notin Calls, OrderInv, QueueInv', NEW t \in Threads, FailExecution(t)
  PROVE  OrderInv'
PROOF
<1> DEFINE e == Head(threads[t]).e
<1>1. /\ threads[t] # <<>> /\ Head(threads[t]).call = "submit" /\ Head(threads[t]).at = "fail"
      /\ UNCHANGED <<prompts, order, questions, session, runOf, worker, engine, calls>>
  BY DEF FailExecution, Does
<1>2. /\ e \in Executions /\ threads[t] \in Seq(Ops) /\ QueueInv
      /\ Head(threads[t]) = threads[t][1] /\ 1 \in DOMAIN threads[t]
      /\ state \in [Executions -> ExecutionStates] /\ Single(threads[t])
  <2>1. QueueInv
    BY DEF OrderInv
  <2>2. QED BY <1>1, <2>1, HeadTypes, PatientTypes DEF QueueInv, SingleMinded
<1>3. Owes(threads[t], e)
  BY <1>1, <1>2 DEF Owes
<1>4. \A u \in Threads \ {t}, f \in Executions : ~Owes(threads[u], f)
  BY <1>2, <1>3, OwedOnce
<1>5. Bound(runOf', engine)
  BY <1>1 DEF OrderInv
<1>6. ASSUME Finishes(t), active' = active PROVE OrderInv'
  <2>1. Calm /\ \A u \in Threads : BindsOwn(threads'[u], engine)
    BY <1>1, <1>2, <1>6, FinishesIsCalm, StepsBind
  <2>2. QED BY <1>1, <1>5, <1>6, <2>1, CalmOrder
<1>7. CASE ~(state[e] \notin TerminalStates \cup {"absent"} /\ active = e)
  BY <1>6, <1>7 DEF FailExecution
<1>8. CASE state[e] \notin TerminalStates \cup {"absent"} /\ active = e
  <2> DEFINE s == [state EXCEPT ![e] = "failed"]
             before == <<>>
  <2>1. Advance(t, s, before, Tail(threads[t]))
    BY <1>8 DEF FailExecution
  <2>2. Tail(threads[t]) = <<>>
    BY <1>1, <1>2, FinishedList
  <2>3. Advance(t, s, before, <<>>)
    BY <2>1, <2>2
  <2>4. before = <<>> \/ (e \in Executions /\ before = <<Op("stop", e)>>)
    OBVIOUS
  <2>5. s \in [Executions -> ExecutionStates] /\ \A f \in Executions : s[f] = "queued" => state[f] = "queued"
    BY <1>2 DEF ExecutionStates, TerminalStates
  <2> HIDE DEF before, s, e
  <2>6. QED BY <1>1, <1>4, <2>3, <2>4, <2>5, AdvanceOrder
<1>9. QED BY <1>7, <1>8

\* The end of the active execution, which has a run: nobody owes anything.
LEMMA ProjectOrder ==
  ASSUME "restart" \notin Calls, OrderInv, QueueInv', Project
  PROVE  OrderInv'
PROOF
<1> DEFINE event == Head(engine.feed[worker])
<1>1. /\ QueueInv /\ ConversationTypes /\ engine \in Engines /\ threads \in [Threads -> Seq(Ops)]
      /\ state \in [Executions -> ExecutionStates]
  BY PatientTypes DEF OrderInv, QueueInv
<1>2. engine'.runs = engine.runs /\ engine'.execution = engine.execution /\ runOf' = runOf
  BY <1>1 DEF Project, Engines
<1>3. 0 \in Threads /\ Bound(runOf', engine)
  BY <1>2, ConversationAssumption DEF OrderInv, Threads
<1> HIDE DEF event
<1>4. CASE UNCHANGED <<active, threads>>
  <2>1. Calm
    BY <1>1, <1>4, UnchangedIsCalm
  <2>2. \A u \in Threads : BindsOwn(threads'[u], engine)
    BY <1>4 DEF OrderInv
  <2>3. QED BY <1>2, <1>3, <1>4, <2>1, <2>2, CalmOrder
<1>5. CASE ~UNCHANGED <<active, threads>>
  <2>1. PICK e \in Resolved(event.run) :
          active = e /\ Advance(0, [state EXCEPT ![e] = ProjectedState(event.type, @)], <<>>, <<>>)
                     /\ event.type \in TerminalStates
    BY <1>5 DEF Project, event
  <2>2. e \in Executions /\ runOf[e] = event.run
    BY <2>1 DEF Resolved
  <2>3. event.run # None
    <3>1. engine.feed[worker] \in Seq(Events) /\ engine.feed[worker] # <<>>
      BY <1>1 DEF Project, Engines, ConversationTypes
    <3>2. event \in Events
      BY <3>1 DEF event
    <3>3. QED BY <3>2 DEF Events, EngineRuns, None
  <2>4. \A u \in Threads, f \in Executions : ~Owes(threads[u], f)
    <3>1. SUFFICES ASSUME NEW u \in Threads, NEW f \in Executions, Owes(threads[u], f) PROVE FALSE
      OBVIOUS
    <3>2. runOf[f] = None /\ active = f
      BY <3>1, OwedOnce
    <3>3. QED BY <2>1, <2>2, <2>3, <3>2
  <2> DEFINE s == [state EXCEPT ![e] = ProjectedState(event.type, @)]
             before == <<>>
  <2>5. Advance(0, s, before, <<>>)
    BY <2>1
  <2>6. before = <<>> \/ (e \in Executions /\ before = <<Op("stop", e)>>)
    OBVIOUS
  <2>7. s[e] = event.type /\ event.type \in ExecutionStates \ {"queued"}
    BY <1>1, <2>1, <2>2 DEF ProjectedState, ExecutionStates, TerminalStates
  <2>8. s \in [Executions -> ExecutionStates] /\ \A f \in Executions : f # e => s[f] = state[f]
    BY <1>1, <2>2, <2>7
  <2> HIDE DEF s, before
  <2>9. \A f \in Executions : s[f] = "queued" => state[f] = "queued"
    BY <2>7, <2>8
  <2>10. QED BY <1>2, <1>3, <2>4, <2>5, <2>6, <2>8, <2>9, AdvanceOrder
<1>6. QED BY <1>4, <1>5

\* Every step of a conversation whose clients wait.
LEMMA PatientStepOrder ==
  ASSUME "restart" \notin Calls, OrderInv, [PatientNext]_vars
  PROVE  OrderInv'
PROOF
<1>1. QueueInv'
  <2>1. [Next]_vars
    BY DEF PatientNext, Next
  <2>2. QED BY <2>1, EveryStepKeeps DEF OrderInv
<1>2. QueueInv
  BY DEF OrderInv
<1>3. ASSUME UNCHANGED <<threads, active, runOf>>, engine'.runs = engine.runs, engine'.execution = engine.execution
      PROVE  OrderInv'
  <2>1. Calm
    BY <1>2, <1>3, UnchangedIsCalm
  <2>2. (\A u \in Threads : BindsOwn(threads'[u], engine)) /\ Bound(runOf', engine)
    BY <1>3 DEF OrderInv
  <2>3. QED BY <1>1, <1>3, <2>1, <2>2, CalmOrder
<1>4. CASE UNCHANGED vars
  BY <1>3, <1>4 DEF vars
<1>5. ASSUME NEW r \in EngineRuns, EngineStep(r) PROVE OrderInv'
  <2>1. engine'.runs = engine.runs /\ engine'.execution = engine.execution
    BY <1>2, <1>5, EngineStepTypes DEF QueueInv
  <2>2. QED BY <1>3, <1>5, <2>1 DEF EngineStep
<1>6. CASE Project
  BY <1>1, <1>6, ProjectOrder
<1>7. ASSUME NEW t \in Threads, Prompt(t) PROVE OrderInv'
  BY <1>1, <1>7, PromptOrder
<1>8. ASSUME NEW t \in Threads, ThreadStep(t) PROVE OrderInv'
  BY <1>1, <1>8, SubmitStepsOrder, SubmitRunOrder, FailOrder DEF ThreadStep
<1>9. ASSUME \A u \in Threads : ~AtWork(u), NEW t \in Threads, ClientCall(t) PROVE OrderInv'
  BY <1>1, <1>9, ClientOrder
<1>10. QED BY <1>4, <1>5, <1>6, <1>7, <1>8, <1>9 DEF PatientNext, AgentEngine

\* The empty conversation.
LEMMA InitOrder == Init => OrderInv
PROOF
<1> SUFFICES ASSUME Init PROVE OrderInv
  OBVIOUS
<1>1. QueueInv
  BY InitServed
<1>2. /\ engine.runs = 0 /\ \A t \in Threads : threads[t] = <<>>
      /\ \A e \in Executions : runOf[e] = None
  BY DEF Init, NoEngine
<1>3. QED BY <1>1, <1>2 DEF OrderInv, Ordered, OwedIsActive, Owes, BindsOwn, Bound

\* As long as clients wait for the handlers, and no call resubmits an execution, the
\* engine gets the prompts in the order in which they were asked: whichever handler,
\* the failure path or the projection worker passes the conversation on.
THEOREM PromptsInOrder ==
  ASSUME "restart" \notin Calls
  PROVE  PatientSpec => []DispatchedInOrder
PROOF
<1>1. OrderInv /\ [PatientNext]_vars => OrderInv'
  BY PatientStepOrder
<1>2. OrderInv => DispatchedInOrder
  BY DEF OrderInv, Ordered, DispatchedInOrder
<1>3. QED BY <1>1, <1>2, InitOrder, PTL DEF PatientSpec

-------------------------------------------------------------------------------
(* Who owns a run that goes on.                                               *)

\* A handler is about to bind run r, and one will cancel execution e.
Binds(th, r) == \E t \in Threads : /\ th[t] # <<>> /\ Head(th[t]).call = "submit"
                                   /\ Head(th[t]).at = "bind" /\ Head(th[t]).run = r
Stops(q, e) == \E i \in DOMAIN q : q[i].call = "stop" /\ q[i].e = e

\* Run r of execution e is the active one's, bound or about to be, or its cancellation
\* is on its way.
Owner(th, a, rho, r, e) ==
  \/ a = e /\ (rho[e] = r \/ Binds(th, r))
  \/ rho[e] = r /\ \E t \in Threads : Stops(th[t], e)

\* No binding will be forgotten, and a run is submitted in a session.
Plain(q) == \A i \in DOMAIN q :
  /\ q[i].call # "forget"
  /\ q[i].call = "submit" /\ q[i].at = "submit" => q[i].k \in EngineSessions

Owned(g, th, a, rho) ==
  \A r \in EngineRuns : Living(g, r) =>
    r \in 1..g.runs /\ g.execution[r] \in Executions /\ Owner(th, a, rho, r, g.execution[r])

OwnInv ==
  /\ OrderInv
  /\ Sound(engine)
  /\ \A t \in Threads : Plain(threads[t])
  /\ Owned(engine, threads, active, runOf)

\* The calls after which the hub knows every run that goes on.
Tame == Calls \cap {"deny", "rollback", "restart", "delete"} = {}

\* A change of the engine that says nothing of any run.
LEMMA SoundSame ==
  ASSUME NEW g, Sound(g), NEW h \in Engines, h.runs = g.runs, h.home = g.home, h.phase = g.phase,
         h.halting = g.halting, h.feed = g.feed
  PROVE  Sound(h) /\ Follows(g, h)
PROOF
<1>1. Sound(h)
  BY DEF Sound, Known
<1>2. Follows(g, h)
  BY DEF Follows, Living
<1>3. QED BY <1>1, <1>2

\* The worker takes an event.
LEMMA ProjectSound ==
  ASSUME Sound(engine), ConversationTypes, Project
  PROVE  /\ Sound(engine') /\ engine' \in Engines /\ worker \in EngineSessions
         /\ engine'.runs = engine.runs /\ engine'.execution = engine.execution
         /\ engine'.home = engine.home /\ engine'.phase = engine.phase
         /\ engine'.halting = engine.halting
         /\ engine.feed[worker] \in Seq(Events) /\ engine.feed[worker] # <<>>
         /\ engine'.feed[worker] = Tail(engine.feed[worker])
         /\ \A k \in EngineSessions : k # worker => engine'.feed[k] = engine.feed[k]
PROOF
<1>1. /\ worker \in EngineSessions /\ engine.feed[worker] # <<>>
      /\ engine' = [engine EXCEPT !.feed[worker] = Tail(@)]
      /\ engine \in Engines /\ engine.feed \in [EngineSessions -> Seq(Events)]
  BY DEF Project, ConversationTypes, Engines
<1>2. engine.feed[worker] \in Seq(Events) /\ Tail(engine.feed[worker]) \in Seq(Events)
  BY <1>1
<1>3. /\ engine' \in Engines
      /\ engine'.runs = engine.runs /\ engine'.execution = engine.execution
      /\ engine'.home = engine.home /\ engine'.phase = engine.phase
      /\ engine'.halting = engine.halting
      /\ engine'.feed = [engine.feed EXCEPT ![worker] = Tail(engine.feed[worker])]
  BY <1>1, <1>2 DEF Engines
<1>4. /\ engine'.feed[worker] = Tail(engine.feed[worker])
      /\ \A k \in EngineSessions : k # worker => engine'.feed[k] = engine.feed[k]
  BY <1>1, <1>3
<1>5. /\ \A i \in DOMAIN Tail(engine.feed[worker]) :
           \E j \in DOMAIN engine.feed[worker] : Tail(engine.feed[worker])[i] = engine.feed[worker][j]
      /\ \A r, p : Truthful(engine.feed[worker], r, p) => Truthful(Tail(engine.feed[worker]), r, p)
  BY <1>1, <1>2, TailTells
<1>6. \A k \in EngineSessions : \A i \in DOMAIN engine'.feed[k] :
        \E j \in DOMAIN engine.feed[k] : engine'.feed[k][i] = engine.feed[k][j]
  <2>1. SUFFICES ASSUME NEW k \in EngineSessions, NEW i \in DOMAIN engine'.feed[k]
                 PROVE  \E j \in DOMAIN engine.feed[k] : engine'.feed[k][i] = engine.feed[k][j]
    OBVIOUS
  <2>2. CASE k = worker
    BY <1>4, <1>5, <2>1, <2>2
  <2>3. CASE k # worker
    BY <1>4, <2>1, <2>3
  <2>4. QED BY <2>2, <2>3
<1>7. \A k \in EngineSessions : \A i \in DOMAIN engine'.feed[k] : Known(engine', engine'.feed[k][i])
  BY <1>3, <1>6 DEF Sound, Known
<1>8. \A r \in EngineRuns, k \in EngineSessions :
        engine'.home[r] = k => Truthful(engine'.feed[k], r, engine'.phase[r])
  <2>1. SUFFICES ASSUME NEW r \in EngineRuns, NEW k \in EngineSessions, engine.home[r] = k
                 PROVE  Truthful(engine'.feed[k], r, engine.phase[r])
    BY <1>3
  <2>2. Truthful(engine.feed[k], r, engine.phase[r])
    BY <2>1 DEF Sound
  <2>3. QED BY <1>4, <1>5, <2>2
<1>9. Sound(engine')
  BY <1>3, <1>7, <1>8 DEF Sound
<1>10. QED BY <1>1, <1>2, <1>3, <1>4, <1>9

\* A thread at a submission has nothing else to do.
LEMMA SubmitList ==
  ASSUME QueueInv, NEW t \in Threads, threads[t] # <<>>, Head(threads[t]).call = "submit"
  PROVE  /\ DOMAIN threads[t] = {1} /\ threads[t][1] = Head(threads[t])
         /\ \A e : ~Stops(threads[t], e)
         /\ Finishes(t) => threads' = [threads EXCEPT ![t] = <<>>]
         /\ \A op \in Ops : GoesOn(t, op) => threads' = [threads EXCEPT ![t] = <<op>>]
PROOF
<1>1. threads[t] \in Seq(Ops) /\ Single(threads[t]) /\ Head(threads[t]) = threads[t][1] /\ 1 \in DOMAIN threads[t]
  BY HeadTypes DEF QueueInv, SingleMinded
<1>2. Tail(threads[t]) = <<>>
  BY <1>1, FinishedList
<1>3. DOMAIN threads[t] = {1}
  <2>1. DOMAIN threads[t] = 1..Len(threads[t])
    BY <1>1
  <2>2. Len(threads[t]) = 1
    BY <1>1 DEF Single
  <2>3. QED BY <2>1, <2>2
<1>4. \A e : ~Stops(threads[t], e)
  BY <1>1, <1>3 DEF Stops
<1>5. Finishes(t) => threads' = [threads EXCEPT ![t] = <<>>]
  BY <1>2 DEF Finishes
<1>6. \A op : GoesOn(t, op) => threads' = [threads EXCEPT ![t] = <<op>> \o Tail(threads[t])]
  BY DEF GoesOn
<1>7. \A op \in Ops : <<op>> \o Tail(threads[t]) = <<op>>
  <2>1. \A op \in Ops : <<op>> \in Seq(Ops)
    OBVIOUS
  <2>2. \A op \in Ops : <<op>> \o <<>> = <<op>>
    BY <2>1, ConcatEmptySeq
  <2>3. QED BY <1>2, <2>2
<1>8. QED BY <1>1, <1>3, <1>4, <1>5, <1>6, <1>7

\* A step of one thread leaves a run its owner, unless it binds that run or takes the
\* cancellation off the list.
LEMMA OwnerStays ==
  ASSUME threads \in [Threads -> Seq(Ops)], NEW t \in Threads, NEW q, threads' = [threads EXCEPT ![t] = q],
         NEW r, NEW e, Owner(threads, active, runOf, r, e),
         runOf'[e] = runOf[e], active = e => active' = e,
         ~(/\ threads[t] # <<>> /\ Head(threads[t]).call = "submit"
           /\ Head(threads[t]).at = "bind" /\ Head(threads[t]).run = r),
         Stops(threads[t], e) => Stops(q, e)
  PROVE  Owner(threads', active', runOf', r, e)
PROOF
<1>1. threads'[t] = q /\ \A u \in Threads : u # t => threads'[u] = threads[u]
  OBVIOUS
<1>2. Binds(threads, r) => Binds(threads', r)
  BY <1>1 DEF Binds
<1>3. (\E u \in Threads : Stops(threads[u], e)) => \E u \in Threads : Stops(threads'[u], e)
  BY <1>1
<1>4. QED BY <1>2, <1>3 DEF Owner

\* A step that makes no run and revives none.
LEMMA OwnKept ==
  ASSUME OwnInv, OrderInv', Sound(engine'), engine'.runs = engine.runs,
         engine'.execution = engine.execution,
         \A r \in 1..engine.runs : Living(engine', r) => Living(engine, r),
         \A t \in Threads : Plain(threads'[t]),
         \A r \in EngineRuns : Living(engine, r) /\ Living(engine', r)
                               /\ r \in 1..engine.runs /\ engine.execution[r] \in Executions
                               /\ Owner(threads, active, runOf, r, engine.execution[r]) =>
                                 Owner(threads', active', runOf', r, engine.execution[r])
  PROVE  OwnInv'
PROOF
<1>1. ASSUME NEW r \in EngineRuns, Living(engine', r)
      PROVE  r \in 1..engine.runs /\ Living(engine, r)
  <2>1. engine'.phase[r] # "none"
    BY <1>1 DEF Living, Working, Waiting
  <2>2. ~(r > engine'.runs)
    BY <2>1 DEF Sound
  <2>3. engine.runs \in Nat
    BY PatientTypes DEF OwnInv, OrderInv
  <2>4. r \in 1..engine.runs
    BY <2>2, <2>3 DEF EngineRuns
  <2>5. QED BY <1>1, <2>4
<1>2. Owned(engine', threads', active', runOf')
  BY <1>1 DEF OwnInv, Owned
<1>3. QED BY <1>2 DEF OwnInv

\* A handler that starts while none is at work: the active execution stays active, or
\* its cancellation is the handler's first call.
LEMMA IdleCallOwns ==
  ASSUME OwnInv, OrderInv', \A u \in Threads : ~AtWork(u), NEW t \in Threads, NEW q,
         threads' = [threads EXCEPT ![t] = q], Plain(q), UNCHANGED <<runOf, engine>>,
         active # None => active' = active \/ Stops(q, active)
  PROVE  OwnInv'
PROOF
<1>1. threads \in [Threads -> Seq(Ops)] /\ \A u \in Threads : threads[u] = <<>>
  BY PatientTypes DEF OwnInv, OrderInv, AtWork
<1>2. threads'[t] = q /\ \A u \in Threads : u # t => threads'[u] = threads[u]
  BY <1>1
<1>3. Sound(engine') /\ \A u \in Threads : Plain(threads'[u])
  BY <1>2 DEF OwnInv
<1>4. ASSUME NEW r \in EngineRuns, NEW e \in Executions, Owner(threads, active, runOf, r, e)
      PROVE  Owner(threads', active', runOf', r, e)
  <2>1. ~Binds(threads, r) /\ \A u \in Threads : ~Stops(threads[u], e)
    BY <1>1 DEF Binds, Stops
  <2>2. active = e /\ runOf[e] = r /\ active # None
    BY <1>4, <2>1 DEF Owner, Executions, None
  <2>3. QED BY <1>2, <2>2 DEF Owner
<1>5. engine'.runs = engine.runs /\ engine'.execution = engine.execution
      /\ \A r \in 1..engine.runs : Living(engine', r) => Living(engine, r)
  OBVIOUS
<1>6. QED BY <1>3, <1>4, <1>5, OwnKept

\* A step of a submission that binds nothing.
LEMMA SubmitStepOwns ==
  ASSUME OwnInv, OrderInv', NEW t \in Threads, threads[t] # <<>>,
         Head(threads[t]).call = "submit", Head(threads[t]).at # "bind",
         NEW q, threads' = [threads EXCEPT ![t] = q], Plain(q),
         Sound(engine'), engine'.runs = engine.runs, engine'.execution = engine.execution,
         \A r \in 1..engine.runs : Living(engine', r) => Living(engine, r),
         runOf' = runOf, active' = active \/ RunsFor(engine, active) = {}
  PROVE  OwnInv'
PROOF
<1>1. threads \in [Threads -> Seq(Ops)] /\ \A e : ~Stops(threads[t], e)
  BY PatientTypes, SubmitList DEF OwnInv, OrderInv
<1>2. \A u \in Threads : Plain(threads'[u])
  BY <1>1 DEF OwnInv
<1>3. ASSUME NEW r \in EngineRuns, r \in 1..engine.runs, engine.execution[r] \in Executions,
             Owner(threads, active, runOf, r, engine.execution[r])
      PROVE  Owner(threads', active', runOf', r, engine.execution[r])
  <2>1. active = engine.execution[r] => active' = active
    BY <1>3 DEF RunsFor
  <2>2. QED BY <1>1, <1>3, <2>1, OwnerStays
<1>4. QED BY <1>2, <1>3, OwnKept

\* A prompt.
LEMMA PromptOwns ==
  ASSUME OwnInv, OrderInv', NEW t \in Threads, Prompt(t)
  PROVE  OwnInv'
PROOF
<1>1. threads \in [Threads -> Seq(Ops)] /\ threads[t] = <<>> /\ UNCHANGED <<runOf, engine>>
  BY PatientTypes DEF OwnInv, OrderInv, Prompt, Free
<1>2. PICK q : threads' = [threads EXCEPT ![t] = q] /\ (q = <<>> \/ \E e : q = SubmitOf(e))
                /\ (active = None \/ active' = active)
  <2>1. CASE active = None
    BY <2>1 DEF Prompt, Starts
  <2>2. CASE active # None
    <3>1. threads' = threads /\ active' = active
      BY <2>2 DEF Prompt
    <3>2. threads = [threads EXCEPT ![t] = <<>>]
      BY <1>1
    <3>3. QED BY <3>1, <3>2
  <2>3. QED BY <2>1, <2>2
<1>3. Plain(q)
  BY <1>2 DEF Plain, SubmitOf, Op
<1>4. \A u \in Threads : Plain(threads'[u])
  BY <1>1, <1>2, <1>3 DEF OwnInv
<1>5. ASSUME NEW r \in EngineRuns, NEW e \in Executions, Owner(threads, active, runOf, r, e)
      PROVE  Owner(threads', active', runOf', r, e)
  <2>1. ~Stops(threads[t], e) /\ (active = e => active' = e)
    BY <1>1, <1>2 DEF Stops, Executions, None
  <2>2. runOf'[e] = runOf[e]
    BY <1>1
  <2>3. QED BY <1>1, <1>2, <1>5, <2>1, <2>2, OwnerStays
<1>6. Sound(engine') /\ \A r \in 1..engine.runs : Living(engine', r) => Living(engine, r)
  BY <1>1 DEF OwnInv
<1>7. engine'.runs = engine.runs /\ engine'.execution = engine.execution
  BY <1>1
<1>8. QED BY <1>4, <1>5, <1>6, <1>7, OwnKept

\* The calls that leave the hub informed.
LEMMA ClientOwns ==
  ASSUME Tame, OwnInv, OrderInv', \A u \in Threads : ~AtWork(u), NEW t \in Threads, ClientCall(t)
  PROVE  OwnInv'
PROOF
<1>1. /\ QueueInv /\ threads \in [Threads -> Seq(Ops)] /\ Carried(state, active, queueState)
      /\ state \in [Executions -> ExecutionStates] /\ active \in {None} \cup Executions
  BY PatientTypes DEF OwnInv, OrderInv, QueueInv
<1>2. \A name : Call(t, name) => name \in Calls \ {"deny", "rollback", "restart", "delete"}
  BY DEF Call, Tame
<1>3. Plain(<<>>) /\ \A c \in ControlKinds : \A e : Plain(<<Op(c, e)>>)
  BY DEF Plain, Op, ControlKinds
<1>4. ASSUME NEW s \in [Executions -> ExecutionStates], NEW before, NEW d,
             before = <<>> \/ (d \in Executions /\ before = <<Op("stop", d)>>),
             Advance(t, s, before, <<>>),
             \A e \in Executions : s[e] = "queued" => state[e] = "queued",
             active # None => d = active /\ before # <<>>,
             UNCHANGED <<runOf, engine>>
      PROVE  OwnInv'
  <2>1. PICK q \in Seq(Ops), next \in {None} \cup Executions :
           /\ threads' = [threads EXCEPT ![t] = q] /\ active' = next
           /\ \A x \in Executions : Owes(q, x) => x = next
           /\ \A i \in DOMAIN q : \/ before # <<>> /\ q[i] = Op("stop", d)
                                  \/ next # None /\ q[i] = Op("submit", next)
           /\ before # <<>> => 1 \in DOMAIN q /\ q[1] = Op("stop", d)
    <3>1. PassesOn(t, s, before, d)
      BY <1>1, <1>4, AdvanceTells
    <3>2. QED BY <3>1 DEF PassesOn
  <2>2. Plain(q)
    BY <2>1 DEF Plain, Op
  <2>3. active # None => Stops(q, active)
    BY <1>4, <2>1 DEF Stops, Op
  <2>4. QED BY <1>4, <2>1, <2>2, <2>3, IdleCallOwns
<1>5. CASE StopSession(t)
  <2>1. UNCHANGED <<runOf, engine>>
    BY <1>5 DEF StopSession
  <2>2. CASE active # None
    <3> DEFINE s == [state EXCEPT ![active] = "cancelled"]
               before == CancelOf(active)
    <3>1. active \in Executions /\ state[active] # "absent"
      BY <1>1, <2>2 DEF Carried, Underway
    <3>2. Advance(t, s, before, <<>>)
      BY <1>5, <2>2, <3>1 DEF StopSession
    <3>3. before = <<Op("stop", active)>> /\ before # <<>>
      BY DEF CancelOf
    <3>4. s \in [Executions -> ExecutionStates] /\ \A e \in Executions : s[e] = "queued" => state[e] = "queued"
      BY <1>1, <3>1 DEF ExecutionStates, TerminalStates
    <3> HIDE DEF s, before
    <3>5. QED BY <1>4, <2>1, <3>1, <3>2, <3>3, <3>4
  <2>3. CASE active = None
    <3> DEFINE before == <<>>
    <3>1. Advance(t, state, before, <<>>)
      BY <1>5, <2>3 DEF StopSession
    <3>2. before = <<>> \/ (active \in Executions /\ before = <<Op("stop", active)>>)
      OBVIOUS
    <3> HIDE DEF before
    <3>3. QED BY <1>1, <1>4, <2>1, <2>3, <3>1, <3>2
  <2>4. QED BY <2>2, <2>3
<1>6. ~Restart(t) /\ ~Delete(t) /\ \A e : ~Rollback(t, e)
  BY <1>2 DEF Restart, Delete, Rollback
<1>7. ASSUME NEW e \in Executions, NEW action \in ControlKinds, ControlRun(t, e, action) PROVE OwnInv'
  <2>1. UNCHANGED <<runOf, engine>> /\ action # "deny"
    BY <1>2, <1>7 DEF ControlRun
  <2>2. ASSUME \/ Starts(t, <<>>) \/ \E c \in ControlKinds : Starts(t, <<Op(c, e)>>),
               active # None => active' = active
        PROVE  OwnInv'
    <3>1. PICK q : (q = <<>> \/ \E c \in ControlKinds : q = <<Op(c, e)>>) /\ Starts(t, q)
      BY <2>2
    <3>2. Plain(q) /\ threads' = [threads EXCEPT ![t] = q]
      BY <1>3, <3>1 DEF Starts
    <3>3. QED BY <2>1, <2>2, <3>2, IdleCallOwns
  <2>3. CASE Grants(t, e, action)
    <3>1. state[e] # "queued"
      BY <1>1, <2>3 DEF Grants, Carried, Underway
    <3>2. Starts(t, <<Op(action, e)>>) \/ Starts(t, <<>>)
      BY <2>3, <3>1 DEF Grants
    <3>3. active # None => active' = active
      BY <2>3 DEF Grants
    <3>4. QED BY <2>2, <3>2, <3>3
  <2>4. CASE Answers(t, e, action)
    BY <2>2, <2>4 DEF Answers, ControlKinds
  <2>5. CASE Cancels(t, e, action) /\ active # e
    BY <2>2, <2>5 DEF Cancels, CancelOf, ControlKinds
  <2>6. CASE Cancels(t, e, action) /\ active = e
    <3> DEFINE s == [state EXCEPT ![e] = "cancelled"]
               before == CancelOf(e)
    <3>1. Advance(t, s, before, <<>>)
      BY <2>6 DEF Cancels
    <3>2. before = <<Op("stop", e)>> /\ before # <<>>
      BY DEF CancelOf
    <3>3. s \in [Executions -> ExecutionStates] /\ \A f \in Executions : s[f] = "queued" => state[f] = "queued"
      BY <1>1 DEF ExecutionStates, TerminalStates
    <3> HIDE DEF s, before
    <3>4. QED BY <1>4, <2>1, <2>6, <3>1, <3>2, <3>3
  <2>7. ~Denies(t, e, action)
    BY <2>1 DEF Denies
  <2>8. QED BY <1>7, <2>3, <2>4, <2>5, <2>6, <2>7 DEF ControlRun
<1>8. QED BY <1>5, <1>6, <1>7 DEF ClientCall

\* The steps of a submission that bind nothing and submit nothing, failed ones included.
LEMMA SubmitStepsOwn ==
  ASSUME OwnInv, OrderInv', NEW t \in Threads,
         \/ CheckUnbound(t) \/ LoadContext(t) \/ StartEngineSession(t) \/ EnsureProjection(t)
         \/ SubmitRun(t) /\ Fails(t) /\ UNCHANGED engine
  PROVE  OwnInv'
PROOF
<1> DEFINE op == Head(threads[t])
<1>1. /\ threads[t] # <<>> /\ op.call = "submit" /\ op.at # "bind" /\ runOf' = runOf /\ active' = active
  BY DEF CheckUnbound, LoadContext, StartEngineSession, EnsureProjection, SubmitRun, Does
<1>2. /\ QueueInv /\ op \in Ops /\ engine \in Engines /\ session \in {None} \cup EngineSessions
  BY <1>1, HeadTypes DEF OwnInv, OrderInv, QueueInv, ConversationTypes
<1> DEFINE Goes == \E new \in Ops : /\ GoesOn(t, new) /\ new.call = "submit"
                                    /\ new.at = "submit" => new.k \in EngineSessions
<1>3. ASSUME NEW at \in Stages \ {"submit"}, GoesOn(t, [op EXCEPT !.at = at]) PROVE Goes
  <2>1. [op EXCEPT !.at = at] \in Ops /\ [op EXCEPT !.at = at].call = op.call
        /\ [op EXCEPT !.at = at].at = at
    BY <1>2 DEF Ops
  <2> HIDE DEF op
  <2>2. QED BY <1>1, <1>3, <2>1
<1>4. ASSUME NEW at \in Stages, NEW k \in {None} \cup EngineSessions, at # "submit" \/ k \in EngineSessions,
             GoesOn(t, [op EXCEPT !.k = k, !.at = at])
      PROVE  Goes
  <2>1. /\ [op EXCEPT !.k = k, !.at = at] \in Ops /\ [op EXCEPT !.k = k, !.at = at].call = op.call
        /\ [op EXCEPT !.k = k, !.at = at].at = at /\ [op EXCEPT !.k = k, !.at = at].k = k
    BY <1>2 DEF Ops
  <2> HIDE DEF op
  <2>2. QED BY <1>1, <1>4, <2>1
<1>5. {"load", "fail", "start", "submit"} \subseteq Stages
  BY DEF Stages
<1>6. /\ Sound(engine') /\ engine'.runs = engine.runs /\ engine'.execution = engine.execution
      /\ \A r \in 1..engine.runs : Living(engine', r) => Living(engine, r)
  <2>1. CASE engine' = engine
    BY <2>1 DEF OwnInv
  <2>2. CASE /\ engine.sessions + 1 \in EngineSessions
             /\ engine' = [engine EXCEPT !.sessions = engine.sessions + 1]
    <3>1. engine.sessions + 1 \in 0..MaxRuns
      BY <2>2 DEF EngineSessions, EngineRuns
    <3>2. /\ engine' \in Engines /\ engine'.runs = engine.runs /\ engine'.execution = engine.execution
          /\ engine'.home = engine.home /\ engine'.phase = engine.phase
          /\ engine'.halting = engine.halting /\ engine'.feed = engine.feed
      BY <1>2, <2>2, <3>1 DEF Engines
    <3>3. Sound(engine')
      BY <3>2, SoundSame DEF OwnInv
    <3>4. QED BY <3>2, <3>3 DEF Living
  <2>3. QED BY <2>1, <2>2
            DEF CheckUnbound, LoadContext, StartEngineSession, EnsureProjection
<1> HIDE DEF Goes
<1>7. Finishes(t) \/ Goes
  <2>1. CASE CheckUnbound(t)
    <3>1. Finishes(t) \/ GoesOn(t, [op EXCEPT !.at = "load"])
      BY <2>1 DEF CheckUnbound
    <3> HIDE DEF op
    <3>2. QED BY <1>3, <1>5, <3>1
  <2>2. CASE LoadContext(t)
    <3>1. \/ Finishes(t) \/ GoesOn(t, [op EXCEPT !.at = "fail"])
          \/ GoesOn(t, [op EXCEPT !.k = session, !.at = IF session = None THEN "start" ELSE "submit"])
      BY <2>2 DEF LoadContext, Fails
    <3> HIDE DEF op
    <3>2. CASE Finishes(t) \/ GoesOn(t, [op EXCEPT !.at = "fail"])
      BY <1>3, <1>5, <3>2
    <3>3. CASE GoesOn(t, [op EXCEPT !.k = session, !.at = "start"])
      BY <1>2, <1>4, <1>5, <3>3
    <3>4. CASE session # None /\ GoesOn(t, [op EXCEPT !.k = session, !.at = "submit"])
      BY <1>2, <1>4, <1>5, <3>4
    <3>5. QED BY <3>1, <3>2, <3>3, <3>4
  <2>3. CASE StartEngineSession(t)
    <3>1. \/ GoesOn(t, [op EXCEPT !.at = "fail"])
          \/ /\ engine.sessions + 1 \in EngineSessions
             /\ GoesOn(t, [op EXCEPT !.k = engine.sessions + 1, !.at = "submit"])
      BY <2>3 DEF StartEngineSession, Fails
    <3> HIDE DEF op
    <3>2. CASE GoesOn(t, [op EXCEPT !.at = "fail"])
      BY <1>3, <1>5, <3>2
    <3>3. CASE /\ engine.sessions + 1 \in EngineSessions
               /\ GoesOn(t, [op EXCEPT !.k = engine.sessions + 1, !.at = "submit"])
      BY <1>4, <1>5, <3>3
    <3>4. QED BY <3>1, <3>2, <3>3
  <2>4. CASE EnsureProjection(t)
    BY <2>4 DEF EnsureProjection
  <2>5. CASE SubmitRun(t) /\ Fails(t)
    <3>1. GoesOn(t, [op EXCEPT !.at = "fail"])
      BY <2>5 DEF Fails
    <3> HIDE DEF op
    <3>2. QED BY <1>3, <1>5, <3>1
  <2>6. QED BY <2>1, <2>2, <2>3, <2>4, <2>5
<1>8. CASE Finishes(t)
  <2> DEFINE q == <<>>
  <2>1. threads' = [threads EXCEPT ![t] = q] /\ Plain(q)
    BY <1>1, <1>2, <1>8, SubmitList DEF Plain
  <2> HIDE DEF q
  <2>2. QED BY <1>1, <1>6, <2>1, SubmitStepOwns
<1>9. CASE Goes
  <2>1. PICK new \in Ops : /\ GoesOn(t, new) /\ new.call = "submit"
                           /\ new.at = "submit" => new.k \in EngineSessions
    BY <1>9 DEF Goes
  <2> DEFINE q == <<new>>
  <2>2. threads' = [threads EXCEPT ![t] = q] /\ Plain(q)
    <3>1. threads' = [threads EXCEPT ![t] = <<new>>]
      <4>1. \A o \in Ops : GoesOn(t, o) => threads' = [threads EXCEPT ![t] = <<o>>]
        BY <1>1, <1>2, SubmitList
      <4>2. new \in Ops /\ GoesOn(t, new)
        BY <2>1
      <4>3. QED BY ONLY <4>1, <4>2
    <3>2. Plain(<<new>>)
      <4>1. /\ DOMAIN <<new>> = {1} /\ <<new>>[1] = new
            /\ new.call = "submit" /\ (new.at = "submit" => new.k \in EngineSessions)
        BY <2>1
      <4>2. QED BY ONLY <4>1 DEF Plain
    <3>3. QED BY <3>1, <3>2
  <2> HIDE DEF q
  <2>3. QED BY <1>1, <1>6, <2>2, SubmitStepOwns
<1>10. QED BY <1>7, <1>8, <1>9

\* The handler that submitted a run owns it until it has bound it.
LEMMA SubmitRunOwns ==
  ASSUME OwnInv, OrderInv', NEW t \in Threads, SubmitRun(t), ~UNCHANGED engine
  PROVE  OwnInv'
PROOF
<1> DEFINE op == Head(threads[t])
           r == engine.runs + 1
           new == [op EXCEPT !.run = r, !.at = "bind"]
<1>1. /\ threads[t] # <<>> /\ op.call = "submit" /\ op.at = "submit"
      /\ UNCHANGED <<active, runOf>>
      /\ engine.runs < MaxRuns /\ engine' = Submitted(engine, op.k, op.e) /\ GoesOn(t, new)
  BY DEF SubmitRun, Does
<1>2. /\ QueueInv /\ threads \in [Threads -> Seq(Ops)] /\ op \in Ops /\ op.e \in Executions
      /\ op = threads[t][1] /\ 1 \in DOMAIN threads[t]
  BY <1>1, HeadTypes, PatientTypes DEF OwnInv, OrderInv
<1>3. /\ engine \in Engines /\ engine.runs \in Nat /\ engine.runs \in 0..MaxRuns /\ MaxRuns \in Nat
      /\ engine.execution \in [EngineRuns -> {None} \cup Executions]
      /\ \A x \in 1..engine.runs : x \in EngineRuns
  BY <1>2, PatientTypes
<1>4. op.k \in EngineSessions
  BY <1>1, <1>2 DEF OwnInv, Plain
<1>5. r \in EngineRuns /\ r \in Nat
  BY <1>1, <1>3 DEF EngineRuns
<1>6. new \in Ops /\ new.call = "submit" /\ new.at = "bind" /\ new.run = r
  BY <1>1, <1>2, <1>5 DEF Ops, Stages
<1> HIDE DEF new
<1>7. threads' = [threads EXCEPT ![t] = <<new>>]
  BY <1>1, <1>2, <1>6, SubmitList
<1>8. Sound(engine') /\ Follows(engine, engine')
  <2>1. Sound(engine)
    BY DEF OwnInv
  <2> HIDE DEF op
  <2>2. QED BY <1>1, <1>2, <1>4, <2>1, SubmittedFollows
<1>9. engine'.runs = r /\ engine'.execution = [engine.execution EXCEPT ![r] = op.e]
  <2>1. /\ Submitted(engine, op.k, op.e).runs = engine.runs + 1
        /\ Submitted(engine, op.k, op.e).execution = [engine.execution EXCEPT ![engine.runs + 1] = op.e]
    <3> HIDE DEF op
    <3>1. engine \in Engines /\ engine.runs < MaxRuns /\ op.k \in {None} \cup EngineSessions
          /\ op.e \in Executions
      BY <1>1, <1>2, <1>3, <1>4
    <3>2. QED BY ONLY <3>1, SubmittedTypes
  <2>2. QED BY <1>1, <2>1
<1>10. active = op.e
  <2>1. Owes(threads[t], op.e)
    BY <1>1, <1>2 DEF Owes
  <2>2. QED BY <1>2, <2>1 DEF OwnInv, OrderInv, OwedIsActive
<1>11. \A u \in Threads : Plain(threads'[u])
  <2>1. Plain(<<new>>)
    BY <1>6 DEF Plain
  <2>2. QED BY <1>2, <1>7, <2>1 DEF OwnInv
<1>12. ASSUME NEW x \in EngineRuns, Living(engine', x)
       PROVE  x \in 1..engine'.runs /\ engine'.execution[x] \in Executions
              /\ Owner(threads', active', runOf', x, engine'.execution[x])
  <2>1. x \in 1..r
    <3>1. engine'.phase[x] # "none"
      BY <1>12 DEF Living, Working, Waiting
    <3>2. ~(x > engine'.runs)
      BY <1>8, <3>1 DEF Sound
    <3>3. QED BY <1>5, <1>9, <3>2 DEF EngineRuns
  <2>2. CASE x = r
    <3>1. engine'.execution[x] = op.e
      BY <1>3, <1>5, <1>9, <2>2
    <3>2. Binds(threads', r)
      <4>1. threads'[t] = <<new>> /\ <<new>> # <<>> /\ Head(<<new>>) = new
        BY <1>2, <1>7
      <4>2. QED BY <1>6, <4>1 DEF Binds
    <3> HIDE DEF op, r
    <3>3. QED BY <1>1, <1>2, <1>9, <1>10, <2>1, <2>2, <3>1, <3>2 DEF Owner
  <2>3. CASE x # r
    <3>1. x \in 1..engine.runs /\ Living(engine, x) /\ engine'.execution[x] = engine.execution[x]
      <4>1. x \in 1..engine.runs
        BY <1>3, <2>1, <2>3
      <4>2. Living(engine, x)
        BY <1>8, <1>12, <4>1 DEF Follows
      <4>3. QED BY <1>3, <1>9, <2>3, <4>1, <4>2
    <3>2. engine.execution[x] \in Executions /\ Owner(threads, active, runOf, x, engine.execution[x])
      BY <3>1 DEF OwnInv, Owned
    <3>3. Stops(threads[t], engine.execution[x]) => Stops(<<new>>, engine.execution[x])
      BY <1>1, <1>2, SubmitList
    <3>4. Owner(threads', active', runOf', x, engine.execution[x])
      <4>1. runOf' = runOf /\ active' = active /\ Head(threads[t]).at # "bind"
        BY <1>1
      <4> DEFINE q == <<new>>
                 e == engine.execution[x]
      <4>2. threads' = [threads EXCEPT ![t] = q] /\ (Stops(threads[t], e) => Stops(q, e))
            /\ Owner(threads, active, runOf, x, e) /\ threads \in [Threads -> Seq(Ops)]
        BY <1>2, <1>7, <3>2, <3>3
      <4> HIDE DEF q, e
      <4>3. Owner(threads', active', runOf', x, e)
        BY ONLY <4>1, <4>2, t \in Threads, OwnerStays
      <4>4. QED BY <4>3 DEF e
    <3>5. QED BY <1>9, <2>1, <3>1, <3>2, <3>4
  <2>4. QED BY <2>2, <2>3
<1>13. Owned(engine', threads', active', runOf')
  BY <1>12 DEF Owned
<1>14. QED BY <1>8, <1>11, <1>13 DEF OwnInv

\* The binding: the run stays its execution's.
LEMMA BindRunOwns ==
  ASSUME "restart" \notin Calls, OwnInv, OrderInv', NEW t \in Threads, BindRun(t)
  PROVE  OwnInv'
PROOF
<1> DEFINE op == Head(threads[t])
           new == [op EXCEPT !.at = "project"]
<1>1. /\ threads[t] # <<>> /\ op.call = "submit" /\ op.at = "bind"
      /\ UNCHANGED <<active, engine>>
      /\ runOf' = [runOf EXCEPT ![op.e] = op.run] /\ GoesOn(t, new)
  BY DEF BindRun, Does
<1>2. /\ QueueInv /\ threads \in [Threads -> Seq(Ops)] /\ op \in Ops /\ op.e \in Executions
      /\ op = threads[t][1] /\ 1 \in DOMAIN threads[t]
      /\ runOf \in [Executions -> {None} \cup EngineRuns]
  BY <1>1, HeadTypes, PatientTypes DEF OwnInv, OrderInv
<1>3. new \in Ops /\ new.call = "submit" /\ new.at = "project"
  BY <1>1, <1>2 DEF Ops, Stages
<1> HIDE DEF new
<1>4. threads' = [threads EXCEPT ![t] = <<new>>]
  BY <1>1, <1>2, <1>3, SubmitList
<1>5. \A u \in Threads : Plain(threads'[u])
  <2>1. Plain(<<new>>)
    BY <1>3 DEF Plain
  <2>2. QED BY <1>2, <1>4, <2>1 DEF OwnInv
<1>6. op.run \in RunsFor(engine, op.e)
  BY <1>1, <1>2 DEF OwnInv, OrderInv, BindsOwn, RunsFor
<1>7. ASSUME NEW r \in EngineRuns, r \in 1..engine.runs, engine.execution[r] \in Executions,
             Owner(threads, active, runOf, r, engine.execution[r])
      PROVE  Owner(threads', active', runOf', r, engine.execution[r])
  <2> DEFINE e == engine.execution[r]
  <2>1. CASE e = op.e
    <3>1. r \in RunsFor(engine, op.e)
      BY <1>7, <2>1 DEF RunsFor
    <3>2. r = op.run
      BY <1>2, <1>6, <3>1, PaidOnce
    <3>3. runOf'[e] = r
      BY <1>1, <1>2, <2>1, <3>2
    <3>4. (\E u \in Threads : Stops(threads[u], e)) => \E u \in Threads : Stops(threads'[u], e)
      <4>1. ~Stops(threads[t], e)
        BY <1>1, <1>2, SubmitList
      <4>2. \A u \in Threads : u # t => threads'[u] = threads[u]
        BY <1>2, <1>4
      <4>3. QED BY <4>1, <4>2
    <3>5. QED BY <1>1, <1>7, <3>3, <3>4 DEF Owner
  <2>2. CASE e # op.e
    <3>1. runOf'[e] = runOf[e] /\ active' = active
      BY <1>1, <1>2, <1>7, <2>2
    <3>2. op.run # r
      BY <1>6, <2>2 DEF RunsFor
    <3>3. ~Stops(threads[t], e)
      BY <1>1, <1>2, SubmitList
    <3>4. QED BY <1>2, <1>4, <1>7, <3>1, <3>2, <3>3, OwnerStays
  <2>3. QED BY <2>1, <2>2
<1>8. /\ Sound(engine') /\ engine'.runs = engine.runs /\ engine'.execution = engine.execution
      /\ \A r \in 1..engine.runs : Living(engine', r) => Living(engine, r)
  BY <1>1 DEF OwnInv
<1>9. QED BY <1>5, <1>7, <1>8, OwnKept

\* A submission that failed had no run to leave behind.
LEMMA FailOwns ==
  ASSUME "restart" \notin Calls, OwnInv, OrderInv', NEW t \in Threads, FailExecution(t)
  PROVE  OwnInv'
PROOF
<1> DEFINE e == Head(threads[t]).e
<1>1. /\ threads[t] # <<>> /\ Head(threads[t]).call = "submit" /\ Head(threads[t]).at = "fail"
      /\ UNCHANGED <<prompts, order, questions, session, runOf, worker, engine, calls>>
  BY DEF FailExecution, Does
<1>2. /\ QueueInv /\ OrderInv /\ e \in Executions /\ threads[t] \in Seq(Ops)
      /\ Head(threads[t]) = threads[t][1] /\ 1 \in DOMAIN threads[t]
      /\ state \in [Executions -> ExecutionStates] /\ Single(threads[t])
  BY <1>1, HeadTypes, PatientTypes DEF OwnInv, OrderInv, QueueInv, SingleMinded
<1>3. RunsFor(engine, e) = {}
  <2>1. Owes(threads[t], e)
    BY <1>1, <1>2 DEF Owes
  <2>2. QED BY <1>2, <2>1, OwedOnce
<1>4. /\ Sound(engine') /\ engine'.runs = engine.runs /\ engine'.execution = engine.execution
      /\ \A r \in 1..engine.runs : Living(engine', r) => Living(engine, r)
  BY <1>1 DEF OwnInv
<1>5. CASE ~(state[e] \notin TerminalStates \cup {"absent"} /\ active = e)
  <2> DEFINE q == <<>>
  <2>1. Finishes(t) /\ active' = active
    BY <1>5 DEF FailExecution
  <2>2. threads' = [threads EXCEPT ![t] = q] /\ Plain(q)
    BY <1>1, <1>2, <2>1, SubmitList DEF Plain
  <2> HIDE DEF q, e
  <2>3. QED BY <1>1, <1>4, <2>1, <2>2, SubmitStepOwns
<1>6. ASSUME NEW s \in [Executions -> ExecutionStates], NEW before, NEW d,
             before = <<>> \/ (d \in Executions /\ before = <<Op("stop", d)>>),
             Advance(t, s, before, <<>>),
             \A f \in Executions : s[f] = "queued" => state[f] = "queued",
             active = e
      PROVE  OwnInv'
  <2>1. QueueInv
    BY <1>2
  <2>2. PICK q \in Seq(Ops), next \in {None} \cup Executions :
           /\ threads' = [threads EXCEPT ![t] = q] /\ active' = next
           /\ \A x \in Executions : Owes(q, x) => x = next
           /\ \A i \in DOMAIN q : \/ before # <<>> /\ q[i] = Op("stop", d)
                                  \/ next # None /\ q[i] = Op("submit", next)
           /\ before # <<>> => 1 \in DOMAIN q /\ q[1] = Op("stop", d)
    <3>1. PassesOn(t, s, before, d)
      BY <1>6, <2>1, AdvanceTells
    <3>2. QED BY <3>1 DEF PassesOn
  <2>3. Plain(q)
    BY <2>2 DEF Plain, Op
  <2>4. RunsFor(engine, active) = {}
    BY <1>3, <1>6
  <2>5. Head(threads[t]).at # "bind" /\ runOf' = runOf
    BY <1>1
  <2> HIDE DEF e
  <2>6. QED BY <1>1, <1>4, <2>2, <2>3, <2>4, <2>5, SubmitStepOwns
<1>7. CASE state[e] \notin TerminalStates \cup {"absent"} /\ active = e
  <2> DEFINE s == [state EXCEPT ![e] = "failed"]
             before == <<>>
  <2>1. Advance(t, s, before, Tail(threads[t]))
    BY <1>7 DEF FailExecution
  <2>2. Tail(threads[t]) = <<>>
    BY <1>1, <1>2, FinishedList
  <2>3. Advance(t, s, before, <<>>)
    BY <2>1, <2>2
  <2>4. before = <<>> \/ (e \in Executions /\ before = <<Op("stop", e)>>)
    OBVIOUS
  <2>5. s \in [Executions -> ExecutionStates] /\ \A f \in Executions : s[f] = "queued" => state[f] = "queued"
    BY <1>2 DEF ExecutionStates, TerminalStates
  <2> HIDE DEF before, s, e
  <2>6. QED BY <1>6, <1>7, <2>3, <2>4, <2>5
<1>8. QED BY <1>5, <1>7

\* A cancellation reaches the run, which goes on no more; other controls change no owner.
LEMMA ControlOwns ==
  ASSUME "restart" \notin Calls, OwnInv, OrderInv', NEW t \in Threads, ControlEngine(t)
  PROVE  OwnInv'
PROOF
<1> DEFINE op == Head(threads[t])
           q == Tail(threads[t])
<1>1. /\ threads[t] # <<>> /\ op.call \in ControlKinds
      /\ engine' = IF runOf[op.e] = None THEN engine ELSE Controlled(engine, runOf[op.e], op.call)
      /\ threads' = [threads EXCEPT ![t] = q] /\ UNCHANGED <<active, runOf>>
  BY DEF ControlEngine, Finishes
<1>2. /\ QueueInv /\ threads \in [Threads -> Seq(Ops)] /\ op \in Ops /\ op.e \in Executions
      /\ op = threads[t][1] /\ threads[t] \in Seq(Ops)
      /\ runOf \in [Executions -> {None} \cup EngineRuns] /\ engine \in Engines
  BY <1>1, HeadTypes, PatientTypes DEF OwnInv, OrderInv
<1>3. /\ \A i \in DOMAIN threads[t] : i = 1 \/ \E j \in DOMAIN q : q[j] = threads[t][i]
      /\ \A j \in DOMAIN q : \E i \in DOMAIN threads[t] : q[j] = threads[t][i]
  <2>1. /\ Len(threads[t]) \in Nat \ {0} /\ DOMAIN threads[t] = 1..Len(threads[t])
        /\ DOMAIN q = 1..(Len(threads[t]) - 1)
        /\ \A j \in 1..(Len(threads[t]) - 1) : q[j] = threads[t][j + 1]
    BY <1>1, <1>2
  <2> HIDE DEF q
  <2>2. ASSUME NEW i \in DOMAIN threads[t], i # 1 PROVE \E j \in DOMAIN q : q[j] = threads[t][i]
    <3>1. i - 1 \in 1..(Len(threads[t]) - 1) /\ (i - 1) + 1 = i
      BY <2>1, <2>2
    <3>2. QED BY <2>1, <3>1
  <2>3. ASSUME NEW j \in DOMAIN q PROVE \E i \in DOMAIN threads[t] : q[j] = threads[t][i]
    <3>1. j + 1 \in DOMAIN threads[t]
      BY <2>1, <2>3
    <3>2. QED BY <2>1, <2>3, <3>1
  <2>4. QED BY <2>2, <2>3
<1> HIDE DEF q, op
<1>4. \A u \in Threads : Plain(threads'[u])
  <2>1. Plain(q)
    BY <1>3 DEF OwnInv, Plain
  <2>2. QED BY <1>1, <1>2, <2>1 DEF OwnInv
<1>5. /\ Sound(engine') /\ engine'.runs = engine.runs /\ engine'.execution = engine.execution
      /\ \A r \in 1..engine.runs : Living(engine', r) => Living(engine, r)
      /\ op.call = "stop" /\ runOf[op.e] # None => ~Living(engine', runOf[op.e])
  <2>1. CASE runOf[op.e] = None
    BY <1>1, <2>1 DEF OwnInv
  <2>2. CASE runOf[op.e] # None
    <3>1. runOf[op.e] \in EngineRuns /\ runOf[op.e] <= engine.runs
      <4>1. runOf[op.e] \in 1..engine.runs
        BY <1>2, <2>2 DEF OwnInv, OrderInv, Bound
      <4>2. QED BY <1>2, <2>2, <4>1
    <3> DEFINE r == runOf[op.e]
    <3>2. engine' = Controlled(engine, r, op.call) /\ Sound(engine)
      BY <1>1, <2>2 DEF OwnInv
    <3> HIDE DEF r
    <3>3. /\ Sound(engine') /\ Follows(engine, engine')
          /\ op.call = "stop" => ~Living(engine', r)
      <4>1. r \in EngineRuns /\ r <= engine.runs /\ op.call \in ControlKinds
        BY <1>1, <3>1 DEF r
      <4>2. QED BY <3>2, <4>1, ControlledFollows
    <3>4. engine'.runs = engine.runs /\ engine'.execution = engine.execution
      <4>1. r \in EngineRuns /\ engine \in Engines /\ op.call \in ControlKinds
        BY <1>1, <1>2, <3>1 DEF r
      <4>2. /\ Controlled(engine, r, op.call).runs = engine.runs
            /\ Controlled(engine, r, op.call).execution = engine.execution
        BY ONLY <4>1, ControlledTypes
      <4>3. QED BY <3>2, <4>2
    <3>5. QED BY <3>3, <3>4 DEF Follows, r
  <2>3. QED BY <2>1, <2>2
<1>6. ASSUME NEW r \in EngineRuns, Living(engine', r), r \in 1..engine.runs, engine.execution[r] \in Executions,
             Owner(threads, active, runOf, r, engine.execution[r])
      PROVE  Owner(threads', active', runOf', r, engine.execution[r])
  <2> DEFINE e == engine.execution[r]
  <2>1. CASE op.call = "stop" /\ op.e = e
    <3>1. runOf[e] = None \/ runOf[e] # r
      BY <1>5, <1>6, <2>1
    <3>2. r # None
      BY DEF EngineRuns, None
    <3>3. active = e /\ Binds(threads, r)
      BY <1>6, <3>1, <3>2 DEF Owner
    <3>4. Binds(threads', r)
      <4>1. PICK u \in Threads : /\ threads[u] # <<>> /\ Head(threads[u]).call = "submit"
                                 /\ Head(threads[u]).at = "bind" /\ Head(threads[u]).run = r
        BY <3>3 DEF Binds
      <4>2. u # t
        BY <2>1, <4>1 DEF op
      <4>3. QED BY <1>1, <1>2, <4>1, <4>2 DEF Binds
    <3>5. QED BY <1>1, <3>3, <3>4 DEF Owner
  <2>2. CASE ~(op.call = "stop" /\ op.e = e)
    <3>1. Stops(threads[t], e) => Stops(q, e)
      BY <1>2, <1>3, <2>2 DEF Stops
    <3>2. op.call # "submit"
      BY <1>1 DEF ControlKinds
    <3>3. /\ threads \in [Threads -> Seq(Ops)] /\ t \in Threads /\ threads' = [threads EXCEPT ![t] = q]
          /\ runOf'[e] = runOf[e] /\ active' = active /\ Head(threads[t]).call # "submit"
          /\ Owner(threads, active, runOf, r, e)
      BY <1>1, <1>2, <1>6, <3>2 DEF op
    <3> HIDE DEF e
    <3>4. Owner(threads', active', runOf', r, e)
      BY ONLY <3>1, <3>3, OwnerStays
    <3>5. QED BY <3>4 DEF e
  <2>3. QED BY <2>1, <2>2
<1>7. QED BY <1>4, <1>5, <1>6, OwnKept

\* The worker: the run of an active execution that is over has ended.
LEMMA ProjectOwns ==
  ASSUME "restart" \notin Calls, OwnInv, OrderInv', Project
  PROVE  OwnInv'
PROOF
<1> DEFINE event == Head(engine.feed[worker])
<1>1. /\ OrderInv /\ QueueInv /\ ConversationTypes /\ Sound(engine) /\ threads \in [Threads -> Seq(Ops)]
      /\ state \in [Executions -> ExecutionStates] /\ 0 \in Threads /\ threads[0] = <<>> /\ runOf' = runOf
  BY PatientTypes, ConversationAssumption DEF OwnInv, OrderInv, QueueInv, Threads, Project
<1>2. /\ Sound(engine') /\ engine'.runs = engine.runs /\ engine'.execution = engine.execution
      /\ engine'.phase = engine.phase /\ engine'.halting = engine.halting
      /\ worker \in EngineSessions /\ engine.feed[worker] \in Seq(Events) /\ engine.feed[worker] # <<>>
  BY <1>1, ProjectSound
<1>3. \A r \in 1..engine.runs : Living(engine', r) => Living(engine, r)
  BY <1>2 DEF Living
<1>4. /\ event \in Events /\ event.run \in EngineRuns
      /\ event.type \in TerminalStates => engine.phase[event.run] \in TerminalStates
  <2>1. event = engine.feed[worker][1] /\ 1 \in DOMAIN engine.feed[worker] /\ event \in Events
    BY <1>2
  <2>2. Known(engine, engine.feed[worker][1])
    BY <1>1, <1>2, <2>1 DEF Sound
  <2>3. QED BY <2>1, <2>2 DEF Events, Known
<1> HIDE DEF event
<1>5. CASE UNCHANGED <<active, threads>>
  <2>1. \A u \in Threads : Plain(threads'[u])
    BY <1>5 DEF OwnInv
  <2>2. ASSUME NEW r, NEW e, Owner(threads, active, runOf, r, e)
        PROVE  Owner(threads', active', runOf', r, e)
    BY <1>1, <1>5, <2>2
  <2>3. QED BY <1>2, <1>3, <2>1, <2>2, OwnKept
<1>6. CASE ~UNCHANGED <<active, threads>>
  <2>1. PICK e \in Resolved(event.run) :
          active = e /\ Advance(0, [state EXCEPT ![e] = ProjectedState(event.type, @)], <<>>, <<>>)
                     /\ event.type \in TerminalStates
    BY <1>6 DEF Project, event
  <2>2. e \in Executions /\ runOf[e] = event.run
    BY <2>1 DEF Resolved
  <2> DEFINE s == [state EXCEPT ![e] = ProjectedState(event.type, @)]
             before == <<>>
  <2>3. Advance(0, s, before, <<>>)
    BY <2>1
  <2>4. before = <<>> \/ (e \in Executions /\ before = <<Op("stop", e)>>)
    OBVIOUS
  <2>5. s[e] = event.type /\ event.type \in ExecutionStates \ {"queued"}
    BY <1>1, <2>1, <2>2 DEF ProjectedState, ExecutionStates, TerminalStates
  <2>6. s \in [Executions -> ExecutionStates] /\ \A f \in Executions : f # e => s[f] = state[f]
    BY <1>1, <2>2, <2>5
  <2> HIDE DEF s, before
  <2>7. \A f \in Executions : s[f] = "queued" => state[f] = "queued"
    BY <2>5, <2>6
  <2>8. PICK q \in Seq(Ops), next \in {None} \cup Executions :
           /\ threads' = [threads EXCEPT ![0] = q] /\ active' = next
           /\ \A x \in Executions : Owes(q, x) => x = next
           /\ \A i \in DOMAIN q : \/ before # <<>> /\ q[i] = Op("stop", e)
                                  \/ next # None /\ q[i] = Op("submit", next)
    <3>1. PassesOn(0, s, before, e)
      BY <1>1, <2>2, <2>3, <2>4, <2>6, <2>7, AdvanceTells
    <3>2. QED BY <3>1 DEF PassesOn
  <2>9. \A u \in Threads : Plain(threads'[u])
    <3>1. Plain(q)
      BY <2>8 DEF Plain, Op
    <3>2. QED BY <1>1, <2>8, <3>1 DEF OwnInv
  <2>10. event.run \in RunsFor(engine, e) /\ ~Living(engine, event.run)
    <3>1. runOf[e] # None
      BY <1>4, <2>2 DEF EngineRuns, None
    <3>2. event.run \in RunsFor(engine, e)
      BY <1>1, <2>2, <3>1 DEF OrderInv, Bound, RunsFor
    <3>3. QED BY <1>4, <2>1, <3>2 DEF Living, TerminalStates, Working, Waiting
  <2>11. ASSUME NEW r \in EngineRuns, Living(engine, r), r \in 1..engine.runs,
                engine.execution[r] \in Executions,
                Owner(threads, active, runOf, r, engine.execution[r])
         PROVE  Owner(threads', active', runOf', r, engine.execution[r])
    <3>1. engine.execution[r] # e
      <4>1. r # event.run
        BY <2>10, <2>11
      <4>2. r \notin RunsFor(engine, e)
        BY <1>1, <2>2, <2>10, <4>1, PaidOnce
      <4>3. QED BY <2>11, <4>2 DEF RunsFor
    <3> DEFINE f == engine.execution[r]
    <3>2. active # f /\ runOf'[f] = runOf[f] /\ ~Stops(threads[0], f) /\ Owner(threads, active, runOf, r, f)
      BY <1>1, <2>1, <2>11, <3>1 DEF Stops
    <3> HIDE DEF f
    <3>3. Owner(threads', active', runOf', r, f)
      BY ONLY <1>1, <2>8, <3>2, OwnerStays
    <3>4. QED BY <3>3 DEF f
  <2>12. QED BY <1>2, <1>3, <2>9, <2>11, OwnKept
<1>7. QED BY <1>5, <1>6

\* Every step of a conversation whose clients wait and make only these calls.
LEMMA PatientStepOwns ==
  ASSUME Tame, OwnInv, [PatientNext]_vars
  PROVE  OwnInv'
PROOF
<1>1. OrderInv /\ "restart" \notin Calls /\ OrderInv'
  BY PatientStepOrder DEF OwnInv, Tame
<1>2. ASSUME UNCHANGED <<threads, active, runOf>>, engine'.runs = engine.runs,
             engine'.execution = engine.execution, Sound(engine'), Follows(engine, engine')
      PROVE  OwnInv'
  <2>1. \A u \in Threads : Plain(threads'[u])
    BY <1>2 DEF OwnInv
  <2>2. \A r \in 1..engine.runs : Living(engine', r) => Living(engine, r)
    BY <1>2 DEF Follows
  <2>3. ASSUME NEW r, NEW e, Owner(threads, active, runOf, r, e)
        PROVE  Owner(threads', active', runOf', r, e)
    BY <1>2, <2>3
  <2>4. QED BY <1>1, <1>2, <2>1, <2>2, <2>3, OwnKept
<1>3. CASE UNCHANGED vars
  <2>1. UNCHANGED <<threads, active, runOf, engine>>
    BY <1>3 DEF vars
  <2>2. Sound(engine') /\ Follows(engine, engine')
    BY <2>1, FollowsItself DEF OwnInv
  <2>3. QED BY <1>2, <2>1, <2>2
<1>4. ASSUME NEW r \in EngineRuns, EngineStep(r) PROVE OwnInv'
  <2>1. engine'.runs = engine.runs /\ engine'.execution = engine.execution
    BY <1>1, <1>4, EngineStepTypes DEF OrderInv, QueueInv
  <2>2. Sound(engine') /\ Follows(engine, engine')
    BY <1>4, EngineStepFollows DEF OwnInv
  <2>3. QED BY <1>2, <1>4, <2>1, <2>2 DEF EngineStep
<1>5. CASE Project
  BY <1>1, <1>5, ProjectOwns
<1>6. ASSUME NEW t \in Threads, Prompt(t) PROVE OwnInv'
  BY <1>1, <1>6, PromptOwns
<1>7. ASSUME NEW t \in Threads, ThreadStep(t) PROVE OwnInv'
  <2>1. ~Forget(t)
    <3>1. SUFFICES ASSUME Forget(t) PROVE FALSE
      OBVIOUS
    <3>2. threads[t] # <<>> /\ Head(threads[t]).call = "forget"
      BY <3>1 DEF Forget, Does
    <3>3. Head(threads[t]) = threads[t][1] /\ 1 \in DOMAIN threads[t]
      BY <1>1, <3>2, HeadTypes DEF OrderInv
    <3>4. QED BY <3>2, <3>3 DEF OwnInv, Plain
  <2>2. SubmitRun(t) => (Fails(t) /\ UNCHANGED engine) \/ ~UNCHANGED engine
    <3>1. SUFFICES ASSUME SubmitRun(t), ~(Fails(t) /\ UNCHANGED engine) PROVE ~UNCHANGED engine
      OBVIOUS
    <3>2. /\ threads[t] # <<>> /\ engine.runs < MaxRuns
          /\ engine' = Submitted(engine, Head(threads[t]).k, Head(threads[t]).e)
      BY <3>1 DEF SubmitRun, Does
    <3> DEFINE k == Head(threads[t]).k
               e == Head(threads[t]).e
    <3>3. Submitted(engine, k, e).runs = engine.runs + 1
      <4>1. Head(threads[t]) \in Ops /\ QueueInv
        BY <1>1, <3>2, HeadTypes DEF OrderInv
      <4>2. /\ engine \in Engines /\ engine.runs < MaxRuns
            /\ k \in {None} \cup EngineSessions /\ e \in Executions
        BY <3>2, <4>1, PatientTypes DEF Ops
      <4> HIDE DEF k, e
      <4>3. QED BY ONLY <4>2, SubmittedTypes
    <3>4. engine.runs \in Nat
      BY <1>1, PatientTypes DEF OrderInv
    <3>5. QED BY <3>2, <3>3, <3>4
  <2>3. QED BY <1>1, <1>7, <2>1, <2>2, SubmitStepsOwn, SubmitRunOwns, BindRunOwns, FailOwns, ControlOwns
            DEF ThreadStep
<1>8. ASSUME \A u \in Threads : ~AtWork(u), NEW t \in Threads, ClientCall(t) PROVE OwnInv'
  BY <1>1, <1>8, ClientOwns
<1>9. QED BY <1>3, <1>4, <1>5, <1>6, <1>7, <1>8 DEF PatientNext, AgentEngine

\* The empty conversation.
LEMMA InitOwns == Init => OwnInv
PROOF
<1> SUFFICES ASSUME Init PROVE OwnInv
  OBVIOUS
<1>1. OrderInv
  BY InitOrder
<1>2. engine \in Engines /\ engine = NoEngine /\ \A t \in Threads : threads[t] = <<>>
  BY <1>1, PatientTypes DEF OrderInv, Init
<1>3. Sound(engine)
  BY <1>2 DEF Sound, NoEngine, Truthful, About, EngineRuns
<1>4. Owned(engine, threads, active, runOf) /\ \A t \in Threads : Plain(threads[t])
  BY <1>2 DEF Owned, Living, NoEngine, Working, Waiting, Plain
<1>5. QED BY <1>1, <1>3, <1>4 DEF OwnInv

\* As long as clients wait for the handlers and make no call that takes a run from its
\* execution or calls an execution back: whenever no handler is at work, a run that goes
\* on in the engine is the active execution's. Stopping, failing and ending never leave a
\* run behind that the client could not see and stop, and that prompts would wait behind.
THEOREM NoRunIsOrphaned ==
  ASSUME Calls \cap {"deny", "rollback", "restart", "delete"} = {}
  PROVE  PatientSpec => []NoOrphanRun
PROOF
<1>1. OwnInv /\ [PatientNext]_vars => OwnInv'
  BY PatientStepOwns DEF Tame
<1>2. ASSUME OwnInv PROVE NoOrphanRun
  <2>1. SUFFICES ASSUME \A t \in Threads : ~AtWork(t), NEW r \in EngineRuns, Live(r)
                 PROVE  active # None /\ runOf[active] = r
    BY DEF NoOrphanRun
  <2>2. \A t \in Threads : threads[t] = <<>>
    BY <2>1 DEF AtWork
  <2>3. ~Binds(threads, r) /\ \A t \in Threads : \A e : ~Stops(threads[t], e)
    BY <2>2 DEF Binds, Stops
  <2>4. Living(engine, r)
    BY <2>1 DEF Live, Living
  <2>5. engine.execution[r] \in Executions /\ Owner(threads, active, runOf, r, engine.execution[r])
    BY <1>2, <2>4 DEF OwnInv, Owned
  <2>6. QED BY <2>3, <2>5 DEF Owner, Executions, None
<1>3. OwnInv => NoOrphanRun
  BY <1>2
<1>4. QED BY <1>1, <1>3, InitOwns, PTL DEF PatientSpec
-------------------------------------------------------------------------------
(* That the hub shows its executions as their runs are, with every submission  *)
(* free to fail.                                                               *)

\* The call a thread makes next is a submission that has come so far.
HeadAt(q, at) == q # <<>> /\ Head(q).call = "submit" /\ Head(q).at = at

\* A handler will still make one of the calls for execution e.
Will(th, e, kinds) ==
  \E t \in Threads : \E i \in DOMAIN th[t] : th[t][i].e = e /\ th[t][i].call \in kinds

\* State x of execution e is that of its run r, or the run does not know yet what the
\* client decided: it was or will be told to halt, or its wait will be over.
Agrees(g, x, r, e, th) ==
  \/ x = ShownAs(g.phase[r])
  \/ /\ g.phase[r] \notin TerminalStates
     /\ r \in g.halting \/ Will(th, e, {"stop"})
  \/ /\ x = "executing" /\ g.phase[r] = "waiting_approval"
     /\ Will(th, e, {"approve", "resume"})
  \/ /\ x = "executing" /\ g.phase[r] = "waiting_user_input"
     /\ Will(th, e, {"answer"})

\* All runs are in the session of the conversation.
Housed(g, k) == \A r \in 1..g.runs : k # None /\ g.home[r] = k

\* A submission that has begun is the next call of its thread; it goes to the session
\* of the conversation, and makes one only if there is none.
Placed(q, k) == \A i \in DOMAIN q : q[i].call = "submit" =>
  /\ i = 1 \/ q[i].at = "check"
  /\ q[i].at \in {"submit", "bind", "project"} => q[i].k = k /\ k # None
  /\ q[i].at = "start" => k = None

\* Once a run is bound the worker reads the session, or a handler is about to start it.
Watched(rho, w, th) ==
  (\E e \in Executions : rho[e] # None) /\ w = None =>
    \E t \in Threads : HeadAt(th[t], "project")

\* An execution is pending until its run is bound, and nothing was told of such a run
\* but what was projected in vain.
OwedIsPending(th, s) ==
  \A t \in Threads, e \in Executions : Owes(th[t], e) => s[e] = "pending"
NewsOnly(g, q, k) == About(g.feed[k], Head(q).run) = {} => g.phase[Head(q).run] = "queued"
Fresh(g, th, s, k) == \A t \in Threads : HeadAt(th[t], "bind") =>
  s[Head(th[t]).e] = "pending" /\ NewsOnly(g, th[t], k)

\* An execution agrees with its run when the session has no more news of it.
Settled(g, s, rho, th, k) == \A e \in Executions :
  rho[e] # None /\ s[e] # "absent" /\ About(g.feed[k], rho[e]) = {} =>
    Agrees(g, s[e], rho[e], e, th)

AgreeInv ==
  /\ OwnInv
  /\ Housed(engine, session)
  /\ worker \in {None, session}
  /\ \A t \in Threads : Placed(threads[t], session)
  /\ Watched(runOf, worker, threads)
  /\ OwedIsPending(threads, state)
  /\ Fresh(engine, threads, state, session)
  /\ Settled(engine, state, runOf, threads, session)
-------------------------------------------------------------------------------
(* What the steps have in common.                                             *)

\* The types the steps need, and where the bound runs are.
LEMMA AgreeFacts ==
  ASSUME "restart" \notin Calls, AgreeInv
  PROVE  /\ QueueInv /\ OrderInv /\ OwnInv /\ Sound(engine) /\ engine \in Engines
         /\ threads \in [Threads -> Seq(Ops)] /\ state \in [Executions -> ExecutionStates]
         /\ session \in {None} \cup EngineSessions /\ engine.runs \in Nat
         /\ runOf \in [Executions -> {None} \cup EngineRuns]
         /\ active \in {None} \cup Executions /\ Carried(state, active, queueState)
         /\ \A e \in Executions : runOf[e] # None =>
              /\ runOf[e] \in 1..engine.runs /\ runOf[e] \in EngineRuns
              /\ session \in EngineSessions /\ session # None /\ engine.home[runOf[e]] = session
              /\ state[e] # "queued"
              /\ \A f \in Executions : runOf[f] = runOf[e] => f = e
PROOF
<1>1. /\ QueueInv /\ OrderInv /\ OwnInv /\ Sound(engine) /\ Carried(state, active, queueState)
      /\ session \in {None} \cup EngineSessions /\ prompts \in 0..MaxPrompts
  BY DEF AgreeInv, OwnInv, OrderInv, QueueInv, ConversationTypes
<1>2. /\ engine \in Engines /\ engine.runs \in Nat /\ \A r \in 1..engine.runs : r \in EngineRuns
      /\ threads \in [Threads -> Seq(Ops)] /\ state \in [Executions -> ExecutionStates]
      /\ runOf \in [Executions -> {None} \cup EngineRuns] /\ active \in {None} \cup Executions
  BY <1>1, PatientTypes
<1>3. ASSUME NEW e \in Executions, runOf[e] # None
      PROVE  /\ runOf[e] \in 1..engine.runs /\ runOf[e] \in EngineRuns
             /\ session \in EngineSessions /\ session # None /\ engine.home[runOf[e]] = session
             /\ state[e] # "queued"
             /\ \A f \in Executions : runOf[f] = runOf[e] => f = e
  <2>1. runOf[e] \in 1..engine.runs /\ \A f \in Executions : runOf[f] = runOf[e] => f = e
    BY <1>1, <1>3 DEF OrderInv, Bound
  <2>2. session # None /\ engine.home[runOf[e]] = session
    BY <2>1 DEF AgreeInv, Housed
  <2>3. state[e] # "queued"
    <3>1. e <= e
      BY DEF Executions
    <3>2. state[e] = "queued" => Behind(prompts, state, e)
      BY <3>1 DEF Behind
    <3>3. QED BY <1>1, <1>3, <3>2 DEF QueueInv, Untouched
  <2>4. QED BY <1>1, <1>2, <2>1, <2>2, <2>3
<1>4. QED BY <1>1, <1>2, <1>3

\* What the engine does without a word to the hub leaves them in agreement.
LEMMA AgreesOn ==
  ASSUME NEW g, NEW h, Follows(g, h), NEW k \in EngineSessions, NEW r \in 1..g.runs,
         g.home[r] = k, About(h.feed[k], r) = {}, NEW x, NEW e, NEW th, NEW later,
         \A kinds : "submit" \notin kinds /\ Will(th, e, kinds) => Will(later, e, kinds),
         Agrees(g, x, r, e, th)
  PROVE  Agrees(h, x, r, e, later)
PROOF
<1>1. h.phase[r] = g.phase[r] /\ g.halting \subseteq h.halting
  BY DEF Follows
<1>2. /\ Will(th, e, {"stop"}) => Will(later, e, {"stop"})
      /\ Will(th, e, {"answer"}) => Will(later, e, {"answer"})
      /\ Will(th, e, {"approve", "resume"}) => Will(later, e, {"approve", "resume"})
  <2>1. "submit" \notin {"stop"} /\ "submit" \notin {"answer"} /\ "submit" \notin {"approve", "resume"}
    OBVIOUS
  <2>2. QED BY <2>1
<1>3. QED BY <1>1, <1>2 DEF Agrees

\* A thread that keeps its other calls still makes them.
LEMMA WillStays ==
  ASSUME NEW e, NEW t \in Threads, NEW q, threads \in [Threads -> Seq(Ops)],
         threads' = [threads EXCEPT ![t] = q],
         \A i \in DOMAIN threads[t] : threads[t][i].e = e /\ threads[t][i].call # "submit" =>
           \E j \in DOMAIN q : q[j] = threads[t][i]
  PROVE  \A kinds : "submit" \notin kinds /\ Will(threads, e, kinds) => Will(threads', e, kinds)
PROOF
<1>1. SUFFICES ASSUME NEW kinds, "submit" \notin kinds, Will(threads, e, kinds)
               PROVE  Will(threads', e, kinds)
  OBVIOUS
<1>2. PICK u \in Threads : \E i \in DOMAIN threads[u] : threads[u][i].e = e /\ threads[u][i].call \in kinds
  BY <1>1 DEF Will
<1>3. PICK i \in DOMAIN threads[u] : threads[u][i].e = e /\ threads[u][i].call \in kinds
  BY <1>2
<1>4. CASE u = t
  <2>1. PICK j \in DOMAIN q : q[j] = threads[t][i]
    BY <1>1, <1>3, <1>4
  <2>2. threads'[t] = q
    OBVIOUS
  <2>3. QED BY <1>3, <1>4, <2>1, <2>2 DEF Will
<1>5. CASE u # t
  <2>1. threads'[u] = threads[u]
    BY <1>5
  <2>2. QED BY <1>3, <2>1 DEF Will
<1>6. QED BY <1>4, <1>5

\* States s agree if every execution with a run is let alone, with the calls that are to
\* be made for it, or agrees anew.
LEMMA SettledOn ==
  ASSUME "restart" \notin Calls, AgreeInv, Follows(engine, engine'), NEW s,
         \A e \in Executions :
           runOf[e] # None /\ s[e] # "absent" /\ About(engine'.feed[session], runOf[e]) = {} =>
             \/ /\ s[e] = state[e]
                /\ \A kinds : "submit" \notin kinds /\ Will(threads, e, kinds) => Will(threads', e, kinds)
             \/ Agrees(engine', s[e], runOf[e], e, threads')
  PROVE  Settled(engine', s, runOf, threads', session)
PROOF
<1>1. SUFFICES ASSUME NEW e \in Executions, runOf[e] # None, s[e] # "absent",
                      About(engine'.feed[session], runOf[e]) = {}
               PROVE  Agrees(engine', s[e], runOf[e], e, threads')
  BY DEF Settled
<1>2. /\ runOf[e] \in 1..engine.runs /\ session \in EngineSessions /\ engine.home[runOf[e]] = session
  BY <1>1, AgreeFacts
<1>3. CASE /\ s[e] = state[e]
           /\ \A kinds : "submit" \notin kinds /\ Will(threads, e, kinds) => Will(threads', e, kinds)
  <2>1. About(engine.feed[session], runOf[e]) = {}
    BY <1>1, <1>2 DEF Follows
  <2>2. Agrees(engine, state[e], runOf[e], e, threads)
    BY <1>1, <1>3, <2>1 DEF AgreeInv, Settled
  <2>3. QED BY <1>1, <1>2, <1>3, <2>2, AgreesOn
<1>4. QED BY <1>1, <1>3

\* A handler about to bind its run stays fresh, whatever the engine does.
LEMMA FreshOn ==
  ASSUME "restart" \notin Calls, AgreeInv, Follows(engine, engine'), NEW t \in Threads,
         HeadAt(threads[t], "bind")
  PROVE  /\ NewsOnly(engine', threads[t], session)
         /\ RunsFor(engine, Head(threads[t]).e) # {} /\ Head(threads[t]).run \in 1..engine.runs
         /\ Head(threads[t]).e \in Executions /\ state[Head(threads[t]).e] = "pending"
         /\ \A e \in Executions : Owes(threads[t], e) => e # Head(threads[t]).e
PROOF
<1> DEFINE op == Head(threads[t])
<1>1. /\ QueueInv /\ op.e \in Executions /\ op = threads[t][1] /\ 1 \in DOMAIN threads[t]
      /\ session \in {None} \cup EngineSessions
  BY AgreeFacts, HeadTypes DEF HeadAt
<1>2. /\ op.run \in 1..engine.runs /\ engine.execution[op.run] = op.e
  <2>1. BindsOwn(threads[t], engine)
    BY AgreeFacts DEF OrderInv
  <2>2. QED BY <1>1, <2>1 DEF HeadAt, BindsOwn
<1>3. session # None /\ engine.home[op.run] = session
  BY <1>2 DEF AgreeInv, Housed
<1>4. state[op.e] = "pending" /\ NewsOnly(engine, threads[t], session)
  BY DEF AgreeInv, Fresh
<1>5. NewsOnly(engine', threads[t], session)
  BY <1>1, <1>2, <1>3, <1>4 DEF NewsOnly, Follows
<1>6. RunsFor(engine, op.e) # {}
  BY <1>2 DEF RunsFor
<1>7. \A e \in Executions : Owes(threads[t], e) => e # op.e
  BY <1>6, AgreeFacts, OwedOnce
<1>8. QED BY <1>1, <1>2, <1>4, <1>5, <1>6, <1>7

\* The parts of the invariant that a step of one thread keeps.
LEMMA PartsKept ==
  ASSUME "restart" \notin Calls, AgreeInv, OwnInv', NEW t \in Threads, NEW q,
         threads' = [threads EXCEPT ![t] = q],
         engine'.runs = engine.runs, \A r \in 1..engine.runs : engine'.home[r] = engine.home[r],
         runOf' = runOf, session' = session, worker' = worker \/ worker' = session,
         Placed(q, session), worker' # None \/ ~HeadAt(threads[t], "project"),
         ~HeadAt(q, "bind"),
         \A e \in Executions : Owes(q, e) => state'[e] = "pending",
         \A u \in Threads \ {t}, e \in Executions : Owes(threads[u], e) => state'[e] = "pending",
         \A u \in Threads \ {t} : HeadAt(threads[u], "bind") =>
           state'[Head(threads[u]).e] = "pending" /\ NewsOnly(engine', threads[u], session),
         Settled(engine', state', runOf', threads', session')
  PROVE  AgreeInv'
PROOF
<1>1. /\ threads \in [Threads -> Seq(Ops)] /\ threads'[t] = q
      /\ \A u \in Threads : u # t => threads'[u] = threads[u]
  BY AgreeFacts
<1>2. Housed(engine', session') /\ worker' \in {None, session'}
  BY DEF AgreeInv, Housed
<1>3. \A u \in Threads : Placed(threads'[u], session')
  BY <1>1 DEF AgreeInv
<1>4. Watched(runOf', worker', threads')
  <2>1. SUFFICES ASSUME \E e \in Executions : runOf[e] # None, worker' = None
                 PROVE  \E u \in Threads : HeadAt(threads'[u], "project")
    BY DEF Watched
  <2>2. worker = None
    <3>1. session # None
      BY <2>1, AgreeFacts
    <3>2. QED BY <2>1, <3>1
  <2>3. PICK u \in Threads : HeadAt(threads[u], "project")
    BY <2>1, <2>2 DEF AgreeInv, Watched
  <2>4. u # t
    BY <2>1, <2>3
  <2>5. QED BY <1>1, <2>3, <2>4
<1>5. OwedIsPending(threads', state')
  <2>1. SUFFICES ASSUME NEW u \in Threads, NEW e \in Executions, Owes(threads'[u], e)
                 PROVE  state'[e] = "pending"
    BY DEF OwedIsPending
  <2>2. CASE u = t
    BY <1>1, <2>1, <2>2
  <2>3. CASE u # t
    BY <1>1, <2>1, <2>3
  <2>4. QED BY <2>2, <2>3
<1>6. Fresh(engine', threads', state', session')
  <2>1. SUFFICES ASSUME NEW u \in Threads, HeadAt(threads'[u], "bind")
                 PROVE  state'[Head(threads'[u]).e] = "pending" /\ NewsOnly(engine', threads'[u], session')
    BY DEF Fresh
  <2>2. u # t /\ threads'[u] = threads[u]
    BY <1>1, <2>1
  <2>3. QED BY <2>1, <2>2
<1>7. QED BY <1>2, <1>3, <1>4, <1>5, <1>6 DEF AgreeInv

-------------------------------------------------------------------------------
(* The steps.                                                                 *)

\* A list of calls that have not begun goes to any session and binds nothing.
LEMMA NewListAgrees ==
  ASSUME NEW q \in Seq(Ops), \A i \in DOMAIN q : q[i].at = "check", NEW k
  PROVE  Placed(q, k) /\ ~HeadAt(q, "bind") /\ ~HeadAt(q, "project")
PROOF
<1>1. Placed(q, k)
  BY DEF Placed
<1>2. q # <<>> => Head(q) = q[1] /\ 1 \in DOMAIN q
  OBVIOUS
<1>3. QED BY <1>1, <1>2 DEF HeadAt

\* A thread that had submissions only to make passes the conversation on.
LEMMA PassedOnAgrees ==
  ASSUME "restart" \notin Calls, AgreeInv, OwnInv', NEW t \in Threads, NEW s, NEW before, NEW d,
         s \in [Executions -> ExecutionStates], PassesOn(t, s, before, d),
         ~HeadAt(threads[t], "project"),
         engine'.runs = engine.runs, \A r \in 1..engine.runs : engine'.home[r] = engine.home[r],
         UNCHANGED <<runOf, session, worker>>,
         \A u \in Threads \ {t}, e \in Executions : Owes(threads[u], e) => s[e] = "pending",
         \A u \in Threads \ {t} : HeadAt(threads[u], "bind") =>
           s[Head(threads[u]).e] = "pending" /\ Head(threads[u]).e \in Executions
           /\ NewsOnly(engine', threads[u], session),
         Settled(engine', s, runOf, threads', session)
  PROVE  AgreeInv'
PROOF
<1>1. PICK q \in Seq(Ops), next \in {None} \cup Executions :
        /\ threads' = [threads EXCEPT ![t] = q]
        /\ \A x \in Executions : Owes(q, x) => x = next
        /\ \A i \in DOMAIN q : \/ before # <<>> /\ q[i] = Op("stop", d)
                               \/ next # None /\ q[i] = Op("submit", next)
        /\ next # None => /\ state[next] = "queued" /\ state' = [s EXCEPT ![next] = "pending"]
                          /\ runOf[next] = None
        /\ next = None => state' = s
  BY DEF PassesOn
<1>2. \A i \in DOMAIN q : q[i].at = "check"
  BY <1>1 DEF Op
<1>3. Placed(q, session) /\ ~HeadAt(q, "bind")
  BY <1>2, NewListAgrees
<1>4. \A e \in Executions : state'[e] = IF e = next THEN "pending" ELSE s[e]
  <2>1. CASE next = None
    <3>1. \A e \in Executions : e # None
      BY DEF Executions, None
    <3>2. QED BY <1>1, <2>1, <3>1
  <2>2. CASE next # None
    BY <1>1, <2>2
  <2>3. QED BY <2>1, <2>2
<1>5. \A e \in Executions : Owes(q, e) => state'[e] = "pending"
  BY <1>1, <1>4
<1>6. \A u \in Threads \ {t}, e \in Executions : Owes(threads[u], e) => state'[e] = "pending"
  BY <1>4
<1>7. \A u \in Threads \ {t} : HeadAt(threads[u], "bind") =>
        state'[Head(threads[u]).e] = "pending" /\ NewsOnly(engine', threads[u], session)
  BY <1>4
<1>8. Settled(engine', state', runOf', threads', session')
  <2>1. \A e \in Executions : runOf[e] # None => state'[e] = s[e]
    BY <1>1, <1>4
  <2>2. QED BY <2>1 DEF Settled
<1>9. QED BY <1>1, <1>3, <1>5, <1>6, <1>7, <1>8, PartsKept

\* The engine by itself.
LEMMA EngineStepAgrees ==
  ASSUME "restart" \notin Calls, AgreeInv, OwnInv', NEW r \in EngineRuns, EngineStep(r)
  PROVE  AgreeInv'
PROOF
<1>1. /\ Follows(engine, engine') /\ engine'.runs = engine.runs
      /\ UNCHANGED <<state, session, runOf, worker, threads>>
  <2>1. ConversationTypes /\ Sound(engine)
    BY AgreeFacts DEF QueueInv
  <2>2. QED BY <2>1, EngineStepFollows, EngineStepTypes DEF EngineStep
<1>2. Housed(engine', session')
  BY <1>1 DEF AgreeInv, Housed, Follows
<1>3. Settled(engine', state', runOf', threads', session')
  <2>1. Settled(engine', state, runOf, threads', session)
    BY <1>1, SettledOn
  <2>2. QED BY <1>1, <2>1
<1>4. Fresh(engine', threads', state', session')
  <2>1. \A t \in Threads : HeadAt(threads[t], "bind") =>
          state[Head(threads[t]).e] = "pending" /\ NewsOnly(engine', threads[t], session)
    BY <1>1, FreshOn
  <2>2. QED BY <1>1, <2>1 DEF Fresh
<1>5. /\ worker' \in {None, session'} /\ \A t \in Threads : Placed(threads'[t], session')
      /\ Watched(runOf', worker', threads') /\ OwedIsPending(threads', state')
  BY <1>1 DEF AgreeInv
<1>6. QED BY <1>2, <1>3, <1>4, <1>5 DEF AgreeInv

\* The worker shows an execution as the event says, and if it is the last event of the
\* run, as the run is.
LEMMA ProjectAgrees ==
  ASSUME "restart" \notin Calls, AgreeInv, OwnInv', Project, \A t \in Threads : ~Binding(t)
  PROVE  AgreeInv'
PROOF
<1> DEFINE event == Head(engine.feed[worker])
<1>1. /\ ConversationTypes /\ QueueInv /\ Sound(engine) /\ threads \in [Threads -> Seq(Ops)]
      /\ state \in [Executions -> ExecutionStates] /\ 0 \in Threads /\ threads[0] = <<>>
      /\ UNCHANGED <<runOf, session, worker>>
  BY AgreeFacts, ConversationAssumption DEF QueueInv, Project, Threads
<1>2. /\ engine'.runs = engine.runs /\ engine'.home = engine.home /\ engine'.phase = engine.phase
      /\ engine'.halting = engine.halting /\ worker \in EngineSessions
      /\ engine.feed[worker] \in Seq(Events) /\ engine.feed[worker] # <<>>
      /\ engine'.feed[worker] = Tail(engine.feed[worker])
  BY <1>1, ProjectSound
<1>3. worker = session /\ session # None
  BY <1>2 DEF AgreeInv, EngineSessions, EngineRuns, None
<1>4. event \in Events /\ event.run \in EngineRuns /\ event.type \in EventTypes
  <2>1. \A q \in Seq(Events) : q # <<>> => Head(q) \in Events
    OBVIOUS
  <2>2. event \in Events
    BY <1>2, <2>1
  <2> HIDE DEF event
  <2>3. QED BY <2>2 DEF Events
<1>5. PICK s \in [Executions -> ExecutionStates] :
        /\ \A e \in Resolved(event.run) : s[e] = ProjectedState(event.type, state[e])
        /\ \A e \in Executions \ Resolved(event.run) : s[e] = state[e]
        /\ \/ state' = s /\ UNCHANGED threads
           \/ Advance(0, s, <<>>, <<>>) /\ \A e \in Executions : s[e] = "queued" => state[e] = "queued"
  <2>1. CASE Resolved(event.run) = {}
    <3>1. state' = state /\ UNCHANGED threads
      BY <2>1 DEF Project, event
    <3>2. QED BY <1>1, <2>1, <3>1
  <2>2. CASE Resolved(event.run) # {}
    <3>1. PICK e \in Resolved(event.run) :
            LET s == [state EXCEPT ![e] = ProjectedState(event.type, @)]
            IN  IF event.type \in TerminalStates /\ active = e
                THEN Advance(0, s, <<>>, <<>>)
                ELSE state' = s /\ UNCHANGED threads
      BY <2>2 DEF Project, event
    <3> DEFINE s == [state EXCEPT ![e] = ProjectedState(event.type, @)]
    <3>2. e \in Executions /\ runOf[e] = event.run /\ runOf[e] # None
      BY <1>4, <3>1 DEF Resolved, EngineRuns, None
    <3>3. Resolved(event.run) = {e}
      <4>1. \A f \in Executions : runOf[f] = runOf[e] => f = e
        BY <3>2, AgreeFacts
      <4>2. QED BY <3>1, <3>2, <4>1 DEF Resolved
    <3>4. ProjectedState(event.type, state[e]) \in ExecutionStates
      BY <1>1, <3>2 DEF ProjectedState, ExecutionStates, Underway
    <3>5. s \in [Executions -> ExecutionStates] /\ s[e] = ProjectedState(event.type, state[e])
          /\ \A f \in Executions \ {e} : s[f] = state[f]
      BY <1>1, <3>2, <3>4
    <3>6. \A f \in Executions : s[f] = "queued" => state[f] = "queued"
      BY <3>5 DEF ProjectedState, TerminalStates
    <3>7. \/ state' = s /\ UNCHANGED threads
          \/ Advance(0, s, <<>>, <<>>)
      BY <3>1
    <3> HIDE DEF s, event
    <3>8. QED BY <3>3, <3>5, <3>6, <3>7
  <2>3. QED BY <2>1, <2>2
<1> HIDE DEF event
\* An execution that is not told of, or is told what is not the last word, is as before.
<1>6. ASSUME NEW e \in Executions, runOf[e] # None, s[e] # "absent",
             About(engine'.feed[session], runOf[e]) = {}
      PROVE  \/ s[e] = ShownAs(engine'.phase[runOf[e]])
             \/ /\ s[e] = state[e] /\ About(engine.feed[session], runOf[e]) = {}
  <2>1. CASE event.run # runOf[e] \/ event.type = "run_queued"
    <3>1. About(engine.feed[session], runOf[e]) = {}
      BY <1>2, <1>3, <1>6, <2>1, TailTells DEF event
    <3>2. s[e] = state[e]
      <4>1. e \in Resolved(event.run) => event.type = "run_queued"
        BY <2>1 DEF Resolved
      <4>2. QED BY <1>5, <4>1 DEF ProjectedState, TerminalStates
    <3>3. QED BY <3>1, <3>2
  <2>2. CASE event.run = runOf[e] /\ event.type # "run_queued"
    <3>1. state[e] # "absent"
      BY <1>5, <1>6 DEF Resolved
    <3>2. s[e] = ProjectedState(event.type, state[e])
      BY <1>5, <2>2, <3>1 DEF Resolved
    <3>3. CASE About(engine.feed[session], runOf[e]) = {}
      <4>1. 1 \in About(engine.feed[session], runOf[e])
        BY <1>2, <1>3, <2>2 DEF About, event
      <4>2. QED BY <3>3, <4>1
    <3>4. CASE About(engine.feed[session], runOf[e]) # {}
      <4>1. \A p : Truthful(engine.feed[session], runOf[e], p) => Tells(event.type) = p
        BY <1>2, <1>3, <1>6, <3>4, TailTells DEF event
      <4>2. Truthful(engine.feed[session], runOf[e], engine.phase[runOf[e]])
        BY <1>1, <1>6, AgreeFacts DEF Sound
      <4>3. Tells(event.type) = engine.phase[runOf[e]]
        BY <4>1, <4>2
      <4>4. ProjectedState(event.type, state[e]) = ShownAs(Tells(event.type))
        BY <1>4, <2>2 DEF EventTypes, ProjectedState, ShownAs, Tells, Waiting, TerminalStates
      <4>5. QED BY <1>2, <3>2, <4>3, <4>4
    <3>5. QED BY <3>3, <3>4
  <2>3. QED BY <2>1, <2>2
<1>7. Settled(engine', s, runOf, threads, session)
  <2>1. SUFFICES ASSUME NEW e \in Executions, runOf[e] # None, s[e] # "absent",
                        About(engine'.feed[session], runOf[e]) = {}
                 PROVE  Agrees(engine', s[e], runOf[e], e, threads)
    BY DEF Settled
  <2>2. CASE s[e] = ShownAs(engine'.phase[runOf[e]])
    BY <2>2 DEF Agrees
  <2>3. CASE s[e] = state[e] /\ About(engine.feed[session], runOf[e]) = {}
    <3>1. Agrees(engine, s[e], runOf[e], e, threads)
      BY <2>1, <2>3 DEF AgreeInv, Settled
    <3>2. QED BY <1>2, <3>1 DEF Agrees
  <2>4. QED BY <1>6, <2>1, <2>2, <2>3
\* Nothing that is owed is told of, for it has no run.
<1>8. \A u \in Threads, e \in Executions : Owes(threads[u], e) => s[e] = "pending"
  <2>1. SUFFICES ASSUME NEW u \in Threads, NEW e \in Executions, Owes(threads[u], e)
                 PROVE  s[e] = "pending"
    OBVIOUS
  <2>2. runOf[e] = None /\ state[e] = "pending"
    BY <2>1, AgreeFacts, OwedOnce DEF AgreeInv, OwedIsPending
  <2>3. e \notin Resolved(event.run)
    BY <1>4, <2>2 DEF Resolved, EngineRuns, None
  <2>4. QED BY <1>5, <2>2, <2>3
<1>9. \A u \in Threads : ~HeadAt(threads[u], "bind")
  BY DEF HeadAt, Binding, AtWork
<1>10. ~HeadAt(threads[0], "project")
  BY <1>1 DEF HeadAt
<1>11. CASE state' = s /\ UNCHANGED threads
  <2>1. threads' = [threads EXCEPT ![0] = <<>>] /\ ~HeadAt(<<>>, "bind") /\ Placed(<<>>, session)
        /\ \A e : ~Owes(<<>>, e)
    BY <1>1, <1>11 DEF HeadAt, Placed, Owes
  <2> DEFINE q == <<>>
  <2> HIDE DEF q
  <2>2. threads' = [threads EXCEPT ![0] = q] /\ ~HeadAt(q, "bind") /\ Placed(q, session)
        /\ \A e : ~Owes(q, e)
    BY <2>1 DEF q
  <2>3. Settled(engine', state', runOf', threads', session')
    BY <1>1, <1>7, <1>11
  <2>4. QED BY <1>1, <1>2, <1>8, <1>9, <1>10, <1>11, <2>2, <2>3, PartsKept
<1>12. CASE Advance(0, s, <<>>, <<>>) /\ \A e \in Executions : s[e] = "queued" => state[e] = "queued"
  <2> DEFINE before == <<>>
  <2>1. PICK d : before = <<>> \/ (d \in Executions /\ before = <<Op("stop", d)>>)
    OBVIOUS
  <2>2. Advance(0, s, before, <<>>)
    BY <1>12
  <2> HIDE DEF before
  <2>3. PassesOn(0, s, before, d)
    BY <1>1, <1>12, <2>1, <2>2, AdvanceTells
  <2>4. PICK q : threads' = [threads EXCEPT ![0] = q]
    BY <2>3 DEF PassesOn
  <2>5. Settled(engine', s, runOf, threads', session)
    <3>1. \A e : \A kinds : "submit" \notin kinds /\ Will(threads, e, kinds) => Will(threads', e, kinds)
      <4>1. DOMAIN threads[0] = {}
        BY <1>1
      <4>2. QED BY <1>1, <2>4, <4>1, WillStays
    <3>2. \A e \in Executions : \A x, r : Agrees(engine', x, r, e, threads) => Agrees(engine', x, r, e, threads')
      <4>1. "submit" \notin {"stop"} /\ "submit" \notin {"answer"} /\ "submit" \notin {"approve", "resume"}
        OBVIOUS
      <4>2. QED BY <3>1, <4>1 DEF Agrees
    <3>3. QED BY <1>7, <3>2 DEF Settled
  <2>6. QED BY <1>1, <1>2, <1>8, <1>9, <1>10, <2>3, <2>5, PassedOnAgrees
<1>13. QED BY <1>5, <1>11, <1>12

\* A prompt: the execution is new, and pending if it is submitted.
LEMMA PromptAgrees ==
  ASSUME "restart" \notin Calls, AgreeInv, OwnInv', NEW t \in Threads, Prompt(t)
  PROVE  AgreeInv'
PROOF
<1> DEFINE new == prompts + 1
<1>1. /\ QueueInv /\ threads \in [Threads -> Seq(Ops)] /\ threads[t] = <<>>
      /\ prompts \in 0..MaxPrompts /\ MaxPrompts \in Nat /\ prompts < MaxPrompts
      /\ state \in [Executions -> ExecutionStates]
      /\ UNCHANGED <<session, runOf, worker, engine>>
  BY AgreeFacts, ConversationAssumption DEF QueueInv, ConversationTypes, Prompt, Free
<1>2. new \in Executions /\ new > prompts
  BY <1>1 DEF Executions
<1> HIDE DEF new
<1>3. state[new] = "absent" /\ runOf[new] = None /\ RunsFor(engine, new) = {}
  BY <1>1, <1>2 DEF QueueInv, Orderly, Untouched, Behind
<1>4. PICK q : /\ threads' = [threads EXCEPT ![t] = q]
               /\ q = <<>> \/ (q = <<Op("submit", new)>> /\ state'[new] = "pending")
               /\ \A f \in Executions \ {new} : state'[f] = state[f]
  <2>1. CASE active = None
    <3>1. threads' = [threads EXCEPT ![t] = <<Op("submit", new)>>]
      BY <1>2, <2>1 DEF Prompt, Starts, SubmitOf, Executions, None, new
    <3>2. state' = [state EXCEPT ![new] = "pending"]
      BY <2>1 DEF Prompt, new
    <3>3. QED BY <1>1, <1>2, <3>1, <3>2
  <2>2. CASE active # None
    <3>1. threads' = threads /\ state' = [state EXCEPT ![new] = "queued"]
      BY <2>2 DEF Prompt, new
    <3>2. threads = [threads EXCEPT ![t] = <<>>]
      BY <1>1
    <3>3. QED BY <1>1, <1>2, <3>1, <3>2
  <2>3. QED BY <2>1, <2>2
<1>5. /\ Placed(q, session) /\ ~HeadAt(q, "bind")
      /\ \A e \in Executions : Owes(q, e) => state'[e] = "pending"
  <2>1. CASE q = <<>>
    BY <2>1 DEF Placed, HeadAt, Owes
  <2>2. CASE q = <<Op("submit", new)>> /\ state'[new] = "pending"
    <3>1. /\ DOMAIN q = {1} /\ q[1] = Op("submit", new) /\ Head(q) = q[1]
      BY <2>2
    <3>2. QED BY <2>2, <3>1 DEF Placed, HeadAt, Owes, Op
  <2>3. QED BY <1>4, <2>1, <2>2
<1>6. ~HeadAt(threads[t], "project")
  BY <1>1 DEF HeadAt
<1>7. \A u \in Threads, e \in Executions : Owes(threads[u], e) => state'[e] = "pending"
  <2>1. SUFFICES ASSUME NEW u \in Threads, NEW e \in Executions, Owes(threads[u], e)
                 PROVE  state'[e] = "pending"
    OBVIOUS
  <2>2. state[e] = "pending"
    BY <2>1 DEF AgreeInv, OwedIsPending
  <2>3. QED BY <1>3, <1>4, <2>1, <2>2
<1>8. \A u \in Threads : HeadAt(threads[u], "bind") =>
        state'[Head(threads[u]).e] = "pending" /\ NewsOnly(engine', threads[u], session)
  <2>1. SUFFICES ASSUME NEW u \in Threads, HeadAt(threads[u], "bind")
                 PROVE  state'[Head(threads[u]).e] = "pending" /\ NewsOnly(engine', threads[u], session)
    OBVIOUS
  <2>2. /\ Head(threads[u]).e \in Executions /\ state[Head(threads[u]).e] = "pending"
        /\ NewsOnly(engine', threads[u], session)
    BY <1>1, <2>1, FreshOn, FollowsItself
  <2>3. QED BY <1>3, <1>4, <2>2
<1>9. Settled(engine', state', runOf', threads', session')
  <2>1. \A e : \A kinds : "submit" \notin kinds /\ Will(threads, e, kinds) => Will(threads', e, kinds)
    <3>1. DOMAIN threads[t] = {}
      BY <1>1
    <3>2. QED BY <1>1, <1>4, <3>1, WillStays
  <2>2. \A e \in Executions : runOf[e] # None => state'[e] = state[e]
    BY <1>3, <1>4
  <2>3. Settled(engine', state', runOf, threads', session)
    BY <1>1, <2>1, <2>2, FollowsItself, SettledOn
  <2>4. QED BY <1>1, <2>3
<1>10. QED BY <1>1, <1>4, <1>5, <1>6, <1>7, <1>8, <1>9, PartsKept

\* A step of a submission, before or after the binding of its run.
LEMMA SubmitStepAgrees ==
  ASSUME "restart" \notin Calls, AgreeInv, OwnInv', NEW t \in Threads, threads[t] # <<>>,
         Head(threads[t]).call = "submit", NEW q, threads' = [threads EXCEPT ![t] = q],
         UNCHANGED <<state, runOf, engine, session>>, worker' = worker \/ worker' = session,
         worker' # None \/ ~HeadAt(threads[t], "project"),
         Placed(q, session), ~HeadAt(q, "bind"), \A e : Owes(q, e) => Owes(threads[t], e)
  PROVE  AgreeInv'
PROOF
<1>1. QueueInv /\ threads \in [Threads -> Seq(Ops)]
  BY AgreeFacts
<1>2. DOMAIN threads[t] = {1} /\ threads[t][1] = Head(threads[t])
  BY <1>1, SubmitList
<1>3. \A u \in Threads, e \in Executions : Owes(threads[u], e) => state[e] = "pending"
  BY DEF AgreeInv, OwedIsPending
<1>4. \A u \in Threads : HeadAt(threads[u], "bind") =>
        state'[Head(threads[u]).e] = "pending" /\ NewsOnly(engine', threads[u], session)
  BY FreshOn, FollowsItself
<1>5. Settled(engine', state', runOf', threads', session')
  <2>1. \A e : \A kinds : "submit" \notin kinds /\ Will(threads, e, kinds) => Will(threads', e, kinds)
    <3>1. \A i \in DOMAIN threads[t] : threads[t][i].call = "submit"
      BY <1>2
    <3>2. QED BY ONLY <1>1, <3>1, t \in Threads, threads' = [threads EXCEPT ![t] = q], WillStays
  <2>2. Settled(engine', state, runOf, threads', session)
    BY <2>1, FollowsItself, SettledOn
  <2>3. QED BY <2>2
<1>6. \A e \in Executions : Owes(q, e) => state'[e] = "pending"
  BY <1>3
<1>7. QED BY <1>3, <1>4, <1>5, <1>6, PartsKept

\* The steps of a submission that make and bind no run.
LEMMA SubmitStepsAgree ==
  ASSUME "restart" \notin Calls, AgreeInv, OwnInv', NEW t \in Threads,
         \/ CheckUnbound(t) \/ LoadContext(t) \/ EnsureProjection(t)
         \/ StartEngineSession(t) /\ UNCHANGED <<session, engine>>
         \/ SubmitRun(t) /\ UNCHANGED engine
  PROVE  AgreeInv'
PROOF
<1> DEFINE op == Head(threads[t])
<1>1. /\ threads[t] # <<>> /\ op.call = "submit" /\ op.at \in {"check", "load", "start", "submit", "project"}
      /\ UNCHANGED <<state, runOf, engine, session>>
      /\ op.at = "project" <=> Does(t, "submit", "project")
  BY DEF CheckUnbound, LoadContext, StartEngineSession, EnsureProjection, SubmitRun, Does
<1>2. /\ QueueInv /\ op \in Ops /\ op = threads[t][1] /\ 1 \in DOMAIN threads[t]
      /\ session \in {None} \cup EngineSessions
  BY <1>1, AgreeFacts, HeadTypes
<1>3. Placed(threads[t], session)
  BY DEF AgreeInv
<1>4. op.at \in {"submit", "project"} => op.k = session /\ session # None
  BY <1>1, <1>2, <1>3 DEF Placed
<1>5. Finishes(t) \/ \E new \in Ops :
         /\ GoesOn(t, new) /\ new.call = "submit" /\ new.e = op.e /\ op.at # "project"
         /\ new.at \in {"load", "fail", "start", "submit"}
         /\ new.at = "start" => session = None
         /\ new.at = "submit" => new.k = session /\ session # None
  <2>1. ASSUME NEW at \in {"load", "fail"}, GoesOn(t, [op EXCEPT !.at = at]), op.at # "project"
        PROVE  \E new \in Ops :
                 /\ GoesOn(t, new) /\ new.call = "submit" /\ new.e = op.e /\ op.at # "project"
                 /\ new.at \in {"load", "fail", "start", "submit"}
                 /\ new.at = "start" => session = None
                 /\ new.at = "submit" => new.k = session /\ session # None
    <3>1. PICK new : new = [op EXCEPT !.at = at]
      OBVIOUS
    <3>2. new \in Ops /\ new.call = "submit" /\ new.e = op.e /\ new.at = at
      BY <1>1, <1>2, <3>1 DEF Ops, Stages
    <3>3. QED BY <2>1, <3>1, <3>2
  <2>2. ASSUME NEW at \in {"start", "submit"}, GoesOn(t, [op EXCEPT !.k = session, !.at = at]),
               op.at # "project", at = "start" <=> session = None
        PROVE  \E new \in Ops :
                 /\ GoesOn(t, new) /\ new.call = "submit" /\ new.e = op.e /\ op.at # "project"
                 /\ new.at \in {"load", "fail", "start", "submit"}
                 /\ new.at = "start" => session = None
                 /\ new.at = "submit" => new.k = session /\ session # None
    <3>1. PICK new : new = [op EXCEPT !.k = session, !.at = at]
      OBVIOUS
    <3>2. new \in Ops /\ new.call = "submit" /\ new.e = op.e /\ new.at = at /\ new.k = session
      BY <1>1, <1>2, <3>1 DEF Ops, Stages
    <3>3. QED BY <2>2, <3>1, <3>2
  <2>3. Finishes(t) \/ (\E at \in {"load", "fail"} : GoesOn(t, [op EXCEPT !.at = at]) /\ op.at # "project")
        \/ \E at \in {"start", "submit"} : /\ GoesOn(t, [op EXCEPT !.k = session, !.at = at])
                                           /\ op.at # "project" /\ (at = "start" <=> session = None)
    <3>1. CASE CheckUnbound(t)
      BY <3>1 DEF CheckUnbound, Does
    <3>2. CASE LoadContext(t)
      <4>1. op.at # "project"
        BY <3>2 DEF LoadContext, Does
      <4> DEFINE at == IF session = None THEN "start" ELSE "submit"
      <4>2. \/ Finishes(t) \/ GoesOn(t, [op EXCEPT !.at = "fail"])
            \/ GoesOn(t, [op EXCEPT !.k = session, !.at = at])
        BY <3>2 DEF LoadContext, Fails
      <4>3. at \in {"start", "submit"} /\ (at = "start" <=> session = None)
        OBVIOUS
      <4> HIDE DEF op, at
      <4>4. QED BY <4>1, <4>2, <4>3
    <3>3. CASE EnsureProjection(t)
      BY <3>3 DEF EnsureProjection
    <3>4. CASE StartEngineSession(t) /\ UNCHANGED <<session, engine>>
      <4>1. CASE Fails(t)
        BY <3>4, <4>1 DEF StartEngineSession, Fails, Does
      <4>2. CASE ~Fails(t)
        <5>1. engine' = [engine EXCEPT !.sessions = engine.sessions + 1]
          BY <3>4, <4>2 DEF StartEngineSession
        <5>2. engine \in Engines /\ engine.sessions \in Nat
          BY AgreeFacts, ConversationAssumption DEF Engines
        <5>3. engine'.sessions # engine.sessions
          BY <5>1, <5>2 DEF Engines
        <5>4. QED BY <3>4, <5>3
      <4>3. QED BY <4>1, <4>2
    <3>5. CASE SubmitRun(t) /\ UNCHANGED engine
      <4>1. CASE Fails(t)
        BY <3>5, <4>1 DEF SubmitRun, Fails, Does
      <4>2. CASE ~Fails(t)
        <5> DEFINE k == op.k
                   e == op.e
        <5>1. /\ engine \in Engines /\ engine.runs < MaxRuns /\ k \in {None} \cup EngineSessions
              /\ e \in Executions /\ engine.runs \in Nat
          BY <1>2, <3>5, <4>2, AgreeFacts DEF SubmitRun, Ops
        <5>2. engine' = Submitted(engine, k, e)
          BY <3>5, <4>2 DEF SubmitRun
        <5> HIDE DEF k, e
        <5>3. Submitted(engine, k, e).runs = engine.runs + 1
          BY ONLY <5>1, SubmittedTypes
        <5>4. engine' = engine
          BY <3>5
        <5>5. engine.runs = engine.runs + 1
          BY <5>2, <5>3, <5>4
        <5>6. engine.runs # engine.runs + 1
          BY <5>1
        <5>7. QED BY <5>5, <5>6
      <4>3. QED BY <4>1, <4>2
    <3>6. QED BY <3>1, <3>2, <3>3, <3>4, <3>5
  <2> HIDE DEF op
  <2>4. QED BY <2>1, <2>2, <2>3
<1>6. worker' = worker \/ worker' = session
  BY <1>4 DEF CheckUnbound, LoadContext, StartEngineSession, EnsureProjection, SubmitRun, Does
<1>7. worker' # None \/ ~HeadAt(threads[t], "project")
  <2>1. CASE EnsureProjection(t)
    BY <1>4, <2>1 DEF EnsureProjection, Does
  <2>2. CASE ~EnsureProjection(t)
    BY <2>2 DEF CheckUnbound, LoadContext, StartEngineSession, SubmitRun, Does, HeadAt
  <2>3. QED BY <2>1, <2>2
<1>8. CASE Finishes(t)
  <2> DEFINE q == <<>>
  <2>1. threads' = [threads EXCEPT ![t] = q]
    BY <1>1, <1>2, <1>8, SubmitList
  <2>2. Placed(q, session) /\ ~HeadAt(q, "bind") /\ \A e : ~Owes(q, e)
    BY DEF Placed, HeadAt, Owes
  <2> HIDE DEF q
  <2>3. QED BY <1>1, <1>6, <1>7, <2>1, <2>2, SubmitStepAgrees
<1>9. ASSUME NEW new \in Ops, GoesOn(t, new), new.call = "submit", new.e = op.e, op.at # "project",
             new.at \in {"load", "fail", "start", "submit"}, new.at = "start" => session = None,
             new.at = "submit" => new.k = session /\ session # None
      PROVE  AgreeInv'
  <2> DEFINE q == <<new>>
  <2>1. threads' = [threads EXCEPT ![t] = q]
    <3>1. \A o \in Ops : GoesOn(t, o) => threads' = [threads EXCEPT ![t] = <<o>>]
      BY <1>1, <1>2, SubmitList
    <3>2. QED BY <1>9, <3>1
  <2>2. DOMAIN q = {1} /\ q[1] = new /\ Head(q) = new
    OBVIOUS
  <2> HIDE DEF q
  <2>3. Placed(q, session)
    BY <1>9, <2>2 DEF Placed
  <2>4. ~HeadAt(q, "bind")
    BY <1>9, <2>2 DEF HeadAt
  <2>5. \A e : Owes(q, e) => Owes(threads[t], e)
    <3>1. op.at \notin {"bind", "project"}
      BY <1>1, <1>9
    <3> HIDE DEF op
    <3>2. SUFFICES ASSUME NEW e, Owes(q, e) PROVE Owes(threads[t], e)
      OBVIOUS
    <3>3. e = op.e
      BY <1>9, <2>2, <3>2 DEF Owes
    <3>4. QED BY <1>1, <1>2, <3>1, <3>3 DEF Owes
  <2>6. QED BY <1>1, <1>6, <1>7, <2>1, <2>3, <2>4, <2>5, SubmitStepAgrees
<1> HIDE DEF op
<1>10. QED BY <1>5, <1>8, <1>9

\* The first session: the conversation had no run, and nobody else is about to make one.
LEMMA StartAgrees ==
  ASSUME "restart" \notin Calls, AgreeInv, OwnInv', NEW t \in Threads, StartEngineSession(t),
         ~UNCHANGED <<session, engine>>
  PROVE  AgreeInv'
PROOF
<1> DEFINE op == Head(threads[t])
           k == engine.sessions + 1
           new == [op EXCEPT !.k = k, !.at = "submit"]
<1>1. /\ threads[t] # <<>> /\ op.call = "submit" /\ op.at = "start" /\ k \in EngineSessions
      /\ engine' = [engine EXCEPT !.sessions = k] /\ GoesOn(t, new)
      /\ session' = IF session = None THEN k ELSE session
      /\ UNCHANGED <<state, runOf, worker>>
  BY DEF StartEngineSession, Does
<1>2. /\ QueueInv /\ OrderInv /\ op \in Ops /\ op = threads[t][1] /\ 1 \in DOMAIN threads[t]
      /\ threads \in [Threads -> Seq(Ops)] /\ engine \in Engines /\ op.e \in Executions
  BY <1>1, AgreeFacts, HeadTypes
<1>3. session = None /\ worker = None
  BY <1>1, <1>2 DEF AgreeInv, Placed
<1>4. \A r : r \notin 1..engine.runs
  BY <1>3 DEF AgreeInv, Housed
<1>5. engine'.runs = engine.runs
  BY <1>1, <1>2 DEF Engines
<1>6. \A e \in Executions : runOf[e] = None
  BY <1>3, AgreeFacts
<1>7. session' = k /\ k # None
  BY <1>1, <1>3 DEF EngineSessions, EngineRuns, None
<1>8. new \in Ops /\ new.call = "submit" /\ new.e = op.e /\ new.at = "submit" /\ new.k = k
  BY <1>1, <1>2 DEF Ops, Stages
<1> HIDE DEF k
<1> DEFINE q == <<new>>
<1>9. threads' = [threads EXCEPT ![t] = q]
  <2>1. \A o \in Ops : GoesOn(t, o) => threads' = [threads EXCEPT ![t] = <<o>>]
    BY <1>1, <1>2, SubmitList
  <2> HIDE DEF new
  <2>2. QED BY <1>1, <1>8, <2>1
<1>10. DOMAIN q = {1} /\ q[1] = new /\ Head(q) = new
  <2> HIDE DEF new
  <2> QED OBVIOUS
<1>11. Owes(threads[t], op.e) /\ \A e : Owes(q, e) => e = op.e
  <2> HIDE DEF q, new
  <2> QED BY <1>1, <1>2, <1>8, <1>10 DEF Owes
<1>12. \A u \in Threads \ {t}, e \in Executions : ~Owes(threads[u], e)
  BY <1>2, <1>11, OwedOnce
<1> HIDE DEF q, new, op
<1>13. \A u \in Threads \ {t} : Placed(threads[u], k)
  <2>1. SUFFICES ASSUME NEW u \in Threads \ {t}, NEW i \in DOMAIN threads[u], threads[u][i].call = "submit"
                 PROVE  /\ i = 1 \/ threads[u][i].at = "check"
                        /\ threads[u][i].at \notin {"submit", "bind", "project", "start"}
    BY DEF Placed
  <2>2. /\ i = 1 \/ threads[u][i].at = "check"
        /\ threads[u][i].at \notin {"submit", "bind", "project"}
    BY <1>3, <2>1 DEF AgreeInv, Placed
  <2>3. threads[u][i].e \in Executions
    <3>1. threads[u] \in Seq(Ops)
      BY <1>2
    <3>2. threads[u][i] \in Ops
      BY <2>1, <3>1
    <3>3. QED BY <3>2 DEF Ops
  <2>4. threads[u][i].at # "start"
    <3>1. threads[u][i].at = "start" => Owes(threads[u], threads[u][i].e)
      BY <2>1 DEF Owes
    <3>2. QED BY <1>12, <2>3, <3>1
  <2>5. QED BY <2>2, <2>4
<1>14. Placed(q, k)
  BY <1>7, <1>8, <1>10 DEF Placed
<1>15. /\ threads'[t] = q /\ \A u \in Threads : u # t => threads'[u] = threads[u]
  BY <1>2, <1>9
<1>16. \A u \in Threads : ~HeadAt(threads'[u], "bind")
  <2>1. ~HeadAt(q, "bind")
    BY <1>8, <1>10 DEF HeadAt
  <2>2. \A u \in Threads : ~HeadAt(threads[u], "bind")
    <3>1. SUFFICES ASSUME NEW u \in Threads, HeadAt(threads[u], "bind") PROVE FALSE
      OBVIOUS
    <3>2. 1 \in DOMAIN threads[u] /\ Head(threads[u]) = threads[u][1]
      BY <1>2, <3>1, HeadTypes DEF HeadAt
    <3>3. QED BY <1>3, <3>1, <3>2 DEF HeadAt, AgreeInv, Placed
  <2>3. QED BY <1>15, <2>1, <2>2
<1>17. OwedIsPending(threads', state')
  <2>1. state[op.e] = "pending"
    BY <1>2, <1>11 DEF AgreeInv, OwedIsPending
  <2>2. QED BY <1>1, <1>11, <1>12, <1>15, <2>1 DEF OwedIsPending
<1>18. Housed(engine', session') /\ worker' \in {None, session'}
  BY <1>1, <1>3, <1>4, <1>5 DEF Housed
<1>19. Watched(runOf', worker', threads') /\ Settled(engine', state', runOf', threads', session')
  BY <1>1, <1>6 DEF Watched, Settled
<1>20. \A u \in Threads : Placed(threads'[u], session')
  BY <1>7, <1>13, <1>14, <1>15
<1>21. Fresh(engine', threads', state', session')
  BY <1>16 DEF Fresh
<1>22. QED BY <1>17, <1>18, <1>19, <1>20, <1>21 DEF AgreeInv

\* A run is made in the session of the conversation and is queued, until it says more.
LEMMA SubmitRunAgrees ==
  ASSUME "restart" \notin Calls, AgreeInv, OwnInv', NEW t \in Threads, SubmitRun(t), ~UNCHANGED engine
  PROVE  AgreeInv'
PROOF
<1> DEFINE op == Head(threads[t])
           r == engine.runs + 1
           new == [op EXCEPT !.run = r, !.at = "bind"]
<1>1. /\ threads[t] # <<>> /\ op.call = "submit" /\ op.at = "submit"
      /\ engine.runs < MaxRuns /\ engine' = Submitted(engine, op.k, op.e) /\ GoesOn(t, new)
      /\ UNCHANGED <<state, runOf, worker, session>>
  BY DEF SubmitRun, Does
<1>2. /\ QueueInv /\ op \in Ops /\ op = threads[t][1] /\ 1 \in DOMAIN threads[t]
      /\ threads \in [Threads -> Seq(Ops)] /\ engine \in Engines /\ op.e \in Executions
      /\ engine.runs \in Nat /\ Sound(engine) /\ op.k \in {None} \cup EngineSessions
      /\ MaxRuns \in Nat
  BY <1>1, AgreeFacts, HeadTypes, PatientTypes
<1>3. op.k = session /\ session # None /\ session \in EngineSessions
  BY <1>1, <1>2 DEF AgreeInv, Placed
<1>4. r \in EngineRuns
  BY <1>1, <1>2 DEF EngineRuns
<1>5. new \in Ops /\ new.call = "submit" /\ new.e = op.e /\ new.at = "bind" /\ new.run = r /\ new.k = session
  BY <1>1, <1>2, <1>3, <1>4 DEF Ops, Stages
<1> DEFINE k == op.k
           e == op.e
<1>6. engine' = Submitted(engine, k, e) /\ k = session /\ k \in EngineSessions /\ e \in Executions
  BY <1>1, <1>2, <1>3
<1> HIDE DEF k, e
<1>7. /\ Follows(engine, engine') /\ engine'.home[r] = k
      /\ About(engine'.feed[k], r) = {} => engine'.phase[r] = "queued"
  <2>1. /\ Sound(engine) /\ engine.runs < MaxRuns /\ k \in EngineSessions /\ e \in Executions
    BY <1>1, <1>2, <1>6
  <2>2. LET h == Submitted(engine, k, e)
        IN  /\ Sound(h) /\ Follows(engine, h)
            /\ h.home[engine.runs + 1] = k
            /\ About(h.feed[k], engine.runs + 1) = {} => h.phase[engine.runs + 1] = "queued"
    BY ONLY <2>1, SubmittedFollows
  <2>3. QED BY <1>6, <2>2
<1>8. engine'.runs = r
  <2>1. Submitted(engine, k, e).runs = engine.runs + 1
    <3>1. engine \in Engines /\ engine.runs < MaxRuns /\ k \in {None} \cup EngineSessions /\ e \in Executions
      BY <1>1, <1>2, <1>6
    <3>2. QED BY ONLY <3>1, SubmittedTypes
  <2>2. QED BY <1>6, <2>1
<1> DEFINE q == <<new>>
<1>9. threads' = [threads EXCEPT ![t] = q]
  <2>1. \A o \in Ops : GoesOn(t, o) => threads' = [threads EXCEPT ![t] = <<o>>]
    BY <1>1, <1>2, SubmitList
  <2> HIDE DEF new
  <2>2. QED BY <1>1, <1>5, <2>1
<1> HIDE DEF new
<1>10. DOMAIN q = {1} /\ q[1] = new /\ Head(q) = new
  OBVIOUS
<1>11. threads'[t] = q /\ \A u \in Threads : u # t => threads'[u] = threads[u]
  BY <1>2, <1>9
<1>12. state[op.e] = "pending"
  <2>1. Owes(threads[t], op.e)
    BY <1>1, <1>2 DEF Owes
  <2>2. QED BY <1>2, <2>1 DEF AgreeInv, OwedIsPending
<1> HIDE DEF q, op
<1>13. Placed(q, session) /\ \A x : ~Owes(q, x)
  BY <1>3, <1>5, <1>10 DEF Placed, Owes
<1>14. Housed(engine', session')
  <2>1. SUFFICES ASSUME NEW x \in 1..r PROVE session # None /\ engine'.home[x] = session
    BY <1>1, <1>8 DEF Housed
  <2>2. CASE x = r
    BY <1>3, <1>6, <1>7, <2>2
  <2>3. CASE x # r
    <3>1. x \in 1..engine.runs
      BY <1>2, <2>1, <2>3
    <3>2. QED BY <1>7, <3>1 DEF AgreeInv, Housed, Follows
  <2>4. QED BY <2>2, <2>3
<1>15. \A u \in Threads : Placed(threads'[u], session')
  BY <1>1, <1>11, <1>13 DEF AgreeInv
<1>16. Watched(runOf', worker', threads')
  <2>1. ~HeadAt(threads[t], "project")
    BY <1>1 DEF HeadAt, op
  <2>2. \A u \in Threads : HeadAt(threads[u], "project") => HeadAt(threads'[u], "project")
    BY <1>11, <2>1
  <2>3. QED BY <1>1, <2>2 DEF AgreeInv, Watched
<1>17. OwedIsPending(threads', state')
  BY <1>1, <1>11, <1>13 DEF AgreeInv, OwedIsPending
<1>18. Fresh(engine', threads', state', session')
  <2>1. SUFFICES ASSUME NEW u \in Threads, HeadAt(threads'[u], "bind")
                 PROVE  state[Head(threads'[u]).e] = "pending" /\ NewsOnly(engine', threads'[u], session)
    BY <1>1 DEF Fresh
  <2>2. CASE u = t
    <3>1. Head(threads'[u]) = new /\ new.run = r /\ new.e = op.e
      BY <1>5, <1>10, <1>11, <2>2
    <3>2. QED BY <1>6, <1>7, <1>12, <3>1 DEF NewsOnly
  <2>3. CASE u # t
    <3>1. threads'[u] = threads[u]
      BY <1>11, <2>3
    <3>2. QED BY <1>7, <2>1, <3>1, FreshOn
  <2>4. QED BY <2>2, <2>3
<1>19. Settled(engine', state', runOf', threads', session')
  <2>1. \A x : \A kinds : "submit" \notin kinds /\ Will(threads, x, kinds) => Will(threads', x, kinds)
    <3>1. \A i \in DOMAIN threads[t] : threads[t][i].call = "submit"
      <4>1. DOMAIN threads[t] = {1}
        BY <1>1, <1>2, SubmitList DEF op
      <4>2. QED BY <1>1, <1>2, <4>1
    <3>2. QED BY <1>2, <1>9, <3>1, WillStays
  <2>2. Settled(engine', state, runOf, threads', session)
    BY <1>7, <2>1, SettledOn
  <2>3. QED BY <1>1, <2>2
<1>20. worker' \in {None, session'}
  BY <1>1 DEF AgreeInv
<1>21. QED BY <1>14, <1>15, <1>16, <1>17, <1>18, <1>19, <1>20 DEF AgreeInv

\* The binding: nothing was told of the run in vain, or it is queued as the hub shows.
LEMMA BindRunAgrees ==
  ASSUME "restart" \notin Calls, AgreeInv, OwnInv', NEW t \in Threads, BindRun(t)
  PROVE  AgreeInv'
PROOF
<1> DEFINE op == Head(threads[t])
           new == [op EXCEPT !.at = "project"]
           q == <<new>>
<1>1. /\ threads[t] # <<>> /\ op.call = "submit" /\ op.at = "bind"
      /\ runOf' = [runOf EXCEPT ![op.e] = op.run] /\ GoesOn(t, new)
      /\ UNCHANGED <<state, worker, session, engine>>
  BY DEF BindRun, Does
<1>2. /\ QueueInv /\ op \in Ops /\ op = threads[t][1] /\ 1 \in DOMAIN threads[t]
      /\ threads \in [Threads -> Seq(Ops)] /\ op.e \in Executions
      /\ runOf \in [Executions -> {None} \cup EngineRuns]
  BY <1>1, AgreeFacts, HeadTypes
<1>3. op.k = session /\ session # None
  BY <1>1, <1>2 DEF AgreeInv, Placed
<1>4. /\ state[op.e] = "pending"
      /\ About(engine.feed[session], op.run) = {} => engine.phase[op.run] = "queued"
  BY <1>1 DEF AgreeInv, Fresh, HeadAt, NewsOnly
<1>5. new \in Ops /\ new.call = "submit" /\ new.at = "project" /\ new.k = session
  BY <1>1, <1>2, <1>3 DEF Ops, Stages
<1>6. threads' = [threads EXCEPT ![t] = q]
  <2>1. \A o \in Ops : GoesOn(t, o) => threads' = [threads EXCEPT ![t] = <<o>>]
    BY <1>1, <1>2, SubmitList
  <2> HIDE DEF new
  <2>2. QED BY <1>1, <1>5, <2>1
<1>7. DOMAIN q = {1} /\ q[1] = new /\ Head(q) = new /\ q # <<>>
  <2> HIDE DEF new
  <2> QED OBVIOUS
<1>8. threads'[t] = q /\ \A u \in Threads : u # t => threads'[u] = threads[u]
  BY <1>2, <1>6
<1>9. \A x : \A kinds : "submit" \notin kinds /\ Will(threads, x, kinds) => Will(threads', x, kinds)
  <2>1. \A i \in DOMAIN threads[t] : threads[t][i].call = "submit"
    <3>1. DOMAIN threads[t] = {1}
      BY <1>1, <1>2, SubmitList
    <3>2. QED BY <1>1, <1>2, <3>1
  <2> HIDE DEF q
  <2>2. QED BY <1>2, <1>6, <2>1, WillStays
<1> HIDE DEF q, new, op
<1>10. Placed(q, session) /\ (\A x : ~Owes(q, x)) /\ ~HeadAt(q, "bind") /\ HeadAt(q, "project")
  BY <1>3, <1>5, <1>7 DEF Placed, Owes, HeadAt
<1>11. /\ Housed(engine', session') /\ worker' \in {None, session'}
       /\ \A u \in Threads : Placed(threads'[u], session')
  BY <1>1, <1>8, <1>10 DEF AgreeInv
<1>12. Watched(runOf', worker', threads')
  BY <1>8, <1>10 DEF Watched
<1>13. OwedIsPending(threads', state')
  BY <1>1, <1>8, <1>10 DEF AgreeInv, OwedIsPending
<1>14. Fresh(engine', threads', state', session')
  BY <1>1, <1>8, <1>10 DEF AgreeInv, Fresh
<1>15. Settled(engine', state', runOf', threads', session')
  <2>1. SUFFICES ASSUME NEW e \in Executions, runOf'[e] # None, state[e] # "absent",
                        About(engine.feed[session], runOf'[e]) = {}
                 PROVE  Agrees(engine, state[e], runOf'[e], e, threads')
    BY <1>1 DEF Settled
  <2>2. CASE e = op.e
    <3>1. runOf'[e] = op.run
      BY <1>1, <1>2, <2>2
    <3>2. state[e] = ShownAs(engine.phase[runOf'[e]])
      BY <1>4, <2>1, <2>2, <3>1 DEF ShownAs
    <3>3. QED BY <3>2 DEF Agrees
  <2>3. CASE e # op.e
    <3>1. runOf'[e] = runOf[e]
      BY <1>1, <1>2, <2>3
    <3>2. Agrees(engine, state[e], runOf[e], e, threads)
      BY <2>1, <3>1 DEF AgreeInv, Settled
    <3>3. /\ runOf[e] \in 1..engine.runs /\ session \in EngineSessions
          /\ engine.home[runOf[e]] = session
      BY <2>1, <3>1, AgreeFacts
    <3>4. Agrees(engine, state[e], runOf[e], e, threads')
      BY <1>9, <2>1, <3>1, <3>2, <3>3, FollowsItself, AgreesOn
    <3>5. QED BY <3>1, <3>4
  <2>4. QED BY <2>2, <2>3
<1>16. QED BY <1>11, <1>12, <1>13, <1>14, <1>15 DEF AgreeInv

\* An execution that could not be submitted has no run to agree with.
LEMMA FailAgrees ==
  ASSUME "restart" \notin Calls, AgreeInv, OwnInv', NEW t \in Threads, FailExecution(t)
  PROVE  AgreeInv'
PROOF
<1> DEFINE e == Head(threads[t]).e
<1>1. /\ threads[t] # <<>> /\ Head(threads[t]).call = "submit" /\ Head(threads[t]).at = "fail"
      /\ UNCHANGED <<session, runOf, worker, engine>>
  BY DEF FailExecution, Does
<1>2. /\ QueueInv /\ OrderInv /\ e \in Executions /\ threads[t] \in Seq(Ops) /\ threads \in [Threads -> Seq(Ops)]
      /\ Head(threads[t]) = threads[t][1] /\ 1 \in DOMAIN threads[t]
      /\ state \in [Executions -> ExecutionStates] /\ Single(threads[t])
  BY <1>1, HeadTypes, AgreeFacts DEF QueueInv, SingleMinded
<1>3. Owes(threads[t], e)
  BY <1>1, <1>2 DEF Owes
<1>4. /\ RunsFor(engine, e) = {} /\ runOf[e] = None /\ active = e /\ state[e] = "pending"
      /\ \A u \in Threads \ {t}, f \in Executions : ~Owes(threads[u], f)
  BY <1>2, <1>3, OwedOnce DEF AgreeInv, OwedIsPending
<1>5. Tail(threads[t]) = <<>>
  BY <1>1, <1>2, FinishedList
<1>6. ASSUME NEW s \in [Executions -> ExecutionStates], NEW before, NEW d,
             before = <<>> \/ (d \in Executions /\ before = <<Op("stop", d)>>),
             Advance(t, s, before, <<>>), s = [state EXCEPT ![e] = "failed"]
      PROVE  AgreeInv'
  <2>1. \A f \in Executions : s[f] = IF f = e THEN "failed" ELSE state[f]
    BY <1>2, <1>6
  <2> HIDE DEF e
  <2>2. \A f \in Executions : s[f] = "queued" => state[f] = "queued"
    BY <2>1
  <2>3. QueueInv
    BY <1>2
  <2>4. PassesOn(t, s, before, d)
    BY <1>6, <2>2, <2>3, AdvanceTells
  <2>5. PICK q : threads' = [threads EXCEPT ![t] = q]
    BY <2>4 DEF PassesOn
  <2>6. Settled(engine', s, runOf, threads', session)
    <3>1. \A i \in DOMAIN threads[t] : threads[t][i].call = "submit"
      <4>1. DOMAIN threads[t] = {1}
        BY <1>1, <1>2, SubmitList
      <4>2. QED BY <1>1, <1>2, <4>1
    <3>2. \A x : \A kinds : "submit" \notin kinds /\ Will(threads, x, kinds) => Will(threads', x, kinds)
      BY <1>2, <2>5, <3>1, WillStays
    <3>3. \A f \in Executions : runOf[f] # None => s[f] = state[f]
      BY <1>4, <2>1
    <3>4. Follows(engine, engine')
      BY <1>1, FollowsItself
    <3>5. QED BY <3>2, <3>3, <3>4, SettledOn
  <2>7. \A u \in Threads \ {t} : HeadAt(threads[u], "bind") =>
          s[Head(threads[u]).e] = "pending" /\ Head(threads[u]).e \in Executions
          /\ NewsOnly(engine', threads[u], session)
    <3>1. SUFFICES ASSUME NEW u \in Threads \ {t}, HeadAt(threads[u], "bind")
                   PROVE  s[Head(threads[u]).e] = "pending" /\ Head(threads[u]).e \in Executions
                          /\ NewsOnly(engine', threads[u], session)
      OBVIOUS
    <3>2. Follows(engine, engine')
      BY <1>1, FollowsItself
    <3>3. /\ Head(threads[u]).e \in Executions /\ state[Head(threads[u]).e] = "pending"
          /\ RunsFor(engine, Head(threads[u]).e) # {} /\ NewsOnly(engine', threads[u], session)
      BY <3>1, <3>2, FreshOn
    <3>4. QED BY <1>4, <2>1, <3>3
  <2>8. ~HeadAt(threads[t], "project")
    BY <1>1 DEF HeadAt
  <2>9. \A u \in Threads \ {t}, f \in Executions : Owes(threads[u], f) => s[f] = "pending"
    BY <1>4
  <2>10. engine'.runs = engine.runs /\ \A r \in 1..engine.runs : engine'.home[r] = engine.home[r]
    BY <1>1
  <2>11. QED BY <1>1, <1>6, <2>4, <2>6, <2>7, <2>8, <2>9, <2>10, PassedOnAgrees
<1>7. Advance(t, [state EXCEPT ![e] = "failed"], <<>>, <<>>)
  <2>1. Advance(t, [state EXCEPT ![e] = "failed"], <<>>, Tail(threads[t]))
    BY <1>4 DEF FailExecution, TerminalStates
  <2>2. QED BY <1>5, <2>1
<1> DEFINE s == [state EXCEPT ![e] = "failed"]
           before == <<>>
<1>8. s \in [Executions -> ExecutionStates]
  BY <1>2 DEF ExecutionStates, TerminalStates
<1>9. before = <<>> \/ (e \in Executions /\ before = <<Op("stop", e)>>)
  OBVIOUS
<1>10. Advance(t, s, before, <<>>) /\ s = [state EXCEPT ![e] = "failed"]
  BY <1>7
<1> HIDE DEF s, before, e
<1>11. QED BY <1>6, <1>8, <1>9, <1>10

\* A control call reaches the run: it is told to halt, or its wait is over, or it did not
\* wait any more, and what the client decided has come to pass.
LEMMA ControlAgrees ==
  ASSUME "restart" \notin Calls, AgreeInv, OwnInv', NEW t \in Threads, ControlEngine(t)
  PROVE  AgreeInv'
PROOF
<1> DEFINE op == Head(threads[t])
           q == Tail(threads[t])
<1>1. /\ threads[t] # <<>> /\ op.call \in ControlKinds
      /\ engine' = IF runOf[op.e] = None THEN engine ELSE Controlled(engine, runOf[op.e], op.call)
      /\ threads' = [threads EXCEPT ![t] = q] /\ UNCHANGED <<state, session, runOf, worker>>
  BY DEF ControlEngine, Finishes
<1>2. /\ QueueInv /\ threads \in [Threads -> Seq(Ops)] /\ op \in Ops /\ op.e \in Executions
      /\ op = threads[t][1] /\ threads[t] \in Seq(Ops) /\ 1 \in DOMAIN threads[t]
      /\ engine \in Engines /\ Sound(engine) /\ engine.runs \in Nat
  BY <1>1, HeadTypes, AgreeFacts
<1>3. /\ \A i \in DOMAIN threads[t] : i = 1 \/ \E j \in DOMAIN q : q[j] = threads[t][i]
      /\ \A j \in DOMAIN q : \E i \in DOMAIN threads[t] : i # 1 /\ q[j] = threads[t][i]
      /\ q \in Seq(Ops)
  <2>1. /\ Len(threads[t]) \in Nat \ {0} /\ DOMAIN threads[t] = 1..Len(threads[t])
        /\ DOMAIN q = 1..(Len(threads[t]) - 1) /\ q \in Seq(Ops)
        /\ \A j \in 1..(Len(threads[t]) - 1) : q[j] = threads[t][j + 1]
    BY <1>1, <1>2
  <2> HIDE DEF q
  <2>2. ASSUME NEW i \in DOMAIN threads[t], i # 1 PROVE \E j \in DOMAIN q : q[j] = threads[t][i]
    <3>1. i - 1 \in 1..(Len(threads[t]) - 1) /\ (i - 1) + 1 = i
      BY <2>1, <2>2
    <3>2. QED BY <2>1, <3>1
  <2>3. ASSUME NEW j \in DOMAIN q PROVE \E i \in DOMAIN threads[t] : i # 1 /\ q[j] = threads[t][i]
    <3>1. j + 1 \in DOMAIN threads[t] /\ j + 1 # 1
      BY <2>1, <2>3
    <3>2. QED BY <2>1, <2>3, <3>1
  <2>4. QED BY <2>1, <2>2, <2>3
<1> HIDE DEF q, op
<1>4. \A j \in DOMAIN q : q[j].call = "submit" => q[j].at = "check"
  BY <1>3 DEF AgreeInv, Placed
<1>5. Placed(q, session) /\ ~HeadAt(q, "bind")
  <2>1. q # <<>> => Head(q) = q[1] /\ 1 \in DOMAIN q
    BY <1>3
  <2>2. QED BY <1>4, <2>1 DEF Placed, HeadAt
<1>6. \A e : Owes(q, e) => Owes(threads[t], e)
  BY <1>3 DEF Owes
<1>7. ~HeadAt(threads[t], "project")
  BY <1>1 DEF HeadAt, ControlKinds, op
\* The calls for other executions are still to be made, and the other calls for this one.
<1>8. \A e, kinds : "submit" \notin kinds /\ Will(threads, e, kinds) =>
        (e = op.e /\ op.call \in kinds) \/ Will(threads', e, kinds)
  <2>1. SUFFICES ASSUME NEW e, NEW kinds, Will(threads, e, kinds), ~(e = op.e /\ op.call \in kinds)
                 PROVE  Will(threads', e, kinds)
    OBVIOUS
  <2>2. PICK u \in Threads : \E i \in DOMAIN threads[u] : threads[u][i].e = e /\ threads[u][i].call \in kinds
    BY <2>1 DEF Will
  <2>3. PICK i \in DOMAIN threads[u] : threads[u][i].e = e /\ threads[u][i].call \in kinds
    BY <2>2
  <2>4. CASE u = t
    <3>1. i # 1
      BY <1>2, <2>1, <2>3, <2>4
    <3>2. PICK j \in DOMAIN q : q[j] = threads[t][i]
      BY <1>3, <2>3, <2>4, <3>1
    <3>3. threads'[t] = q
      BY <1>1, <1>2
    <3>4. QED BY <2>3, <2>4, <3>2, <3>3 DEF Will
  <2>5. CASE u # t
    <3>1. threads'[u] = threads[u]
      BY <1>1, <1>2, <2>5
    <3>2. QED BY <2>3, <3>1 DEF Will
  <2>6. QED BY <2>4, <2>5
<1> DEFINE r == runOf[op.e]
<1>9. /\ Follows(engine, engine') /\ engine'.runs = engine.runs
      /\ r # None /\ About(engine'.feed[session], r) = {} =>
           /\ op.call = "stop" /\ engine.phase[r] \notin TerminalStates => r \in engine'.halting
           /\ op.call \in {"approve", "resume"} => engine.phase[r] # "waiting_approval"
           /\ op.call = "answer" => engine.phase[r] # "waiting_user_input"
  <2>1. CASE r = None
    BY <1>1, <2>1, FollowsItself
  <2>2. CASE r # None
    <3>1. /\ r \in EngineRuns /\ r <= engine.runs /\ session \in EngineSessions
          /\ engine.home[r] = session /\ op.call \in ControlKinds
      <4>1. r \in 1..engine.runs /\ r \in EngineRuns /\ session \in EngineSessions
            /\ engine.home[r] = session
        BY <1>2, <2>2, AgreeFacts
      <4>2. QED BY <1>1, <1>2, <4>1
    <3>2. engine' = Controlled(engine, r, op.call)
      BY <1>1, <2>2
    <3> HIDE DEF r
    <3>3. LET h == Controlled(engine, r, op.call)
          IN  /\ Sound(h) /\ Follows(engine, h)
              /\ op.call = "stop" => ~Living(h, r)
              /\ \A k \in EngineSessions : engine.home[r] = k /\ About(h.feed[k], r) = {} =>
                   /\ op.call = "stop" /\ engine.phase[r] \notin TerminalStates => r \in h.halting
                   /\ op.call \in {"approve", "resume"} => engine.phase[r] # "waiting_approval"
                   /\ op.call = "answer" => engine.phase[r] # "waiting_user_input"
      BY ONLY <1>2, <3>1, ControlledFollows
    <3>4. Controlled(engine, r, op.call).runs = engine.runs
      BY ONLY <1>2, <3>1, ControlledTypes
    <3>5. QED BY <3>1, <3>2, <3>3, <3>4
  <2>3. QED BY <2>1, <2>2
<1> HIDE DEF r
<1>10. Settled(engine', state', runOf', threads', session')
  <2>1. ASSUME NEW e \in Executions, runOf[e] # None, state[e] # "absent",
               About(engine'.feed[session], runOf[e]) = {}
        PROVE  Agrees(engine', state[e], runOf[e], e, threads')
    <3>1. /\ runOf[e] \in 1..engine.runs /\ session \in EngineSessions
          /\ engine.home[runOf[e]] = session
      BY <2>1, AgreeFacts
    <3>2. /\ About(engine.feed[session], runOf[e]) = {}
          /\ engine'.phase[runOf[e]] = engine.phase[runOf[e]] /\ engine.halting \subseteq engine'.halting
      BY <1>9, <2>1, <3>1 DEF Follows
    <3>3. Agrees(engine, state[e], runOf[e], e, threads)
      BY <2>1, <3>2 DEF AgreeInv, Settled
    <3>4. /\ Will(threads, e, {"stop"}) => (e = op.e /\ op.call = "stop") \/ Will(threads', e, {"stop"})
          /\ Will(threads, e, {"answer"}) =>
               (e = op.e /\ op.call = "answer") \/ Will(threads', e, {"answer"})
          /\ Will(threads, e, {"approve", "resume"}) =>
               (e = op.e /\ op.call \in {"approve", "resume"}) \/ Will(threads', e, {"approve", "resume"})
      <4>1. "submit" \notin {"stop"} /\ "submit" \notin {"answer"} /\ "submit" \notin {"approve", "resume"}
        OBVIOUS
      <4>2. QED BY <1>8, <4>1
    <3>5. e = op.e =>
            /\ op.call = "stop" /\ engine.phase[runOf[e]] \notin TerminalStates => runOf[e] \in engine'.halting
            /\ op.call \in {"approve", "resume"} => engine.phase[runOf[e]] # "waiting_approval"
            /\ op.call = "answer" => engine.phase[runOf[e]] # "waiting_user_input"
      BY <1>9, <2>1 DEF r
    <3>6. QED BY <3>2, <3>3, <3>4, <3>5 DEF Agrees
  <2>2. Settled(engine', state, runOf, threads', session)
    BY <2>1 DEF Settled
  <2>3. QED BY <1>1, <2>2
<1>11. \A u \in Threads : \A e \in Executions : Owes(threads[u], e) => state[e] = "pending"
  BY DEF AgreeInv, OwedIsPending
<1>12. \A u \in Threads : HeadAt(threads[u], "bind") =>
         state[Head(threads[u]).e] = "pending" /\ NewsOnly(engine', threads[u], session)
  BY <1>9, FreshOn
<1>13. \A x \in 1..engine.runs : engine'.home[x] = engine.home[x]
  BY <1>9 DEF Follows
<1>14. QED BY <1>1, <1>5, <1>6, <1>7, <1>9, <1>10, <1>11, <1>12, <1>13, PartsKept

\* A call of a client while no handler is at work.
LEMMA IdleCallAgrees ==
  ASSUME "restart" \notin Calls, AgreeInv, OwnInv', \A u \in Threads : ~AtWork(u), NEW t \in Threads,
         NEW q \in Seq(Ops), threads' = [threads EXCEPT ![t] = q], \A i \in DOMAIN q : q[i].at = "check",
         UNCHANGED <<runOf, engine, session, worker>>,
         \A e \in Executions : Owes(q, e) => state'[e] = "pending",
         \A e \in Executions : runOf[e] # None /\ state'[e] # "absent"
                               /\ About(engine.feed[session], runOf[e]) = {} =>
           state'[e] = state[e] \/ Agrees(engine, state'[e], runOf[e], e, threads')
  PROVE  AgreeInv'
PROOF
<1>1. /\ threads \in [Threads -> Seq(Ops)] /\ \A u \in Threads : threads[u] = <<>>
  BY AgreeFacts DEF AtWork
<1>2. Placed(q, session) /\ ~HeadAt(q, "bind")
  BY NewListAgrees
<1>3. \A u \in Threads : ~HeadAt(threads[u], "bind") /\ ~HeadAt(threads[u], "project")
  BY <1>1 DEF HeadAt
<1>4. \A u \in Threads, e \in Executions : ~Owes(threads[u], e)
  BY <1>1 DEF Owes
<1>5. \A e, kinds : ~Will(threads, e, kinds)
  BY <1>1 DEF Will
<1>6. Settled(engine', state', runOf', threads', session')
  <2>1. Follows(engine, engine')
    BY FollowsItself
  <2>2. Settled(engine', state', runOf, threads', session)
    BY <1>5, <2>1, SettledOn
  <2>3. QED BY <2>2
<1>7. QED BY <1>2, <1>3, <1>4, <1>6, PartsKept

\* A cancelled execution whose run goes on has its cancellation on the way.
LEMMA CancelAgrees ==
  ASSUME "restart" \notin Calls, AgreeInv, \A u \in Threads : ~AtWork(u), NEW e \in Executions,
         runOf[e] # None, state[e] \notin TerminalStates \cup {"absent"},
         About(engine.feed[session], runOf[e]) = {}, NEW th, Will(th, e, {"stop"})
  PROVE  Agrees(engine, "cancelled", runOf[e], e, th)
PROOF
<1>1. \A u \in Threads : threads[u] = <<>>
  BY AgreeFacts DEF AtWork
<1>2. \A kinds : ~Will(threads, e, kinds)
  BY <1>1 DEF Will
<1>3. Agrees(engine, state[e], runOf[e], e, threads)
  BY DEF AgreeInv, Settled
<1>4. state[e] = ShownAs(engine.phase[runOf[e]]) \/ engine.phase[runOf[e]] \notin TerminalStates
  BY <1>2, <1>3 DEF Agrees
<1>5. engine.phase[runOf[e]] \notin TerminalStates
  BY <1>4 DEF ShownAs, TerminalStates
<1>6. QED BY <1>5 DEF Agrees

\* What a client decides on a waiting execution is on its way to the run.
LEMMA DecisionAgrees ==
  ASSUME "restart" \notin Calls, AgreeInv, \A u \in Threads : ~AtWork(u), NEW e \in Executions,
         runOf[e] # None, state[e] # "absent", About(engine.feed[session], runOf[e]) = {}, NEW th,
         \/ state[e] = "confirming" /\ Will(th, e, {"approve", "resume"})
         \/ state[e] = "awaiting_input" /\ Will(th, e, {"answer"})
  PROVE  Agrees(engine, "executing", runOf[e], e, th)
PROOF
<1>1. \A u \in Threads : threads[u] = <<>>
  BY AgreeFacts DEF AtWork
<1>2. \A kinds : ~Will(threads, e, kinds)
  BY <1>1 DEF Will
<1>3. Agrees(engine, state[e], runOf[e], e, threads)
  BY DEF AgreeInv, Settled
<1>4. engine.phase[runOf[e]] \in EnginePhases
  <2>1. engine \in Engines /\ runOf[e] \in EngineRuns
    BY AgreeFacts
  <2>2. QED BY <2>1 DEF Engines
<1>5. \/ state[e] = ShownAs(engine.phase[runOf[e]])
      \/ engine.phase[runOf[e]] \notin TerminalStates /\ runOf[e] \in engine.halting
  BY <1>2, <1>3 DEF Agrees
<1>6. CASE state[e] = ShownAs(engine.phase[runOf[e]])
  <2>1. \/ state[e] = "confirming" /\ engine.phase[runOf[e]] = "waiting_approval"
        \/ state[e] = "awaiting_input" /\ engine.phase[runOf[e]] = "waiting_user_input"
    BY <1>4, <1>6 DEF ShownAs, EnginePhases, Working, Waiting, TerminalStates
  <2>2. QED BY <2>1 DEF Agrees
<1>7. QED BY <1>5, <1>6 DEF Agrees

\* The calls of the clients.
LEMMA ClientAgrees ==
  ASSUME Tame, AgreeInv, OwnInv', \A u \in Threads : ~AtWork(u), NEW t \in Threads, ClientCall(t)
  PROVE  AgreeInv'
PROOF
<1>1. /\ "restart" \notin Calls
      /\ \A name : Call(t, name) => name \in Calls \ {"deny", "rollback", "restart", "delete"}
  BY DEF Call, Tame
<1>2. /\ QueueInv /\ threads \in [Threads -> Seq(Ops)] /\ Carried(state, active, queueState)
      /\ state \in [Executions -> ExecutionStates] /\ active \in {None} \cup Executions
      /\ \A u \in Threads : threads[u] = <<>>
  BY <1>1, AgreeFacts DEF AtWork
<1>3. /\ \A u \in Threads : \A e : ~Owes(threads[u], e)
      /\ \A u \in Threads : \A at : ~HeadAt(threads[u], at)
      /\ \A e, kinds : ~Will(threads, e, kinds)
  BY <1>2 DEF Owes, HeadAt, Will
<1>4. ASSUME NEW s \in [Executions -> ExecutionStates], NEW before, NEW d,
             before = <<>> \/ (d \in Executions /\ before = <<Op("stop", d)>>),
             Advance(t, s, before, <<>>),
             \A e \in Executions : s[e] = "queued" => state[e] = "queued",
             \A e \in Executions : s[e] # state[e] =>
               e = d /\ s[e] = "cancelled" /\ before # <<>>
               /\ state[e] \notin TerminalStates \cup {"absent"},
             UNCHANGED <<runOf, engine, session, worker>>
      PROVE  AgreeInv'
  <2>1. PassesOn(t, s, before, d)
    BY <1>2, <1>4, AdvanceTells
  <2>2. before # <<>> => Will(threads', d, {"stop"})
    <3>1. PICK q : /\ threads' = [threads EXCEPT ![t] = q]
                   /\ before # <<>> => 1 \in DOMAIN q /\ q[1] = Op("stop", d)
      BY <2>1 DEF PassesOn
    <3>2. threads'[t] = q
      BY <1>2, <3>1
    <3>3. QED BY <3>1, <3>2 DEF Will, Op
  <2>3. Settled(engine', s, runOf, threads', session)
    <3>1. Follows(engine, engine') /\ engine' = engine
      BY <1>4, FollowsItself
    <3>2. ASSUME NEW e \in Executions, runOf[e] # None, s[e] # "absent",
                 About(engine.feed[session], runOf[e]) = {}, s[e] # state[e]
          PROVE  Agrees(engine', s[e], runOf[e], e, threads')
      <4>1. Will(threads', e, {"stop"}) /\ s[e] = "cancelled" /\ state[e] \notin TerminalStates \cup {"absent"}
        BY <1>4, <2>2, <3>2
      <4>2. Agrees(engine, "cancelled", runOf[e], e, threads')
        BY <1>1, <3>2, <4>1, CancelAgrees
      <4>3. QED BY <3>1, <4>1, <4>2
    <3>3. QED BY <1>1, <1>3, <3>1, <3>2, SettledOn
  <2>4. QED BY <1>1, <1>3, <1>4, <2>1, <2>3, PassedOnAgrees
<1>5. CASE StopSession(t)
  <2>1. UNCHANGED <<runOf, engine, session, worker>>
    BY <1>5 DEF StopSession
  <2>2. CASE active # None
    <3> DEFINE s == [state EXCEPT ![active] = "cancelled"]
               before == CancelOf(active)
    <3>1. active \in Executions /\ state[active] \notin TerminalStates \cup {"absent"}
      BY <1>2, <2>2 DEF Carried, Underway, TerminalStates
    <3>2. Advance(t, s, before, <<>>)
      BY <1>5, <2>2, <3>1 DEF StopSession
    <3>3. before = <<Op("stop", active)>> /\ before # <<>>
      BY DEF CancelOf
    <3>4. /\ s \in [Executions -> ExecutionStates]
          /\ \A e \in Executions : s[e] = "queued" => state[e] = "queued"
          /\ \A e \in Executions : s[e] # state[e] => e = active /\ s[e] = "cancelled"
      BY <1>2, <3>1 DEF ExecutionStates, TerminalStates
    <3> HIDE DEF s, before
    <3>5. QED BY <1>4, <2>1, <3>1, <3>2, <3>3, <3>4
  <2>3. CASE active = None
    <3> DEFINE before == <<>>
    <3>1. Advance(t, state, before, <<>>)
      BY <1>5, <2>3 DEF StopSession
    <3>2. before = <<>> \/ (active \in Executions /\ before = <<Op("stop", active)>>)
      OBVIOUS
    <3> HIDE DEF before
    <3>3. QED BY <1>2, <1>4, <2>1, <3>1, <3>2
  <2>4. QED BY <2>2, <2>3
<1>6. ~Restart(t) /\ ~Delete(t) /\ \A e : ~Rollback(t, e)
  BY <1>1 DEF Restart, Delete, Rollback
<1>7. ASSUME NEW e \in Executions, NEW action \in ControlKinds, ControlRun(t, e, action) PROVE AgreeInv'
  <2>1. /\ UNCHANGED <<runOf, engine, session, worker>> /\ action # "deny"
        /\ state[e] # "absent" /\ AcceptsControl(CoreState(state[e]), action)
    BY <1>1, <1>7 DEF ControlRun
  <2>2. ASSUME NEW x, state' = [state EXCEPT ![e] = x],
               \/ x = state[e] /\ Starts(t, <<>>)
               \/ /\ Starts(t, <<Op(action, e)>>)
                  /\ \A th : runOf[e] # None /\ About(engine.feed[session], runOf[e]) = {}
                             /\ Will(th, e, {action}) =>
                       Agrees(engine, x, runOf[e], e, th)
        PROVE  AgreeInv'
    <3>1. PICK q : /\ Starts(t, q) /\ (q = <<>> \/ q = <<Op(action, e)>>)
                   /\ q = <<>> => x = state[e]
                   /\ q # <<>> =>
                        \A th : runOf[e] # None /\ About(engine.feed[session], runOf[e]) = {}
                                /\ Will(th, e, {action}) =>
                          Agrees(engine, x, runOf[e], e, th)
      BY <2>2
    <3>2. /\ q \in Seq(Ops) /\ threads' = [threads EXCEPT ![t] = q]
          /\ \A i \in DOMAIN q : q[i].at = "check" /\ q[i].call = action
          /\ q # <<>> => 1 \in DOMAIN q /\ q[1].e = e
      <4>1. Op(action, e) \in Ops /\ Op(action, e).at = "check" /\ Op(action, e).call = action
            /\ Op(action, e).e = e
        BY DEF Op, Ops, Stages, None
      <4>2. CASE q = <<>>
        BY <3>1, <4>2 DEF Starts
      <4>3. CASE q = <<Op(action, e)>>
        <5> DEFINE op == Op(action, e)
        <5>1. op \in Ops /\ op.at = "check" /\ op.call = action /\ op.e = e /\ q = <<op>>
          BY <4>1, <4>3
        <5> HIDE DEF op
        <5>2. q \in Seq(Ops) /\ DOMAIN q = {1} /\ q[1] = op
          BY <5>1
        <5>3. QED BY <3>1, <5>1, <5>2 DEF Starts
      <4>4. QED BY <3>1, <4>2, <4>3
    <3>3. \A f : ~Owes(q, f)
      BY <3>2 DEF Owes, ControlKinds
    <3>4. q # <<>> => Will(threads', e, {action})
      <4>1. threads'[t] = q
        BY <1>2, <3>2
      <4>2. QED BY <3>2, <4>1 DEF Will
    <3>5. ASSUME NEW f \in Executions, runOf[f] # None, About(engine.feed[session], runOf[f]) = {},
                 state'[f] # state[f]
          PROVE  Agrees(engine, state'[f], runOf[f], f, threads')
      <4>1. f = e /\ state'[f] = x /\ q # <<>>
        BY <1>2, <2>2, <3>1, <3>5
      <4>2. QED BY <3>1, <3>4, <3>5, <4>1
    <3>6. QED BY <1>1, <2>1, <3>2, <3>3, <3>5, IdleCallAgrees
  <2>3. CASE Grants(t, e, action)
    <3> DEFINE x == IF state[e] \in {"executing", "confirming"} THEN "executing" ELSE "pending"
    <3>1. state[e] # "queued"
      BY <1>2, <2>3 DEF Grants, Carried, Underway
    <3>2. action \in {"approve", "resume"} /\ state[e] \in {"pending", "confirming", "executing"}
      <4>1. state[e] \in ExecutionStates
        BY <1>2
      <4>2. QED BY <2>1, <2>3, <3>1, <4>1
                DEF Grants, AcceptsControl, CoreState, ExecutionStates, Underway, TerminalStates
    <3>3. state' = [state EXCEPT ![e] = x]
      BY <1>2, <2>3 DEF Grants
    <3>4. CASE state[e] = "confirming"
      <4>1. x = "executing" /\ Starts(t, <<Op(action, e)>>)
        BY <2>3, <3>4 DEF Grants
      <4>2. \A th : Will(th, e, {action}) => Will(th, e, {"approve", "resume"})
        BY <3>2 DEF Will
      <4>3. \A th : runOf[e] # None /\ About(engine.feed[session], runOf[e]) = {}
                    /\ Will(th, e, {action}) => Agrees(engine, x, runOf[e], e, th)
        BY <1>1, <3>4, <4>1, <4>2, DecisionAgrees
      <4> HIDE DEF x
      <4>4. QED BY <2>2, <3>3, <4>1, <4>3
    <3>5. CASE state[e] # "confirming"
      <4>1. x = state[e] /\ Starts(t, <<>>)
        BY <2>3, <3>1, <3>2, <3>5 DEF Grants
      <4> HIDE DEF x
      <4>2. QED BY <2>2, <3>3, <4>1
    <3>6. QED BY <3>4, <3>5
  <2>4. CASE Answers(t, e, action)
    <3>1. action = "answer" /\ state[e] = "awaiting_input"
      <4>1. state[e] \in ExecutionStates
        BY <1>2
      <4>2. QED BY <2>1, <2>4, <4>1
                DEF Answers, AcceptsControl, CoreState, ExecutionStates, Underway, TerminalStates
    <3>2. state' = [state EXCEPT ![e] = "executing"] /\ Starts(t, <<Op(action, e)>>)
      BY <2>4 DEF Answers
    <3>3. \A th : runOf[e] # None /\ About(engine.feed[session], runOf[e]) = {}
                  /\ Will(th, e, {action}) => Agrees(engine, "executing", runOf[e], e, th)
      BY <1>1, <3>1, DecisionAgrees
    <3>4. QED BY <2>2, <3>2, <3>3
  <2>5. action = "stop" => state[e] \notin TerminalStates \cup {"absent"}
    BY <2>1 DEF AcceptsControl, CoreState, CanTransition, AllowedTransitions, TerminalStates, RunStates
  <2>6. CASE Cancels(t, e, action) /\ active # e
    <3>1. /\ action = "stop" /\ state' = [state EXCEPT ![e] = "cancelled"]
          /\ Starts(t, <<Op(action, e)>>)
      BY <2>1, <2>6 DEF Cancels, CancelOf
    <3>2. \A th : runOf[e] # None /\ About(engine.feed[session], runOf[e]) = {}
                  /\ Will(th, e, {action}) => Agrees(engine, "cancelled", runOf[e], e, th)
      BY <1>1, <2>5, <3>1, CancelAgrees
    <3>3. QED BY <2>2, <3>1, <3>2
  <2>7. CASE Cancels(t, e, action) /\ active = e
    <3> DEFINE s == [state EXCEPT ![e] = "cancelled"]
               before == CancelOf(e)
    <3>1. Advance(t, s, before, <<>>) /\ action = "stop"
      BY <2>1, <2>7 DEF Cancels
    <3>2. before = <<Op("stop", e)>> /\ before # <<>>
      BY DEF CancelOf
    <3>3. /\ s \in [Executions -> ExecutionStates]
          /\ \A f \in Executions : s[f] = "queued" => state[f] = "queued"
          /\ \A f \in Executions : s[f] # state[f] => f = e /\ s[f] = "cancelled"
      BY <1>2 DEF ExecutionStates, TerminalStates
    <3> HIDE DEF s, before
    <3>4. QED BY <1>4, <2>1, <2>5, <3>1, <3>2, <3>3
  <2>8. ~Denies(t, e, action)
    BY <2>1 DEF Denies
  <2>9. QED BY <1>7, <2>3, <2>4, <2>6, <2>7, <2>8 DEF ControlRun
<1>8. QED BY <1>5, <1>6, <1>7 DEF ClientCall

\* Every step of a conversation whose clients wait and make only these calls.
LEMMA PatientStepAgrees ==
  ASSUME Tame, AgreeInv, [PatientNext]_vars
  PROVE  AgreeInv'
PROOF
<1>1. OwnInv /\ OwnInv' /\ "restart" \notin Calls
  BY PatientStepOwns DEF AgreeInv, Tame
<1>2. CASE UNCHANGED vars
  BY <1>1, <1>2 DEF vars, AgreeInv
<1>3. ASSUME NEW r \in EngineRuns, EngineStep(r) PROVE AgreeInv'
  BY <1>1, <1>3, EngineStepAgrees
<1>4. CASE Project /\ \A t \in Threads : ~Binding(t)
  BY <1>1, <1>4, ProjectAgrees
<1>5. ASSUME NEW t \in Threads, Prompt(t) PROVE AgreeInv'
  BY <1>1, <1>5, PromptAgrees
<1>6. ASSUME NEW t \in Threads, ThreadStep(t) PROVE AgreeInv'
  <2>1. ~Forget(t)
    <3>1. SUFFICES ASSUME Forget(t) PROVE FALSE
      OBVIOUS
    <3>2. threads[t] # <<>> /\ Head(threads[t]).call = "forget"
      BY <3>1 DEF Forget, Does
    <3>3. Head(threads[t]) = threads[t][1] /\ 1 \in DOMAIN threads[t]
      BY <1>1, <3>2, HeadTypes DEF OwnInv, OrderInv
    <3>4. QED BY <1>1, <3>2, <3>3 DEF OwnInv, Plain
  <2>2. QED BY <1>1, <1>6, <2>1, SubmitStepsAgree, StartAgrees, SubmitRunAgrees, BindRunAgrees,
               FailAgrees, ControlAgrees
            DEF ThreadStep
<1>7. ASSUME \A u \in Threads : ~AtWork(u), NEW t \in Threads, ClientCall(t) PROVE AgreeInv'
  BY <1>1, <1>7, ClientAgrees
<1>8. QED BY <1>2, <1>3, <1>4, <1>5, <1>6, <1>7 DEF PatientNext, AgentEngine

\* The empty conversation.
LEMMA InitAgrees == Init => AgreeInv
PROOF
<1> SUFFICES ASSUME Init PROVE AgreeInv
  OBVIOUS
<1>1. OwnInv
  BY InitOwns
<1>2. engine.runs = 0 /\ \A t \in Threads : threads[t] = <<>>
  BY DEF Init, NoEngine
<1>3. Housed(engine, session) /\ worker \in {None, session} /\ \A e \in Executions : runOf[e] = None
  BY <1>2 DEF Init, Housed
<1>4. \A t \in Threads : Placed(threads[t], session)
  BY <1>2 DEF Placed
<1>5. Watched(runOf, worker, threads) /\ Settled(engine, state, runOf, threads, session)
  BY <1>3 DEF Watched, Settled
<1>6. OwedIsPending(threads, state) /\ Fresh(engine, threads, state, session)
  BY <1>2 DEF OwedIsPending, Owes, Fresh, HeadAt
<1>7. QED BY <1>1, <1>3, <1>4, <1>5, <1>6 DEF AgreeInv

-------------------------------------------------------------------------------
\* Under the same timing and calls: when no handler is at work, no event is left to be
\* projected and every run that was told to halt has, the hub shows each execution as
\* its run is in the engine. Nothing it has shown on a client's word stays wrong, no
\* event of a run is taken for another's, and none is lost before the worker starts.
THEOREM HubAgreesWithItsRuns ==
  ASSUME Calls \cap {"deny", "rollback", "restart", "delete"} = {}
  PROVE  PatientSpec => []HubAgreesWithEngine
PROOF
<1>1. AgreeInv /\ [PatientNext]_vars => AgreeInv'
  BY PatientStepAgrees DEF Tame
<1>2. ASSUME AgreeInv PROVE HubAgreesWithEngine
  <2>1. SUFFICES ASSUME Quiet, NEW e \in Executions, runOf[e] # None, state[e] # "absent"
                 PROVE  state[e] = ShownAs(engine.phase[runOf[e]])
    BY DEF HubAgreesWithEngine
  <2>2. "restart" \notin Calls
    OBVIOUS
  <2>3. \A t \in Threads : threads[t] = <<>>
    BY <2>1 DEF Quiet, AtWork
  <2>4. worker = session
    <3>1. \A t \in Threads : ~HeadAt(threads[t], "project")
      BY <2>3 DEF HeadAt
    <3>2. QED BY <1>2, <2>1, <3>1 DEF AgreeInv, Watched
  <2>5. session # None
    BY <1>2, <2>1, <2>2, AgreeFacts
  <2>6. About(engine.feed[session], runOf[e]) = {}
    BY <2>1, <2>4, <2>5 DEF Quiet, About
  <2>7. Agrees(engine, state[e], runOf[e], e, threads)
    BY <1>2, <2>1, <2>6 DEF AgreeInv, Settled
  <2>8. \A kinds : ~Will(threads, e, kinds)
    BY <2>3 DEF Will
  <2>9. QED BY <2>1, <2>7, <2>8 DEF Agrees, Quiet
<1>3. AgreeInv => HubAgreesWithEngine
  BY <1>2
<1>4. QED BY <1>1, <1>3, InitAgrees, PTL DEF PatientSpec
===============================================================================
