----------------------------- MODULE EngineProofs -----------------------------
(* Proofs about the engine for every number of sessions, runs, control calls, *)
(* executor rounds and every channel capacity: first for every client, then   *)
(* for clients that follow the prompts.                                       *)
EXTENDS EngineRefinement, TLAPS, SequenceTheorems

\* A session's feed whose events are numbered by position.
FeedOK(f) == /\ f \in Feeds
             /\ f.next = Len(f.items)
             /\ \A i \in DOMAIN f.items : f.items[i].seq + 1 = i

Event(f, r, type) == [run |-> r, type |-> type, seq |-> f.next]

\* The stable sort of Store.Append moves nothing: the engine's sequence numbers
\* only grow, so every event is stored last.
LEMMA StoreAppendIsAppend ==
  ASSUME NEW f, FeedOK(f), NEW r \in RunIds, NEW type \in EventTypes
  PROVE  StoreAppend(f.items, Event(f, r, type)) = Append(f.items, Event(f, r, type))
PROOF
<1> DEFINE items == f.items
           e == Event(f, r, type)
           Fits(k) == /\ \A i \in 1..k : items[i].seq <= e.seq
                      /\ \A i \in (k + 1)..Len(items) : items[i].seq > e.seq
<1>1. items \in Seq(Events) /\ e \in Events /\ Len(items) \in Nat /\ e.seq = Len(items)
  BY DEF FeedOK, Feeds, Event, Events
<1>2. \A i \in 1..Len(items) : items[i].seq \in Nat /\ items[i].seq < e.seq
  <2>1. SUFFICES ASSUME NEW i \in 1..Len(items)
                 PROVE  items[i].seq \in Nat /\ items[i].seq < e.seq
    OBVIOUS
  <2>2. items[i] \in Events
    BY <1>1
  <2>3. items[i].seq \in Nat
    BY <2>2 DEF Events
  <2>4. items[i].seq + 1 = i
    BY <1>1 DEF FeedOK
  <2>5. QED BY <1>1, <2>3, <2>4
<1>3. Fits(Len(items))
  BY <1>1, <1>2
<1>4. \A k \in 0..Len(items) : Fits(k) => k = Len(items)
  <2>1. SUFFICES ASSUME NEW k \in 0..Len(items), Fits(k), k # Len(items) PROVE FALSE
    OBVIOUS
  <2>2. k + 1 \in 1..Len(items) /\ k + 1 \in (k + 1)..Len(items)
    BY <2>1, <1>1
  <2>3. items[k + 1].seq > e.seq /\ items[k + 1].seq < e.seq
    BY <2>1, <2>2, <1>2
  <2>4. items[k + 1].seq \in Nat /\ e.seq \in Nat
    BY <1>1, <1>2, <2>2
  <2>5. QED BY <2>3, <2>4
<1>5. (CHOOSE k \in 0..Len(items) : Fits(k)) = Len(items)
  BY <1>1, <1>3, <1>4
<1>6. SubSeq(items, 1, Len(items)) = items /\ SubSeq(items, Len(items) + 1, Len(items)) = <<>>
  BY <1>1
<1>7. StoreAppend(items, e) = SubSeq(items, 1, Len(items)) \o <<e>> \o SubSeq(items, Len(items) + 1, Len(items))
  BY <1>5 DEF StoreAppend
<1>8. items \o <<e>> = Append(items, e) /\ Append(items, e) \in Seq(Events)
  BY <1>1
<1>9. \A q \in Seq(Events) : q \o <<>> = q
  BY ConcatEmptySeq
<1>10. QED
  BY <1>6, <1>7, <1>8, <1>9

\* Emitting an event keeps a feed numbered by position.
LEMMA EmitKeepsFeed ==
  ASSUME NEW f, FeedOK(f), NEW r \in RunIds, NEW type \in EventTypes
  PROVE  /\ FeedOK(Emit(f, r, type))
         /\ Emit(f, r, type).items = Append(f.items, Event(f, r, type))
PROOF
<1> DEFINE g == Emit(f, r, type)
           e == Event(f, r, type)
<1>1. f.items \in Seq(Events) /\ f.next \in Nat /\ f.next = Len(f.items) /\ e \in Events
  BY DEF FeedOK, Feeds, Event, Events
<1>2. g = [next |-> f.next + 1, items |-> Append(f.items, e)]
  BY StoreAppendIsAppend DEF Emit, Event
<1>3. g \in Feeds /\ g.next = Len(g.items)
  BY <1>1, <1>2 DEF Feeds
<1>4. \A i \in DOMAIN g.items : g.items[i].seq + 1 = i
  <2>1. SUFFICES ASSUME NEW i \in DOMAIN g.items PROVE g.items[i].seq + 1 = i
    OBVIOUS
  <2>2. CASE i = Len(f.items) + 1
    BY <1>1, <1>2, <2>2 DEF Event
  <2>3. CASE i \in DOMAIN f.items
    BY <1>1, <1>2, <2>3 DEF FeedOK
  <2>4. QED BY <1>1, <1>2, <2>2, <2>3
<1>5. QED BY <1>2, <1>3, <1>4 DEF FeedOK
-------------------------------------------------------------------------------
(* The inductive invariant. Core speaks of the queues Q, the active runs A,   *)
(* the feeds F, the goroutines P, the sessions of the runs S and the number n *)
(* of runs, as values: an action that ends or submits a run first brings them *)
(* to an intermediate state and then calls startNextIfIdleLocked, and Core    *)
(* must hold of that state too.                                               *)

CoreTypes(Q, A, F, P, S) ==
  /\ Q \in [SessionIds -> Seq(RunIds)]
  /\ A \in [SessionIds -> RunIds \cup {NoRun}]
  /\ \A s \in SessionIds : FeedOK(F[s])
  /\ F \in [SessionIds -> Feeds]
  /\ P \in [RunIds -> Phases]
  /\ S \in [RunIds -> SessionIds \cup {NoSession}]

\* The runs submitted are those with a session, and only they have a goroutine,
\* are active or have events, in that session.
Belongs(A, F, S, n) ==
  /\ \A r \in RunIds : S[r] # NoSession <=> r <= n
  /\ \A s \in SessionIds : A[s] # NoRun => S[A[s]] = s
  /\ \A s \in SessionIds : \A i \in DOMAIN F[s].items : S[F[s].items[i].run] = s

\* The runs of a queue belong to its session, have no goroutine yet, and stand in
\* the order of submission.
Lined(Q, P, S) ==
  \A s \in SessionIds :
    /\ \A k \in DOMAIN Q[s] : S[Q[s][k]] = s /\ P[Q[s][k]] = "none"
    /\ \A j, k \in DOMAIN Q[s] : j < k => Q[s][j] < Q[s][k]

Executed(A, P, S) ==
  \A r \in RunIds :
    /\ P[r] \in GoroutinePhases <=> S[r] # NoSession /\ A[S[r]] = r
    /\ S[r] = NoSession => P[r] = "none"

Ordered(Q, F) ==
  \A s \in SessionIds :
    /\ \A i, j \in DOMAIN F[s].items :
         i < j /\ F[s].items[i].type = "run_started" /\ F[s].items[j].type = "run_started"
           => F[s].items[i].run < F[s].items[j].run
    /\ \A i \in DOMAIN F[s].items, k \in DOMAIN Q[s] :
         F[s].items[i].type = "run_started" => F[s].items[i].run < Q[s][k]

Core(Q, A, F, P, S, n) ==
  /\ CoreTypes(Q, A, F, P, S)
  /\ Belongs(A, F, S, n)
  /\ Lined(Q, P, S)
  /\ Executed(A, P, S)
  /\ Ordered(Q, F)

\* A call of Control that waits for room is about a submitted run.
BlockedOnRun == LockFree \/ blocked.run \in Runs

IInv == TypeOK /\ Core(queue, active, feed, pc, sessionOf, nextRunID) /\ BlockedOnRun

\* An event that starts no run keeps the order of the starts, and every event of a
\* submitted run of the session keeps the rest.
LEMMA EmitKeepsCore ==
  ASSUME NEW Q, NEW A, NEW F, NEW P, NEW S, NEW n, Core(Q, A, F, P, S, n),
         NEW s \in SessionIds, NEW r \in RunIds, S[r] = s,
         NEW type \in EventTypes \ {"run_started"}
  PROVE  Core(Q, A, [F EXCEPT ![s] = Emit(@, r, type)], P, S, n)
PROOF
<1> DEFINE G == [F EXCEPT ![s] = Emit(@, r, type)]
<1>1. /\ FeedOK(Emit(F[s], r, type))
      /\ Emit(F[s], r, type).items = Append(F[s].items, Event(F[s], r, type))
  BY EmitKeepsFeed DEF Core, CoreTypes
<1>2. CoreTypes(Q, A, G, P, S)
  BY <1>1 DEF Core, CoreTypes, FeedOK
<1>3. \A t \in SessionIds : t # s => G[t] = F[t]
  BY DEF Core, CoreTypes
<1>4. G[s] = Emit(F[s], r, type)
  BY DEF Core, CoreTypes
<1>5. F[s].items \in Seq(Events) /\ Event(F[s], r, type) \in Events
  BY DEF Core, CoreTypes, Feeds, Events, Event
<1>6. \A i \in DOMAIN G[s].items :
         \/ i \in DOMAIN F[s].items /\ G[s].items[i] = F[s].items[i]
         \/ i = Len(F[s].items) + 1 /\ G[s].items[i] = Event(F[s], r, type)
  BY <1>1, <1>4, <1>5
<1>7. Event(F[s], r, type).run = r /\ Event(F[s], r, type).type # "run_started"
  BY DEF Event
<1>8. Belongs(A, G, S, n)
  BY <1>3, <1>6, <1>7 DEF Core, Belongs
<1>9. Ordered(Q, G)
  BY <1>3, <1>6, <1>7 DEF Core, Ordered
<1>10. QED BY <1>2, <1>8, <1>9 DEF Core

\* Taking the head off a queue whose session is idle, and giving it the session,
\* a goroutine and the start event, keeps Core.
LEMMA StartKeepsCore ==
  ASSUME NEW Q, NEW A, NEW F, NEW P, NEW S, NEW n, Core(Q, A, F, P, S, n),
         NEW s \in SessionIds, A[s] = NoRun, Q[s] # <<>>,
         NEW work \in GoroutinePhases
  PROVE  Core([Q EXCEPT ![s] = Tail(@)], [A EXCEPT ![s] = Head(Q[s])],
              [F EXCEPT ![s] = Emit(@, Head(Q[s]), "run_started")],
              [P EXCEPT ![Head(Q[s])] = work], S, n)
PROOF
<1> DEFINE h == Head(Q[s])
           q == Tail(Q[s])
           Q1 == [Q EXCEPT ![s] = Tail(@)]
           A1 == [A EXCEPT ![s] = h]
           F1 == [F EXCEPT ![s] = Emit(@, h, "run_started")]
           P1 == [P EXCEPT ![h] = work]
<1>1. /\ Q[s] \in Seq(RunIds) /\ Q[s] # <<>>
      /\ h \in RunIds /\ h = Q[s][1] /\ 1 \in DOMAIN Q[s] /\ q \in Seq(RunIds)
      /\ \A k \in DOMAIN q : k + 1 \in DOMAIN Q[s] /\ q[k] = Q[s][k + 1] /\ 1 < k + 1
  BY DEF Core, CoreTypes
<1>2. /\ FeedOK(Emit(F[s], h, "run_started"))
      /\ Emit(F[s], h, "run_started").items = Append(F[s].items, Event(F[s], h, "run_started"))
  BY <1>1, EmitKeepsFeed DEF Core, CoreTypes, EventTypes
<1>3. CoreTypes(Q1, A1, F1, P1, S)
  BY <1>1, <1>2 DEF Core, CoreTypes, FeedOK, Phases
<1>4. \A t \in SessionIds : t # s => Q1[t] = Q[t] /\ A1[t] = A[t] /\ F1[t] = F[t]
  BY DEF Core, CoreTypes
<1>5. Q1[s] = q /\ A1[s] = h /\ F1[s] = Emit(F[s], h, "run_started")
  BY DEF Core, CoreTypes
<1>6. P1[h] = work /\ \A r \in RunIds \ {h} : P1[r] = P[r]
  BY <1>1 DEF Core, CoreTypes
<1>7. S[h] = s /\ P[h] = "none"
  BY <1>1 DEF Core, Lined
<1>8. F[s].items \in Seq(Events) /\ Event(F[s], h, "run_started") \in Events
  BY <1>1 DEF Core, CoreTypes, Feeds, Events, Event, EventTypes
<1>9. \A i \in DOMAIN F1[s].items :
         \/ i \in DOMAIN F[s].items /\ F1[s].items[i] = F[s].items[i]
         \/ i = Len(F[s].items) + 1 /\ F1[s].items[i] = Event(F[s], h, "run_started")
  BY <1>2, <1>5, <1>8
<1>10. Event(F[s], h, "run_started").run = h
  BY DEF Event
<1>11. Belongs(A1, F1, S, n)
  BY <1>4, <1>5, <1>7, <1>9, <1>10 DEF Core, Belongs
<1>12. Lined(Q1, P1, S)
  <2>1. \A k \in DOMAIN q : q[k] # h /\ q[k] \in RunIds /\ S[q[k]] = s /\ P[q[k]] = "none"
    <3>1. SUFFICES ASSUME NEW k \in DOMAIN q
                   PROVE  q[k] # h /\ q[k] \in RunIds /\ S[q[k]] = s /\ P[q[k]] = "none"
      OBVIOUS
    <3>2. q[k] = Q[s][k + 1] /\ k + 1 \in DOMAIN Q[s] /\ 1 < k + 1 /\ q[k] \in RunIds
      BY <1>1, <3>1
    <3>3. h < q[k] /\ S[q[k]] = s /\ P[q[k]] = "none"
      BY <1>1, <3>2 DEF Core, Lined
    <3>4. QED BY <1>1, <3>2, <3>3 DEF RunIds
  <2>2. \A j, k \in DOMAIN q : j < k => q[j] < q[k]
    <3>1. SUFFICES ASSUME NEW j \in DOMAIN q, NEW k \in DOMAIN q, j < k PROVE q[j] < q[k]
      OBVIOUS
    <3>2. j + 1 < k + 1 /\ j + 1 \in DOMAIN Q[s] /\ k + 1 \in DOMAIN Q[s]
      BY <1>1, <3>1
    <3>3. Q[s][j + 1] < Q[s][k + 1]
      BY <3>2 DEF Core, Lined
    <3>4. QED BY <1>1, <3>3
  <2>3. \A t \in SessionIds : t # s => \A k \in DOMAIN Q[t] :
           Q[t][k] \in RunIds /\ Q[t][k] # h /\ S[Q[t][k]] = t
    BY <1>7 DEF Core, CoreTypes, Lined
  <2>4. SUFFICES ASSUME NEW t \in SessionIds
                 PROVE  /\ \A k \in DOMAIN Q1[t] : S[Q1[t][k]] = t /\ P1[Q1[t][k]] = "none"
                        /\ \A j, k \in DOMAIN Q1[t] : j < k => Q1[t][j] < Q1[t][k]
    BY DEF Lined
  <2>5. CASE t = s
    BY <2>5, <1>5, <1>6, <2>1, <2>2
  <2>6. CASE t # s
    BY <2>6, <1>4, <1>6, <2>3 DEF Core, Lined
  <2>7. QED BY <2>5, <2>6
<1>13. Executed(A1, P1, S)
  <2>1. SUFFICES ASSUME NEW r \in RunIds
                 PROVE  /\ P1[r] \in GoroutinePhases <=> S[r] # NoSession /\ A1[S[r]] = r
                        /\ S[r] = NoSession => P1[r] = "none"
    BY DEF Executed
  <2>2. S[r] \in SessionIds \cup {NoSession}
    BY DEF Core, CoreTypes
  <2>3. CASE r = h
    BY <2>3, <1>5, <1>6, <1>7 DEF SessionIds, NoSession
  <2>4. CASE r # h /\ S[r] = s
    BY <2>4, <1>5, <1>6 DEF Core, Executed, NoRun, RunIds
  <2>5. CASE r # h /\ S[r] # s
    BY <2>2, <2>5, <1>4, <1>6 DEF Core, Executed
  <2>6. QED BY <2>3, <2>4, <2>5
<1>14. Ordered(Q1, F1)
  <2>1. \A i \in DOMAIN F[s].items : F[s].items[i].type = "run_started" => F[s].items[i].run < h
    BY <1>1 DEF Core, Ordered
  <2>2. \A k \in DOMAIN q : h < q[k]
    BY <1>1 DEF Core, Lined
  <2>3. \A i \in DOMAIN F[s].items, k \in DOMAIN q :
           F[s].items[i].type = "run_started" => F[s].items[i].run < q[k]
    BY <1>1 DEF Core, Ordered
  <2>4. \A i, j \in DOMAIN F1[s].items :
           i < j /\ F1[s].items[i].type = "run_started" /\ F1[s].items[j].type = "run_started"
             => F1[s].items[i].run < F1[s].items[j].run
    <3>1. SUFFICES ASSUME NEW i \in DOMAIN F1[s].items, NEW j \in DOMAIN F1[s].items, i < j,
                          F1[s].items[i].type = "run_started",
                          F1[s].items[j].type = "run_started"
                   PROVE  F1[s].items[i].run < F1[s].items[j].run
      OBVIOUS
    <3>2. i \in DOMAIN F[s].items /\ F1[s].items[i] = F[s].items[i]
      BY <3>1, <1>8, <1>9, <1>2, <1>5
    <3>3. CASE j \in DOMAIN F[s].items /\ F1[s].items[j] = F[s].items[j]
      BY <3>1, <3>2, <3>3 DEF Core, Ordered
    <3>4. CASE F1[s].items[j] = Event(F[s], h, "run_started")
      BY <3>1, <3>2, <3>4, <2>1, <1>10
    <3>5. QED BY <1>9, <3>3, <3>4
  <2>5. \A i \in DOMAIN F1[s].items, k \in DOMAIN q :
           F1[s].items[i].type = "run_started" => F1[s].items[i].run < q[k]
    BY <1>9, <1>10, <2>2, <2>3
  <2>6. QED BY <1>4, <1>5, <2>4, <2>5 DEF Core, Ordered
<1>15. QED BY <1>3, <1>11, <1>12, <1>13, <1>14 DEF Core

\* Dropping the head of a queue keeps Core.
LEMMA DropKeepsCore ==
  ASSUME NEW Q, NEW A, NEW F, NEW P, NEW S, NEW n, Core(Q, A, F, P, S, n),
         NEW s \in SessionIds, Q[s] # <<>>
  PROVE  Core([Q EXCEPT ![s] = Tail(@)], A, F, P, S, n)
PROOF
<1> DEFINE q == Tail(Q[s])
           Q1 == [Q EXCEPT ![s] = Tail(@)]
<1>1. /\ Q[s] \in Seq(RunIds) /\ q \in Seq(RunIds)
      /\ \A k \in DOMAIN q : k + 1 \in DOMAIN Q[s] /\ q[k] = Q[s][k + 1]
      /\ \A j, k \in DOMAIN q : j < k => j + 1 < k + 1
  BY DEF Core, CoreTypes
<1>2. Q1[s] = q /\ \A t \in SessionIds : t # s => Q1[t] = Q[t]
  BY DEF Core, CoreTypes
<1>3. CoreTypes(Q1, A, F, P, S)
  BY <1>1 DEF Core, CoreTypes
<1>4. Lined(Q1, P, S)
  BY <1>1, <1>2 DEF Core, Lined
<1>5. Ordered(Q1, F)
  BY <1>1, <1>2 DEF Core, Ordered
<1>6. QED BY <1>3, <1>4, <1>5 DEF Core

\* startNextIfIdleLocked keeps Core, whatever intermediate state it starts from.
LEMMA StartNextKeepsCore ==
  ASSUME NEW s \in SessionIds, NEW q, NEW a, NEW f, NEW m, NEW p, NEW S, NEW n,
         queue \in [SessionIds -> Seq(RunIds)],
         active \in [SessionIds -> RunIds \cup {NoRun}],
         feed \in [SessionIds -> Feeds],
         m \in [RunIds -> RunStates \cup {NotCreated}],
         Core([queue EXCEPT ![s] = q], [active EXCEPT ![s] = a],
              [feed EXCEPT ![s] = f], p, S, n),
         StartNextIfIdle(s, q, a, f, m, p)
  PROVE  /\ Core(queue', active', feed', pc', S, n)
         /\ machine' \in [RunIds -> RunStates \cup {NotCreated}]
         /\ pc' \in [RunIds -> Phases]
PROOF
<1> DEFINE Q == [queue EXCEPT ![s] = q]
           A == [active EXCEPT ![s] = a]
           F == [feed EXCEPT ![s] = f]
<1>1. Q[s] = q /\ A[s] = a /\ F[s] = f
  OBVIOUS
<1>2. CASE ~CanStartNext(a, q)
  <2>1. queue' = Q /\ active' = A /\ feed' = F /\ machine' = m /\ pc' = p
    BY <1>2 DEF StartNextIfIdle
  <2>2. QED BY <2>1 DEF Core, CoreTypes
<1>3. CASE CanStartNext(a, q) /\ CanTransition(m[Head(q)], "running")
  <2>1. PICK work \in {"building", "compacting"} :
             /\ queue' = [queue EXCEPT ![s] = Tail(q)]
             /\ active' = [active EXCEPT ![s] = Head(q)]
             /\ feed' = [feed EXCEPT ![s] = Emit(f, Head(q), "run_started")]
             /\ machine' = [m EXCEPT ![Head(q)] = "running"]
             /\ pc' = [p EXCEPT ![Head(q)] = work]
    BY <1>3 DEF StartNextIfIdle
  <2>2. work \in GoroutinePhases
    BY DEF GoroutinePhases
  <2>3. /\ queue' = [Q EXCEPT ![s] = Tail(@)]
        /\ active' = [A EXCEPT ![s] = Head(Q[s])]
        /\ feed' = [F EXCEPT ![s] = Emit(@, Head(Q[s]), "run_started")]
        /\ pc' = [p EXCEPT ![Head(Q[s])] = work]
    BY <1>1, <2>1
  <2>4. A[s] = NoRun /\ Q[s] # <<>>
    BY <1>1, <1>3 DEF CanStartNext
  <2>5. Core(queue', active', feed', pc', S, n)
    BY <2>2, <2>3, <2>4, StartKeepsCore
  <2>6. machine' \in [RunIds -> RunStates \cup {NotCreated}]
    BY <2>1 DEF RunStates
  <2>7. QED BY <2>5, <2>6 DEF Core, CoreTypes
<1>4. CASE CanStartNext(a, q) /\ ~CanTransition(m[Head(q)], "running")
  <2>1. /\ queue' = [queue EXCEPT ![s] = Tail(q)]
        /\ active' = [active EXCEPT ![s] = NoRun]
        /\ feed' = F /\ machine' = m /\ pc' = p
    BY <1>4 DEF StartNextIfIdle
  <2>2. queue' = [Q EXCEPT ![s] = Tail(@)] /\ active' = A /\ Q[s] # <<>>
    BY <1>1, <1>4, <2>1 DEF CanStartNext
  <2>3. Core(queue', active', feed', pc', S, n)
    BY <2>1, <2>2, DropKeepsCore
  <2>4. QED BY <2>1, <2>3 DEF Core, CoreTypes
<1>5. QED BY <1>2, <1>3, <1>4 DEF StartNextIfIdle

\* Submitting a run to session s puts it last: it is younger than every other run.
LEMMA ArriveKeepsCore ==
  ASSUME NEW Q, NEW A, NEW F, NEW P, NEW S, NEW n \in Nat, n + 1 \in RunIds,
         Core(Q, A, F, P, S, n), NEW s \in SessionIds
  PROVE  Core([Q EXCEPT ![s] = Append(@, n + 1)], A, F, P,
              [S EXCEPT ![n + 1] = s], n + 1)
PROOF
<1> DEFINE r == n + 1
           Q1 == [Q EXCEPT ![s] = Append(@, r)]
           S1 == [S EXCEPT ![r] = s]
<1>1. Q[s] \in Seq(RunIds) /\ Q1[s] = Append(Q[s], r)
  BY DEF Core, CoreTypes
<1>2. \A t \in SessionIds : t # s => Q1[t] = Q[t]
  BY DEF Core, CoreTypes
<1>3. S1[r] = s /\ \A x \in RunIds \ {r} : S1[x] = S[x]
  BY DEF Core, CoreTypes
<1>4. S[r] = NoSession /\ P[r] = "none"
  BY DEF Core, Belongs, Executed
<1>5. \A x \in RunIds : S[x] # NoSession => x < r /\ x # r
  BY DEF Core, Belongs, RunIds
<1>6. \A t \in SessionIds : t # NoSession
  BY DEF SessionIds, NoSession
<1>7. CoreTypes(Q1, A, F, P, S1)
  BY <1>1 DEF Core, CoreTypes
<1>8. \A t \in SessionIds : \A i \in DOMAIN F[t].items : F[t].items[i].run \in RunIds
  <2>1. SUFFICES ASSUME NEW t \in SessionIds, NEW i \in DOMAIN F[t].items
                 PROVE  F[t].items[i].run \in RunIds
    OBVIOUS
  <2>2. F[t].items \in Seq(Events)
    BY DEF Core, CoreTypes, Feeds
  <2>3. F[t].items[i] \in Events
    BY <2>2
  <2>4. QED BY <2>3 DEF Events
<1>9. \A t \in SessionIds : \A k \in DOMAIN Q[t] : Q[t][k] \in RunIds
  BY DEF Core, CoreTypes
<1>10. Belongs(A, F, S1, r)
  <2>1. \A x \in RunIds : S1[x] # NoSession <=> x <= r
    BY <1>3, <1>5, <1>6 DEF Core, Belongs, RunIds
  <2>2. \A t \in SessionIds : A[t] # NoRun => S1[A[t]] = t
    BY <1>3, <1>4, <1>6 DEF Core, CoreTypes, Belongs
  <2>3. \A t \in SessionIds : \A i \in DOMAIN F[t].items : S1[F[t].items[i].run] = t
    BY <1>3, <1>4, <1>6, <1>8 DEF Core, Belongs
  <2>4. QED BY <2>1, <2>2, <2>3 DEF Belongs
<1>11. Lined(Q1, P, S1)
  <2>1. SUFFICES ASSUME NEW t \in SessionIds
                 PROVE  /\ \A k \in DOMAIN Q1[t] : S1[Q1[t][k]] = t /\ P[Q1[t][k]] = "none"
                        /\ \A j, k \in DOMAIN Q1[t] : j < k => Q1[t][j] < Q1[t][k]
    BY DEF Lined
  <2>2. \A k \in DOMAIN Q[t] : Q[t][k] \in RunIds /\ S1[Q[t][k]] = t /\ P[Q[t][k]] = "none" /\ Q[t][k] < r
    BY <1>3, <1>4, <1>5, <1>6, <1>9 DEF Core, Lined
  <2>3. \A j, k \in DOMAIN Q[t] : j < k => Q[t][j] < Q[t][k]
    BY DEF Core, Lined
  <2>4. CASE t # s
    BY <1>2, <2>2, <2>3, <2>4
  <2>5. CASE t = s
    <3>1. \A k \in DOMAIN Q1[s] :
             \/ k \in DOMAIN Q[s] /\ Q1[s][k] = Q[s][k]
             \/ k = Len(Q[s]) + 1 /\ Q1[s][k] = r
      BY <1>1
    <3>2. \A j, k \in DOMAIN Q1[s] : j < k => j \in DOMAIN Q[s]
      BY <1>1
    <3>3. QED BY <1>3, <1>4, <2>2, <2>3, <2>5, <3>1, <3>2
  <2>6. QED BY <2>4, <2>5
<1>12. Executed(A, P, S1)
  <2>1. \A t \in SessionIds : A[t] # r
    BY <1>4, <1>6 DEF Core, CoreTypes, Belongs, RunIds, NoRun
  <2>2. P[r] \notin GoroutinePhases
    BY <1>4 DEF GoroutinePhases
  <2>3. QED BY <1>3, <1>6, <2>1, <2>2 DEF Core, Executed
<1>13. Ordered(Q1, F)
  <2>1. SUFFICES ASSUME NEW t \in SessionIds, NEW i \in DOMAIN F[t].items,
                        NEW k \in DOMAIN Q1[t], F[t].items[i].type = "run_started"
                 PROVE  F[t].items[i].run < Q1[t][k]
    BY DEF Core, Ordered
  <2>2. CASE k \in DOMAIN Q[t] /\ Q1[t][k] = Q[t][k]
    BY <2>1, <2>2 DEF Core, Ordered
  <2>3. CASE Q1[t][k] = r
    BY <2>1, <2>3, <1>5, <1>6, <1>8 DEF Core, Belongs
  <2>4. QED BY <1>1, <1>2, <2>2, <2>3
<1>14. QED BY <1>7, <1>10, <1>11, <1>12, <1>13 DEF Core

\* Removing a run from a queue keeps the order of the others.
LEMMA WithoutShrinks ==
  ASSUME NEW q \in Seq(RunIds), NEW r \in RunIds
  PROVE  /\ Without(q, r) \in Seq(RunIds)
         /\ \A k \in DOMAIN Without(q, r) : \E j \in DOMAIN q : Without(q, r)[k] = q[j]
         /\ (\A j, k \in DOMAIN q : j < k => q[j] < q[k]) =>
               \A j, k \in DOMAIN Without(q, r) : j < k => Without(q, r)[j] < Without(q, r)[k]
PROOF
<1>1. CASE ~\E k \in DOMAIN q : q[k] = r
  BY <1>1 DEF Without
<1>2. CASE \E k \in DOMAIN q : q[k] = r
  <2> DEFINE c == CHOOSE k \in DOMAIN q : q[k] = r
             w == [i \in 1..(Len(q) - 1) |-> IF i < c THEN q[i] ELSE q[i + 1]]
  <2>1. c \in DOMAIN q
    BY <1>2
  <2>2. Without(q, r) = w
    BY <1>2 DEF Without
  <2>3. Len(q) \in Nat /\ DOMAIN q = 1..Len(q) /\ Len(q) - 1 \in Nat
    BY <2>1
  <2>4. \A i \in 1..(Len(q) - 1) : i \in DOMAIN q /\ i + 1 \in DOMAIN q
    BY <2>3
  <2>5. w \in Seq(RunIds) /\ DOMAIN w = 1..(Len(q) - 1)
    BY <2>3, <2>4
  <2>6. \A j, k \in DOMAIN w : j < k =>
           \E x, y \in DOMAIN q : x < y /\ w[j] = q[x] /\ w[k] = q[y]
    <3>1. SUFFICES ASSUME NEW j \in DOMAIN w, NEW k \in DOMAIN w, j < k
                   PROVE  \E x, y \in DOMAIN q : x < y /\ w[j] = q[x] /\ w[k] = q[y]
      OBVIOUS
    <3> DEFINE x == IF j < c THEN j ELSE j + 1
               y == IF k < c THEN k ELSE k + 1
    <3>2. x \in DOMAIN q /\ y \in DOMAIN q /\ x < y
      BY <2>1, <2>3, <2>5, <3>1
    <3>3. w[j] = q[x] /\ w[k] = q[y]
      BY <2>5, <3>1
    <3>4. QED BY <3>2, <3>3
  <2>7. \A k \in DOMAIN w : \E j \in DOMAIN q : w[k] = q[j]
    BY <2>4, <2>5
  <2> HIDE DEF w
  <2>8. (\A j, k \in DOMAIN q : j < k => q[j] < q[k]) =>
           \A j, k \in DOMAIN w : j < k => w[j] < w[k]
    BY <2>6
  <2>9. QED BY <2>2, <2>5, <2>7, <2>8
<1>3. QED BY <1>1, <1>2

\* Control takes a run off its queue.
LEMMA RemoveKeepsCore ==
  ASSUME NEW Q, NEW A, NEW F, NEW P, NEW S, NEW n, Core(Q, A, F, P, S, n),
         NEW s \in SessionIds, NEW r \in RunIds
  PROVE  Core([Q EXCEPT ![s] = Without(@, r)], A, F, P, S, n)
PROOF
<1> DEFINE w == Without(Q[s], r)
           Q1 == [Q EXCEPT ![s] = Without(@, r)]
<1>1. Q[s] \in Seq(RunIds) /\ Q1[s] = w
  BY DEF Core, CoreTypes
<1>2. \A t \in SessionIds : t # s => Q1[t] = Q[t]
  BY DEF Core, CoreTypes
<1>3. /\ w \in Seq(RunIds)
      /\ \A k \in DOMAIN w : \E j \in DOMAIN Q[s] : w[k] = Q[s][j]
      /\ \A j, k \in DOMAIN w : j < k => w[j] < w[k]
  BY <1>1, WithoutShrinks DEF Core, Lined
<1>4. CoreTypes(Q1, A, F, P, S)
  BY <1>1, <1>3 DEF Core, CoreTypes
<1>5. Lined(Q1, P, S)
  BY <1>1, <1>2, <1>3 DEF Core, Lined
<1>6. Ordered(Q1, F)
  BY <1>1, <1>2, <1>3 DEF Core, Ordered
<1>7. QED BY <1>4, <1>5, <1>6 DEF Core

\* A goroutine moves from one phase to another.
LEMMA MoveKeepsCore ==
  ASSUME NEW Q, NEW A, NEW F, NEW P, NEW S, NEW n, Core(Q, A, F, P, S, n),
         NEW r \in RunIds, P[r] \in GoroutinePhases, NEW phase \in GoroutinePhases
  PROVE  Core(Q, A, F, [P EXCEPT ![r] = phase], S, n)
PROOF
<1> DEFINE P1 == [P EXCEPT ![r] = phase]
<1>1. P1[r] = phase /\ \A x \in RunIds \ {r} : P1[x] = P[x]
  BY DEF Core, CoreTypes
<1>2. CoreTypes(Q, A, F, P1, S)
  BY DEF Core, CoreTypes, Phases
<1>3. P[r] # "none" /\ S[r] # NoSession
  BY DEF GoroutinePhases, Core, Executed
<1>4. Lined(Q, P1, S)
  <2>1. \A s \in SessionIds : \A k \in DOMAIN Q[s] : Q[s][k] \in RunIds /\ Q[s][k] # r
    BY <1>3 DEF Core, CoreTypes, Lined
  <2>2. QED BY <1>1, <2>1 DEF Core, Lined
<1>5. Executed(A, P1, S)
  BY <1>1, <1>3 DEF Core, Executed
<1>6. QED BY <1>2, <1>4, <1>5 DEF Core

\* A goroutine exits and leaves its session idle.
LEMMA ExitKeepsCore ==
  ASSUME NEW Q, NEW A, NEW F, NEW P, NEW S, NEW n, Core(Q, A, F, P, S, n),
         NEW r \in RunIds, P[r] \in GoroutinePhases
  PROVE  Core(Q, [A EXCEPT ![S[r]] = NoRun], F, [P EXCEPT ![r] = "done"], S, n)
PROOF
<1> DEFINE P1 == [P EXCEPT ![r] = "done"]
           A1 == [A EXCEPT ![S[r]] = NoRun]
<1>1. P1[r] = "done" /\ \A x \in RunIds \ {r} : P1[x] = P[x]
  BY DEF Core, CoreTypes
<1>2. P[r] # "none" /\ S[r] \in SessionIds /\ A[S[r]] = r
  BY DEF GoroutinePhases, Core, CoreTypes, Executed
<1>3. A1[S[r]] = NoRun /\ \A s \in SessionIds : s # S[r] => A1[s] = A[s]
  BY <1>2 DEF Core, CoreTypes
<1>4. CoreTypes(Q, A1, F, P1, S)
  BY DEF Core, CoreTypes, Phases
<1>5. Lined(Q, P1, S)
  <2>1. \A s \in SessionIds : \A k \in DOMAIN Q[s] : Q[s][k] \in RunIds /\ Q[s][k] # r
    BY <1>2 DEF Core, CoreTypes, Lined
  <2>2. QED BY <1>1, <2>1 DEF Core, Lined
<1>6. Executed(A1, P1, S)
  <2>1. SUFFICES ASSUME NEW x \in RunIds
                 PROVE  /\ P1[x] \in GoroutinePhases <=> S[x] # NoSession /\ A1[S[x]] = x
                        /\ S[x] = NoSession => P1[x] = "none"
    BY DEF Executed
  <2>2. x # NoRun /\ S[x] \in SessionIds \cup {NoSession}
    BY DEF RunIds, NoRun, Core, CoreTypes
  <2>3. CASE x = r
    BY <2>3, <2>2, <1>1, <1>2, <1>3 DEF GoroutinePhases, SessionIds, NoSession
  <2>4. CASE x # r /\ S[x] = S[r]
    BY <2>4, <2>2, <1>1, <1>2, <1>3 DEF Core, Executed
  <2>5. CASE x # r /\ S[x] # S[r]
    BY <2>5, <2>2, <1>1, <1>2, <1>3 DEF Core, Executed
  <2>6. QED BY <2>3, <2>4, <2>5
<1>7. Belongs(A1, F, S, n)
  BY <1>2, <1>3 DEF Core, Belongs
<1>8. QED BY <1>4, <1>5, <1>6, <1>7 DEF Core
-------------------------------------------------------------------------------
(* Every step of the engine keeps the invariant.                              *)

\* A new engine has no sessions, runs or goroutines.
LEMMA InitEstablishesIInv == Init => IInv
PROOF
<1> SUFFICES ASSUME Init PROVE IInv
  OBVIOUS
<1>1. TypeOK
  BY BoundsAssumption DEF Init, TypeOK, Feeds, Phases, RunIds, SessionIds, NotBlocked
<1>2. \A s \in SessionIds : FeedOK(feed[s])
  BY DEF Init, FeedOK, Feeds
<1>3. CoreTypes(queue, active, feed, pc, sessionOf)
  BY <1>1, <1>2 DEF CoreTypes, TypeOK
<1>4. Belongs(active, feed, sessionOf, nextRunID)
  BY DEF Init, Belongs, RunIds
<1>5. Lined(queue, pc, sessionOf) /\ Ordered(queue, feed)
  BY DEF Init, Lined, Ordered
<1>6. Executed(active, pc, sessionOf)
  BY DEF Init, Executed, GoroutinePhases
<1>7. BlockedOnRun
  BY DEF Init, BlockedOnRun, LockFree
<1>8. QED BY <1>1, <1>3, <1>4, <1>5, <1>6, <1>7 DEF IInv, Core

\* Submit queues the new run last and may start the head in the same critical section.
LEMMA SubmitKeepsIInv ==
  ASSUME IInv, NEW s \in Sessions, Submit(s)
  PROVE  IInv'
PROOF
<1> DEFINE r == nextRunID + 1
           q == Append(queue[s], r)
           f == Emit(feed[s], r, "run_queued")
           m == [machine EXCEPT ![r] = "queued"]
           S == [sessionOf EXCEPT ![r] = s]
<1>1. s \in SessionIds /\ r \in RunIds /\ nextRunID \in Nat /\ nextRunID' = r
  BY BoundsAssumption DEF IInv, TypeOK, Submit, Sessions, SessionIds, RunIds
<1>2. StartNextIfIdle(s, q, active[s], f, m, pc) /\ sessionOf' = S
  BY DEF Submit, Enqueue
<1>3. Core([queue EXCEPT ![s] = Append(@, r)], active, feed, pc, S, r)
  BY <1>1, ArriveKeepsCore DEF IInv
<1>4. S[r] = s
  BY <1>1 DEF IInv, TypeOK
<1>5. Core([queue EXCEPT ![s] = Append(@, r)], active,
           [feed EXCEPT ![s] = Emit(@, r, "run_queued")], pc, S, r)
  BY <1>1, <1>3, <1>4, EmitKeepsCore DEF EventTypes
<1>6. /\ [queue EXCEPT ![s] = Append(@, r)] = [queue EXCEPT ![s] = q]
      /\ [feed EXCEPT ![s] = Emit(@, r, "run_queued")] = [feed EXCEPT ![s] = f]
      /\ active = [active EXCEPT ![s] = active[s]]
  BY <1>1 DEF IInv, TypeOK
<1>7. m \in [RunIds -> RunStates \cup {NotCreated}]
  BY DEF IInv, TypeOK, RunStates
<1>8. /\ queue \in [SessionIds -> Seq(RunIds)]
      /\ active \in [SessionIds -> RunIds \cup {NoRun}]
      /\ feed \in [SessionIds -> Feeds]
  BY DEF IInv, TypeOK
<1>9. /\ Core(queue', active', feed', pc', S, r)
      /\ machine' \in [RunIds -> RunStates \cup {NotCreated}]
  <2>1. Core([queue EXCEPT ![s] = q], [active EXCEPT ![s] = active[s]],
             [feed EXCEPT ![s] = f], pc, S, r)
    BY <1>5, <1>6
  <2> HIDE DEF q, f, m, S, r
  <2>2. QED BY <1>1, <1>2, <1>7, <1>8, <2>1, StartNextKeepsCore
<1>10. TypeOK'
  BY <1>1, <1>2, <1>9 DEF IInv, TypeOK, Submit, Core, CoreTypes, RunIds
<1>11. BlockedOnRun'
  BY <1>1 DEF IInv, BlockedOnRun, LockFree, Submit
<1>12. QED BY <1>1, <1>2, <1>9, <1>10, <1>11 DEF IInv

\* What Control does once its signal is sent, to a run in any place.
LEMMA ControlEffectKeepsIInv ==
  ASSUME IInv, NEW r \in Runs, NEW action \in ControlKinds,
         NEW sig \in [RunIds -> Seq(ControlKinds)],
         ControlEffect(r, action, sig),
         UNCHANGED <<nextSessionID, nextRunID, sessionOf, active, pc, steps>>,
         controls' \in 0..MaxControls,
         blocked' \in [run : RunIds, action : ControlKinds] \cup {NotBlocked},
         BlockedOnRun'
  PROVE  IInv'
PROOF
<1> DEFINE s == sessionOf[r]
<1>1. r \in RunIds /\ r <= nextRunID
  BY BoundsAssumption DEF IInv, TypeOK, Runs, RunIds
<1>2. s \in SessionIds
  BY <1>1 DEF IInv, TypeOK, Core, Belongs
<1>3. CASE /\ UNCHANGED <<queue, feed>>
           /\ machine' \in [RunIds -> RunStates \cup {NotCreated}]
           /\ signals' \in [RunIds -> Seq(ControlKinds)]
           /\ registered' \in SUBSET RunIds /\ cancelled' \in SUBSET RunIds
  <2>1. TypeOK'
    BY <1>3 DEF IInv, TypeOK
  <2>2. QED BY <1>3, <2>1 DEF IInv
<1>4. CASE /\ queue' = [queue EXCEPT ![s] = Without(@, r)]
           /\ machine' = [machine EXCEPT ![r] = "cancelled"]
           /\ feed' = [feed EXCEPT ![s] = Emit(@, r, "run_cancelled")]
           /\ registered' = registered \ {r}
           /\ signals' = [sig EXCEPT ![r] = <<>>]
           /\ UNCHANGED cancelled
  <2>1. Core(queue', active, feed, pc, sessionOf, nextRunID)
    BY <1>1, <1>2, <1>4, RemoveKeepsCore DEF IInv
  <2>2. Core(queue', active, feed', pc, sessionOf, nextRunID)
    BY <1>1, <1>2, <1>4, <2>1, EmitKeepsCore DEF EventTypes
  <2>3. queue' \in [SessionIds -> Seq(RunIds)] /\ feed' \in [SessionIds -> Feeds]
    BY <2>2 DEF Core, CoreTypes
  <2>4. machine' \in [RunIds -> RunStates \cup {NotCreated}]
    BY <1>4 DEF IInv, TypeOK, RunStates
  <2>5. signals' \in [RunIds -> Seq(ControlKinds)]
    <3>1. <<>> \in Seq(ControlKinds)
      OBVIOUS
    <3>2. QED BY <1>4, <3>1
  <2>6. TypeOK'
    BY <1>4, <2>3, <2>4, <2>5 DEF IInv, TypeOK
  <2>7. QED BY <2>2, <2>6 DEF IInv
<1>5. CASE /\ machine' = [machine EXCEPT ![r] = ApplyControl(@, action)]
           /\ signals' = sig
           /\ UNCHANGED <<queue, feed, registered, cancelled>>
  <2>1. machine' \in [RunIds -> RunStates \cup {NotCreated}]
    BY <1>5 DEF IInv, TypeOK, ApplyControl, RunStates
  <2>2. QED BY <1>3, <1>5, <2>1 DEF IInv, TypeOK
<1>6. CASE /\ cancelled' \in {cancelled, cancelled \cup {r}}
           /\ signals' = sig
           /\ UNCHANGED <<queue, feed, machine, registered>>
  BY <1>1, <1>3, <1>6 DEF IInv, TypeOK
<1>7. QED BY <1>4, <1>5, <1>6 DEF ControlEffect

\* A call of Control that returns, or that starts to wait for room.
LEMMA ControlKeepsIInv ==
  ASSUME IInv, NEW r \in Runs, NEW action \in ControlKinds, ControlCall(r, action)
  PROVE  IInv'
PROOF
<1>1. r \in RunIds
  BY BoundsAssumption DEF IInv, TypeOK, Runs, RunIds
<1>2. CASE Control(r, action)
  <2>1. Sent(r, action) \in [RunIds -> Seq(ControlKinds)]
    BY <1>1 DEF Sent, IInv, TypeOK
  <2>2. controls' \in 0..MaxControls /\ blocked' = blocked
    BY <1>2, BoundsAssumption DEF Control, IInv, TypeOK
  <2>3. QED BY <1>2, <2>1, <2>2, ControlEffectKeepsIInv
          DEF Control, IInv, TypeOK, BlockedOnRun, LockFree, Runs
<1>3. CASE ControlBlocks(r, action)
  <2>1. TypeOK'
    BY <1>1, <1>3, BoundsAssumption DEF ControlBlocks, IInv, TypeOK
  <2>2. BlockedOnRun'
    BY <1>3 DEF ControlBlocks, BlockedOnRun, Runs
  <2>3. QED BY <1>3, <2>1, <2>2 DEF ControlBlocks, IInv
<1>4. QED BY <1>2, <1>3 DEF ControlCall

\* A call of Control that got room goes on as the others do.
LEMMA ControlUnblocksKeepsIInv ==
  ASSUME IInv, ControlUnblocks
  PROVE  IInv'
PROOF
<1>1. blocked.run \in Runs /\ blocked.action \in ControlKinds
  BY DEF ControlUnblocks, LockFree, IInv, TypeOK, BlockedOnRun
<1>2. blocked.run \in RunIds
  BY <1>1, BoundsAssumption DEF IInv, TypeOK, Runs, RunIds
<1>3. Sent(blocked.run, blocked.action) \in [RunIds -> Seq(ControlKinds)]
  BY <1>1, <1>2 DEF Sent, IInv, TypeOK
<1>4. controls' \in 0..MaxControls /\ blocked' = NotBlocked /\ BlockedOnRun'
  BY DEF ControlUnblocks, IInv, TypeOK, BlockedOnRun, LockFree
<1>5. QED BY <1>1, <1>3, <1>4, ControlEffectKeepsIInv DEF ControlUnblocks

\* The last critical section of a run frees its session and starts the next one.
LEMMA EndRunKeepsIInv ==
  ASSUME IInv, NEW r \in Runs, Live(r), NEW state \in RunStates,
         NEW f, Core(queue, active, [feed EXCEPT ![sessionOf[r]] = f], pc, sessionOf, nextRunID),
         EndRun(r, state, f)
  PROVE  IInv'
PROOF
<1> DEFINE s == sessionOf[r]
           m == [machine EXCEPT ![r] = Transition(@, state)]
           F == [feed EXCEPT ![s] = f]
<1>1. r \in RunIds
  BY BoundsAssumption DEF IInv, TypeOK, Runs, RunIds
<1>2. s \in SessionIds /\ active[s] = r
  BY <1>1 DEF IInv, TypeOK, Core, Executed, Live
<1>3. StartNextIfIdle(s, queue[s], NoRun, f, m, [pc EXCEPT ![r] = "done"])
  BY <1>2 DEF EndRun, Exited
<1>4. Core(queue, [active EXCEPT ![s] = NoRun], F, [pc EXCEPT ![r] = "done"], sessionOf, nextRunID)
  BY <1>1, ExitKeepsCore DEF Live
<1>5. queue = [queue EXCEPT ![s] = queue[s]]
  BY DEF IInv, TypeOK
<1>6. m \in [RunIds -> RunStates \cup {NotCreated}]
  BY DEF IInv, TypeOK, Transition
<1>7. /\ queue \in [SessionIds -> Seq(RunIds)]
      /\ active \in [SessionIds -> RunIds \cup {NoRun}]
      /\ feed \in [SessionIds -> Feeds]
  BY DEF IInv, TypeOK
<1>8. /\ Core(queue', active', feed', pc', sessionOf, nextRunID)
      /\ machine' \in [RunIds -> RunStates \cup {NotCreated}]
  <2>1. Core([queue EXCEPT ![s] = queue[s]], [active EXCEPT ![s] = NoRun],
             [feed EXCEPT ![s] = f], [pc EXCEPT ![r] = "done"], sessionOf, nextRunID)
    BY <1>4, <1>5
  <2> HIDE DEF m, s
  <2>2. QED BY <1>2, <1>3, <1>6, <1>7, <2>1, StartNextKeepsCore
<1>9. /\ signals' \in [RunIds -> Seq(ControlKinds)]
      /\ registered' \in SUBSET RunIds
      /\ UNCHANGED <<nextSessionID, nextRunID, sessionOf, cancelled, steps, controls, blocked>>
  <2>1. <<>> \in Seq(ControlKinds)
    OBVIOUS
  <2>2. /\ signals' = [signals EXCEPT ![r] = <<>>]
        /\ registered' = registered \ {r}
        /\ UNCHANGED <<nextSessionID, nextRunID, sessionOf, cancelled, steps, controls, blocked>>
    BY DEF EndRun
  <2>3. signals \in [RunIds -> Seq(ControlKinds)] /\ registered \in SUBSET RunIds
    BY DEF IInv, TypeOK
  <2>4. QED BY <2>1, <2>2, <2>3
<1>10. TypeOK'
  BY <1>8, <1>9 DEF IInv, TypeOK, Core, CoreTypes
<1>11. BlockedOnRun'
  BY <1>9 DEF IInv, BlockedOnRun, LockFree, Runs
<1>12. QED BY <1>8, <1>9, <1>10, <1>11 DEF IInv

\* The steps of a goroutine that neither emit nor end its run.
LEMMA QuietStepKeepsIInv ==
  ASSUME IInv, NEW r \in Runs,
         BuildContext(r) \/ Return(r) \/ BeginWait(r) \/ TakeApproval(r)
           \/ TakeAnswer(r) \/ WaitCancelled(r)
  PROVE  IInv'
PROOF
<1>1. r \in RunIds
  BY BoundsAssumption DEF IInv, TypeOK, Runs, RunIds
<1>2. /\ Live(r)
      /\ \E phase \in GoroutinePhases : pc' = [pc EXCEPT ![r] = phase]
  <2>1. pc = [pc EXCEPT ![r] = pc[r]]
    BY DEF IInv, TypeOK
  <2>2. CASE BuildContext(r) \/ Return(r) \/ WaitCancelled(r)
    BY <2>2 DEF BuildContext, Return, WaitCancelled, GoTo, Live, GoroutinePhases
  <2>3. CASE BeginWait(r)
    <3>1. PICK wait \in {<<"waiting_approval", "announce_approval">>,
                        <<"waiting_user_input", "announce_question">>} :
             GoTo(r, wait[2])
      BY <2>3 DEF BeginWait
    <3>2. wait[2] \in {"announce_approval", "announce_question"}
      BY <3>1
    <3>3. pc[r] = "executing"
      BY <2>3 DEF BeginWait
    <3>4. QED BY <3>1, <3>2, <3>3 DEF GoTo, Live, GoroutinePhases
  <2>4. CASE TakeApproval(r)
    <3>1. pc[r] = "await_approval"
      BY <2>4 DEF TakeApproval
    <3>2. \E phase \in {"await_approval", "approval_stopped", "approval_resolved"} :
             pc' = [pc EXCEPT ![r] = phase]
      BY <2>1, <2>4, <3>1 DEF TakeApproval, GoTo
    <3>3. QED BY <3>1, <3>2 DEF Live, GoroutinePhases
  <2>5. CASE TakeAnswer(r)
    <3>1. pc[r] = "await_answer"
      BY <2>5 DEF TakeAnswer
    <3>2. \E phase \in {"await_answer", "returned_err", "answered"} :
             pc' = [pc EXCEPT ![r] = phase]
      BY <2>1, <2>5, <3>1 DEF TakeAnswer, GoTo
    <3>3. QED BY <3>1, <3>2 DEF Live, GoroutinePhases
  <2>6. QED BY <2>2, <2>3, <2>4, <2>5
<1>3. Core(queue, active, feed, pc', sessionOf, nextRunID)
  <2>1. PICK phase \in GoroutinePhases : pc' = [pc EXCEPT ![r] = phase]
    BY <1>2
  <2>2. Core(queue, active, feed, [pc EXCEPT ![r] = phase], sessionOf, nextRunID)
    BY <1>1, <1>2, MoveKeepsCore DEF IInv, Live
  <2>3. QED BY <2>1, <2>2
<1>4. UNCHANGED <<nextSessionID, nextRunID, sessionOf, queue, active, feed,
                  registered, cancelled, controls, blocked>>
  BY DEF BuildContext, Return, BeginWait, TakeApproval, TakeAnswer, WaitCancelled
<1>5. pc' \in [RunIds -> Phases]
  BY <1>3 DEF Core, CoreTypes
<1>6. /\ machine' \in [RunIds -> RunStates \cup {NotCreated}]
      /\ steps' \in [RunIds -> 0..MaxSteps]
  <2>1. CASE BeginWait(r)
    BY <1>1, <2>1, BoundsAssumption DEF BeginWait, IInv, TypeOK, Transition, RunStates
  <2>2. CASE ~BeginWait(r)
    BY <2>2 DEF BuildContext, Return, TakeApproval, TakeAnswer, WaitCancelled, IInv, TypeOK
  <2>3. QED BY <2>1, <2>2
<1>7. signals' \in [RunIds -> Seq(ControlKinds)]
  <2>1. CASE TakeApproval(r) \/ TakeAnswer(r)
    <3>1. signals' = [signals EXCEPT ![r] = Tail(@)] /\ signals[r] # <<>>
      BY <2>1 DEF TakeApproval, TakeAnswer
    <3>2. signals \in [RunIds -> Seq(ControlKinds)]
      BY DEF IInv, TypeOK
    <3>3. Tail(signals[r]) \in Seq(ControlKinds)
      BY <1>1, <3>1, <3>2
    <3>4. QED BY <3>1, <3>2, <3>3
  <2>2. CASE ~(TakeApproval(r) \/ TakeAnswer(r))
    BY <2>2 DEF BuildContext, Return, BeginWait, WaitCancelled, IInv, TypeOK
  <2>3. QED BY <2>1, <2>2
<1>8. TypeOK'
  BY <1>4, <1>5, <1>6, <1>7 DEF IInv, TypeOK
<1>9. BlockedOnRun'
  BY <1>4 DEF IInv, BlockedOnRun, LockFree, Runs
<1>10. QED BY <1>3, <1>4, <1>8, <1>9 DEF IInv

\* The steps of a goroutine that emit one event and go on.
LEMMA EmittingStepKeepsIInv ==
  ASSUME IInv, NEW r \in Runs, EmitDelta(r) \/ Announce(r)
  PROVE  IInv'
PROOF
<1>1. r \in RunIds /\ r <= nextRunID
  BY BoundsAssumption DEF IInv, TypeOK, Runs, RunIds
<1>2. sessionOf[r] \in SessionIds
  BY <1>1 DEF IInv, TypeOK, Core, Belongs
<1>3. /\ Live(r)
      /\ \E phase \in GoroutinePhases : pc' = [pc EXCEPT ![r] = phase]
      /\ \E type \in EventTypes \ {"run_started"} : Emits(r, type)
  <2>1. pc = [pc EXCEPT ![r] = pc[r]]
    BY DEF IInv, TypeOK
  <2>2. {"run_output_delta", "run_approval_needed"} \subseteq EventTypes \ {"run_started"}
    BY DEF EventTypes
  <2>3. CASE EmitDelta(r)
    <3>1. pc[r] = "executing" /\ pc' = pc /\ Emits(r, "run_output_delta")
      BY <2>3 DEF EmitDelta
    <3>2. QED BY <2>1, <2>2, <3>1 DEF Live, GoroutinePhases
  <2>4. CASE Announce(r)
    <3>1. PICK a \in {<<"announce_approval", "run_approval_needed", "await_approval">>,
                     <<"announce_question", "run_output_delta", "await_answer">>,
                     <<"approval_resolved", "run_output_delta", "executing">>,
                     <<"approval_stopped", "run_output_delta", "returned_err">>,
                     <<"answered", "run_output_delta", "executing">>} :
             pc[r] = a[1] /\ Emits(r, a[2]) /\ GoTo(r, a[3])
      BY <2>4 DEF Announce
    <3>2. /\ a[1] \in {"announce_approval", "announce_question", "approval_resolved",
                       "approval_stopped", "answered"}
          /\ a[2] \in {"run_output_delta", "run_approval_needed"}
          /\ a[3] \in {"await_approval", "await_answer", "executing", "returned_err"}
      BY <3>1
    <3>3. a[1] \in GoroutinePhases /\ a[3] \in GoroutinePhases
      BY <3>2 DEF GoroutinePhases
    <3>4. QED BY <2>2, <3>1, <3>2, <3>3 DEF GoTo, Live
  <2>5. QED BY <2>3, <2>4
<1>4. Core(queue, active, feed', pc, sessionOf, nextRunID)
  <2>1. PICK type \in EventTypes \ {"run_started"} : Emits(r, type)
    BY <1>3
  <2>2. feed' = [feed EXCEPT ![sessionOf[r]] = Emit(@, r, type)]
    BY <2>1 DEF Emits
  <2>3. Core(queue, active, [feed EXCEPT ![sessionOf[r]] = Emit(@, r, type)], pc,
             sessionOf, nextRunID)
    BY <1>1, <1>2, EmitKeepsCore DEF IInv
  <2>4. QED BY <2>2, <2>3
<1>5. Core(queue, active, feed', pc', sessionOf, nextRunID)
  <2>1. PICK phase \in GoroutinePhases : pc' = [pc EXCEPT ![r] = phase]
    BY <1>3
  <2>2. Core(queue, active, feed', [pc EXCEPT ![r] = phase], sessionOf, nextRunID)
    BY <1>1, <1>3, <1>4, MoveKeepsCore DEF Live
  <2>3. QED BY <2>1, <2>2
<1>6. UNCHANGED <<nextSessionID, nextRunID, sessionOf, queue, active, machine, signals,
                  registered, cancelled, controls, blocked>>
  BY DEF EmitDelta, Announce
<1>7. steps' \in [RunIds -> 0..MaxSteps]
  <2>1. CASE EmitDelta(r)
    BY <1>1, <2>1, BoundsAssumption DEF EmitDelta, IInv, TypeOK
  <2>2. CASE Announce(r)
    BY <2>2 DEF Announce, IInv, TypeOK
  <2>3. QED BY <2>1, <2>2
<1>8. TypeOK'
  BY <1>5, <1>6, <1>7 DEF IInv, TypeOK, Core, CoreTypes
<1>9. BlockedOnRun'
  BY <1>6 DEF IInv, BlockedOnRun, LockFree, Runs
<1>10. QED BY <1>5, <1>6, <1>8, <1>9 DEF IInv

\* The steps that end a run.
LEMMA EndingStepKeepsIInv ==
  ASSUME IInv, NEW r \in Runs, EndUnbuilt(r) \/ EndExecuted(r)
  PROVE  IInv'
PROOF
<1> DEFINE f == feed[sessionOf[r]]
           After(g) == Core(queue, active, [feed EXCEPT ![sessionOf[r]] = g], pc,
                            sessionOf, nextRunID)
<1>1. r \in RunIds /\ r <= nextRunID
  BY BoundsAssumption DEF IInv, TypeOK, Runs, RunIds
<1>2. sessionOf[r] \in SessionIds
  BY <1>1 DEF IInv, TypeOK, Core, Belongs
<1>3. Live(r)
  BY DEF EndUnbuilt, EndExecuted, Live, GoroutinePhases
<1>4. \A type \in EventTypes \ {"run_started"} : After(Emit(f, r, type))
  BY <1>1, <1>2, EmitKeepsCore DEF IInv
<1>5. \A type \in EventTypes \ {"run_started"}, last \in EventTypes \ {"run_started"} :
         After(Emit(Emit(f, r, type), r, last))
  <2>1. SUFFICES ASSUME NEW type \in EventTypes \ {"run_started"},
                        NEW last \in EventTypes \ {"run_started"}
                 PROVE  After(Emit(Emit(f, r, type), r, last))
    OBVIOUS
  <2> DEFINE g == Emit(f, r, type)
             G == [feed EXCEPT ![sessionOf[r]] = g]
  <2>2. Core(queue, active, [G EXCEPT ![sessionOf[r]] = Emit(@, r, last)], pc, sessionOf, nextRunID)
    BY <1>1, <1>2, <1>4, EmitKeepsCore
  <2>3. [G EXCEPT ![sessionOf[r]] = Emit(@, r, last)] = [feed EXCEPT ![sessionOf[r]] = Emit(g, r, last)]
    BY <1>2 DEF IInv, TypeOK
  <2>4. QED BY <2>2, <2>3
<1>6. After(f)
  <2>1. feed = [feed EXCEPT ![sessionOf[r]] = f]
    BY DEF IInv, TypeOK
  <2>2. QED BY <2>1 DEF IInv
<1>7. \E state \in RunStates : \E g : After(g) /\ EndRun(r, state, g)
  <2>1. {"run_cancelled", "run_failed", "run_completed", "run_output_delta"}
           \subseteq EventTypes \ {"run_started"}
    BY DEF EventTypes
  <2>2. CASE EndUnbuilt(r)
    BY <1>4, <2>1, <2>2 DEF EndUnbuilt, RunStates
  <2>3. CASE EndExecuted(r)
    BY <1>4, <1>5, <2>1, <2>3 DEF EndExecuted, RunStates
  <2>4. QED BY <2>2, <2>3
<1>8. QED BY <1>3, <1>7, EndRunKeepsIInv
-------------------------------------------------------------------------------
\* Every step of the engine keeps the inductive invariant.
LEMMA NextKeepsIInv == IInv /\ [Next]_vars => IInv'
PROOF
<1> SUFFICES ASSUME IInv, [Next]_vars PROVE IInv'
  OBVIOUS
<1>1. CASE StartSession
  <2>1. TypeOK'
    BY <1>1, BoundsAssumption DEF StartSession, IInv, TypeOK
  <2>2. BlockedOnRun'
    BY <1>1 DEF StartSession, IInv, BlockedOnRun, LockFree, Runs
  <2>3. QED BY <1>1, <2>1, <2>2 DEF StartSession, IInv
<1>2. CASE \E s \in Sessions : Submit(s)
  BY <1>2, SubmitKeepsIInv
<1>3. CASE \E r \in Runs, action \in ControlKinds : ControlCall(r, action)
  BY <1>3, ControlKeepsIInv
<1>4. CASE ControlUnblocks
  BY <1>4, ControlUnblocksKeepsIInv
<1>5. CASE \E r \in Runs : Goroutine(r)
  <2>1. PICK r \in Runs : Goroutine(r)
    BY <1>5
  <2>2. CASE BuildContext(r) \/ Return(r) \/ BeginWait(r) \/ TakeApproval(r)
               \/ TakeAnswer(r) \/ WaitCancelled(r)
    BY <2>2, QuietStepKeepsIInv
  <2>3. CASE EmitDelta(r) \/ Announce(r)
    BY <2>3, EmittingStepKeepsIInv
  <2>4. CASE EndUnbuilt(r) \/ EndExecuted(r)
    BY <2>4, EndingStepKeepsIInv
  <2>5. QED BY <2>1, <2>2, <2>3, <2>4 DEF Goroutine
<1>6. CASE UNCHANGED vars
  BY <1>6 DEF vars, IInv, TypeOK, BlockedOnRun, LockFree, Runs, Core, CoreTypes,
              Belongs, Lined, Executed, Ordered
<1>7. QED BY <1>1, <1>2, <1>3, <1>4, <1>5, <1>6 DEF Next, System

\* The inductive invariant holds in every reachable state, for any clients.
THEOREM InductiveInvariant == Spec => []IInv
PROOF
<1>1. QED BY InitEstablishesIInv, NextKeepsIInv, PTL DEF Spec

\* Type correctness of the engine's state.
THEOREM TypeCorrect == Spec => []TypeOK
PROOF
<1>1. IInv => TypeOK
  BY DEF IInv
<1>2. QED BY <1>1, InductiveInvariant, PTL

\* Mutual exclusion and no orphaned session: in every session exactly the active run
\* has a goroutine at work, whatever clients do.
THEOREM ExecutorExclusive == Spec => []OneExecutorPerSession
PROOF
<1>1. IInv => OneExecutorPerSession
  BY DEF IInv, Core, Executed, OneExecutorPerSession, Live
<1>2. QED BY <1>1, InductiveInvariant, PTL

\* FIFO: runs of a session start in the order of their submission, even when clients
\* stop, deny, approve or resume queued runs.
THEOREM FifoStarts == Spec => []StartsInSubmissionOrder
PROOF
<1>1. IInv => StartsInSubmissionOrder
  BY DEF IInv, Core, Ordered, StartsInSubmissionOrder, Items
<1>2. QED BY <1>1, InductiveInvariant, PTL

\* Sequence numbers of a session's stored events are its positions: gapless,
\* unique and increasing, although many goroutines emit.
THEOREM GaplessSequences == Spec => []SequencesGapless
PROOF
<1>1. IInv => SequencesGapless
  BY DEF IInv, Core, CoreTypes, FeedOK, SequencesGapless, Items
<1>2. QED BY <1>1, InductiveInvariant, PTL
-------------------------------------------------------------------------------
(* What the engine's clients are told and may rely on: the events of a run    *)
(* follow its lifecycle whatever the clients do; and for clients that follow  *)
(* the prompts no run is lost, no approval outlives its request, and the      *)
(* engine implements the FIFO run server.                                     *)

\* An event of run r of one of the types is among the items.
Has(items, r, types) ==
  \E i \in DOMAIN items : items[i].run = r /\ items[i].type \in types

Unstarted == {"run_queued", "run_started", "run_cancelled"}

\* Each event comes after what the lifecycle puts before it.
Follows(items) ==
  \A j \in DOMAIN items :
    /\ items[j].type \notin Unstarted =>
         \E i \in DOMAIN items : /\ i < j /\ items[i].run = items[j].run
                                 /\ items[i].type = "run_started"
    /\ items[j].type \notin TerminalEvents =>
         \A i \in DOMAIN items :
           i < j /\ items[i].run = items[j].run => items[i].type \notin TerminalEvents

\* What makes it inductive: a run with a goroutine was announced as started and not
\* as ended, and no run in a queue was announced as ended.
Told(Q, F, P, S) ==
  /\ \A s \in SessionIds : Follows(F[s].items)
  /\ \A r \in RunIds : P[r] \in GoroutinePhases =>
       /\ Has(F[S[r]].items, r, {"run_started"})
       /\ ~Has(F[S[r]].items, r, TerminalEvents)
  /\ \A s \in SessionIds : \A k \in DOMAIN Q[s] : ~Has(F[s].items, Q[s][k], TerminalEvents)

ToldNow == Told(queue, feed, pc, sessionOf)

\* One event more: the others keep their places.
LEMMA EmitAppends ==
  ASSUME NEW f, FeedOK(f), NEW r \in RunIds, NEW type \in EventTypes
  PROVE  LET old == f.items
             new == Emit(f, r, type).items
         IN  /\ Len(old) \in Nat
             /\ DOMAIN old = 1..Len(old) /\ DOMAIN new = 1..(Len(old) + 1)
             /\ \A i \in DOMAIN old : new[i] = old[i]
             /\ new[Len(old) + 1].run = r /\ new[Len(old) + 1].type = type
PROOF
<1>1. Emit(f, r, type).items = Append(f.items, Event(f, r, type))
  BY EmitKeepsFeed
<1>2. f.items \in Seq(Events) /\ Event(f, r, type) \in Events
  BY DEF FeedOK, Feeds, Event, Events
<1>3. Event(f, r, type).run = r /\ Event(f, r, type).type = type
  BY DEF Event
<1>4. QED BY <1>1, <1>2, <1>3

\* An event of run r that keeps to the lifecycle.
LEMMA EmitKeepsFollows ==
  ASSUME NEW f, FeedOK(f), NEW r \in RunIds, NEW type \in EventTypes, Follows(f.items),
         type \notin Unstarted => Has(f.items, r, {"run_started"}),
         type \notin TerminalEvents => ~Has(f.items, r, TerminalEvents)
  PROVE  Follows(Emit(f, r, type).items)
PROOF
<1> DEFINE old == f.items
           new == Emit(f, r, type).items
           last == Len(f.items) + 1
<1>1. /\ Len(old) \in Nat
      /\ DOMAIN old = 1..Len(old) /\ DOMAIN new = 1..last
      /\ \A i \in DOMAIN old : new[i] = old[i]
      /\ new[last].run = r /\ new[last].type = type
  BY EmitAppends
<1>2. \A i \in DOMAIN old : i < last /\ i \in DOMAIN new
  BY <1>1
<1>3. \A j \in DOMAIN new : j \in DOMAIN old \/ j = last
  BY <1>1
<1>4. \A i, j \in DOMAIN new : i < j => i \in DOMAIN old
  BY <1>1
<1> HIDE DEF new, last, old
<1>5. SUFFICES ASSUME NEW j \in DOMAIN new
               PROVE  /\ new[j].type \notin Unstarted =>
                           \E i \in DOMAIN new : /\ i < j /\ new[i].run = new[j].run
                                                 /\ new[i].type = "run_started"
                      /\ new[j].type \notin TerminalEvents =>
                           \A i \in DOMAIN new :
                             i < j /\ new[i].run = new[j].run => new[i].type \notin TerminalEvents
  BY DEF Follows, new
<1>6. CASE j \in DOMAIN old
  BY <1>1, <1>2, <1>4, <1>6 DEF Follows, old
<1>7. CASE j = last
  <2>1. type \notin Unstarted => \E i \in DOMAIN old : old[i].run = r /\ old[i].type = "run_started"
    BY DEF Has, old
  <2>2. type \notin TerminalEvents =>
           \A i \in DOMAIN old : old[i].run = r => old[i].type \notin TerminalEvents
    BY DEF Has, old
  <2>3. QED BY <1>1, <1>2, <1>4, <1>7, <2>1, <2>2
<1>8. QED BY <1>3, <1>6, <1>7

\* What is told of the other runs is as before.
LEMMA EmitKeepsHas ==
  ASSUME NEW f, FeedOK(f), NEW r \in RunIds, NEW type \in EventTypes, NEW x, NEW types
  PROVE  Has(Emit(f, r, type).items, x, types)
           <=> Has(f.items, x, types) \/ (x = r /\ type \in types)
PROOF
<1> DEFINE new == Emit(f, r, type).items
           last == Len(f.items) + 1
<1>1. /\ \A i \in DOMAIN new : i \in DOMAIN f.items \/ i = last
      /\ \A i \in DOMAIN f.items : i \in DOMAIN new /\ new[i] = f.items[i]
      /\ last \in DOMAIN new
      /\ new[last].run = r /\ new[last].type = type
  BY EmitAppends
<1> HIDE DEF new, last
<1>2. Has(new, x, types) <=> Has(f.items, x, types) \/ (x = r /\ type \in types)
  BY <1>1 DEF Has
<1>3. QED BY <1>2 DEF new

\* An event of a run that is not in the way of the others keeps Told.
LEMMA EmitKeepsTold ==
  ASSUME NEW Q, NEW A, NEW F, NEW P, NEW S, NEW n, Core(Q, A, F, P, S, n), Told(Q, F, P, S),
         NEW s \in SessionIds, NEW r \in RunIds, S[r] = s, NEW type \in EventTypes,
         type \notin Unstarted => Has(F[s].items, r, {"run_started"}),
         type \notin TerminalEvents => ~Has(F[s].items, r, TerminalEvents),
         type \in TerminalEvents =>
           P[r] \notin GoroutinePhases /\ \A k \in DOMAIN Q[s] : Q[s][k] # r
  PROVE  Told(Q, [F EXCEPT ![s] = Emit(@, r, type)], P, S)
PROOF
<1> DEFINE G == [F EXCEPT ![s] = Emit(@, r, type)]
<1>1. FeedOK(F[s]) /\ G[s] = Emit(F[s], r, type) /\ \A t \in SessionIds : t # s => G[t] = F[t]
  BY DEF Core, CoreTypes
<1>2. \A x, types : Has(G[s].items, x, types)
                      <=> Has(F[s].items, x, types) \/ (x = r /\ type \in types)
  BY <1>1, EmitKeepsHas
<1>3. \A x \in RunIds : P[x] \in GoroutinePhases => S[x] \in SessionIds
  BY DEF Core, CoreTypes, Executed
<1>4. Follows(G[s].items)
  BY <1>1, EmitKeepsFollows DEF Told
<1> HIDE DEF G
<1>5. \A x \in RunIds : P[x] \in GoroutinePhases =>
         /\ Has(G[S[x]].items, x, {"run_started"})
         /\ ~Has(G[S[x]].items, x, TerminalEvents)
  BY <1>1, <1>2, <1>3 DEF Told
<1>6. \A t \in SessionIds : \A k \in DOMAIN Q[t] : ~Has(G[t].items, Q[t][k], TerminalEvents)
  BY <1>1, <1>2 DEF Told
<1>7. Told(Q, G, P, S)
  BY <1>1, <1>4, <1>5, <1>6 DEF Told
<1>8. QED BY <1>7 DEF G

\* Shorter queues, and goroutines that stay, end, or belong to a run that was
\* announced, keep Told.
LEMMA FewerKeepTold ==
  ASSUME NEW Q, NEW F, NEW P, NEW S, Told(Q, F, P, S), NEW Q1, NEW P1,
         \A s \in SessionIds : \A k \in DOMAIN Q1[s] : \E j \in DOMAIN Q[s] : Q1[s][k] = Q[s][j],
         \A r \in RunIds : P1[r] \in GoroutinePhases =>
           \/ P[r] \in GoroutinePhases
           \/ /\ Has(F[S[r]].items, r, {"run_started"})
              /\ ~Has(F[S[r]].items, r, TerminalEvents)
  PROVE  Told(Q1, F, P1, S)
PROOF
BY DEF Told

\* startNextIfIdleLocked keeps Told, whatever intermediate state it starts from.
LEMMA StartNextKeepsTold ==
  ASSUME NEW s \in SessionIds, NEW q, NEW a, NEW f, NEW m, NEW p, NEW S, NEW n,
         queue \in [SessionIds -> Seq(RunIds)],
         active \in [SessionIds -> RunIds \cup {NoRun}],
         feed \in [SessionIds -> Feeds],
         Core([queue EXCEPT ![s] = q], [active EXCEPT ![s] = a],
              [feed EXCEPT ![s] = f], p, S, n),
         Told([queue EXCEPT ![s] = q], [feed EXCEPT ![s] = f], p, S),
         StartNextIfIdle(s, q, a, f, m, p)
  PROVE  Told(queue', feed', pc', S)
PROOF
<1> DEFINE Q == [queue EXCEPT ![s] = q]
           A == [active EXCEPT ![s] = a]
           F == [feed EXCEPT ![s] = f]
<1>1. Q[s] = q /\ F[s] = f /\ q \in Seq(RunIds) /\ FeedOK(f) /\ p \in [RunIds -> Phases]
  BY DEF Core, CoreTypes
<1>2. CASE ~CanStartNext(a, q)
  BY <1>2 DEF StartNextIfIdle
<1>3. ASSUME q # <<>>
      PROVE  \A t \in SessionIds : \A k \in DOMAIN [Q EXCEPT ![s] = Tail(q)][t] :
               \E j \in DOMAIN Q[t] : [Q EXCEPT ![s] = Tail(q)][t][k] = Q[t][j]
  <2>1. \A k \in DOMAIN Tail(q) : k + 1 \in DOMAIN q /\ Tail(q)[k] = q[k + 1]
    BY <1>1, <1>3
  <2>2. QED BY <1>1, <2>1
<1>4. [queue EXCEPT ![s] = Tail(q)] = [Q EXCEPT ![s] = Tail(q)]
  OBVIOUS
<1>5. CASE CanStartNext(a, q) /\ CanTransition(m[Head(q)], "running")
  <2> DEFINE h == Head(q)
             G == [F EXCEPT ![s] = Emit(@, h, "run_started")]
  <2>1. PICK work \in {"building", "compacting"} :
             /\ queue' = [queue EXCEPT ![s] = Tail(q)]
             /\ feed' = [feed EXCEPT ![s] = Emit(f, h, "run_started")]
             /\ pc' = [p EXCEPT ![h] = work]
    BY <1>5 DEF StartNextIfIdle
  <2>2. q # <<>> /\ h \in RunIds /\ 1 \in DOMAIN q /\ h = q[1]
    BY <1>1, <1>5 DEF CanStartNext
  <2>3. ~Has(f.items, h, TerminalEvents)
    BY <1>1, <2>2 DEF Told
  <2>4. "run_started" \in EventTypes /\ "run_started" \in Unstarted /\ "run_started" \notin TerminalEvents
    BY DEF EventTypes, Unstarted, TerminalEvents
  <2>5. S[h] = s
    BY <1>1, <2>2 DEF Core, Lined
  <2>6. Told(Q, G, p, S)
    BY <1>1, <2>2, <2>3, <2>4, <2>5, EmitKeepsTold
  <2>7. /\ Has(G[s].items, h, {"run_started"}) /\ ~Has(G[s].items, h, TerminalEvents)
        /\ feed' = G
    BY <1>1, <2>1, <2>2, <2>3, <2>4, EmitKeepsHas
  <2>8. \A r \in RunIds : pc'[r] \in GoroutinePhases => r = h \/ p[r] \in GoroutinePhases
    BY <1>1, <2>1
  <2> HIDE DEF G, h
  <2>9. \A r \in RunIds : pc'[r] \in GoroutinePhases =>
           \/ p[r] \in GoroutinePhases
           \/ Has(G[S[r]].items, r, {"run_started"}) /\ ~Has(G[S[r]].items, r, TerminalEvents)
    BY <2>5, <2>7, <2>8
  <2>10. Told(queue', G, pc', S)
    BY <1>3, <1>4, <2>1, <2>2, <2>6, <2>9, FewerKeepTold
  <2>11. QED BY <2>7, <2>10
<1>6. CASE CanStartNext(a, q) /\ ~CanTransition(m[Head(q)], "running")
  <2>1. queue' = [queue EXCEPT ![s] = Tail(q)] /\ feed' = F /\ pc' = p
    BY <1>6 DEF StartNextIfIdle
  <2>2. q # <<>>
    BY <1>6 DEF CanStartNext
  <2>3. Told(queue', F, p, S)
    BY <1>3, <1>4, <2>1, <2>2, FewerKeepTold
  <2>4. QED BY <2>1, <2>3
<1>7. QED BY <1>2, <1>5, <1>6 DEF StartNextIfIdle

\* A run that was just submitted has no events, and stands last in its queue.
LEMMA ArriveKeepsTold ==
  ASSUME NEW Q, NEW A, NEW F, NEW P, NEW S, NEW n \in Nat, n + 1 \in RunIds,
         Core(Q, A, F, P, S, n), Told(Q, F, P, S), NEW s \in SessionIds
  PROVE  /\ Told([Q EXCEPT ![s] = Append(@, n + 1)], F, P, [S EXCEPT ![n + 1] = s])
         /\ \A types : ~Has(F[s].items, n + 1, types)
PROOF
<1> DEFINE r == n + 1
           Q1 == [Q EXCEPT ![s] = Append(@, r)]
           S1 == [S EXCEPT ![r] = s]
<1>1. S[r] = NoSession /\ s # NoSession
  BY DEF Core, Belongs, SessionIds, NoSession
<1>2. \A types : ~Has(F[s].items, r, types)
  BY <1>1 DEF Core, Belongs, Has
<1>3. \A x \in RunIds : P[x] \in GoroutinePhases => S1[x] = S[x]
  BY <1>1 DEF Core, CoreTypes, Executed
<1>4. \A t \in SessionIds : \A k \in DOMAIN Q1[t] :
         \/ k \in DOMAIN Q[t] /\ Q1[t][k] = Q[t][k]
         \/ t = s /\ Q1[t][k] = r
  BY DEF Core, CoreTypes
<1> HIDE DEF Q1, S1, r
<1>5. Told(Q1, F, P, S1)
  BY <1>2, <1>3, <1>4 DEF Told
<1>6. QED BY <1>2, <1>5 DEF Q1, S1, r

\* The run itself is gone from its queue.
LEMMA WithoutRemoves ==
  ASSUME NEW q \in Seq(RunIds), NEW r \in RunIds,
         \A i, j \in DOMAIN q : i < j => q[i] < q[j]
  PROVE  \A k \in DOMAIN Without(q, r) : Without(q, r)[k] # r
PROOF
<1>1. CASE ~\E k \in DOMAIN q : q[k] = r
  BY <1>1 DEF Without
<1>2. CASE \E k \in DOMAIN q : q[k] = r
  <2> DEFINE c == CHOOSE k \in DOMAIN q : q[k] = r
             w == [i \in 1..(Len(q) - 1) |-> IF i < c THEN q[i] ELSE q[i + 1]]
  <2>1. c \in DOMAIN q /\ q[c] = r
    BY <1>2
  <2>2. Without(q, r) = w
    BY <1>2 DEF Without
  <2> HIDE DEF c
  <2>3. \A i \in DOMAIN q : i # c => q[i] # r
    BY <2>1 DEF RunIds
  <2>4. \A k \in 1..(Len(q) - 1) : IF k < c THEN k \in DOMAIN q /\ k # c
                                   ELSE k + 1 \in DOMAIN q /\ k + 1 # c
    BY <2>1
  <2>5. QED BY <2>2, <2>3, <2>4
<1>3. QED BY <1>1, <1>2

\* Submit tells of a run nothing was told of.
LEMMA SubmitKeepsTold ==
  ASSUME IInv, ToldNow, NEW s \in Sessions, Submit(s)
  PROVE  ToldNow'
PROOF
<1> DEFINE r == nextRunID + 1
           q == Append(queue[s], r)
           f == Emit(feed[s], r, "run_queued")
           m == [machine EXCEPT ![r] = "queued"]
           S == [sessionOf EXCEPT ![r] = s]
           Q == [queue EXCEPT ![s] = Append(@, r)]
           F == [feed EXCEPT ![s] = Emit(@, r, "run_queued")]
<1>1. s \in SessionIds /\ r \in RunIds /\ nextRunID \in Nat
  BY BoundsAssumption DEF IInv, TypeOK, Submit, Sessions, SessionIds, RunIds
<1>2. StartNextIfIdle(s, q, active[s], f, m, pc) /\ sessionOf' = S
  BY DEF Submit, Enqueue
<1>3. /\ Core(Q, active, feed, pc, S, r) /\ Told(Q, feed, pc, S)
      /\ \A types : ~Has(feed[s].items, r, types)
  BY <1>1, ArriveKeepsCore, ArriveKeepsTold DEF IInv, ToldNow
<1>4. S[r] = s
  BY <1>1 DEF IInv, TypeOK
<1>5. "run_queued" \in EventTypes \ {"run_started"} /\ "run_queued" \in Unstarted
      /\ "run_queued" \notin TerminalEvents
  BY DEF EventTypes, Unstarted, TerminalEvents
<1>6. Core(Q, active, F, pc, S, r)
  BY <1>1, <1>3, <1>4, <1>5, EmitKeepsCore
<1>7. Told(Q, F, pc, S)
  BY <1>1, <1>3, <1>4, <1>5, EmitKeepsTold
<1>8. Q = [queue EXCEPT ![s] = q] /\ F = [feed EXCEPT ![s] = f]
      /\ active = [active EXCEPT ![s] = active[s]]
  BY <1>1 DEF IInv, TypeOK
<1>9. /\ queue \in [SessionIds -> Seq(RunIds)]
      /\ active \in [SessionIds -> RunIds \cup {NoRun}]
      /\ feed \in [SessionIds -> Feeds]
  BY DEF IInv, TypeOK
<1>10. /\ Core([queue EXCEPT ![s] = q], [active EXCEPT ![s] = active[s]],
               [feed EXCEPT ![s] = f], pc, S, r)
       /\ Told([queue EXCEPT ![s] = q], [feed EXCEPT ![s] = f], pc, S)
  BY <1>6, <1>7, <1>8
<1> HIDE DEF q, f, m, S, r, Q, F
<1>11. Told(queue', feed', pc', S)
  BY <1>1, <1>2, <1>9, <1>10, StartNextKeepsTold
<1>12. QED BY <1>2, <1>11 DEF ToldNow

\* Control cancels a run that is not executed, once: its machine is terminal then.
LEMMA ControlEffectKeepsTold ==
  ASSUME IInv, ToldNow, NEW r \in Runs, NEW action \in ControlKinds, NEW sig,
         ControlEffect(r, action, sig), UNCHANGED <<sessionOf, pc, active>>
  PROVE  ToldNow'
PROOF
<1> DEFINE s == sessionOf[r]
           Q == [queue EXCEPT ![s] = Without(@, r)]
           F == [feed EXCEPT ![s] = Emit(@, r, "run_cancelled")]
<1>1. r \in RunIds /\ r <= nextRunID
  BY BoundsAssumption DEF IInv, TypeOK, Runs, RunIds
<1>2. s \in SessionIds /\ s # NoSession
  BY <1>1 DEF IInv, TypeOK, Core, Belongs, SessionIds, NoSession
<1>3. CASE UNCHANGED <<queue, feed>>
  BY <1>3 DEF ToldNow
<1>4. CASE queue' = Q /\ feed' = F /\ ~IsExecuting(r)
  <2>1. pc[r] \notin GoroutinePhases
    BY <1>1, <1>2, <1>4 DEF IInv, Core, Executed, IsExecuting
  <2>2. \A k \in DOMAIN Without(queue[s], r) :
           /\ \E j \in DOMAIN queue[s] : Without(queue[s], r)[k] = queue[s][j]
           /\ Without(queue[s], r)[k] # r
    <3>1. queue[s] \in Seq(RunIds) /\ \A i, j \in DOMAIN queue[s] : i < j => queue[s][i] < queue[s][j]
      BY <1>2 DEF IInv, Core, CoreTypes, Lined
    <3>2. QED BY <1>1, <3>1, WithoutShrinks, WithoutRemoves
  <2>3. Q[s] = Without(queue[s], r) /\ \A t \in SessionIds : t # s => Q[t] = queue[t]
    BY <1>2 DEF IInv, TypeOK
  <2>4. Core(Q, active, feed, pc, sessionOf, nextRunID)
    BY <1>1, <1>2, RemoveKeepsCore DEF IInv
  <2>5. Told(Q, feed, pc, sessionOf)
    <3> HIDE DEF Q, s
    <3>1. \A t \in SessionIds : \A k \in DOMAIN Q[t] : \E j \in DOMAIN queue[t] : Q[t][k] = queue[t][j]
      BY <2>2, <2>3
    <3>2. QED BY <3>1, FewerKeepTold DEF ToldNow
  <2>6. "run_cancelled" \in EventTypes /\ "run_cancelled" \in Unstarted
        /\ "run_cancelled" \in TerminalEvents
    BY DEF EventTypes, Unstarted, TerminalEvents
  <2>7. \A k \in DOMAIN Q[s] : Q[s][k] # r
    BY <2>2, <2>3
  <2>8. Told(Q, F, pc, sessionOf)
    BY <1>1, <1>2, <2>1, <2>4, <2>5, <2>6, <2>7, EmitKeepsTold
  <2>9. QED BY <1>4, <2>8 DEF ToldNow
<1>5. QED BY <1>3, <1>4 DEF ControlEffect

\* A run is announced as ended when its goroutine is no more, whether output was
\* emitted in the same critical section or not.
LEMMA EndRunKeepsTold ==
  ASSUME IInv, ToldNow, NEW r \in Runs, Live(r), NEW state, NEW type \in TerminalEvents,
         NEW g \in {feed[sessionOf[r]], Emit(feed[sessionOf[r]], r, "run_output_delta")},
         EndRun(r, state, Emit(g, r, type))
  PROVE  ToldNow'
PROOF
<1> DEFINE s == sessionOf[r]
           G == [feed EXCEPT ![s] = g]
           F == [feed EXCEPT ![s] = Emit(g, r, type)]
           A == [active EXCEPT ![s] = NoRun]
           P == [pc EXCEPT ![r] = "done"]
           m == [machine EXCEPT ![r] = Transition(@, state)]
<1>1. r \in RunIds
  BY BoundsAssumption DEF IInv, TypeOK, Runs, RunIds
<1>2. s \in SessionIds /\ active[s] = r
  BY <1>1 DEF IInv, TypeOK, Core, Executed, Live
<1>3. /\ Has(feed[s].items, r, {"run_started"}) /\ ~Has(feed[s].items, r, TerminalEvents)
      /\ FeedOK(feed[s])
  BY <1>1, <1>2 DEF ToldNow, Told, Live, IInv, Core, CoreTypes
<1>4. /\ "run_output_delta" \in EventTypes \ {"run_started"}
      /\ "run_output_delta" \notin TerminalEvents
      /\ type \in EventTypes \ {"run_started"}
  BY DEF EventTypes, TerminalEvents
<1>5. /\ Core(queue, active, G, pc, sessionOf, nextRunID) /\ Told(queue, G, pc, sessionOf)
      /\ Has(G[s].items, r, {"run_started"}) /\ ~Has(G[s].items, r, TerminalEvents)
      /\ FeedOK(G[s])
  <2>1. CASE g = feed[s]
    <3>1. G = feed
      BY <2>1 DEF IInv, TypeOK
    <3>2. QED BY <1>3, <3>1 DEF IInv, ToldNow
  <2>2. CASE g = Emit(feed[s], r, "run_output_delta")
    <3>1. G = [feed EXCEPT ![s] = Emit(@, r, "run_output_delta")] /\ G[s] = g
      BY <1>2, <2>2 DEF IInv, TypeOK
    <3>2. Core(queue, active, G, pc, sessionOf, nextRunID)
      BY <1>1, <1>2, <1>4, <3>1, EmitKeepsCore DEF IInv
    <3>3. Told(queue, G, pc, sessionOf)
      BY <1>1, <1>2, <1>3, <1>4, <3>1, EmitKeepsTold DEF IInv, ToldNow
    <3>4. /\ Has(g.items, r, {"run_started"}) /\ ~Has(g.items, r, TerminalEvents)
          /\ FeedOK(g)
      BY <1>1, <1>3, <1>4, <2>2, EmitKeepsHas, EmitKeepsFeed
    <3>5. QED BY <3>1, <3>2, <3>3, <3>4
  <2>3. QED BY <2>1, <2>2
<1>6. P \in [RunIds -> Phases] /\ P[r] = "done" /\ "done" \notin GoroutinePhases
      /\ \A x \in RunIds : P[x] \in GoroutinePhases => pc[x] \in GoroutinePhases
  BY <1>1 DEF IInv, TypeOK, Phases, GoroutinePhases
<1>7. /\ Core(queue, A, G, P, sessionOf, nextRunID)
      /\ Told(queue, G, P, sessionOf)
  <2>1. Told(queue, G, P, sessionOf)
    <3> HIDE DEF P, G
    <3>1. QED BY <1>5, <1>6, FewerKeepTold
  <2>2. QED BY <1>1, <1>5, <2>1, ExitKeepsCore DEF Live
<1>8. \A k \in DOMAIN queue[s] : queue[s][k] # r
  BY <1>2 DEF IInv, Core, Lined, Live, GoroutinePhases
<1>9. F = [G EXCEPT ![s] = Emit(@, r, type)]
  BY <1>2 DEF IInv, TypeOK
<1>10. /\ Core(queue, A, F, P, sessionOf, nextRunID)
       /\ Told(queue, F, P, sessionOf)
  <2> HIDE DEF P, A, G
  <2>1. Core(queue, A, F, P, sessionOf, nextRunID)
    BY <1>1, <1>2, <1>4, <1>7, <1>9, EmitKeepsCore
  <2>2. Told(queue, F, P, sessionOf)
    BY <1>1, <1>2, <1>4, <1>5, <1>6, <1>7, <1>8, <1>9, EmitKeepsTold
  <2>3. QED BY <2>1, <2>2
<1>11. /\ StartNextIfIdle(s, queue[s], NoRun, Emit(g, r, type), m, P)
       /\ UNCHANGED sessionOf
  BY <1>2 DEF EndRun, Exited
<1>12. /\ queue \in [SessionIds -> Seq(RunIds)]
       /\ active \in [SessionIds -> RunIds \cup {NoRun}]
       /\ feed \in [SessionIds -> Feeds]
       /\ queue = [queue EXCEPT ![s] = queue[s]]
  BY DEF IInv, TypeOK
<1>13. /\ Core([queue EXCEPT ![s] = queue[s]], [active EXCEPT ![s] = NoRun],
               [feed EXCEPT ![s] = Emit(g, r, type)], P, sessionOf, nextRunID)
       /\ Told([queue EXCEPT ![s] = queue[s]], [feed EXCEPT ![s] = Emit(g, r, type)], P,
               sessionOf)
  BY <1>10, <1>12
<1> HIDE DEF P, m, s
<1>14. Told(queue', feed', pc', sessionOf)
  BY <1>2, <1>11, <1>12, <1>13, StartNextKeepsTold
<1>15. QED BY <1>11, <1>14 DEF ToldNow

\* The steps of a goroutine that do not end its run.
LEMMA RunningStepKeepsTold ==
  ASSUME IInv, ToldNow, NEW r \in Runs,
         BuildContext(r) \/ Return(r) \/ BeginWait(r) \/ TakeApproval(r) \/ TakeAnswer(r)
           \/ WaitCancelled(r) \/ EmitDelta(r) \/ Announce(r)
  PROVE  ToldNow'
PROOF
<1>1. r \in RunIds
  BY BoundsAssumption DEF IInv, TypeOK, Runs, RunIds
<1>2. Live(r)
  BY DEF BuildContext, Return, BeginWait, TakeApproval, TakeAnswer, WaitCancelled,
         EmitDelta, Announce, Live, GoroutinePhases
<1>3. \A x \in RunIds : pc'[x] \in GoroutinePhases => pc[x] \in GoroutinePhases
  <2>1. pc' = pc \/ \E phase : pc' = [pc EXCEPT ![r] = phase]
    BY DEF BuildContext, Return, BeginWait, TakeApproval, TakeAnswer, WaitCancelled,
           EmitDelta, Announce, GoTo
  <2>2. QED BY <1>1, <1>2, <2>1 DEF Live, IInv, TypeOK
<1>4. UNCHANGED <<queue, sessionOf>>
  BY DEF BuildContext, Return, BeginWait, TakeApproval, TakeAnswer, WaitCancelled,
         EmitDelta, Announce
<1>5. CASE UNCHANGED feed
  BY <1>3, <1>4, <1>5, FewerKeepTold DEF ToldNow
<1>6. CASE EmitDelta(r) \/ Announce(r)
  <2>1. PICK type \in {"run_output_delta", "run_approval_needed"} : Emits(r, type)
    BY <1>6 DEF EmitDelta, Announce
  <2>2. type \in EventTypes /\ type \notin TerminalEvents
    BY DEF EventTypes, TerminalEvents
  <2>3. sessionOf[r] \in SessionIds
    BY <1>1, <1>2 DEF Live, IInv, TypeOK, Core, Executed
  <2>4. /\ Has(feed[sessionOf[r]].items, r, {"run_started"})
        /\ ~Has(feed[sessionOf[r]].items, r, TerminalEvents)
    BY <1>1, <1>2 DEF Live, ToldNow, Told
  <2>5. Told(queue, [feed EXCEPT ![sessionOf[r]] = Emit(@, r, type)], pc, sessionOf)
    BY <1>1, <2>2, <2>3, <2>4, EmitKeepsTold DEF ToldNow, IInv
  <2>6. Told(queue, feed', pc, sessionOf)
    BY <2>1, <2>5 DEF Emits
  <2>7. Told(queue, feed', pc', sessionOf)
    BY <1>3, <2>6, FewerKeepTold
  <2>8. QED BY <1>4, <2>7 DEF ToldNow
<1>7. QED BY <1>5, <1>6 DEF BuildContext, Return, BeginWait, TakeApproval, TakeAnswer,
                            WaitCancelled

\* Every step of the engine, whatever the clients do, keeps to the lifecycles.
LEMMA NextKeepsTold == IInv /\ ToldNow /\ [Next]_vars => ToldNow'
PROOF
<1> SUFFICES ASSUME IInv, ToldNow, [Next]_vars PROVE ToldNow'
  OBVIOUS
<1>1. CASE StartSession
  BY <1>1 DEF StartSession, ToldNow
<1>2. CASE \E s \in Sessions : Submit(s)
  BY <1>2, SubmitKeepsTold
<1>3. ASSUME NEW r \in Runs, NEW action \in ControlKinds, ControlCall(r, action)
      PROVE  ToldNow'
  <2>1. CASE Control(r, action)
    BY <2>1, ControlEffectKeepsTold DEF Control
  <2>2. CASE ControlBlocks(r, action)
    BY <2>2 DEF ControlBlocks, ToldNow
  <2>3. QED BY <1>3, <2>1, <2>2 DEF ControlCall
<1>4. CASE ControlUnblocks
  <2>1. blocked.run \in Runs /\ blocked.action \in ControlKinds
    BY <1>4 DEF ControlUnblocks, LockFree, IInv, TypeOK, BlockedOnRun
  <2>2. QED BY <1>4, <2>1, ControlEffectKeepsTold DEF ControlUnblocks
<1>5. ASSUME NEW r \in Runs, Goroutine(r)
      PROVE  ToldNow'
  <2>1. {"run_cancelled", "run_failed", "run_completed"} \subseteq TerminalEvents
    BY DEF TerminalEvents
  <2>2. CASE EndUnbuilt(r)
    BY <2>1, <2>2, EndRunKeepsTold DEF EndUnbuilt, Live, GoroutinePhases
  <2>3. CASE EndExecuted(r)
    <3>1. Live(r)
      BY <2>3 DEF EndExecuted, Live, GoroutinePhases
    <3>2. \E g \in {feed[sessionOf[r]], Emit(feed[sessionOf[r]], r, "run_output_delta")},
             type \in TerminalEvents, state \in RunStates : EndRun(r, state, Emit(g, r, type))
      BY <2>1, <2>3 DEF EndExecuted, RunStates
    <3>3. QED BY <3>1, <3>2, EndRunKeepsTold
  <2>4. QED BY <1>5, <2>2, <2>3, RunningStepKeepsTold DEF Goroutine
<1>6. CASE UNCHANGED vars
  BY <1>6 DEF vars, ToldNow
<1>7. QED BY <1>1, <1>2, <1>3, <1>4, <1>5, <1>6 DEF Next, System

\* What a client is told of a run follows its lifecycle, whatever the clients do:
\* nothing of a run's work before its start, nothing but a second end after its end.
THEOREM EventsInOrder == Spec => []EventsFollowLifecycle
PROOF
<1>1. Init => ToldNow
  BY DEF Init, ToldNow, Told, Follows, GoroutinePhases
<1>2. ToldNow => EventsFollowLifecycle
  BY DEF ToldNow, Told, Follows, Unstarted, EventsFollowLifecycle, Items
<1>3. QED BY <1>1, <1>2, NextKeepsTold, InductiveInvariant, PTL DEF Spec

-------------------------------------------------------------------------------
(* Clients that follow the prompts. Every run stands in one of four places,   *)
(* and queue, goroutine, machine and channel agree on which.                  *)

Waits(Q, S, r) == \E k \in DOMAIN Q[S[r]] : Q[S[r]][k] = r

\* The phases of a run that no request of its own is open in.
Unasked == {"building", "compacting", "executing", "approval_resolved", "answered",
            "returned_ok", "returned_err", "end_failed"}

\* A run at work that is not being cancelled: its machine says what it waits for, its
\* channel holds at most the one reply that was prompted, and nothing at other times.
Prompt(phase, state, channel) ==
  \/ phase \in Unasked /\ state = "running" /\ channel = <<>>
  \/ /\ phase \in {"announce_approval", "await_approval"}
     /\ \/ state = "waiting_approval" /\ channel = <<>>
        \/ state = "running" /\ channel \in {<<>>, <<"approve">>, <<"resume">>}
  \/ /\ phase \in {"announce_question", "await_answer"}
     /\ \/ state = "waiting_user_input" /\ channel = <<>>
        \/ state = "running" /\ channel \in {<<>>, <<"answer">>}

AtWorkStates == {"running", "waiting_approval", "waiting_user_input"}

Unborn(S, G, C, r) == S[r] = NoSession /\ G[r] = <<>> /\ r \notin C
InLine(Q, M, S, G, C, r) ==
  S[r] # NoSession /\ Waits(Q, S, r) /\ M[r] = "queued" /\ G[r] = <<>> /\ r \notin C
AtWork(M, P, S, G, C, r) ==
  /\ S[r] # NoSession /\ P[r] \in GoroutinePhases /\ M[r] \in AtWorkStates
  /\ r \in C \/ Prompt(P[r], M[r], G[r])
Over(Q, F, M, P, S, r) ==
  /\ S[r] # NoSession /\ P[r] \notin GoroutinePhases /\ ~Waits(Q, S, r)
  /\ M[r] \in TerminalStates /\ Has(F[S[r]].items, r, TerminalEvents)

Standing(Q, F, M, P, S, G, C) ==
  \A r \in RunIds : \/ Unborn(S, G, C, r) \/ InLine(Q, M, S, G, C, r)
                    \/ AtWork(M, P, S, G, C, r) \/ Over(Q, F, M, P, S, r)

NoIdleQueue(Q, A) == \A s \in SessionIds : A[s] = NoRun => Q[s] = <<>>

\* A reply that waits for room is to a run that is being cancelled.
BlockedOnEnd == LockFree \/ blocked.action \in {"stop", "deny"} \/ blocked.run \in cancelled

PInv == /\ Standing(queue, feed, machine, pc, sessionOf, signals, cancelled)
        /\ NoIdleQueue(queue, active)
        /\ BlockedOnEnd

\* Taking the head off a queue, whose runs are all different, takes that run's place
\* and no other's.
LEMMA TailWaits ==
  ASSUME NEW Q \in [SessionIds -> Seq(RunIds)], NEW S \in [RunIds -> SessionIds \cup {NoSession}],
         NEW s \in SessionIds, Q[s] # <<>>,
         \A j, k \in DOMAIN Q[s] : j < k => Q[s][j] < Q[s][k],
         \A k \in DOMAIN Q[s] : S[Q[s][k]] = s,
         NEW r \in RunIds, S[r] # NoSession
  PROVE  Waits([Q EXCEPT ![s] = Tail(@)], S, r) <=> Waits(Q, S, r) /\ r # Head(Q[s])
PROOF
<1> DEFINE q == Q[s]
           t == Tail(Q[s])
           Q1 == [Q EXCEPT ![s] = Tail(@)]
<1>1. q \in Seq(RunIds) /\ q # <<>> /\ Head(q) = q[1] /\ 1 \in DOMAIN q /\ Q1[s] = t
  OBVIOUS
<1>2. /\ \A k \in DOMAIN t : k + 1 \in DOMAIN q /\ t[k] = q[k + 1] /\ 1 < k + 1
      /\ \A k \in DOMAIN q : k # 1 => k - 1 \in DOMAIN t /\ t[k - 1] = q[k]
  BY <1>1
<1>3. \A k \in DOMAIN q : k # 1 => q[k] # q[1]
  <2>1. SUFFICES ASSUME NEW k \in DOMAIN q, k # 1 PROVE q[k] # q[1]
    OBVIOUS
  <2>2. 1 < k /\ q[1] \in RunIds /\ q[k] \in RunIds
    BY <1>1, <2>1
  <2>3. q[1] < q[k]
    BY <1>1, <2>2
  <2>4. QED BY <2>2, <2>3 DEF RunIds
<1>4. CASE S[r] = s
  <2>1. (\E k \in DOMAIN t : t[k] = r) <=> (\E k \in DOMAIN q : q[k] = r /\ k # 1)
    <3>1. ASSUME NEW k \in DOMAIN t, t[k] = r PROVE \E j \in DOMAIN q : q[j] = r /\ j # 1
      <4>1. k + 1 \in DOMAIN q /\ q[k + 1] = r /\ k + 1 # 1
        BY <1>2, <3>1
      <4>2. QED BY <4>1
    <3>2. ASSUME NEW k \in DOMAIN q, q[k] = r, k # 1 PROVE \E j \in DOMAIN t : t[j] = r
      <4>1. k - 1 \in DOMAIN t /\ t[k - 1] = r
        BY <1>2, <3>2
      <4>2. QED BY <4>1
    <3>3. QED BY <3>1, <3>2
  <2>2. QED BY <1>1, <1>3, <1>4, <2>1 DEF Waits
<1>5. CASE S[r] # s
  <2>1. \A k \in DOMAIN q : q[k] # r
    BY <1>5
  <2>2. r # Head(q) /\ S[r] \in SessionIds /\ Q1[S[r]] = Q[S[r]]
    BY <1>1, <1>5, <2>1
  <2>3. QED BY <2>2 DEF Waits
<1>6. QED BY <1>4, <1>5

\* More events and the same places elsewhere keep the standing of the other runs.
LEMMA OthersStand ==
  ASSUME NEW Q, NEW F, NEW M, NEW P, NEW S, NEW G, NEW C, Standing(Q, F, M, P, S, G, C),
         NEW Q1, NEW F1, NEW M1, NEW P1, NEW S1, NEW G1, NEW C1, NEW r \in RunIds,
         M1[r] = M[r], P1[r] = P[r], S1[r] = S[r], G1[r] = G[r], r \in C1 <=> r \in C,
         S[r] # NoSession => (Waits(Q1, S1, r) <=> Waits(Q, S, r)),
         S[r] # NoSession /\ Has(F[S[r]].items, r, TerminalEvents)
           => Has(F1[S1[r]].items, r, TerminalEvents)
  PROVE  \/ Unborn(S1, G1, C1, r) \/ InLine(Q1, M1, S1, G1, C1, r)
         \/ AtWork(M1, P1, S1, G1, C1, r) \/ Over(Q1, F1, M1, P1, S1, r)
PROOF
BY DEF Standing, Unborn, InLine, AtWork, Over

\* startNextIfIdleLocked: the head's machine lets it run, and nobody waits idly.
LEMMA StartNextKeepsPrompts ==
  ASSUME NEW s \in SessionIds, NEW q, NEW a, NEW f, NEW p, NEW S, NEW n, NEW G, NEW C,
         NEW m \in [RunIds -> RunStates \cup {NotCreated}],
         queue \in [SessionIds -> Seq(RunIds)],
         active \in [SessionIds -> RunIds \cup {NoRun}],
         feed \in [SessionIds -> Feeds],
         Core([queue EXCEPT ![s] = q], [active EXCEPT ![s] = a],
              [feed EXCEPT ![s] = f], p, S, n),
         Standing([queue EXCEPT ![s] = q], [feed EXCEPT ![s] = f], m, p, S, G, C),
         \A t \in SessionIds : t # s /\ active[t] = NoRun => queue[t] = <<>>,
         StartNextIfIdle(s, q, a, f, m, p)
  PROVE  /\ Standing(queue', feed', machine', pc', S, G, C)
         /\ NoIdleQueue(queue', active')
PROOF
<1> DEFINE Q == [queue EXCEPT ![s] = q]
           A == [active EXCEPT ![s] = a]
           F == [feed EXCEPT ![s] = f]
           h == Head(q)
<1>1. Q[s] = q /\ F[s] = f /\ A[s] = a /\ q \in Seq(RunIds) /\ FeedOK(f)
      /\ p \in [RunIds -> Phases] /\ S \in [RunIds -> SessionIds \cup {NoSession}]
      /\ Q \in [SessionIds -> Seq(RunIds)]
  BY DEF Core, CoreTypes
<1>2. CASE ~CanStartNext(a, q)
  <2>1. queue' = Q /\ active' = A /\ feed' = F /\ machine' = m /\ pc' = p
    BY <1>2 DEF StartNextIfIdle
  <2>2. QED BY <1>1, <1>2, <2>1 DEF CanStartNext, NoIdleQueue
<1>3. CASE CanStartNext(a, q)
  <2>1. q # <<>> /\ h \in RunIds /\ 1 \in DOMAIN q /\ h = q[1] /\ a = NoRun
    BY <1>1, <1>3 DEF CanStartNext
  <2>2. S[h] = s /\ s # NoSession /\ p[h] = "none" /\ Waits(Q, S, h)
    BY <1>1, <2>1 DEF Core, Lined, Waits, SessionIds, NoSession
  <2>3. m[h] = "queued" /\ G[h] = <<>> /\ h \notin C
    BY <2>1, <2>2 DEF Standing, Unborn, InLine, AtWork, Over, GoroutinePhases
  <2>4. CanTransition(m[h], "running")
    BY <2>3 DEF CanTransition, AllowedTransitions
  <2>5. PICK work \in {"building", "compacting"} :
             /\ queue' = [queue EXCEPT ![s] = Tail(q)]
             /\ active' = [active EXCEPT ![s] = h]
             /\ feed' = [feed EXCEPT ![s] = Emit(f, h, "run_started")]
             /\ machine' = [m EXCEPT ![h] = "running"]
             /\ pc' = [p EXCEPT ![h] = work]
    BY <1>3, <2>4 DEF StartNextIfIdle
  <2>6. queue' = [Q EXCEPT ![s] = Tail(@)] /\ feed' = [F EXCEPT ![s] = Emit(@, h, "run_started")]
    BY <1>1, <2>5
  <2>7. \A r \in RunIds : S[r] # NoSession =>
           (Waits(queue', S, r) <=> Waits(Q, S, r) /\ r # h)
    BY <1>1, <2>1, <2>6, TailWaits DEF Core, Lined
  <2>8. \A r \in RunIds : Has(F[S[r]].items, r, TerminalEvents)
                            => (S[r] # NoSession => Has(feed'[S[r]].items, r, TerminalEvents))
    <3>1. "run_started" \in EventTypes
      BY DEF EventTypes
    <3>2. \A x : Has(f.items, x, TerminalEvents) => Has(Emit(f, h, "run_started").items, x, TerminalEvents)
      BY <1>1, <2>1, <3>1, EmitKeepsHas
    <3>3. \A t \in SessionIds : feed'[t] = IF t = s THEN Emit(f, h, "run_started") ELSE F[t]
      BY <2>5
    <3>4. QED BY <1>1, <3>2, <3>3
  <2>9. /\ machine'[h] = "running" /\ pc'[h] = work
        /\ \A r \in RunIds \ {h} : machine'[r] = m[r] /\ pc'[r] = p[r]
    BY <1>1, <2>1, <2>5
  <2>10. AtWork(machine', pc', S, G, C, h)
    BY <2>2, <2>3, <2>9 DEF AtWork, AtWorkStates, GoroutinePhases, Prompt, Unasked
  <2> HIDE DEF Q, F, h
  <2>11. Standing(queue', feed', machine', pc', S, G, C)
    <3>1. SUFFICES ASSUME NEW r \in RunIds, r # h
                   PROVE  \/ Unborn(S, G, C, r) \/ InLine(queue', machine', S, G, C, r)
                          \/ AtWork(machine', pc', S, G, C, r)
                          \/ Over(queue', feed', machine', pc', S, r)
      BY <2>10 DEF Standing
    <3>2. Standing(Q, F, m, p, S, G, C)
      BY DEF Q, F
    <3>3. QED BY <2>7, <2>8, <2>9, <3>1, <3>2, OthersStand
  <2>12. \A t \in SessionIds : active'[t] = NoRun => queue'[t] = <<>>
    BY <2>1, <2>5 DEF RunIds, NoRun
  <2>13. QED BY <2>11, <2>12 DEF NoIdleQueue
<1>4. QED BY <1>2, <1>3

\* Submit puts the new run in line, or straight to work in an idle session.
LEMMA SubmitKeepsPrompts ==
  ASSUME IInv, PInv, NEW s \in Sessions, Submit(s)
  PROVE  PInv'
PROOF
<1> DEFINE r == nextRunID + 1
           q == Append(queue[s], r)
           f == Emit(feed[s], r, "run_queued")
           m == [machine EXCEPT ![r] = "queued"]
           S == [sessionOf EXCEPT ![r] = s]
           Q == [queue EXCEPT ![s] = q]
           F == [feed EXCEPT ![s] = f]
<1>1. s \in SessionIds /\ r \in RunIds /\ nextRunID \in Nat /\ s # NoSession
  BY BoundsAssumption
     DEF IInv, TypeOK, Submit, Sessions, SessionIds, RunIds, NoSession
<1>2. StartNextIfIdle(s, q, active[s], f, m, pc) /\ sessionOf' = S
      /\ UNCHANGED <<signals, cancelled>>
  BY DEF Submit, Enqueue
<1>3. Core([queue EXCEPT ![s] = Append(@, r)], active, feed, pc, S, r)
  BY <1>1, ArriveKeepsCore DEF IInv
<1>4. /\ S[r] = s /\ \A x \in RunIds \ {r} : S[x] = sessionOf[x]
      /\ queue[s] \in Seq(RunIds) /\ FeedOK(feed[s])
      /\ sessionOf \in [RunIds -> SessionIds \cup {NoSession}]
      /\ \A x \in RunIds \ {r} : m[x] = machine[x]
      /\ m \in [RunIds -> RunStates \cup {NotCreated}] /\ m[r] = "queued"
  BY <1>1 DEF IInv, TypeOK, Core, CoreTypes, RunStates
<1>5. Core([queue EXCEPT ![s] = Append(@, r)], active,
           [feed EXCEPT ![s] = Emit(@, r, "run_queued")], pc, S, r)
  BY <1>1, <1>3, <1>4, EmitKeepsCore DEF EventTypes
<1>6. Core(Q, [active EXCEPT ![s] = active[s]], F, pc, S, r)
  <2>1. /\ [queue EXCEPT ![s] = Append(@, r)] = Q
        /\ [feed EXCEPT ![s] = Emit(@, r, "run_queued")] = F
        /\ active = [active EXCEPT ![s] = active[s]]
    BY <1>1 DEF IInv, TypeOK
  <2>2. QED BY <1>5, <2>1
<1>7. Standing(Q, F, m, pc, S, signals, cancelled)
  <2>1. sessionOf[r] = NoSession
    BY <1>1 DEF IInv, Core, Belongs
  <2>2. signals[r] = <<>> /\ r \notin cancelled
    BY <1>1, <2>1 DEF PInv, Standing, Unborn, InLine, AtWork, Over
  <2>3. Q[s] = q /\ F[s] = f
    BY <1>1 DEF IInv, TypeOK
  <2>4. \A t \in SessionIds : t # s => Q[t] = queue[t] /\ F[t] = feed[t]
    BY <1>1 DEF IInv, TypeOK
  <2>5. q[Len(queue[s]) + 1] = r /\ Len(queue[s]) + 1 \in DOMAIN q
    BY <1>1, <1>4
  <2>6. InLine(Q, m, S, signals, cancelled, r)
    BY <1>1, <1>4, <2>2, <2>3, <2>5 DEF InLine, Waits
  <2>7. \A x \in RunIds \ {r} : sessionOf[x] # NoSession =>
          /\ Waits(Q, S, x) <=> Waits(queue, sessionOf, x)
          /\ Has(feed[sessionOf[x]].items, x, TerminalEvents)
               => Has(F[S[x]].items, x, TerminalEvents)
    <3>1. SUFFICES ASSUME NEW x \in RunIds \ {r}, sessionOf[x] # NoSession
                   PROVE  /\ Waits(Q, S, x) <=> Waits(queue, sessionOf, x)
                          /\ Has(feed[sessionOf[x]].items, x, TerminalEvents)
                               => Has(F[S[x]].items, x, TerminalEvents)
      OBVIOUS
    <3>2. S[x] = sessionOf[x] /\ S[x] \in SessionIds /\ x # r
      BY <1>4, <3>1
    <3>3. CASE S[x] # s
      BY <2>4, <3>2, <3>3 DEF Waits
    <3>4. CASE S[x] = s
      <4>1. (\E k \in DOMAIN q : q[k] = x) <=> (\E k \in DOMAIN queue[s] : queue[s][k] = x)
        BY <1>1, <1>4, <3>2
      <4>2. "run_queued" \in EventTypes
        BY DEF EventTypes
      <4>3. Has(feed[s].items, x, TerminalEvents) => Has(f.items, x, TerminalEvents)
        BY <1>1, <1>4, <4>2, EmitKeepsHas
      <4>4. QED BY <2>3, <3>2, <3>4, <4>1, <4>3 DEF Waits
    <3>5. QED BY <3>3, <3>4
  <2> HIDE DEF Q, F, S, m, r
  <2>8. \A x \in RunIds \ {r} :
           \/ Unborn(S, signals, cancelled, x) \/ InLine(Q, m, S, signals, cancelled, x)
           \/ AtWork(m, pc, S, signals, cancelled, x) \/ Over(Q, F, m, pc, S, x)
    BY <1>4, <2>7, OthersStand DEF PInv
  <2>9. QED BY <2>6, <2>8 DEF Standing
<1>8. /\ queue \in [SessionIds -> Seq(RunIds)]
      /\ active \in [SessionIds -> RunIds \cup {NoRun}]
      /\ feed \in [SessionIds -> Feeds]
      /\ \A t \in SessionIds : t # s /\ active[t] = NoRun => queue[t] = <<>>
  BY DEF IInv, TypeOK, PInv, NoIdleQueue
<1> HIDE DEF q, f, m, S, r
<1>9. /\ Standing(queue', feed', machine', pc', S, signals, cancelled)
      /\ NoIdleQueue(queue', active')
  BY <1>1, <1>2, <1>4, <1>6, <1>7, <1>8, StartNextKeepsPrompts
<1>10. BlockedOnEnd'
  BY DEF Submit, PInv, BlockedOnEnd, LockFree
<1>11. QED BY <1>2, <1>9, <1>10 DEF PInv

\* Taking a run off its queue leaves the others there.
LEMMA WithoutKeepsOthers ==
  ASSUME NEW q \in Seq(RunIds), NEW r \in RunIds, NEW x \in RunIds, x # r
  PROVE  (\E k \in DOMAIN Without(q, r) : Without(q, r)[k] = x) <=> (\E k \in DOMAIN q : q[k] = x)
PROOF
<1>1. CASE ~\E k \in DOMAIN q : q[k] = r
  BY <1>1 DEF Without
<1>2. CASE \E k \in DOMAIN q : q[k] = r
  <2> DEFINE c == CHOOSE k \in DOMAIN q : q[k] = r
             w == [i \in 1..(Len(q) - 1) |-> IF i < c THEN q[i] ELSE q[i + 1]]
  <2>1. c \in DOMAIN q /\ q[c] = r
    BY <1>2
  <2>2. Without(q, r) = w
    BY <1>2 DEF Without
  <2> HIDE DEF c
  <2>3. Len(q) \in Nat /\ DOMAIN q = 1..Len(q) /\ DOMAIN w = 1..(Len(q) - 1)
    OBVIOUS
  <2>4. ASSUME NEW k \in DOMAIN q, q[k] = x PROVE \E i \in DOMAIN w : w[i] = x
    <3>1. k # c
      BY <2>1, <2>4
    <3>2. CASE k < c
      <4>1. k \in DOMAIN w /\ w[k] = x
        BY <2>1, <2>3, <2>4, <3>2
      <4>2. QED BY <4>1
    <3>3. CASE c < k
      <4>1. k - 1 \in DOMAIN w /\ w[k - 1] = x
        BY <2>1, <2>3, <2>4, <3>3
      <4>2. QED BY <4>1
    <3>4. QED BY <2>1, <2>3, <2>4, <3>1, <3>2, <3>3
  <2>5. \A i \in DOMAIN w : i \in DOMAIN q /\ i + 1 \in DOMAIN q /\ w[i] \in {q[i], q[i + 1]}
    BY <2>3
  <2> HIDE DEF w
  <2>6. QED BY <2>2, <2>4, <2>5
<1>3. QED BY <1>1, <1>2

\* A run with a goroutine is at work; one without, in a machine that is not
\* terminal, is in line.
LEMMA PlaceOf ==
  ASSUME IInv, PInv, NEW r \in RunIds, sessionOf[r] # NoSession
  PROVE  /\ Live(r) => AtWork(machine, pc, sessionOf, signals, cancelled, r)
         /\ ~Live(r) /\ ~IsTerminal(machine[r])
              => InLine(queue, machine, sessionOf, signals, cancelled, r)
         /\ ~Live(r) /\ r \in cancelled => Over(queue, feed, machine, pc, sessionOf, r)
         /\ IsTerminal(machine[r]) => Over(queue, feed, machine, pc, sessionOf, r)
PROOF
<1>1. Waits(queue, sessionOf, r) => ~Live(r)
  BY DEF IInv, Core, CoreTypes, Lined, Waits, Live, GoroutinePhases
<1>2. QED BY <1>1 DEF PInv, Standing, Unborn, InLine, AtWork, Over, Live, IsTerminal,
                      TerminalStates, AtWorkStates

\* What Control does once the signal is sent. A reply is to the run's own request, or
\* to a run that is being cancelled.
LEMMA ControlEffectKeepsPrompts ==
  ASSUME IInv, PInv, NEW r \in Runs, NEW action \in ControlKinds,
         ControlEffect(r, action, Sent(r, action)), UNCHANGED <<sessionOf, pc, active>>,
         action \in {"stop", "deny"} \/ r \in cancelled \/ Prompted(r, action)
  PROVE  /\ Standing(queue', feed', machine', pc', sessionOf', signals', cancelled')
         /\ NoIdleQueue(queue', active')
PROOF
<1> DEFINE s == sessionOf[r]
           sig == Sent(r, action)
           halts == action \in {"stop", "deny"}
<1>1. r \in RunIds /\ s \in SessionIds /\ s # NoSession
  <2>1. r \in RunIds /\ r <= nextRunID
    BY BoundsAssumption DEF IInv, TypeOK, Runs, RunIds
  <2>2. QED BY <2>1 DEF IInv, TypeOK, Core, Belongs
<1>2. \A x \in RunIds \ {r} : sig[x] = signals[x]
  BY DEF Sent, IInv, TypeOK
<1>3. CASE halts /\ IsTerminal(machine[r]) /\ signals' = sig
           /\ UNCHANGED <<queue, feed, machine, registered, cancelled>>
  <2>1. Over(queue', feed', machine', pc', sessionOf', r)
    BY <1>1, <1>3, PlaceOf
  <2>2. \A x \in RunIds \ {r} :
           \/ Unborn(sessionOf', signals', cancelled', x)
           \/ InLine(queue', machine', sessionOf', signals', cancelled', x)
           \/ AtWork(machine', pc', sessionOf', signals', cancelled', x)
           \/ Over(queue', feed', machine', pc', sessionOf', x)
    BY <1>2, <1>3, OthersStand DEF PInv
  <2>3. QED BY <1>3, <2>1, <2>2 DEF Standing, PInv
<1>4. CASE halts /\ ~IsTerminal(machine[r]) /\ IsExecuting(r) /\ signals' = sig
           /\ cancelled' = cancelled \cup {r}
           /\ UNCHANGED <<queue, feed, machine, registered>>
  <2>1. AtWork(machine', pc', sessionOf', signals', cancelled', r)
    <3>1. Live(r)
      BY <1>1, <1>4 DEF IsExecuting, Live, IInv, Core, Executed
    <3>2. QED BY <1>1, <1>4, <3>1, PlaceOf DEF AtWork
  <2>2. \A x \in RunIds \ {r} :
           \/ Unborn(sessionOf', signals', cancelled', x)
           \/ InLine(queue', machine', sessionOf', signals', cancelled', x)
           \/ AtWork(machine', pc', sessionOf', signals', cancelled', x)
           \/ Over(queue', feed', machine', pc', sessionOf', x)
    BY <1>2, <1>4, OthersStand DEF PInv
  <2>3. QED BY <1>4, <2>1, <2>2 DEF Standing, PInv
<1>5. CASE /\ halts /\ ~IsTerminal(machine[r]) /\ ~IsExecuting(r)
           /\ queue' = [queue EXCEPT ![s] = Without(@, r)]
           /\ machine' = [machine EXCEPT ![r] = "cancelled"]
           /\ feed' = [feed EXCEPT ![s] = Emit(@, r, "run_cancelled")]
           /\ signals' = [sig EXCEPT ![r] = <<>>]
           /\ UNCHANGED cancelled
  <2>1. ~Live(r)
    BY <1>1, <1>5 DEF IsExecuting, Live, IInv, Core, Executed
  <2>2. /\ queue[s] \in Seq(RunIds) /\ FeedOK(feed[s])
        /\ \A i, j \in DOMAIN queue[s] : i < j => queue[s][i] < queue[s][j]
        /\ sessionOf \in [RunIds -> SessionIds \cup {NoSession}]
    BY <1>1 DEF IInv, Core, CoreTypes, Lined
  <2>3. /\ queue'[s] = Without(queue[s], r) /\ feed'[s] = Emit(feed[s], r, "run_cancelled")
        /\ \A t \in SessionIds : t # s => queue'[t] = queue[t] /\ feed'[t] = feed[t]
    BY <1>1, <1>5 DEF IInv, TypeOK
  <2>4. "run_cancelled" \in EventTypes /\ "run_cancelled" \in TerminalEvents
    BY DEF EventTypes, TerminalEvents
  <2>5. \A x : Has(feed'[s].items, x, TerminalEvents)
                 <=> Has(feed[s].items, x, TerminalEvents) \/ x = r
    BY <1>1, <2>2, <2>3, <2>4, EmitKeepsHas
  <2>6. Over(queue', feed', machine', pc', sessionOf', r)
    <3>1. ~Waits(queue', sessionOf', r)
      BY <1>1, <2>2, <2>3, WithoutRemoves DEF Waits
    <3>2. machine'[r] = "cancelled"
      BY <1>1, <1>5 DEF IInv, TypeOK
    <3>3. QED BY <1>1, <2>1, <2>5, <3>1, <3>2 DEF Over, Live, TerminalStates
  <2>7. \A x \in RunIds \ {r} : sessionOf[x] # NoSession =>
           /\ Waits(queue', sessionOf, x) <=> Waits(queue, sessionOf, x)
           /\ Has(feed[sessionOf[x]].items, x, TerminalEvents)
                => Has(feed'[sessionOf[x]].items, x, TerminalEvents)
    <3>1. SUFFICES ASSUME NEW x \in RunIds \ {r}, sessionOf[x] # NoSession
                   PROVE  /\ Waits(queue', sessionOf, x) <=> Waits(queue, sessionOf, x)
                          /\ Has(feed[sessionOf[x]].items, x, TerminalEvents)
                               => Has(feed'[sessionOf[x]].items, x, TerminalEvents)
      OBVIOUS
    <3>2. CASE sessionOf[x] = s
      BY <1>1, <2>2, <2>3, <2>5, <3>2, WithoutKeepsOthers DEF Waits
    <3>3. CASE sessionOf[x] # s
      BY <2>2, <2>3, <3>1, <3>3 DEF Waits
    <3>4. QED BY <3>2, <3>3
  <2>8. \A x \in RunIds \ {r} : machine'[x] = machine[x] /\ signals'[x] = signals[x]
    BY <1>1, <1>2, <1>5 DEF IInv, TypeOK, Sent
  <2>9. \A x \in RunIds \ {r} :
           \/ Unborn(sessionOf', signals', cancelled', x)
           \/ InLine(queue', machine', sessionOf', signals', cancelled', x)
           \/ AtWork(machine', pc', sessionOf', signals', cancelled', x)
           \/ Over(queue', feed', machine', pc', sessionOf', x)
    <3> HIDE DEF sig, s
    <3>1. UNCHANGED <<sessionOf, pc, cancelled>>
      BY <1>5
    <3>2. QED BY <2>7, <2>8, <3>1, OthersStand DEF PInv
  <2>10. NoIdleQueue(queue', active')
    <3>1. queue[s] = <<>> => queue'[s] = <<>>
      BY <2>3 DEF Without
    <3>2. QED BY <2>3, <3>1 DEF NoIdleQueue, PInv
  <2>11. QED BY <2>6, <2>9, <2>10 DEF Standing
<1>6. CASE /\ action \in {"approve", "resume", "answer"}
           /\ machine' = [machine EXCEPT ![r] = ApplyControl(@, action)]
           /\ signals' = sig
           /\ UNCHANGED <<queue, feed, registered, cancelled>>
  <2>1. machine'[r] = ApplyControl(machine[r], action)
        /\ \A x \in RunIds \ {r} : machine'[x] = machine[x]
    BY <1>1, <1>6 DEF IInv, TypeOK
  <2>2. signals'[r] \in {signals[r], Append(signals[r], action)}
    BY <1>1, <1>6 DEF Sent, IInv, TypeOK
  <2>3. \/ AtWork(machine', pc', sessionOf', signals', cancelled', r)
        \/ Over(queue', feed', machine', pc', sessionOf', r)
    <3>1. CASE r \in cancelled
      <4>1. CASE Live(r)
        <5>1. machine[r] \in AtWorkStates => machine'[r] \in AtWorkStates
          BY <1>6, <2>1 DEF AtWorkStates, ApplyControl
        <5>2. QED BY <1>1, <1>6, <3>1, <4>1, <5>1, PlaceOf DEF AtWork
      <4>2. CASE ~Live(r)
        <5>1. Over(queue, feed, machine, pc, sessionOf, r)
          BY <1>1, <3>1, <4>2, PlaceOf
        <5>2. machine'[r] = machine[r]
          BY <1>6, <2>1, <5>1 DEF Over, TerminalStates, ApplyControl, AcceptsControl
        <5>3. QED BY <1>6, <5>1, <5>2 DEF Over
      <4>3. QED BY <4>1, <4>2
    <3>2. CASE r \notin cancelled
      <4>1. \/ action \in {"approve", "resume"} /\ machine[r] = "waiting_approval"
            \/ action = "answer" /\ machine[r] = "waiting_user_input"
        BY <1>6, <3>2 DEF Prompted
      <4>2. AtWork(machine, pc, sessionOf, signals, cancelled, r)
        BY <1>1, <4>1, PlaceOf DEF IsTerminal, TerminalStates, InLine
      <4>3. Prompt(pc[r], machine[r], signals[r])
        BY <3>2, <4>2 DEF AtWork
      <4>4. signals[r] = <<>> /\ machine'[r] = "running"
        BY <2>1, <4>1, <4>3 DEF Prompt, ApplyControl, AcceptsControl
      <4>5. signals'[r] \in {<<>>, <<action>>}
        BY <2>2, <4>4
      <4>6. Prompt(pc[r], machine'[r], signals'[r])
        BY <4>1, <4>3, <4>4, <4>5 DEF Prompt
      <4>7. QED BY <1>6, <4>2, <4>4, <4>6 DEF AtWork, AtWorkStates
    <3>3. QED BY <3>1, <3>2
  <2>4. \A x \in RunIds \ {r} :
           \/ Unborn(sessionOf', signals', cancelled', x)
           \/ InLine(queue', machine', sessionOf', signals', cancelled', x)
           \/ AtWork(machine', pc', sessionOf', signals', cancelled', x)
           \/ Over(queue', feed', machine', pc', sessionOf', x)
    <3> HIDE DEF sig
    <3>1. UNCHANGED <<queue, feed, sessionOf, pc, cancelled>>
      BY <1>6
    <3>2. \A x \in RunIds \ {r} : machine'[x] = machine[x] /\ signals'[x] = signals[x]
      BY <1>2, <1>6, <2>1
    <3>3. QED BY <3>1, <3>2, OthersStand DEF PInv
  <2>5. QED BY <1>6, <2>3, <2>4 DEF Standing, PInv
<1>7. QED BY <1>3, <1>4, <1>5, <1>6 DEF ControlEffect

\* A call of Control by a client that follows the prompts.
LEMMA ControlKeepsPrompts ==
  ASSUME IInv, PInv, NEW r \in Runs, NEW action \in ControlKinds, Prompted(r, action),
         ControlCall(r, action)
  PROVE  PInv'
PROOF
<1>1. r \in RunIds /\ sessionOf[r] # NoSession
  <2>1. r \in RunIds /\ r <= nextRunID
    BY BoundsAssumption DEF IInv, TypeOK, Runs, RunIds
  <2>2. QED BY <2>1 DEF IInv, Core, Belongs
<1>2. CASE Control(r, action)
  <2>1. BlockedOnEnd'
    BY <1>2 DEF Control, BlockedOnEnd, LockFree
  <2>2. QED BY <1>2, <2>1, ControlEffectKeepsPrompts DEF Control, PInv
<1>3. CASE ControlBlocks(r, action)
  \* The channel of a run that waits for the reply is empty.
  <2>1. action \in {"stop", "deny"} \/ r \in cancelled
    <3>1. SUFFICES ASSUME action \notin {"stop", "deny"}, r \notin cancelled PROVE FALSE
      OBVIOUS
    <3>2. machine[r] \in {"waiting_approval", "waiting_user_input"}
      BY <3>1 DEF Prompted
    <3>3. AtWork(machine, pc, sessionOf, signals, cancelled, r)
      BY <1>1, <3>2, PlaceOf DEF IsTerminal, TerminalStates, InLine
    <3>4. signals[r] = <<>>
      BY <3>1, <3>2, <3>3 DEF AtWork, Prompt
    <3>5. QED BY <1>3, <3>4, BufferAssumption DEF ControlBlocks, ChannelFull
  <2>2. QED BY <1>3, <2>1 DEF ControlBlocks, PInv, BlockedOnEnd
<1>4. QED BY <1>2, <1>3 DEF ControlCall

\* A call that waited for room is to end its run, or is too late to matter.
LEMMA ControlUnblocksKeepsPrompts ==
  ASSUME IInv, PInv, ControlUnblocks
  PROVE  PInv'
PROOF
<1>1. blocked.run \in Runs /\ blocked.action \in ControlKinds
  BY DEF ControlUnblocks, LockFree, IInv, TypeOK, BlockedOnRun
<1>2. blocked.action \in {"stop", "deny"} \/ blocked.run \in cancelled
  BY DEF ControlUnblocks, PInv, BlockedOnEnd
<1>3. BlockedOnEnd'
  BY DEF ControlUnblocks, BlockedOnEnd, LockFree
<1>4. QED BY <1>1, <1>2, <1>3, ControlEffectKeepsPrompts DEF ControlUnblocks, PInv

\* A goroutine ends its run: the machine accepts the outcome, for success because no
\* request of the run was open.
LEMMA EndRunKeepsPrompts ==
  ASSUME IInv, PInv, NEW r \in Runs, Live(r), NEW state \in TerminalStates,
         state = "completed" => pc[r] = "returned_ok" /\ r \notin cancelled,
         NEW type \in TerminalEvents,
         NEW g \in {feed[sessionOf[r]], Emit(feed[sessionOf[r]], r, "run_output_delta")},
         EndRun(r, state, Emit(g, r, type))
  PROVE  PInv'
PROOF
<1> DEFINE s == sessionOf[r]
           f == Emit(g, r, type)
           F == [feed EXCEPT ![s] = f]
           P == [pc EXCEPT ![r] = "done"]
           m == [machine EXCEPT ![r] = Transition(@, state)]
           G == [signals EXCEPT ![r] = <<>>]
<1>1. r \in RunIds /\ s \in SessionIds /\ active[s] = r /\ s # NoSession
  <2>1. r \in RunIds
    BY BoundsAssumption DEF IInv, TypeOK, Runs, RunIds
  <2>2. QED BY <2>1 DEF IInv, TypeOK, Core, Executed, Live, SessionIds, NoSession
<1>2. /\ type \in EventTypes \ {"run_started"}
      /\ "run_output_delta" \in EventTypes \ {"run_started"}
  BY DEF EventTypes, TerminalEvents
<1>3. /\ Core(queue, active, [feed EXCEPT ![s] = g], pc, sessionOf, nextRunID)
      /\ FeedOK(g) /\ FeedOK(feed[s])
      /\ \A x : Has(feed[s].items, x, TerminalEvents) => Has(g.items, x, TerminalEvents)
  <2>1. FeedOK(feed[s]) /\ feed = [feed EXCEPT ![s] = feed[s]]
    BY <1>1 DEF IInv, TypeOK, Core, CoreTypes
  <2>2. CASE g = feed[s]
    BY <2>1, <2>2 DEF IInv
  <2>3. CASE g = Emit(feed[s], r, "run_output_delta")
    <3>1. [feed EXCEPT ![s] = g] = [feed EXCEPT ![s] = Emit(@, r, "run_output_delta")]
      BY <2>3 DEF IInv, TypeOK
    <3>2. Core(queue, active, [feed EXCEPT ![s] = g], pc, sessionOf, nextRunID)
      BY <1>1, <1>2, <3>1, EmitKeepsCore DEF IInv
    <3>3. FeedOK(g)
      BY <1>1, <1>2, <2>1, <2>3, EmitKeepsFeed
    <3>4. \A x : Has(feed[s].items, x, TerminalEvents) => Has(g.items, x, TerminalEvents)
      BY <1>1, <1>2, <2>1, <2>3, EmitKeepsHas
    <3>5. QED BY <2>1, <3>2, <3>3, <3>4
  <2>4. QED BY <2>2, <2>3
<1>4. \A x : Has(f.items, x, TerminalEvents) <=> Has(g.items, x, TerminalEvents) \/ x = r
  BY <1>1, <1>2, <1>3, EmitKeepsHas
<1>5. Core(queue, [active EXCEPT ![s] = NoRun], F, P, sessionOf, nextRunID)
  <2>1. Core(queue, active, [[feed EXCEPT ![s] = g] EXCEPT ![s] = Emit(@, r, type)], pc,
             sessionOf, nextRunID)
    BY <1>1, <1>2, <1>3, EmitKeepsCore
  <2>2. [[feed EXCEPT ![s] = g] EXCEPT ![s] = Emit(@, r, type)] = F
    BY <1>1 DEF IInv, TypeOK
  <2>3. Core(queue, active, F, pc, sessionOf, nextRunID)
    BY <2>1, <2>2
  <2>4. QED BY <1>1, <2>3, ExitKeepsCore DEF Live
<1>6. AtWork(machine, pc, sessionOf, signals, cancelled, r) /\ ~Waits(queue, sessionOf, r)
  <2>1. ~Waits(queue, sessionOf, r)
    BY <1>1 DEF IInv, Core, Lined, Waits, Live, GoroutinePhases
  <2>2. QED BY <1>1, <2>1, PlaceOf
<1>7. m[r] \in TerminalStates
  <2>1. m[r] = Transition(machine[r], state)
    BY <1>1 DEF IInv, TypeOK
  <2>2. machine[r] \in AtWorkStates /\ (state = "completed" => machine[r] = "running")
    BY <1>6 DEF AtWork, Prompt, Unasked
  <2>3. QED BY <2>1, <2>2
          DEF Transition, CanTransition, AllowedTransitions, AtWorkStates, TerminalStates, RunStates
<1>8. /\ P[r] = "done" /\ "done" \notin GoroutinePhases
      /\ \A x \in RunIds \ {r} : P[x] = pc[x] /\ m[x] = machine[x] /\ G[x] = signals[x]
      /\ F[s] = f /\ \A t \in SessionIds : t # s => F[t] = feed[t]
      /\ m \in [RunIds -> RunStates \cup {NotCreated}]
      /\ sessionOf \in [RunIds -> SessionIds \cup {NoSession}]
  <2>1. "done" \notin GoroutinePhases
    BY DEF GoroutinePhases
  <2>2. QED BY <1>1, <2>1 DEF IInv, TypeOK, Transition, RunStates, TerminalStates
<1> HIDE DEF P, m, G, F, f, s
<1>9. Standing(queue, F, m, P, sessionOf, G, cancelled)
  <2>1. Over(queue, F, m, P, sessionOf, r)
    BY <1>1, <1>4, <1>6, <1>7, <1>8 DEF Over, s
  <2>2. \A x \in RunIds \ {r} :
           sessionOf[x] # NoSession /\ Has(feed[sessionOf[x]].items, x, TerminalEvents)
             => Has(F[sessionOf[x]].items, x, TerminalEvents)
    BY <1>3, <1>4, <1>8
  <2>3. \A x \in RunIds \ {r} :
           \/ Unborn(sessionOf, G, cancelled, x) \/ InLine(queue, m, sessionOf, G, cancelled, x)
           \/ AtWork(m, P, sessionOf, G, cancelled, x) \/ Over(queue, F, m, P, sessionOf, x)
    BY <1>8, <2>2, OthersStand DEF PInv
  <2>4. QED BY <2>1, <2>3 DEF Standing
<1>10. /\ StartNextIfIdle(s, queue[s], NoRun, f, m, P)
       /\ signals' = G /\ UNCHANGED <<sessionOf, cancelled, blocked>>
  BY <1>1 DEF EndRun, Exited, s, f, m, P, G
<1>11. /\ queue \in [SessionIds -> Seq(RunIds)]
       /\ active \in [SessionIds -> RunIds \cup {NoRun}]
       /\ feed \in [SessionIds -> Feeds]
       /\ queue = [queue EXCEPT ![s] = queue[s]]
       /\ \A t \in SessionIds : t # s /\ active[t] = NoRun => queue[t] = <<>>
  BY DEF IInv, TypeOK, PInv, NoIdleQueue
<1>12. /\ Core([queue EXCEPT ![s] = queue[s]], [active EXCEPT ![s] = NoRun],
               [feed EXCEPT ![s] = f], P, sessionOf, nextRunID)
       /\ Standing([queue EXCEPT ![s] = queue[s]], [feed EXCEPT ![s] = f], m, P, sessionOf,
                   G, cancelled)
  BY <1>5, <1>9, <1>11 DEF F
<1>13. /\ Standing(queue', feed', machine', pc', sessionOf, G, cancelled)
       /\ NoIdleQueue(queue', active')
  BY <1>1, <1>8, <1>10, <1>11, <1>12, StartNextKeepsPrompts
<1>14. QED BY <1>10, <1>13 DEF PInv, BlockedOnEnd, LockFree

\* A channel that held one signal is empty once it was taken.
LEMMA SingleTail ==
  ASSUME NEW action
  PROVE  Tail(<<action>>) = <<>> /\ Head(<<action>>) = action
PROOF
<1>1. <<action>> \in Seq({action}) /\ Len(<<action>>) = 1
  OBVIOUS
<1>2. Tail(<<action>>) \in Seq({action}) /\ Len(Tail(<<action>>)) = 0
  BY <1>1
<1>3. QED BY <1>1, <1>2

\* The steps of a goroutine between the start and the end of its run: the machine,
\* the phase and the channel move together.
LEMMA RunningStepKeepsPrompts ==
  ASSUME IInv, PInv, NEW r \in Runs,
         BuildContext(r) \/ Return(r) \/ BeginWait(r) \/ TakeApproval(r) \/ TakeAnswer(r)
           \/ WaitCancelled(r) \/ EmitDelta(r) \/ Announce(r)
  PROVE  PInv'
PROOF
<1>1. r \in RunIds
  BY BoundsAssumption DEF IInv, TypeOK, Runs, RunIds
<1>2. Live(r)
  BY DEF BuildContext, Return, BeginWait, TakeApproval, TakeAnswer, WaitCancelled,
         EmitDelta, Announce, Live, GoroutinePhases
<1>3. /\ sessionOf[r] \in SessionIds /\ sessionOf[r] # NoSession
      /\ AtWork(machine, pc, sessionOf, signals, cancelled, r)
  <2>1. sessionOf[r] \in SessionIds /\ sessionOf[r] # NoSession
    BY <1>1, <1>2 DEF Live, IInv, TypeOK, Core, Executed, SessionIds, NoSession
  <2>2. QED BY <1>1, <1>2, <2>1, PlaceOf
<1>4. UNCHANGED <<queue, active, sessionOf, cancelled, blocked>>
  BY DEF BuildContext, Return, BeginWait, TakeApproval, TakeAnswer, WaitCancelled,
         EmitDelta, Announce
<1>5. /\ pc \in [RunIds -> Phases] /\ signals \in [RunIds -> Seq(ControlKinds)]
      /\ machine \in [RunIds -> RunStates \cup {NotCreated}]
      /\ feed \in [SessionIds -> Feeds] /\ FeedOK(feed[sessionOf[r]])
  BY <1>3 DEF IInv, TypeOK, Core, CoreTypes
<1>6. \A x \in RunIds \ {r} : /\ machine'[x] = machine[x] /\ pc'[x] = pc[x]
                              /\ signals'[x] = signals[x]
  <2>1. machine' = machine \/ \E v : machine' = [machine EXCEPT ![r] = v]
    <3>1. CASE BeginWait(r)
      <4>1. PICK w \in {<<"waiting_approval", "announce_approval">>,
                       <<"waiting_user_input", "announce_question">>} :
               machine' = [machine EXCEPT ![r] = Transition(@, w[1])]
        BY <3>1 DEF BeginWait
      <4>2. QED BY <4>1
    <3>2. QED BY <3>1 DEF BuildContext, Return, TakeApproval, TakeAnswer, WaitCancelled,
                          EmitDelta, Announce
  <2>2. pc' = pc \/ \E v : pc' = [pc EXCEPT ![r] = v]
    BY DEF BuildContext, Return, BeginWait, TakeApproval, TakeAnswer, WaitCancelled,
           EmitDelta, Announce, GoTo
  <2>3. signals' = signals \/ signals' = [signals EXCEPT ![r] = Tail(@)]
    BY DEF BuildContext, Return, BeginWait, TakeApproval, TakeAnswer, WaitCancelled,
           EmitDelta, Announce
  <2>4. QED BY <1>5, <2>1, <2>2, <2>3
<1>7. \A s \in SessionIds : \A x : Has(feed[s].items, x, TerminalEvents)
                                 => Has(feed'[s].items, x, TerminalEvents)
  <2>1. CASE UNCHANGED feed
    BY <2>1
  <2>2. CASE EmitDelta(r) \/ Announce(r)
    <3>1. PICK type \in {"run_output_delta", "run_approval_needed"} : Emits(r, type)
      BY <2>2 DEF EmitDelta, Announce
    <3>2. type \in EventTypes
      BY DEF EventTypes
    <3>3. \A x : Has(feed[sessionOf[r]].items, x, TerminalEvents)
                   => Has(Emit(feed[sessionOf[r]], r, type).items, x, TerminalEvents)
      BY <1>1, <1>5, <3>2, EmitKeepsHas
    <3>4. feed' = [feed EXCEPT ![sessionOf[r]] = Emit(@, r, type)]
      BY <3>1 DEF Emits
    <3>5. QED BY <1>3, <1>5, <3>3, <3>4
  <2>3. QED BY <2>1, <2>2 DEF BuildContext, Return, BeginWait, TakeApproval, TakeAnswer,
                              WaitCancelled
<1>8. pc'[r] \in GoroutinePhases /\ machine'[r] \in AtWorkStates
        /\ (r \in cancelled \/ Prompt(pc'[r], machine'[r], signals'[r]))
  <2>1. /\ machine[r] \in AtWorkStates /\ signals[r] \in Seq(ControlKinds)
        /\ r \in cancelled \/ Prompt(pc[r], machine[r], signals[r])
    BY <1>1, <1>3, <1>5 DEF AtWork
  <2>2. CASE BuildContext(r)
    <3>1. machine'[r] = machine[r] /\ signals'[r] = signals[r] /\ pc[r] = "building"
      BY <2>2 DEF BuildContext
    <3>2. \/ pc'[r] \in {"executing", "end_failed"}
          \/ pc'[r] = "end_cancelled" /\ r \in cancelled
      BY <1>1, <1>5, <2>2 DEF BuildContext, GoTo
    <3>3. QED BY <2>1, <3>1, <3>2 DEF Prompt, Unasked, GoroutinePhases
  <2>3. CASE Return(r)
    <3>1. machine'[r] = machine[r] /\ signals'[r] = signals[r]
          /\ pc[r] \in {"executing", "compacting"}
      BY <2>3 DEF Return
    <3>2. pc'[r] \in {"returned_ok", "returned_err"}
      BY <1>1, <1>5, <2>3 DEF Return, GoTo
    <3>3. QED BY <2>1, <3>1, <3>2 DEF Prompt, Unasked, GoroutinePhases
  <2>4. CASE BeginWait(r)
    <3>1. PICK w \in {<<"waiting_approval", "announce_approval">>,
                     <<"waiting_user_input", "announce_question">>} :
             /\ machine' = [machine EXCEPT ![r] = Transition(@, w[1])]
             /\ GoTo(r, w[2])
      BY <2>4 DEF BeginWait
    <3>2. /\ machine'[r] = Transition(machine[r], w[1]) /\ pc'[r] = w[2]
          /\ signals'[r] = signals[r] /\ pc[r] = "executing"
      BY <1>1, <1>5, <2>4, <3>1 DEF BeginWait, GoTo
    <3>3. \/ w[1] = "waiting_approval" /\ w[2] = "announce_approval"
          \/ w[1] = "waiting_user_input" /\ w[2] = "announce_question"
      BY <3>1
    <3>4. machine'[r] \in {machine[r], w[1]} /\ (machine[r] = "running" => machine'[r] = w[1])
      BY <3>2, <3>3 DEF Transition, CanTransition, AllowedTransitions, RunStates
    <3>5. machine'[r] \in AtWorkStates /\ pc'[r] \in GoroutinePhases
      BY <2>1, <3>2, <3>3, <3>4 DEF AtWorkStates, GoroutinePhases
    <3>6. r \notin cancelled => machine[r] = "running" /\ signals[r] = <<>>
      BY <2>1, <3>2 DEF Prompt
    <3>7. QED BY <3>2, <3>3, <3>4, <3>5, <3>6 DEF Prompt
  <2>5. CASE TakeApproval(r)
    <3>1. machine'[r] = machine[r] /\ signals'[r] = Tail(signals[r]) /\ signals[r] # <<>>
          /\ pc[r] = "await_approval"
      BY <1>1, <1>5, <2>5 DEF TakeApproval
    <3>2. \/ Head(signals[r]) = "answer" /\ pc'[r] = pc[r]
          \/ Head(signals[r]) = "stop" /\ pc'[r] = "approval_stopped"
          \/ Head(signals[r]) \in {"approve", "resume", "deny"} /\ pc'[r] = "approval_resolved"
      BY <1>1, <1>5, <2>5 DEF TakeApproval, GoTo
    <3>3. pc'[r] \in GoroutinePhases
      BY <3>1, <3>2 DEF GoroutinePhases
    <3>4. r \notin cancelled => machine[r] = "running" /\ signals[r] \in {<<"approve">>, <<"resume">>}
      BY <2>1, <3>1 DEF Prompt, Unasked
    <3>5. r \notin cancelled => Tail(signals[r]) = <<>> /\ Head(signals[r]) \in {"approve", "resume"}
      BY <3>4, SingleTail
    <3>6. QED BY <2>1, <3>1, <3>2, <3>3, <3>4, <3>5 DEF Prompt, Unasked
  <2>6. CASE TakeAnswer(r)
    <3>1. machine'[r] = machine[r] /\ signals'[r] = Tail(signals[r]) /\ signals[r] # <<>>
          /\ pc[r] = "await_answer"
      BY <1>1, <1>5, <2>6 DEF TakeAnswer
    <3>2. \/ Head(signals[r]) \in {"stop", "deny"} /\ pc'[r] = "returned_err"
          \/ Head(signals[r]) = "answer" /\ pc'[r] = "answered"
          \/ Head(signals[r]) \in {"answer", "approve", "resume"} /\ pc'[r] = pc[r]
      BY <1>1, <1>5, <2>6 DEF TakeAnswer, GoTo
    <3>3. pc'[r] \in GoroutinePhases
      BY <3>1, <3>2 DEF GoroutinePhases
    <3>4. r \notin cancelled => machine[r] = "running" /\ signals[r] = <<"answer">>
      BY <2>1, <3>1 DEF Prompt, Unasked
    <3>5. r \notin cancelled => Tail(signals[r]) = <<>> /\ Head(signals[r]) = "answer"
      BY <3>4, SingleTail
    <3>6. QED BY <2>1, <3>1, <3>2, <3>3, <3>4, <3>5 DEF Prompt, Unasked
  <2>7. CASE WaitCancelled(r)
    <3>1. machine'[r] = machine[r] /\ pc'[r] = "returned_err" /\ r \in cancelled
      BY <1>1, <1>5, <2>7 DEF WaitCancelled, GoTo
    <3>2. QED BY <2>1, <3>1 DEF GoroutinePhases
  <2>8. CASE EmitDelta(r)
    BY <1>2, <2>1, <2>8 DEF EmitDelta, Live
  <2>9. CASE Announce(r)
    <3>1. PICK a \in {<<"announce_approval", "run_approval_needed", "await_approval">>,
                     <<"announce_question", "run_output_delta", "await_answer">>,
                     <<"approval_resolved", "run_output_delta", "executing">>,
                     <<"approval_stopped", "run_output_delta", "returned_err">>,
                     <<"answered", "run_output_delta", "executing">>} :
             pc[r] = a[1] /\ GoTo(r, a[3])
      BY <2>9 DEF Announce
    <3>2. machine'[r] = machine[r] /\ signals'[r] = signals[r] /\ pc'[r] = a[3]
      BY <1>1, <1>5, <2>9, <3>1 DEF Announce, GoTo
    <3>3. <<pc[r], pc'[r]>> \in
             {<<"announce_approval", "await_approval">>, <<"announce_question", "await_answer">>,
              <<"approval_resolved", "executing">>, <<"approval_stopped", "returned_err">>,
              <<"answered", "executing">>}
      BY <3>1, <3>2
    <3>4. pc'[r] \in GoroutinePhases
      BY <3>3 DEF GoroutinePhases
    <3>5. r \notin cancelled => Prompt(pc'[r], machine[r], signals[r])
      BY <2>1, <3>3 DEF Prompt, Unasked
    <3>6. QED BY <2>1, <3>2, <3>4, <3>5
  <2>10. QED BY <2>2, <2>3, <2>4, <2>5, <2>6, <2>7, <2>8, <2>9
<1>9. AtWork(machine', pc', sessionOf, signals', cancelled, r)
  BY <1>3, <1>8 DEF AtWork
<1>10. \A x \in RunIds \ {r} :
          \/ Unborn(sessionOf, signals', cancelled, x)
          \/ InLine(queue, machine', sessionOf, signals', cancelled, x)
          \/ AtWork(machine', pc', sessionOf, signals', cancelled, x)
          \/ Over(queue, feed', machine', pc', sessionOf, x)
  <2>1. Standing(queue, feed, machine, pc, sessionOf, signals, cancelled)
    BY DEF PInv
  <2>2. \A x \in RunIds \ {r} :
           sessionOf[x] # NoSession /\ Has(feed[sessionOf[x]].items, x, TerminalEvents)
             => Has(feed'[sessionOf[x]].items, x, TerminalEvents)
    BY <1>7 DEF IInv, TypeOK
  <2>3. QED BY <1>6, <2>1, <2>2, OthersStand
<1>11. Standing(queue', feed', machine', pc', sessionOf', signals', cancelled')
  BY <1>4, <1>9, <1>10 DEF Standing
<1>12. QED BY <1>4, <1>11 DEF PInv, NoIdleQueue, BlockedOnEnd, LockFree

\* Every step of the engine, with clients that follow the prompts, keeps the places.
LEMMA NextKeepsPrompts == IInv /\ PInv /\ [PromptedNext]_vars => PInv'
PROOF
<1> SUFFICES ASSUME IInv, PInv, [PromptedNext]_vars PROVE PInv'
  OBVIOUS
<1>1. CASE StartSession
  BY <1>1 DEF StartSession, PInv, Standing, NoIdleQueue, BlockedOnEnd, LockFree
<1>2. CASE \E s \in Sessions : Submit(s)
  BY <1>2, SubmitKeepsPrompts
<1>3. CASE \E r \in Runs, action \in ControlKinds : Prompted(r, action) /\ ControlCall(r, action)
  BY <1>3, ControlKeepsPrompts
<1>4. CASE ControlUnblocks
  BY <1>4, ControlUnblocksKeepsPrompts
<1>5. ASSUME NEW r \in Runs, Goroutine(r)
      PROVE  PInv'
  <2>1. /\ {"run_cancelled", "run_failed", "run_completed"} \subseteq TerminalEvents
        /\ {"cancelled", "failed", "completed"} \subseteq TerminalStates
    BY DEF TerminalEvents, TerminalStates
  <2>2. CASE EndUnbuilt(r)
    <3>1. Live(r)
      BY <2>2 DEF EndUnbuilt, Live, GoroutinePhases
    <3>2. \E state \in TerminalStates \ {"completed"}, type \in TerminalEvents :
             EndRun(r, state, Emit(feed[sessionOf[r]], r, type))
      BY <2>1, <2>2 DEF EndUnbuilt
    <3>3. QED BY <3>1, <3>2, EndRunKeepsPrompts
  <2>3. CASE EndExecuted(r)
    <3>1. Live(r)
      BY <2>3 DEF EndExecuted, Live, GoroutinePhases
    <3>2. \/ \E state \in TerminalStates \ {"completed"}, type \in TerminalEvents :
               EndRun(r, state, Emit(feed[sessionOf[r]], r, type))
          \/ /\ pc[r] = "returned_ok" /\ r \notin cancelled
             /\ \E g \in {feed[sessionOf[r]], Emit(feed[sessionOf[r]], r, "run_output_delta")},
                   type \in TerminalEvents : EndRun(r, "completed", Emit(g, r, type))
      BY <2>1, <2>3 DEF EndExecuted
    <3>3. QED BY <2>1, <3>1, <3>2, EndRunKeepsPrompts
  <2>4. QED BY <1>5, <2>2, <2>3, RunningStepKeepsPrompts DEF Goroutine
<1>6. CASE UNCHANGED vars
  BY <1>6 DEF vars, PInv, Standing, NoIdleQueue, BlockedOnEnd, LockFree
<1>7. QED BY <1>1, <1>2, <1>3, <1>4, <1>5, <1>6 DEF PromptedNext, System

\* Clients that follow the prompts are clients: what holds for any holds for them.
LEMMA PromptedIsNext == [PromptedNext]_vars => [Next]_vars
PROOF
BY DEF PromptedNext, Next, System

\* With such clients every run is always in one of the four places.
THEOREM EveryRunHasItsPlace == PromptedSpec => [](IInv /\ ToldNow /\ PInv)
PROOF
<1>1. Init => ToldNow
  BY DEF Init, ToldNow, Told, Follows, GoroutinePhases
<1>2. Init => PInv
  BY DEF Init, PInv, Standing, Unborn, NoIdleQueue, BlockedOnEnd, LockFree
<1>3. QED BY <1>1, <1>2, InitEstablishesIInv, PromptedIsNext, NextKeepsIInv, NextKeepsTold,
             NextKeepsPrompts, PTL DEF PromptedSpec

\* An idle session has nothing left to start: startNextIfIdleLocked never finds a head
\* whose machine refuses to run.
THEOREM IdleSessionsAreEmpty == PromptedSpec => []IdleMeansEmpty
PROOF
<1>1. IInv /\ PInv => IdleMeansEmpty
  BY BoundsAssumption DEF IInv, TypeOK, PInv, NoIdleQueue, IdleMeansEmpty, Sessions, SessionIds
<1>2. QED BY <1>1, EveryRunHasItsPlace, PTL

\* A run is ended exactly when its end was told.
LEMMA EndedIsTold ==
  ASSUME IInv, ToldNow, PInv, NEW r \in RunIds, sessionOf[r] # NoSession
  PROVE  /\ Ended(r) <=> Over(queue, feed, machine, pc, sessionOf, r)
         /\ Ended(r) <=> IsTerminal(machine[r])
         /\ Ended(r) \/ InQueue(r) \/ active[sessionOf[r]] = r
PROOF
<1>1. Ended(r) <=> Has(feed[sessionOf[r]].items, r, TerminalEvents)
  BY DEF Ended, Has, Items
<1>2. sessionOf[r] \in SessionIds
  BY DEF IInv, TypeOK
<1>3. CASE InLine(queue, machine, sessionOf, signals, cancelled, r)
  <2>1. InQueue(r) /\ ~IsTerminal(machine[r])
    BY <1>2, <1>3 DEF InLine, Waits, InQueue, IsTerminal, TerminalStates
  <2>2. ~Has(feed[sessionOf[r]].items, r, TerminalEvents)
    BY <1>2, <1>3 DEF InLine, Waits, ToldNow, Told
  <2>3. QED BY <1>1, <1>3, <2>1, <2>2 DEF InLine, Over
<1>4. CASE AtWork(machine, pc, sessionOf, signals, cancelled, r)
  <2>1. ~Has(feed[sessionOf[r]].items, r, TerminalEvents) /\ ~IsTerminal(machine[r])
    BY <1>4 DEF AtWork, AtWorkStates, IsTerminal, TerminalStates, ToldNow, Told
  <2>2. active[sessionOf[r]] = r
    BY <1>4 DEF AtWork, IInv, Core, Executed
  <2>3. QED BY <1>1, <1>4, <2>1, <2>2 DEF AtWork, Over
<1>5. CASE Over(queue, feed, machine, pc, sessionOf, r)
  BY <1>1, <1>5 DEF Over, IsTerminal
<1>6. QED BY <1>3, <1>4, <1>5 DEF PInv, Standing, Unborn

\* No run is lost between queue, executor and machine, and all of them agree with the
\* client on whether it has ended.
THEOREM NoRunIsLost == PromptedSpec => []RunsAreAccounted
PROOF
<1>1. IInv /\ ToldNow /\ PInv => RunsAreAccounted
  <2> SUFFICES ASSUME IInv, ToldNow, PInv, NEW r \in Runs
               PROVE  /\ InQueue(r) \/ active[sessionOf[r]] = r \/ Ended(r)
                      /\ IsTerminal(machine[r]) <=> Ended(r)
    BY DEF RunsAreAccounted, EveryRunAccounted, MachineAgreesWithEvents
  <2>1. r \in RunIds /\ r <= nextRunID
    BY BoundsAssumption DEF IInv, TypeOK, Runs, RunIds
  <2>2. sessionOf[r] # NoSession
    BY <2>1 DEF IInv, Core, Belongs
  <2>3. QED BY <2>1, <2>2, EndedIsTold
<1>2. QED BY <1>1, EveryRunHasItsPlace, PTL

\* No tool runs on an approval given for an earlier request.
THEOREM ApprovalsAreFresh == PromptedSpec => []NoStaleApproval
PROOF
<1>1. IInv /\ PInv => NoStaleApproval
  <2> SUFFICES ASSUME IInv, PInv, NEW r \in RunIds, pc[r] = "executing", r \notin cancelled
               PROVE  \A i \in DOMAIN signals[r] : signals[r][i] \notin {"approve", "resume"}
    BY DEF NoStaleApproval
  <2>1. Live(r) /\ sessionOf[r] # NoSession
    BY DEF Live, GoroutinePhases, IInv, Core, Executed
  <2>2. AtWork(machine, pc, sessionOf, signals, cancelled, r)
    BY <2>1, PlaceOf
  <2>3. signals[r] = <<>>
    BY <2>2 DEF AtWork, Prompt
  <2>4. QED BY <2>3
<1>2. QED BY <1>1, EveryRunHasItsPlace, PTL

-------------------------------------------------------------------------------
(* The engine implements the FIFO run server, step by step.                   *)

Gone == {r \in Runs : Ended(r)}

\* The runs that are over are the submitted ones whose end was told, before a step and
\* after it.
LEMMA GoneIsTold ==
  /\ IInv => /\ Gone \subseteq RunIds
             /\ \A r \in RunIds : r \in Gone <=>
                  sessionOf[r] # NoSession /\ Has(feed[sessionOf[r]].items, r, TerminalEvents)
  /\ IInv' => /\ Gone' \subseteq RunIds
              /\ \A r \in RunIds : r \in Gone' <=>
                   sessionOf'[r] # NoSession /\ Has(feed'[sessionOf'[r]].items, r, TerminalEvents)
PROOF
<1>1. ASSUME IInv
      PROVE  /\ Gone \subseteq RunIds
             /\ \A r \in RunIds : r \in Gone <=>
                  sessionOf[r] # NoSession /\ Has(feed[sessionOf[r]].items, r, TerminalEvents)
  <2>1. \A r \in RunIds : r \in Runs <=> sessionOf[r] # NoSession
    BY <1>1, BoundsAssumption DEF IInv, TypeOK, Core, Belongs, Runs, RunIds
  <2>2. Runs \subseteq RunIds
    BY <1>1, BoundsAssumption DEF IInv, TypeOK, Runs, RunIds
  <2>3. \A r : Ended(r) <=> Has(feed[sessionOf[r]].items, r, TerminalEvents)
    BY DEF Ended, Items, Has
  <2>4. QED BY <2>1, <2>2, <2>3 DEF Gone
<1>2. ASSUME IInv'
      PROVE  /\ Gone' \subseteq RunIds
             /\ \A r \in RunIds : r \in Gone' <=>
                  sessionOf'[r] # NoSession /\ Has(feed'[sessionOf'[r]].items, r, TerminalEvents)
  <2>1. \A r \in RunIds : r \in Runs' <=> sessionOf'[r] # NoSession
    BY <1>2, BoundsAssumption DEF IInv, TypeOK, Core, Belongs, Runs, RunIds
  <2>2. Runs' \subseteq RunIds
    BY <1>2, BoundsAssumption DEF IInv, TypeOK, Runs, RunIds
  <2>3. \A r : Ended(r)' <=> Has(feed'[sessionOf'[r]].items, r, TerminalEvents)
    BY DEF Ended, Items, Has
  <2>4. QED BY <2>1, <2>2, <2>3 DEF Gone
<1>3. QED BY <1>1, <1>2

\* A step that tells of no new end leaves the runs that are over.
LEMMA NobodyEnds ==
  ASSUME IInv, IInv',
         \A r \in RunIds :
           /\ sessionOf[r] # NoSession =>
                /\ sessionOf'[r] = sessionOf[r]
                /\ Has(feed'[sessionOf[r]].items, r, TerminalEvents)
                     <=> Has(feed[sessionOf[r]].items, r, TerminalEvents)
           /\ sessionOf[r] = NoSession /\ sessionOf'[r] # NoSession =>
                ~Has(feed'[sessionOf'[r]].items, r, TerminalEvents)
  PROVE  UNCHANGED Gone
PROOF
<1>1. \A r \in RunIds : r \in Gone' <=> r \in Gone
  BY GoneIsTold
<1>2. QED BY <1>1, GoneIsTold

\* A step that tells of the end of one run adds that run.
LEMMA OneEnds ==
  ASSUME IInv, IInv', UNCHANGED sessionOf, NEW r \in RunIds, sessionOf[r] # NoSession,
         \A x \in RunIds : sessionOf[x] # NoSession =>
           (Has(feed'[sessionOf[x]].items, x, TerminalEvents)
              <=> Has(feed[sessionOf[x]].items, x, TerminalEvents) \/ x = r)
  PROVE  Gone' = Gone \cup {r}
PROOF
<1>1. \A x \in RunIds : x \in Gone' <=> x \in Gone \/ x = r
  BY GoneIsTold
<1>2. QED BY <1>1, GoneIsTold

\* A run in line is still queued.
LEMMA WaitingIsQueued ==
  ASSUME IInv, PInv, NEW s \in SessionIds, NEW k \in DOMAIN queue[s]
  PROVE  /\ queue[s][k] \in RunIds /\ machine[queue[s][k]] = "queued"
         /\ sessionOf[queue[s][k]] = s /\ ~Live(queue[s][k])
PROOF
<1> DEFINE x == queue[s][k]
<1>1. x \in RunIds /\ sessionOf[x] = s /\ pc[x] = "none" /\ s # NoSession
  <2>1. queue[s] \in Seq(RunIds) /\ s # NoSession
    <3>1. queue[s] \in Seq(RunIds)
      BY DEF IInv, TypeOK
    <3>2. QED BY <3>1, BoundsAssumption DEF SessionIds, NoSession
  <2>2. x \in RunIds
    BY <2>1
  <2>3. sessionOf[x] = s /\ pc[x] = "none"
    BY DEF IInv, Core, Lined
  <2>4. QED BY <2>1, <2>2, <2>3
<1>2. Waits(queue, sessionOf, x)
  BY <1>1 DEF Waits
<1> HIDE DEF x
<1>3. machine[x] = "queued"
  BY <1>1, <1>2 DEF PInv, Standing, Unborn, InLine, AtWork, Over, GoroutinePhases
<1>4. QED BY <1>1, <1>3 DEF x, Live, GoroutinePhases

\* startNextIfIdleLocked serves the head, which is startable, and tells of no end.
LEMMA StartNextServes ==
  ASSUME NEW s \in SessionIds, NEW q \in Seq(RunIds), NEW a, NEW f, NEW m, NEW p,
         feed \in [SessionIds -> Feeds], FeedOK(f),
         q # <<>> => m[Head(q)] = "queued",
         StartNextIfIdle(s, q, a, f, m, p)
  PROVE  /\ Service!Serve(s, q, a)
         /\ \A t \in SessionIds : t # s => feed'[t] = feed[t]
         /\ \A x : Has(feed'[s].items, x, TerminalEvents) <=> Has(f.items, x, TerminalEvents)
PROOF
<1>1. CASE ~CanStartNext(a, q)
  BY <1>1 DEF StartNextIfIdle, CanStartNext, Service!Serve
<1>2. CASE CanStartNext(a, q)
  <2>1. CanTransition(m[Head(q)], "running") /\ a = NoRun /\ q # <<>>
    BY <1>2 DEF CanStartNext, CanTransition, AllowedTransitions
  <2>2. /\ queue' = [queue EXCEPT ![s] = Tail(q)]
        /\ active' = [active EXCEPT ![s] = Head(q)]
        /\ feed' = [feed EXCEPT ![s] = Emit(f, Head(q), "run_started")]
    BY <1>2, <2>1 DEF StartNextIfIdle
  <2>3. "run_started" \in EventTypes \ TerminalEvents /\ Head(q) \in RunIds
    BY <2>1 DEF EventTypes, TerminalEvents
  <2>4. \A x : Has(Emit(f, Head(q), "run_started").items, x, TerminalEvents)
                 <=> Has(f.items, x, TerminalEvents)
    BY <2>3, EmitKeepsHas
  <2>5. QED BY <2>1, <2>2, <2>4 DEF Service!Serve
<1>3. QED BY <1>1, <1>2

\* Submitting a run is an arrival: nobody has seen the run before.
LEMMA SubmitArrives ==
  ASSUME IInv, IInv', PInv, NEW s \in Sessions, Submit(s)
  PROVE  Service!Arrive(s, nextRunID + 1) /\ s \in SessionIds /\ nextRunID + 1 \in RunIds
PROOF
<1> DEFINE r == nextRunID + 1
           q == Append(queue[s], r)
           f == Emit(feed[s], r, "run_queued")
           m == [machine EXCEPT ![r] = "queued"]
<1>1. s \in SessionIds /\ r \in RunIds /\ r \notin Runs /\ s # NoSession /\ r # NoRun
  BY BoundsAssumption
     DEF IInv, TypeOK, Submit, Sessions, SessionIds, RunIds, Runs, NoSession, NoRun
<1>2. StartNextIfIdle(s, q, active[s], f, m, pc) /\ sessionOf' = [sessionOf EXCEPT ![r] = s]
  BY DEF Submit, Enqueue
<1>3. sessionOf[r] = NoSession
  <2>1. ~(r <= nextRunID)
    BY <1>1 DEF IInv, TypeOK
  <2>2. QED BY <1>1, <2>1 DEF IInv, Core, Belongs
<1>4. Service!Unseen(r)
  <2>1. r \notin Gone
    BY <1>1 DEF Gone
  <2>2. \A t \in SessionIds : active[t] # r
    BY <1>1, <1>3 DEF IInv, Core, Belongs, NoSession, SessionIds
  <2>3. \A t \in SessionIds : ~Service!InLine(t, r)
    BY <1>3 DEF Service!InLine, IInv, Core, Lined, NoSession, SessionIds
  <2>4. QED BY <2>1, <2>2, <2>3 DEF Service!Unseen, Gone
<1>5. /\ q \in Seq(RunIds) /\ queue[s] \in Seq(RunIds) /\ FeedOK(feed[s]) /\ FeedOK(f)
      /\ feed \in [SessionIds -> Feeds] /\ "run_queued" \in EventTypes
      /\ "run_queued" \notin TerminalEvents
  <2>1. FeedOK(feed[s]) /\ "run_queued" \in EventTypes /\ "run_queued" \notin TerminalEvents
    BY <1>1 DEF IInv, Core, CoreTypes, EventTypes, TerminalEvents
  <2>2. QED BY <1>1, <2>1, EmitKeepsFeed DEF IInv, TypeOK
<1>6. m[Head(q)] = "queued"
  <2>1. CASE queue[s] = <<>>
    BY <1>1, <1>5, <2>1 DEF IInv, TypeOK
  <2>2. CASE queue[s] # <<>>
    <3>1. 1 \in DOMAIN queue[s] /\ Head(q) = queue[s][1]
      BY <1>5, <2>2
    <3>2. machine[Head(q)] = "queued" /\ Head(q) \in RunIds
      BY <1>1, <3>1, WaitingIsQueued
    <3>3. QED BY <1>1, <3>2 DEF IInv, TypeOK
  <2>3. QED BY <2>1, <2>2
<1>7. \A x : Has(f.items, x, TerminalEvents) <=> Has(feed[s].items, x, TerminalEvents)
  BY <1>1, <1>5, EmitKeepsHas
<1> HIDE DEF q, f, m
<1>8. /\ Service!Serve(s, q, active[s])
      /\ \A t \in SessionIds : t # s => feed'[t] = feed[t]
      /\ \A x : Has(feed'[s].items, x, TerminalEvents) <=> Has(f.items, x, TerminalEvents)
  BY <1>1, <1>2, <1>5, <1>6, StartNextServes
<1>9. UNCHANGED Gone
  <2>1. /\ sessionOf \in [RunIds -> SessionIds \cup {NoSession}]
        /\ \A x \in RunIds \ {r} : sessionOf'[x] = sessionOf[x]
        /\ sessionOf'[r] = s
    BY <1>1, <1>2 DEF IInv, TypeOK
  <2>2. ~Has(feed[s].items, r, TerminalEvents)
    BY <1>1, <1>3 DEF IInv, Core, Belongs, Has
  <2>3. \A t \in SessionIds : \A x : Has(feed'[t].items, x, TerminalEvents)
                                   <=> Has(feed[t].items, x, TerminalEvents)
    BY <1>7, <1>8
  <2>4. QED BY <1>1, <1>3, <2>1, <2>2, <2>3, NobodyEnds
<1>10. QED BY <1>1, <1>4, <1>8, <1>9 DEF Service!Arrive, q, Gone

\* removeRunFromQueue takes the run's place out of the line.
LEMMA WithoutCutsOut ==
  ASSUME NEW q \in Seq(RunIds), NEW r \in RunIds, \E k \in DOMAIN q : q[k] = r
  PROVE  \E k \in DOMAIN q : /\ q[k] = r
                             /\ Without(q, r) = SubSeq(q, 1, k - 1) \o SubSeq(q, k + 1, Len(q))
PROOF
<1> DEFINE c == CHOOSE k \in DOMAIN q : q[k] = r
           w == [i \in 1..(Len(q) - 1) |-> IF i < c THEN q[i] ELSE q[i + 1]]
           u == SubSeq(q, 1, c - 1)
           v == SubSeq(q, c + 1, Len(q))
<1>1. c \in DOMAIN q /\ q[c] = r /\ Without(q, r) = w
  BY DEF Without
<1> HIDE DEF c
<1>2. c \in 1..Len(q) /\ Len(q) \in Nat
  BY <1>1
<1>3. /\ u \in Seq(RunIds) /\ Len(u) = c - 1 /\ \A i \in 1..(c - 1) : u[i] = q[i]
      /\ v \in Seq(RunIds) /\ Len(v) = Len(q) - c
      /\ \A i \in 1..(Len(q) - c) : v[i] = q[c + i]
  BY <1>2
<1>4. w \in Seq(RunIds) /\ Len(w) = Len(q) - 1
  BY <1>2
<1>5. \A i \in 1..(Len(q) - 1) : w[i] = IF i < c THEN q[i] ELSE q[i + 1]
  OBVIOUS
<1> HIDE DEF u, v, w
<1>6. /\ u \o v \in Seq(RunIds) /\ Len(u \o v) = Len(q) - 1
      /\ \A i \in 1..(Len(q) - 1) : (u \o v)[i] = IF i < c THEN u[i] ELSE v[i - (c - 1)]
  <2>1. /\ u \o v \in Seq(RunIds) /\ Len(u \o v) = Len(u) + Len(v)
        /\ \A i \in 1..(Len(u) + Len(v)) :
             (u \o v)[i] = IF i <= Len(u) THEN u[i] ELSE v[i - Len(u)]
    BY <1>3, ConcatProperties
  <2>2. Len(u) + Len(v) = Len(q) - 1 /\ \A i \in 1..(Len(q) - 1) : i <= Len(u) <=> i < c
    BY <1>2, <1>3
  <2>3. QED BY <1>3, <2>1, <2>2
<1>7. u \o v = w
  <2>1. ASSUME NEW i \in 1..(Len(q) - 1) PROVE (u \o v)[i] = w[i]
    <3>1. CASE i < c
      BY <1>2, <1>3, <1>5, <1>6, <3>1
    <3>2. CASE ~(i < c)
      <4>1. i - (c - 1) \in 1..(Len(q) - c) /\ c + (i - (c - 1)) = i + 1
        BY <1>2, <3>2
      <4>2. v[i - (c - 1)] = q[i + 1]
        BY <1>3, <4>1
      <4>3. QED BY <1>5, <1>6, <3>2, <4>2
    <3>3. QED BY <3>1, <3>2
  <2>2. QED BY <1>4, <1>6, <2>1, SeqEqual
<1>8. QED BY <1>1, <1>7 DEF u, v

\* What Control does is nothing to the line, or the withdrawal of a waiting run.
LEMMA ControlWithdraws ==
  ASSUME IInv, IInv', PInv, NEW r \in Runs, NEW action \in ControlKinds, NEW sig,
         ControlEffect(r, action, sig), UNCHANGED <<active, sessionOf, nextRunID>>
  PROVE  \/ UNCHANGED <<queue, active, Gone>>
         \/ Service!Withdraw(sessionOf[r], r) /\ sessionOf[r] \in SessionIds /\ r \in RunIds
PROOF
<1> DEFINE s == sessionOf[r]
<1>1. r \in RunIds /\ s \in SessionIds /\ s # NoSession
  <2>1. r \in RunIds /\ r <= nextRunID
    BY BoundsAssumption DEF IInv, TypeOK, Runs, RunIds
  <2>2. QED BY <2>1 DEF IInv, TypeOK, Core, Belongs
<1>2. CASE UNCHANGED <<queue, feed>>
  BY <1>2, NobodyEnds
<1>3. CASE /\ ~IsTerminal(machine[r]) /\ ~IsExecuting(r)
           /\ queue' = [queue EXCEPT ![s] = Without(@, r)]
           /\ feed' = [feed EXCEPT ![s] = Emit(@, r, "run_cancelled")]
  <2>1. \E k \in DOMAIN queue[s] : queue[s][k] = r
    <3>1. ~Live(r)
      BY <1>1, <1>3 DEF IsExecuting, Live, IInv, Core, Executed
    <3>2. QED BY <1>1, <1>3, <3>1, PlaceOf DEF InLine, Waits
  <2>2. queue[s] \in Seq(RunIds) /\ FeedOK(feed[s])
    BY <1>1 DEF IInv, Core, CoreTypes
  <2>3. PICK k \in DOMAIN queue[s] :
           /\ queue[s][k] = r
           /\ Without(queue[s], r) = SubSeq(queue[s], 1, k - 1)
                                       \o SubSeq(queue[s], k + 1, Len(queue[s]))
    BY <1>1, <2>1, <2>2, WithoutCutsOut
  <2>4. Gone' = Gone \cup {r}
    <3>1. "run_cancelled" \in EventTypes /\ "run_cancelled" \in TerminalEvents
      BY DEF EventTypes, TerminalEvents
    <3>2. \A x : Has(Emit(feed[s], r, "run_cancelled").items, x, TerminalEvents)
                   <=> Has(feed[s].items, x, TerminalEvents) \/ x = r
      BY <1>1, <2>2, <3>1, EmitKeepsHas
    <3>3. \A x \in RunIds : sessionOf[x] # NoSession =>
             (Has(feed'[sessionOf[x]].items, x, TerminalEvents)
                <=> Has(feed[sessionOf[x]].items, x, TerminalEvents) \/ x = r)
      BY <1>1, <1>3, <3>2 DEF IInv, TypeOK
    <3>4. QED BY <1>1, <3>3, OneEnds
  <2>5. QED BY <1>1, <1>3, <2>3, <2>4 DEF Service!Withdraw, Gone
<1>4. QED BY <1>2, <1>3 DEF ControlEffect

\* The end of a run is the end of the service of its session.
LEMMA EndRunFinishes ==
  ASSUME IInv, IInv', PInv, NEW r \in Runs, Live(r), NEW state, NEW type \in TerminalEvents,
         NEW g \in {feed[sessionOf[r]], Emit(feed[sessionOf[r]], r, "run_output_delta")},
         EndRun(r, state, Emit(g, r, type))
  PROVE  Service!Finish(sessionOf[r]) /\ sessionOf[r] \in SessionIds
PROOF
<1> DEFINE s == sessionOf[r]
           f == Emit(g, r, type)
           m == [machine EXCEPT ![r] = Transition(@, state)]
           P == [pc EXCEPT ![r] = "done"]
<1>1. r \in RunIds /\ s \in SessionIds /\ active[s] = r /\ s # NoSession /\ r # NoRun
  <2>1. r \in RunIds /\ r # NoRun
    BY BoundsAssumption DEF IInv, TypeOK, Runs, RunIds, NoRun
  <2>2. s # NoSession /\ active[s] = r
    BY <2>1 DEF IInv, Core, Executed, Live
  <2>3. s \in SessionIds
    BY <2>1, <2>2 DEF IInv, TypeOK
  <2>4. QED BY <2>1, <2>2, <2>3
<1>2. type \in EventTypes /\ "run_output_delta" \in EventTypes \ TerminalEvents
  BY DEF EventTypes, TerminalEvents
<1>3. FeedOK(feed[s]) /\ queue[s] \in Seq(RunIds) /\ feed \in [SessionIds -> Feeds]
  BY <1>1 DEF IInv, TypeOK, Core, CoreTypes
<1>4. /\ FeedOK(g)
      /\ \A x : Has(g.items, x, TerminalEvents) <=> Has(feed[s].items, x, TerminalEvents)
  <2>1. CASE g = feed[s]
    BY <1>3, <2>1
  <2>2. CASE g = Emit(feed[s], r, "run_output_delta")
    <3>1. FeedOK(g)
      BY <1>1, <1>2, <1>3, <2>2, EmitKeepsFeed
    <3>2. \A x : Has(g.items, x, TerminalEvents) <=> Has(feed[s].items, x, TerminalEvents)
      BY <1>1, <1>2, <1>3, <2>2, EmitKeepsHas
    <3>3. QED BY <3>1, <3>2
  <2>3. QED BY <2>1, <2>2
<1>5. /\ FeedOK(f)
      /\ \A x : Has(f.items, x, TerminalEvents) <=> Has(feed[s].items, x, TerminalEvents) \/ x = r
  <2>1. FeedOK(f)
    BY <1>1, <1>2, <1>4, EmitKeepsFeed
  <2>2. \A x : Has(f.items, x, TerminalEvents) <=> Has(g.items, x, TerminalEvents) \/ x = r
    BY <1>1, <1>2, <1>4, EmitKeepsHas
  <2>3. QED BY <1>4, <2>1, <2>2
<1>6. queue[s] # <<>> => m[Head(queue[s])] = "queued"
  <2>1. SUFFICES ASSUME queue[s] # <<>> PROVE m[Head(queue[s])] = "queued"
    OBVIOUS
  <2>2. 1 \in DOMAIN queue[s] /\ Head(queue[s]) = queue[s][1]
    BY <1>3, <2>1
  <2>3. Head(queue[s]) \in RunIds /\ machine[Head(queue[s])] = "queued" /\ ~Live(Head(queue[s]))
    BY <1>1, <2>2, WaitingIsQueued
  <2>4. Head(queue[s]) # r
    BY <2>3
  <2>5. QED BY <1>1, <2>3, <2>4 DEF IInv, TypeOK
<1>7. StartNextIfIdle(s, queue[s], NoRun, f, m, P) /\ UNCHANGED sessionOf
  BY <1>1 DEF EndRun, Exited
<1> HIDE DEF f, m, P
<1>8. /\ Service!Serve(s, queue[s], NoRun)
      /\ \A t \in SessionIds : t # s => feed'[t] = feed[t]
      /\ \A x : Has(feed'[s].items, x, TerminalEvents) <=> Has(f.items, x, TerminalEvents)
  BY <1>1, <1>3, <1>5, <1>6, <1>7, StartNextServes
<1>9. Gone' = Gone \cup {r}
  <2>1. \A x \in RunIds : sessionOf[x] # NoSession =>
           (Has(feed'[sessionOf[x]].items, x, TerminalEvents)
              <=> Has(feed[sessionOf[x]].items, x, TerminalEvents) \/ x = r)
    BY <1>1, <1>5, <1>8 DEF IInv, TypeOK
  <2>2. QED BY <1>1, <1>7, <2>1, OneEnds
<1>10. QED BY <1>1, <1>8, <1>9 DEF Service!Finish, Gone

\* A goroutine at work moves nothing of the line.
LEMMA RunningStepStutters ==
  ASSUME IInv, IInv', NEW r \in Runs,
         BuildContext(r) \/ Return(r) \/ BeginWait(r) \/ TakeApproval(r) \/ TakeAnswer(r)
           \/ WaitCancelled(r) \/ EmitDelta(r) \/ Announce(r)
  PROVE  UNCHANGED <<queue, active, Gone>>
PROOF
<1>1. r \in RunIds /\ sessionOf[r] \in SessionIds /\ FeedOK(feed[sessionOf[r]])
  <2>1. r \in RunIds /\ r <= nextRunID
    BY BoundsAssumption DEF IInv, TypeOK, Runs, RunIds
  <2>2. QED BY <2>1 DEF IInv, TypeOK, Core, CoreTypes, Belongs
<1>2. UNCHANGED <<queue, active, sessionOf>>
  BY DEF BuildContext, Return, BeginWait, TakeApproval, TakeAnswer, WaitCancelled,
         EmitDelta, Announce
<1>3. \A t \in SessionIds : \A x : Has(feed'[t].items, x, TerminalEvents)
                                 <=> Has(feed[t].items, x, TerminalEvents)
  <2>1. CASE UNCHANGED feed
    BY <2>1
  <2>2. CASE EmitDelta(r) \/ Announce(r)
    <3>1. PICK type \in {"run_output_delta", "run_approval_needed"} : Emits(r, type)
      BY <2>2 DEF EmitDelta, Announce
    <3>2. type \in EventTypes \ TerminalEvents
      BY DEF EventTypes, TerminalEvents
    <3>3. \A x : Has(Emit(feed[sessionOf[r]], r, type).items, x, TerminalEvents)
                   <=> Has(feed[sessionOf[r]].items, x, TerminalEvents)
      BY <1>1, <3>2, EmitKeepsHas
    <3>4. QED BY <1>1, <3>1, <3>3 DEF Emits, IInv, TypeOK
  <2>3. QED BY <2>1, <2>2 DEF BuildContext, Return, BeginWait, TakeApproval, TakeAnswer,
                              WaitCancelled
<1>4. UNCHANGED Gone
  BY <1>2, <1>3, NobodyEnds DEF IInv, TypeOK
<1>5. QED BY <1>2, <1>4

\* Every step of the engine is a step of the FIFO server or none of its business.
LEMMA StepIsServed ==
  IInv /\ IInv' /\ PInv /\ [PromptedNext]_vars => [Service!Next]_(Service!queueVars)
PROOF
<1> SUFFICES ASSUME IInv, IInv', PInv, [PromptedNext]_vars
             PROVE  Service!Next \/ UNCHANGED <<queue, active, Gone>>
  BY DEF Service!queueVars, Gone
<1>1. CASE StartSession
  BY <1>1, NobodyEnds DEF StartSession
<1>2. ASSUME NEW s \in Sessions, Submit(s)
      PROVE  Service!Next
  BY <1>2, SubmitArrives DEF Service!Next
<1>3. ASSUME NEW r \in Runs, NEW action \in ControlKinds, ControlCall(r, action)
      PROVE  Service!Next \/ UNCHANGED <<queue, active, Gone>>
  <2>1. CASE Control(r, action)
    BY <2>1, ControlWithdraws DEF Control, Service!Next
  <2>2. CASE ControlBlocks(r, action)
    BY <2>2, NobodyEnds DEF ControlBlocks
  <2>3. QED BY <1>3, <2>1, <2>2 DEF ControlCall
<1>4. CASE ControlUnblocks
  <2>1. blocked.run \in Runs /\ blocked.action \in ControlKinds
    BY <1>4 DEF ControlUnblocks, LockFree, IInv, TypeOK, BlockedOnRun
  <2>2. QED BY <1>4, <2>1, ControlWithdraws DEF ControlUnblocks, Service!Next
<1>5. ASSUME NEW r \in Runs, Goroutine(r)
      PROVE  Service!Next \/ UNCHANGED <<queue, active, Gone>>
  <2>1. CASE EndUnbuilt(r) \/ EndExecuted(r)
    <3>1. Live(r) /\ {"run_cancelled", "run_failed", "run_completed"} \subseteq TerminalEvents
      BY <2>1 DEF EndUnbuilt, EndExecuted, Live, GoroutinePhases, TerminalEvents
    <3>2. \E g \in {feed[sessionOf[r]], Emit(feed[sessionOf[r]], r, "run_output_delta")},
             type \in TerminalEvents, state \in RunStates : EndRun(r, state, Emit(g, r, type))
      BY <2>1, <3>1 DEF EndUnbuilt, EndExecuted, RunStates
    <3>3. QED BY <3>1, <3>2, EndRunFinishes DEF Service!Next
  <2>2. QED BY <1>5, <2>1, RunningStepStutters DEF Goroutine
<1>6. CASE UNCHANGED vars
  BY <1>6, NobodyEnds DEF vars
<1>7. QED BY <1>1, <1>2, <1>3, <1>4, <1>5, <1>6 DEF PromptedNext, System

\* Seen by clients that follow the prompts, the engine is a FIFO server per session: no
\* run is lost, overtaken, served twice or beside another, and an idle session takes the
\* next run in the same critical section.
THEOREM EngineImplementsRunQueue == PromptedSpec => ImplementsRunQueue
PROOF
<1>1. Init => Service!Init
  BY DEF Init, Service!Init, Runs
<1>2. QED BY <1>1, EveryRunHasItsPlace, StepIsServed, PTL
          DEF PromptedSpec, ImplementsRunQueue, Service!Spec
===============================================================================
