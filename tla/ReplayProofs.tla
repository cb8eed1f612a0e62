------------------------------ MODULE ReplayProofs ------------------------------
(* Proofs about the two logs that are replayed: the journal of a conversation, *)
(* from which its ledger of pending changes is rebuilt, and the events of a    *)
(* session, which a prompt over ACP reads from the first one; and about a call *)
(* of an MCP server, which looks for its answer among what comes over a pipe.  *)
EXTENDS ChangeSets, AcpServer, McpClient, TLAPS, SequenceTheorems, FiniteSetTheorems,
        WellFoundedInduction
-------------------------------------------------------------------------------
(* The ledger of a conversation's pending changes is complete, for every       *)
(* number of paths, executions, writes, requests and restarts, with or without *)
(* git, and whatever the driver fails at.                                      *)

DiffEvents == [kind : {"diff"}, exec : Executions, path : Paths, before : Nat,
               type : {"added", "modified"}]
InboxEvents == DiffEvents \cup [kind : {"end"}, exec : Executions]
JournalEvents == DiffEvents \cup [kind : {"commit", "discard"}, id : Nat]
                 \cup [kind : {"rollback"}]

CallType(call, last) ==
  /\ DOMAIN call = {"op", "entries", "shown", "id", "at"}
  /\ call.op \in {"none", "commit", "discard"}
  /\ call.op = "none" <=> call.at = "rest"
  /\ call.id \in Nat /\ call.id <= last

ChangeTypes ==
  /\ disk \in [Paths -> Nat] /\ head \in [Paths -> Nat] /\ writes \in Nat
  /\ execs \in [Executions -> {"none", "executing", "ended", "gone"}]
  /\ alive \subseteq Executions
  /\ inbox \in Seq(InboxEvents) /\ journal \in Seq(JournalEvents)
  /\ DOMAIN diffs = Executions
  /\ csid \in Nat /\ lastId \in Nat /\ csid <= lastId
  /\ seen.id \in Nat /\ seen.id <= lastId
  /\ DOMAIN calls = Requests
  /\ \A r \in Requests : CallType(calls[r], lastId)

\* The diff of path p is on its way; or, what is as good, the path is excused.
OnItsWay(p) == \E i \in 1..Len(inbox) : inbox[i].kind = "diff" /\ inbox[i].path = p
Traced(p) == p \in excused \/ OnItsWay(p)

\* Each entry names an execution that was not rolled back and has a diff of the path.
KnownIn(l, states, items) ==
  \A p \in DOMAIN l : /\ l[p].exec \in Executions /\ states[l[p].exec] # "gone"
                      /\ p \in DOMAIN items[l[p].exec]
Known(l) == KnownIn(l, execs, diffs)

\* A change set id stands for one ledger: what was shown under it, and what a call that names
\* it works on, is what is pending; and once the files are as the call leaves them, what is
\* still dirty of them is traced.
SeenFits == seen.id = csid => seen.entries = ledger
CallFits(r) ==
  /\ calls[r].entries = calls[r].shown
  /\ calls[r].op # "none" /\ calls[r].id = csid => calls[r].entries = ledger
  /\ calls[r].at = "ledger" /\ calls[r].id = csid =>
       \A p \in DOMAIN calls[r].entries \cap Dirty(disk, head) : Traced(p)
\* The id an accepted or refused change set leaves is that of an empty ledger, until it changes.
EmptyIds ==
  \A i \in 1..Len(journal) : journal[i].kind \in {"commit", "discard"} =>
    /\ journal[i].id \in 0..lastId /\ journal[i].id # seen.id
    /\ journal[i].id = csid => ledger = Empty

Unseen == \A p \in Dirty(disk, head) : p \in DOMAIN ledger \/ Traced(p)
NeverRolled == \A i \in 1..Len(journal) : journal[i].kind # "rollback"

ChangeInv ==
  /\ ChangeTypes /\ Unseen /\ Known(ledger) /\ Known(Replay)
  /\ SeenFits /\ EmptyIds /\ (NeverRolled => ledger = Replay)
  /\ \A r \in Requests : CallFits(r)
-------------------------------------------------------------------------------
(* Induction over the events of the journal and over the executions.          *)

\* A set of numbers has a least one.
LEMMA FirstOf ==
  ASSUME NEW S, S \subseteq Nat, S # {}
  PROVE  \E x \in S : \A y \in S : x <= y
PROOF
<1> DEFINE R == {ss \in Nat \X Nat : ss[1] < ss[2]}
<1>1. IsWellFoundedOn(R, Nat)
  BY NatLessThanWellFounded DEF OpToRel
<1>2. \E x \in S : \A y \in S : <<y, x>> \notin R
  <2> HIDE DEF R
  <2> QED BY <1>1, WFMin
<1>3. \A x, y \in Nat : <<y, x>> \notin R => x <= y
  OBVIOUS
<1> HIDE DEF R
<1> QED BY <1>2, <1>3

\* A set of numbers that has 0 and with each number the next has them all.
LEMMA Stepwise ==
  ASSUME NEW n \in Nat, NEW S, 0 \in S, \A i \in 0..n : i # n /\ i \in S => i + 1 \in S
  PROVE  0..n \subseteq S
PROOF
<1> SUFFICES ASSUME (0..n) \ S # {} PROVE FALSE
  OBVIOUS
<1>1. PICK x \in (0..n) \ S : \A y \in (0..n) \ S : x <= y
  <2>1. (0..n) \ S \subseteq Nat
    OBVIOUS
  <2> QED BY <2>1, FirstOf
<1>2. x # 0 /\ x - 1 \in 0..n /\ x - 1 # n
  BY <1>1
<1>3. x - 1 \in S
  BY <1>1, <1>2
<1>4. x - 1 + 1 \in S
  BY <1>2, <1>3
<1> QED BY <1>1, <1>4

\* The ledger after each of the events, from the first one on.
After(f, n, events) ==
  f = [i \in 0..n |-> IF i = 0 THEN Empty ELSE ReplayOne(f[i - 1], events[i])]

\* For every sequence of events there is such a ledger.
LEMMA AfterExists ==
  ASSUME NEW events, NEW n \in Nat
  PROVE  \E f : After(f, n, events)
PROOF
<1> DEFINE S == {i \in 0..n : \E f : After(f, i, events)}
<1>1. 0 \in S
  <2> DEFINE f == [i \in 0..0 |-> Empty]
  <2>1. After(f, 0, events)
    BY DEF After
  <2> HIDE DEF f
  <2> QED BY <2>1
<1>2. ASSUME NEW i \in 0..n, i # n, i \in S PROVE i + 1 \in S
  <2>1. PICK f : After(f, i, events)
    BY <1>2
  <2>2. f = [j \in 0..i |-> IF j = 0 THEN Empty ELSE ReplayOne(f[j - 1], events[j])]
    BY <2>1 DEF After
  <2> DEFINE g == [j \in 0..i + 1 |-> IF j = i + 1 THEN ReplayOne(f[i], events[i + 1])
                                      ELSE f[j]]
  <2>3. \A j \in 0..i + 1 :
          g[j] = IF j = 0 THEN Empty ELSE ReplayOne(g[j - 1], events[j])
    <3> SUFFICES ASSUME NEW j \in 0..i + 1
                 PROVE  g[j] = IF j = 0 THEN Empty ELSE ReplayOne(g[j - 1], events[j])
      OBVIOUS
    <3>1. CASE j = i + 1
      <4>1. g[j] = ReplayOne(f[i], events[i + 1]) /\ g[j - 1] = f[i] /\ j # 0
        BY <3>1
      <4> QED BY <3>1, <4>1
    <3>2. CASE j # i + 1
      <4>1. j \in 0..i /\ g[j] = f[j] /\ (j # 0 => g[j - 1] = f[j - 1])
        BY <3>2
      <4> QED BY <2>2, <4>1
    <3> QED BY <3>1, <3>2
  <2>4. g = [j \in 0..i + 1 |-> g[j]]
    OBVIOUS
  <2> HIDE DEF g
  <2>5. g = [j \in 0..i + 1 |-> IF j = 0 THEN Empty ELSE ReplayOne(g[j - 1], events[j])]
    BY <2>3, <2>4
  <2>6. After(g, i + 1, events)
    BY <2>5 DEF After
  <2>7. i + 1 \in 0..n
    BY <1>2
  <2> QED BY <2>6, <2>7
<1> HIDE DEF S
<1>3. 0..n \subseteq S
  BY <1>1, <1>2, Stepwise
<1> QED BY <1>3 DEF S

\* There is one such ledger.
LEMMA AfterIsOne ==
  ASSUME NEW f, NEW g, NEW m \in Nat, NEW n \in 0..m, NEW events, NEW longer,
         After(f, n, events), After(g, m, longer), \A i \in 1..n : longer[i] = events[i]
  PROVE  g[n] = f[n]
PROOF
<1> DEFINE S == {i \in 0..n : g[i] = f[i]}
<1>1. /\ \A i \in 0..n : f[i] = IF i = 0 THEN Empty ELSE ReplayOne(f[i - 1], events[i])
      /\ \A i \in 0..m : g[i] = IF i = 0 THEN Empty ELSE ReplayOne(g[i - 1], longer[i])
  <2>1. f = [i \in 0..n |-> IF i = 0 THEN Empty ELSE ReplayOne(f[i - 1], events[i])]
    BY DEF After
  <2>2. g = [i \in 0..m |-> IF i = 0 THEN Empty ELSE ReplayOne(g[i - 1], longer[i])]
    BY DEF After
  <2> QED BY <2>1, <2>2
<1>2. 0 \in S
  BY <1>1
<1>3. ASSUME NEW i \in 0..n, i # n, i \in S PROVE i + 1 \in S
  <2>1. /\ i + 1 \in 0..n /\ i + 1 \in 0..m /\ i + 1 # 0 /\ i + 1 - 1 = i
        /\ longer[i + 1] = events[i + 1] /\ g[i] = f[i]
    BY <1>3
  <2>2. f[i + 1] = ReplayOne(f[i], events[i + 1]) /\ g[i + 1] = ReplayOne(g[i], longer[i + 1])
    BY <1>1, <2>1
  <2> QED BY <2>1, <2>2
<1> HIDE DEF S
<1>4. 0..n \subseteq S
  BY <1>2, <1>3, Stepwise
<1>5. n \in 0..n
  OBVIOUS
<1> QED BY <1>4, <1>5 DEF S

\* What is replayed of a journal.
LEMMA ReplayedIs ==
  ASSUME NEW events \in Seq(JournalEvents)
  PROVE  \E f : After(f, Len(events), events) /\ Replayed(events) = f[Len(events)]
PROOF
<1> DEFINE f == CHOOSE x : x = [i \in 0..Len(events) |->
                                  IF i = 0 THEN Empty ELSE ReplayOne(x[i - 1], events[i])]
<1>1. Replayed(events) = f[Len(events)]
  BY DEF Replayed
<1>2. \E x : x = [i \in 0..Len(events) |->
                    IF i = 0 THEN Empty ELSE ReplayOne(x[i - 1], events[i])]
  <2>1. Len(events) \in Nat
    OBVIOUS
  <2>2. PICK x : After(x, Len(events), events)
    BY <2>1, AfterExists
  <2>3. x = [i \in 0..Len(events) |->
               IF i = 0 THEN Empty ELSE ReplayOne(x[i - 1], events[i])]
    BY <2>2 DEF After
  <2> QED BY <2>3
<1>3. After(f, Len(events), events)
  BY <1>2 DEF After
<1> QED BY <1>1, <1>3

\* An event more is replayed last.
LEMMA ReplayGoesOn ==
  ASSUME NEW events \in Seq(JournalEvents), NEW ev \in JournalEvents
  PROVE  /\ Replayed(Append(events, ev)) = ReplayOne(Replayed(events), ev)
         /\ Replayed(<<>>) = Empty
PROOF
<1> DEFINE longer == Append(events, ev)
           n == Len(events)
<1>1. /\ longer \in Seq(JournalEvents) /\ Len(longer) = n + 1 /\ n \in Nat
      /\ \A i \in 1..n : longer[i] = events[i]
      /\ longer[n + 1] = ev
  OBVIOUS
<1> HIDE DEF longer
<1>2. PICK f : After(f, n, events) /\ Replayed(events) = f[n]
  BY ReplayedIs
<1>3. PICK g : After(g, n + 1, longer) /\ Replayed(longer) = g[n + 1]
  BY <1>1, ReplayedIs
<1>4. g[n] = f[n]
  <2> HIDE DEF n
  <2>1. n + 1 \in Nat /\ n \in 0..n + 1
    BY <1>1
  <2> QED BY <1>1, <1>2, <1>3, <2>1, AfterIsOne
<1>5. g[n + 1] = ReplayOne(g[n], longer[n + 1])
  <2>1. g = [i \in 0..n + 1 |-> IF i = 0 THEN Empty ELSE ReplayOne(g[i - 1], longer[i])]
    BY <1>3 DEF After
  <2>2. n + 1 \in 0..n + 1 /\ n + 1 # 0 /\ n + 1 - 1 = n
    BY <1>1
  <2> QED BY <2>1, <2>2
<1>6. Replayed(<<>>) = Empty
  <2>1. PICK h : After(h, Len(<<>>), <<>>) /\ Replayed(<<>>) = h[Len(<<>>)]
    <3>1. <<>> \in Seq(JournalEvents)
      OBVIOUS
    <3> QED BY <3>1, ReplayedIs
  <2>2. Len(<<>>) = 0
    OBVIOUS
  <2>3. h = [i \in 0..0 |-> IF i = 0 THEN Empty ELSE ReplayOne(h[i - 1], <<>>[i])]
    BY <2>1, <2>2 DEF After
  <2> QED BY <2>1, <2>2, <2>3
<1> QED BY <1>1, <1>2, <1>3, <1>4, <1>5, <1>6 DEF longer

\* What one more item leaves of a ledger.
LEMMA UpsertEntry ==
  ASSUME NEW l, NEW e, NEW p, NEW item
  PROVE  /\ Upsert(l, e, p, item)[p].exec = e
         /\ \A q \in DOMAIN l : q # p => Upsert(l, e, p, item)[q] = l[q]
BY DEF Upsert

\* All items of an execution on top of a ledger: its paths,
LEMMA UpsertAllDomain ==
  ASSUME NEW l, NEW e, NEW items
  PROVE  DOMAIN UpsertAll(l, e, items) = DOMAIN l \cup DOMAIN items
BY DEF UpsertAll

\* and its entries.
LEMMA UpsertAllEntry ==
  ASSUME NEW l, NEW e, NEW items
  PROVE  /\ \A p \in DOMAIN items : UpsertAll(l, e, items)[p].exec = e
         /\ \A p \in DOMAIN l \ DOMAIN items : UpsertAll(l, e, items)[p] = l[p]
PROOF
<1>1. ASSUME NEW p \in DOMAIN items PROVE UpsertAll(l, e, items)[p].exec = e
  <2>1. UpsertAll(l, e, items)[p] = Upsert(l, e, p, items[p])[p]
    BY DEF UpsertAll
  <2>2. Upsert(l, e, p, items[p])[p].exec = e
    BY UpsertEntry
  <2> QED BY <2>1, <2>2
<1>2. \A p \in DOMAIN l \ DOMAIN items : UpsertAll(l, e, items)[p] = l[p]
  BY DEF UpsertAll
<1> QED BY <1>1, <1>2

\* The ledger made anew, execution by execution.
Rebuilt(f, n, states, items) ==
  f = [e \in 0..n |-> IF e = 0 THEN Empty
                      ELSE IF states[e] = "gone" THEN f[e - 1]
                      ELSE UpsertAll(f[e - 1], e, items[e])]

\* There is such a ledger for any executions and diffs.
LEMMA RebuiltExists ==
  ASSUME NEW states, NEW items, NEW n \in Nat
  PROVE  \E f : Rebuilt(f, n, states, items)
PROOF
<1> DEFINE S == {i \in 0..n : \E f : Rebuilt(f, i, states, items)}
<1>1. 0 \in S
  <2> DEFINE f == [i \in 0..0 |-> Empty]
  <2>1. Rebuilt(f, 0, states, items)
    BY DEF Rebuilt
  <2> HIDE DEF f
  <2> QED BY <2>1
<1>2. ASSUME NEW i \in 0..n, i # n, i \in S PROVE i + 1 \in S
  <2>1. PICK f : Rebuilt(f, i, states, items)
    BY <1>2
  <2>2. f = [j \in 0..i |-> IF j = 0 THEN Empty
                            ELSE IF states[j] = "gone" THEN f[j - 1]
                            ELSE UpsertAll(f[j - 1], j, items[j])]
    BY <2>1 DEF Rebuilt
  <2> DEFINE last == IF states[i + 1] = "gone" THEN f[i]
                     ELSE UpsertAll(f[i], i + 1, items[i + 1])
             g == [j \in 0..i + 1 |-> IF j = i + 1 THEN last ELSE f[j]]
  <2>3. \A j \in 0..i + 1 :
          g[j] = IF j = 0 THEN Empty
                 ELSE IF states[j] = "gone" THEN g[j - 1]
                 ELSE UpsertAll(g[j - 1], j, items[j])
    <3> SUFFICES ASSUME NEW j \in 0..i + 1
                 PROVE  g[j] = IF j = 0 THEN Empty
                               ELSE IF states[j] = "gone" THEN g[j - 1]
                               ELSE UpsertAll(g[j - 1], j, items[j])
      OBVIOUS
    <3>1. CASE j = i + 1
      <4>1. g[j] = last /\ g[j - 1] = f[i] /\ j # 0
        BY <3>1
      <4> QED BY <3>1, <4>1
    <3>2. CASE j # i + 1
      <4>1. j \in 0..i /\ g[j] = f[j] /\ (j # 0 => g[j - 1] = f[j - 1])
        BY <3>2
      <4> QED BY <2>2, <4>1
    <3> QED BY <3>1, <3>2
  <2>4. g = [j \in 0..i + 1 |-> g[j]]
    OBVIOUS
  <2> HIDE DEF g
  <2>5. g = [j \in 0..i + 1 |-> IF j = 0 THEN Empty
                                ELSE IF states[j] = "gone" THEN g[j - 1]
                                ELSE UpsertAll(g[j - 1], j, items[j])]
    BY <2>3, <2>4
  <2>6. Rebuilt(g, i + 1, states, items)
    BY <2>5 DEF Rebuilt
  <2>7. i + 1 \in 0..n
    BY <1>2
  <2> QED BY <2>6, <2>7
<1> HIDE DEF S
<1>3. 0..n \subseteq S
  BY <1>1, <1>2, Stepwise
<1> QED BY <1>3 DEF S

\* The ledger made anew has the diffs of the executions that are left, and no others.
LEMMA RebuildKnows ==
  ASSUME NEW states, NEW items, NEW l, l = Rebuild(states, items)
  PROVE  /\ \A p \in DOMAIN l : /\ l[p].exec \in Executions /\ states[l[p].exec] # "gone"
                                /\ p \in DOMAIN items[l[p].exec]
         /\ \A e \in Executions : states[e] # "gone" => DOMAIN items[e] \subseteq DOMAIN l
PROOF
<1> DEFINE f == CHOOSE x : x = [e \in 0..MaxExecutions |->
                                  IF e = 0 THEN Empty
                                  ELSE IF states[e] = "gone" THEN x[e - 1]
                                  ELSE UpsertAll(x[e - 1], e, items[e])]
           Sound(k) == \A p \in DOMAIN f[k] : /\ f[k][p].exec \in 1..k
                                              /\ states[f[k][p].exec] # "gone"
                                              /\ p \in DOMAIN items[f[k][p].exec]
           Full(k) == \A e \in 1..k :
                        states[e] # "gone" => DOMAIN items[e] \subseteq DOMAIN f[k]
           S == {k \in 0..MaxExecutions : Sound(k) /\ Full(k)}
<1>1. l = f[MaxExecutions]
  BY DEF Rebuild
<1>2. \A e \in 0..MaxExecutions :
        f[e] = IF e = 0 THEN Empty
               ELSE IF states[e] = "gone" THEN f[e - 1]
               ELSE UpsertAll(f[e - 1], e, items[e])
  <2>1. MaxExecutions \in Nat
    BY ChangeAssumption
  <2>2. \E x : x = [e \in 0..MaxExecutions |->
                                  IF e = 0 THEN Empty
                                  ELSE IF states[e] = "gone" THEN x[e - 1]
                                  ELSE UpsertAll(x[e - 1], e, items[e])]
    <3>1. \E x : Rebuilt(x, MaxExecutions, states, items)
      BY <2>1, RebuiltExists
    <3> QED BY <3>1 DEF Rebuilt
  <2>3. f = [e \in 0..MaxExecutions |->
                                  IF e = 0 THEN Empty
                                  ELSE IF states[e] = "gone" THEN f[e - 1]
                                  ELSE UpsertAll(f[e - 1], e, items[e])]
    BY <2>2
  <2> HIDE DEF f
  <2> QED BY <2>3
<1> HIDE DEF f
<1>3. 0 \in S
  <2>1. 0 \in 0..MaxExecutions
    BY ChangeAssumption
  <2>2. f[0] = Empty
    BY <1>2, <2>1
  <2> QED BY <2>1, <2>2 DEF Empty
<1>4. ASSUME NEW k \in 0..MaxExecutions, k # MaxExecutions, k \in S PROVE k + 1 \in S
  <2>1. k + 1 \in 0..MaxExecutions /\ k + 1 # 0 /\ k + 1 - 1 = k
    BY <1>4, ChangeAssumption
  <2>2. f[k + 1] = IF states[k + 1] = "gone" THEN f[k]
                   ELSE UpsertAll(f[k], k + 1, items[k + 1])
    BY <1>2, <2>1
  <2>3. Sound(k) /\ Full(k)
    BY <1>4
  <2>4. CASE states[k + 1] = "gone"
    <3>1. f[k + 1] = f[k]
      BY <2>2, <2>4
    <3>2. Sound(k + 1)
      BY <2>3, <3>1
    <3>3. Full(k + 1)
      BY <2>3, <2>4, <3>1
    <3> QED BY <2>1, <3>2, <3>3
  <2>5. CASE states[k + 1] # "gone"
    <3>1. f[k + 1] = UpsertAll(f[k], k + 1, items[k + 1])
      BY <2>2, <2>5
    <3>2. /\ DOMAIN f[k + 1] = DOMAIN f[k] \cup DOMAIN items[k + 1]
          /\ \A p \in DOMAIN items[k + 1] : f[k + 1][p].exec = k + 1
          /\ \A p \in DOMAIN f[k] \ DOMAIN items[k + 1] : f[k + 1][p] = f[k][p]
      <4> DEFINE d == f[k]
                 ds == items[k + 1]
                 u == UpsertAll(d, k + 1, ds)
      <4>1. DOMAIN u = DOMAIN d \cup DOMAIN ds
        BY UpsertAllDomain
      <4>2. /\ \A p \in DOMAIN ds : u[p].exec = k + 1
            /\ \A p \in DOMAIN d \ DOMAIN ds : u[p] = d[p]
        BY UpsertAllEntry
      <4>3. f[k + 1] = u
        BY <3>1
      <4> HIDE DEF u
      <4> QED BY <4>1, <4>2, <4>3
    <3>3. Sound(k + 1)
      <4> SUFFICES ASSUME NEW p \in DOMAIN f[k + 1]
                   PROVE  /\ f[k + 1][p].exec \in 1..(k + 1)
                          /\ states[f[k + 1][p].exec] # "gone"
                          /\ p \in DOMAIN items[f[k + 1][p].exec]
        OBVIOUS
      <4>1. CASE p \in DOMAIN items[k + 1]
        <5>1. f[k + 1][p].exec = k + 1 /\ k + 1 \in 1..(k + 1)
          BY <3>2, <4>1
        <5> QED BY <2>5, <4>1, <5>1
      <4>2. CASE p \notin DOMAIN items[k + 1]
        <5>1. p \in DOMAIN f[k] /\ f[k + 1][p] = f[k][p]
          BY <3>2, <4>2
        <5>2. 1..k \subseteq 1..(k + 1)
          OBVIOUS
        <5> QED BY <2>3, <5>1, <5>2
      <4> QED BY <4>1, <4>2
    <3>4. Full(k + 1)
      <4>1. \A e \in 1..(k + 1) : e \in 1..k \/ e = k + 1
        OBVIOUS
      <4> QED BY <2>3, <3>2, <4>1
    <3> QED BY <2>1, <3>3, <3>4
  <2> QED BY <2>4, <2>5
<1>5. MaxExecutions \in S
  <2> HIDE DEF S
  <2>1. MaxExecutions \in Nat /\ MaxExecutions \in 0..MaxExecutions
    BY ChangeAssumption
  <2>2. 0..MaxExecutions \subseteq S
    BY <1>3, <1>4, <2>1, Stepwise
  <2> QED BY <2>1, <2>2
<1>6. Sound(MaxExecutions) /\ Full(MaxExecutions)
  BY <1>5
<1> QED BY <1>1, <1>6 DEF Executions
-------------------------------------------------------------------------------
(* What the steps have in common.                                             *)

\* After a step every dirty path is traced, or was dirty and not traced before it.
Carried ==
  \A p \in Dirty(disk', head') : Traced(p)' \/ (p \in Dirty(disk, head) /\ ~Traced(p))

\* An event more on its way.
LEMMA InboxAppend ==
  ASSUME inbox \in Seq(InboxEvents), NEW ev \in InboxEvents, inbox' = Append(inbox, ev)
  PROVE  /\ inbox' \in Seq(InboxEvents)
         /\ \A p : OnItsWay(p) => OnItsWay(p)'
         /\ ev.kind = "diff" => OnItsWay(ev.path)'
PROOF
<1>1. /\ inbox' \in Seq(InboxEvents) /\ Len(inbox') = Len(inbox) + 1 /\ Len(inbox) \in Nat
      /\ \A i \in 1..Len(inbox) : inbox'[i] = inbox[i]
      /\ inbox'[Len(inbox) + 1] = ev
  OBVIOUS
<1>2. ASSUME NEW p, OnItsWay(p) PROVE OnItsWay(p)'
  <2>1. PICK i \in 1..Len(inbox) : inbox[i].kind = "diff" /\ inbox[i].path = p
    BY <1>2 DEF OnItsWay
  <2>2. i \in 1..Len(inbox') /\ inbox'[i] = inbox[i]
    BY <1>1
  <2> QED BY <2>1, <2>2 DEF OnItsWay
<1>3. ev.kind = "diff" => OnItsWay(ev.path)'
  <2>1. Len(inbox) + 1 \in 1..Len(inbox')
    BY <1>1
  <2> QED BY <1>1, <2>1 DEF OnItsWay
<1> QED BY <1>1, <1>2, <1>3

\* An event less on its way.
LEMMA InboxTail ==
  ASSUME inbox \in Seq(InboxEvents), inbox # <<>>, inbox' = Tail(inbox)
  PROVE  /\ inbox' \in Seq(InboxEvents) /\ Head(inbox) \in InboxEvents
         /\ \A p : OnItsWay(p) =>
              OnItsWay(p)' \/ (Head(inbox).kind = "diff" /\ Head(inbox).path = p)
PROOF
<1>1. /\ inbox' \in Seq(InboxEvents) /\ Head(inbox) \in InboxEvents
      /\ Len(inbox) \in Nat /\ Len(inbox') = Len(inbox) - 1 /\ Len(inbox) # 0
      /\ Head(inbox) = inbox[1]
      /\ \A i \in 1..Len(inbox') : inbox'[i] = inbox[i + 1]
  BY EmptySeq, HeadTailProperties
<1>2. ASSUME NEW p, OnItsWay(p), ~(Head(inbox).kind = "diff" /\ Head(inbox).path = p)
      PROVE  OnItsWay(p)'
  <2>1. PICK i \in 1..Len(inbox) : inbox[i].kind = "diff" /\ inbox[i].path = p
    BY <1>2 DEF OnItsWay
  <2>2. i # 1
    BY <1>1, <1>2, <2>1
  <2>3. i - 1 \in 1..Len(inbox') /\ i - 1 + 1 = i
    BY <1>1, <2>2
  <2>4. inbox'[i - 1] = inbox[i]
    BY <1>1, <2>3
  <2> QED BY <2>1, <2>3, <2>4 DEF OnItsWay
<1> QED BY <1>1, <1>2

\* A journal with an event more.
LEMMA JournalGrows ==
  ASSUME journal \in Seq(JournalEvents), NEW ev \in JournalEvents,
         journal' = Append(journal, ev)
  PROVE  /\ journal' \in Seq(JournalEvents)
         /\ \A i \in 1..Len(journal') :
              journal'[i] = ev \/ (i \in 1..Len(journal) /\ journal'[i] = journal[i])
         /\ NeverRolled' => NeverRolled /\ ev.kind # "rollback"
         /\ Replay' = ReplayOne(Replay, ev)
PROOF
<1>1. /\ journal' \in Seq(JournalEvents) /\ Len(journal') = Len(journal) + 1
      /\ Len(journal) \in Nat
      /\ \A i \in 1..Len(journal) : journal'[i] = journal[i]
      /\ journal'[Len(journal) + 1] = ev
  OBVIOUS
<1>2. \A i \in 1..Len(journal') :
        journal'[i] = ev \/ (i \in 1..Len(journal) /\ journal'[i] = journal[i])
  <2>1. \A i \in 1..Len(journal) + 1 : i \in 1..Len(journal) \/ i = Len(journal) + 1
    BY <1>1
  <2> QED BY <1>1, <2>1
<1>3. NeverRolled' => NeverRolled /\ ev.kind # "rollback"
  <2>1. Len(journal) + 1 \in 1..Len(journal') /\ 1..Len(journal) \subseteq 1..Len(journal')
    BY <1>1
  <2> QED BY <1>1, <2>1 DEF NeverRolled
<1>4. Replay' = ReplayOne(Replay, ev)
  <2>1. Replayed(journal') = ReplayOne(Replayed(journal), ev)
    BY ReplayGoesOn
  <2> QED BY <2>1 DEF Replay
<1> QED BY <1>1, <1>2, <1>3, <1>4

\* A new change set: what was shown, called for and journaled before it is about others.
LEMMA NewIsNew ==
  ASSUME ChangeInv, NewId, NEW ev \in JournalEvents, journal' = Append(journal, ev),
         ev.kind \in {"commit", "discard"} => ev.id = csid' /\ ledger' = Empty, seen' = seen
  PROVE  /\ csid' \in Nat /\ lastId' \in Nat /\ csid' <= lastId' /\ seen'.id <= lastId'
         /\ SeenFits' /\ EmptyIds'
         /\ \A r \in Requests : calls[r].id # csid' /\ calls[r].id <= lastId'
PROOF
<1>1. /\ lastId \in Nat /\ seen.id \in Nat /\ seen.id <= lastId
      /\ \A r \in Requests : calls[r].id \in Nat /\ calls[r].id <= lastId
  BY DEF ChangeInv, ChangeTypes, CallType
<1>2. csid' = lastId + 1 /\ lastId' = lastId + 1
  BY DEF NewId
<1>3. SeenFits'
  BY <1>1, <1>2 DEF SeenFits
<1>4. EmptyIds'
  <2>1. \A i \in 1..Len(journal') :
          journal'[i] = ev \/ (i \in 1..Len(journal) /\ journal'[i] = journal[i])
    <3>1. journal \in Seq(JournalEvents)
      BY DEF ChangeInv, ChangeTypes
    <3> QED BY <3>1, JournalGrows
  <2>2. \A i \in 1..Len(journal) : journal[i].kind \in {"commit", "discard"} =>
          journal[i].id \in 0..lastId /\ journal[i].id # seen.id
    BY DEF ChangeInv, EmptyIds
  <2> SUFFICES ASSUME NEW i \in 1..Len(journal'), journal'[i].kind \in {"commit", "discard"}
               PROVE  /\ journal'[i].id \in 0..lastId' /\ journal'[i].id # seen'.id
                      /\ journal'[i].id = csid' => ledger' = Empty
    BY DEF EmptyIds
  <2>3. CASE journal'[i] = ev
    <3>1. journal'[i].id = lastId + 1 /\ ledger' = Empty
      BY <1>2, <2>3
    <3> QED BY <1>1, <1>2, <3>1
  <2>4. CASE i \in 1..Len(journal) /\ journal'[i] = journal[i]
    <3>1. journal'[i].id \in 0..lastId /\ journal'[i].id # seen.id
      BY <2>2, <2>4
    <3> QED BY <1>1, <1>2, <3>1
  <2> QED BY <2>1, <2>3, <2>4
<1> QED BY <1>1, <1>2, <1>3, <1>4

\* A step that leaves the ledger and its id alone and gives up no execution.
LEMMA Quiet ==
  ASSUME ChangeInv, UNCHANGED <<diffs, ledger, csid, lastId, journal, seen>>,
         \A e \in Executions : execs[e] # "gone" => execs'[e] # "gone"
  PROVE  /\ Known(ledger)' /\ Known(Replay)' /\ SeenFits' /\ EmptyIds'
         /\ NeverRolled' => ledger' = Replay'
PROOF
<1>1. Replay' = Replay
  BY DEF Replay
<1>2. Known(ledger)' /\ Known(Replay)'
  BY <1>1 DEF ChangeInv, Known, KnownIn
<1>3. SeenFits' /\ EmptyIds'
  BY DEF ChangeInv, SeenFits, EmptyIds
<1>4. NeverRolled' => ledger' = Replay'
  BY <1>1 DEF ChangeInv, NeverRolled
<1> QED BY <1>2, <1>3, <1>4

\* What is carried over leaves a call and the ledger what they were.
LEMMA CallStays ==
  ASSUME NEW r \in Requests, CallFits(r), calls'[r] = calls[r], csid' = csid,
         ledger' = ledger, Carried
  PROVE  CallFits(r)'
BY DEF CallFits, Carried

\* A call keeps its promise when its change set is not the pending one.
LEMMA OldCallFits ==
  ASSUME NEW r \in Requests, CallFits(r), calls'[r] = calls[r], calls[r].id # csid'
  PROVE  CallFits(r)'
BY DEF CallFits

\* What is carried over and pending stays so.
LEMMA UnseenStays ==
  ASSUME Unseen, Carried, DOMAIN ledger \subseteq DOMAIN ledger'
  PROVE  Unseen'
BY DEF Unseen, Carried

\* With the files as they were it is enough that what was traced is.
LEMMA AllCarried ==
  ASSUME UNCHANGED <<disk, head>>, \A p \in Dirty(disk, head) : Traced(p) => Traced(p)'
  PROVE  Carried
PROOF
<1>1. Dirty(disk', head') = Dirty(disk, head)
  OBVIOUS
<1> QED BY <1>1 DEF Carried

\* A place with no call promises nothing.
LEMMA NoCallFits ==
  ASSUME NEW r \in Requests, calls'[r] = NoCall
  PROVE  CallFits(r)'
BY DEF CallFits, NoCall
-------------------------------------------------------------------------------
(* The steps.                                                                 *)

\* A run starts.
LEMMA StartKeepsIt ==
  ASSUME ChangeInv, NEW e \in Executions, StartExecution(e)
  PROVE  ChangeInv'
PROOF
<1>1. /\ UNCHANGED <<disk, head, inbox, diffs, ledger, csid, lastId, journal, seen, calls,
                     excused, writes>>
      /\ execs' = [execs EXCEPT ![e] = "executing"] /\ alive' = alive \cup {e}
  BY DEF StartExecution
<1>2. ChangeTypes'
  BY <1>1 DEF ChangeInv, ChangeTypes
<1>3. \A f \in Executions : execs[f] # "gone" => execs'[f] # "gone"
  BY <1>1 DEF ChangeInv, ChangeTypes
<1>4. Carried
  <2>1. \A p : Traced(p)' <=> Traced(p)
    BY <1>1 DEF Traced, OnItsWay
  <2> QED BY <1>1, <2>1, AllCarried
<1>5. Unseen'
  BY <1>1, <1>4, UnseenStays DEF ChangeInv
<1>6. \A r \in Requests : CallFits(r)'
  BY <1>1, <1>4, CallStays DEF ChangeInv
<1> QED BY <1>1, <1>2, <1>3, <1>5, <1>6, Quiet DEF ChangeInv

\* The user ends an execution in the hub.
LEMMA StopKeepsIt ==
  ASSUME ChangeInv, NEW e \in Executions, StopExecution(e)
  PROVE  ChangeInv'
PROOF
<1>1. /\ UNCHANGED <<disk, head, alive, inbox, diffs, ledger, csid, lastId, journal, seen,
                     calls, excused, writes>>
      /\ execs' = [execs EXCEPT ![e] = "ended"]
  BY DEF StopExecution
<1>2. ChangeTypes'
  BY <1>1 DEF ChangeInv, ChangeTypes
<1>3. \A f \in Executions : execs[f] # "gone" => execs'[f] # "gone"
  BY <1>1 DEF ChangeInv, ChangeTypes
<1>4. Carried
  <2>1. \A p : Traced(p)' <=> Traced(p)
    BY <1>1 DEF Traced, OnItsWay
  <2> QED BY <1>1, <2>1, AllCarried
<1>5. Unseen'
  BY <1>1, <1>4, UnseenStays DEF ChangeInv
<1>6. \A r \in Requests : CallFits(r)'
  BY <1>1, <1>4, CallStays DEF ChangeInv
<1> QED BY <1>1, <1>2, <1>3, <1>5, <1>6, Quiet DEF ChangeInv

\* A run ends in the engine.
LEMMA EndKeepsIt ==
  ASSUME ChangeInv, NEW e \in Executions, RunEnds(e)
  PROVE  ChangeInv'
PROOF
<1> DEFINE ev == [kind |-> "end", exec |-> e]
<1>1. /\ UNCHANGED <<disk, head, execs, diffs, ledger, csid, lastId, journal, seen,
                     calls, excused, writes>>
      /\ inbox' = Append(inbox, ev) /\ alive' = alive \ {e}
  BY DEF RunEnds
<1>2. ev \in InboxEvents
  BY DEF InboxEvents
<1> HIDE DEF ev
<1>3. inbox' \in Seq(InboxEvents) /\ \A p : OnItsWay(p) => OnItsWay(p)'
  BY <1>1, <1>2, InboxAppend DEF ChangeInv, ChangeTypes
<1>4. ChangeTypes'
  BY <1>1, <1>3 DEF ChangeInv, ChangeTypes
<1>5. Carried
  <2>1. \A p : Traced(p) => Traced(p)'
    BY <1>1, <1>3 DEF Traced
  <2> QED BY <1>1, <2>1, AllCarried
<1>6. Unseen'
  BY <1>1, <1>5, UnseenStays DEF ChangeInv
<1>7. \A r \in Requests : CallFits(r)'
  BY <1>1, <1>5, CallStays DEF ChangeInv
<1>8. Known(ledger)' /\ Known(Replay)' /\ SeenFits' /\ EmptyIds'
      /\ (NeverRolled' => ledger' = Replay')
  BY <1>1, Quiet
<1> QED BY <1>4, <1>6, <1>7, <1>8 DEF ChangeInv

\* A tool writes a file: the path is dirty, and its diff is on its way.
LEMMA WriteKeepsIt ==
  ASSUME ChangeInv, NEW e \in Executions, NEW p \in Paths, ToolWrites(e, p)
  PROVE  ChangeInv'
PROOF
<1>0. PICK ev : ev = [kind |-> "diff", exec |-> e, path |-> p, before |-> disk[p],
                      type |-> IF disk[p] = 0 THEN "added" ELSE "modified"]
  OBVIOUS
<1>1. /\ UNCHANGED <<head, execs, alive, diffs, ledger, csid, lastId, journal, seen,
                     calls, excused>>
      /\ inbox' = Append(inbox, ev) /\ writes' = writes + 1
      /\ disk' = [disk EXCEPT ![p] = writes + 1]
  BY <1>0 DEF ToolWrites
<1>2. disk[p] \in Nat /\ disk \in [Paths -> Nat] /\ writes \in Nat
  BY DEF ChangeInv, ChangeTypes
<1>3. ev \in InboxEvents /\ ev.kind = "diff" /\ ev.path = p
  BY <1>0, <1>2 DEF InboxEvents, DiffEvents
<1>4. inbox' \in Seq(InboxEvents) /\ (\A q : OnItsWay(q) => OnItsWay(q)') /\ OnItsWay(p)'
  <2>1. ev.kind = "diff" => OnItsWay(ev.path)'
    BY <1>1, <1>3, InboxAppend DEF ChangeInv, ChangeTypes
  <2>2. inbox' \in Seq(InboxEvents) /\ \A q : OnItsWay(q) => OnItsWay(q)'
    BY <1>1, <1>3, InboxAppend DEF ChangeInv, ChangeTypes
  <2> QED BY <1>3, <2>1, <2>2
<1>5. ChangeTypes'
  <2>1. disk' \in [Paths -> Nat] /\ writes' \in Nat
    BY <1>1, <1>2
  <2> QED BY <1>1, <1>4, <2>1 DEF ChangeInv, ChangeTypes
<1>6. Carried
  <2> SUFFICES ASSUME NEW q \in Dirty(disk', head')
               PROVE  Traced(q)' \/ (q \in Dirty(disk, head) /\ ~Traced(q))
    BY DEF Carried
  <2>1. CASE q = p
    BY <1>4, <2>1 DEF Traced
  <2>2. CASE q # p
    <3>1. disk'[q] = disk[q] /\ head' = head /\ q \in Paths
      BY <1>1, <1>2, <2>2 DEF Dirty
    <3>2. q \in Dirty(disk, head)
      BY <3>1 DEF Dirty
    <3>3. Traced(q) => Traced(q)'
      BY <1>1, <1>4 DEF Traced
    <3> QED BY <3>2, <3>3
  <2> QED BY <2>1, <2>2
<1>7. Unseen'
  BY <1>1, <1>6, UnseenStays DEF ChangeInv
<1>8. \A r \in Requests : CallFits(r)'
  BY <1>1, <1>6, CallStays DEF ChangeInv
<1>9. Known(ledger)' /\ Known(Replay)' /\ SeenFits' /\ EmptyIds'
      /\ (NeverRolled' => ledger' = Replay')
  BY <1>1, Quiet
<1> QED BY <1>5, <1>7, <1>8, <1>9 DEF ChangeInv

\* The client fetches the change set.
LEMMA FetchKeepsIt ==
  ASSUME ChangeInv, FetchChangeSet
  PROVE  ChangeInv'
PROOF
<1>1. /\ UNCHANGED <<disk, head, execs, alive, inbox, diffs, ledger, csid, lastId, journal,
                     calls, excused, writes>>
      /\ seen' = [id |-> csid, entries |-> ledger] /\ ledger # Empty
  BY DEF FetchChangeSet
<1>2. seen'.id = csid /\ seen'.entries = ledger
  BY <1>1
<1>3. ChangeTypes'
  BY <1>1, <1>2 DEF ChangeInv, ChangeTypes
<1>4. SeenFits'
  BY <1>1, <1>2 DEF SeenFits
<1>5. EmptyIds'
  BY <1>1, <1>2 DEF ChangeInv, EmptyIds
<1>6. Known(ledger)' /\ Known(Replay)' /\ (NeverRolled' => ledger' = Replay') /\ Unseen'
  <2>1. Replay' = Replay
    BY <1>1 DEF Replay
  <2>2. Known(ledger)' /\ Known(Replay)' /\ (NeverRolled' => ledger' = Replay')
    BY <1>1, <2>1 DEF ChangeInv, Known, NeverRolled
  <2>3. Unseen'
    BY <1>1 DEF ChangeInv, Unseen, Traced, OnItsWay
  <2> QED BY <2>2, <2>3
<1>7. \A r \in Requests : CallFits(r)'
  BY <1>1 DEF ChangeInv, CallFits, Traced, OnItsWay
<1> QED BY <1>3, <1>4, <1>5, <1>6, <1>7 DEF ChangeInv

\* A commit or a discard starts on what its caller was shown.
LEMMA BeginKeepsIt ==
  ASSUME ChangeInv, NEW r \in Requests, NEW op \in {"commit", "discard"},
         BeginMutation(r, op)
  PROVE  ChangeInv'
PROOF
<1>1. /\ UNCHANGED <<disk, head, execs, alive, inbox, diffs, ledger, csid, lastId, journal,
                     seen, excused, writes>>
      /\ calls' = [calls EXCEPT ![r] = [op |-> op, entries |-> ledger, id |-> csid,
                                        shown |-> seen.entries, at |-> "driver"]]
      /\ seen.id = csid
  BY DEF BeginMutation, MayMutate
<1>2. /\ calls'[r] = [op |-> op, entries |-> ledger, id |-> csid,
                      shown |-> seen.entries, at |-> "driver"]
      /\ \A s \in Requests : s # r => calls'[s] = calls[s]
      /\ DOMAIN calls' = Requests
  BY <1>1 DEF ChangeInv, ChangeTypes
<1>3. /\ calls'[r].entries = ledger /\ calls'[r].shown = seen.entries /\ calls'[r].op = op
      /\ calls'[r].at = "driver" /\ calls'[r].id = csid
      /\ DOMAIN calls'[r] = {"op", "entries", "shown", "id", "at"}
  BY <1>2
<1>4. ChangeTypes'
  <2>1. CallType(calls'[r], lastId)
    BY <1>3 DEF ChangeInv, ChangeTypes, CallType
  <2> QED BY <1>1, <1>2, <2>1 DEF ChangeInv, ChangeTypes
<1>5. Carried
  <2>1. \A p : Traced(p)' <=> Traced(p)
    BY <1>1 DEF Traced, OnItsWay
  <2> QED BY <1>1, <2>1, AllCarried
<1>6. Unseen'
  BY <1>1, <1>5, UnseenStays DEF ChangeInv
<1>7. ASSUME NEW s \in Requests PROVE CallFits(s)'
  <2>1. CASE s = r
    <3>1. seen.entries = ledger
      BY <1>1 DEF ChangeInv, SeenFits
    <3> QED BY <1>1, <1>3, <2>1, <3>1 DEF CallFits
  <2>2. CASE s # r
    BY <1>1, <1>2, <1>5, <2>2, CallStays DEF ChangeInv
  <2> QED BY <2>1, <2>2
<1>8. Known(ledger)' /\ Known(Replay)' /\ SeenFits' /\ EmptyIds'
      /\ (NeverRolled' => ledger' = Replay')
  BY <1>1, Quiet
<1> QED BY <1>4, <1>6, <1>7, <1>8 DEF ChangeInv

\* What a restore leaves: a path of its items that differs from HEAD has been removed by
\* mistake, and is excused; another path is as it was. One that succeeds reaches all of them.
LEMMA RestoreCarries ==
  ASSUME ChangeTypes, NEW items, disk' \in Restored(items), UNCHANGED <<head, inbox>>,
         Excuse(Removed(items))
  PROVE  /\ disk' \in [Paths -> Nat] /\ Carried
         /\ Stuck(items) = {} =>
              \A p \in DOMAIN items : p \in Dirty(disk', head') => Traced(p)'
PROOF
<1>1. PICK ps : /\ disk' = [p \in Paths |-> IF p \in ps THEN RestoreOne(p, items) ELSE disk[p]]
                /\ ps \subseteq DOMAIN items /\ (Stuck(items) = {} => ps = DOMAIN items)
  <2> DEFINE before(p) == IF kind = "git" THEN \A q \in Stuck(items) : p < q ELSE FALSE
             all == IF Stuck(items) = {} THEN {DOMAIN items}
                    ELSE IF kind = "git" THEN {{p \in DOMAIN items : before(p)}}
                    ELSE SUBSET (DOMAIN items \ Stuck(items))
  <2>1. PICK ps \in all :
          disk' = [p \in Paths |-> IF p \in ps THEN RestoreOne(p, items) ELSE disk[p]]
    BY DEF Restored
  <2>2. ps \subseteq DOMAIN items /\ (Stuck(items) = {} => ps = DOMAIN items)
    <3>1. CASE Stuck(items) = {}
      BY <2>1, <3>1
    <3>2. CASE Stuck(items) # {} /\ kind = "git"
      <4>1. ps = {p \in DOMAIN items : before(p)}
        BY <2>1, <3>2
      <4> HIDE DEF before
      <4> QED BY <3>2, <4>1
    <3>3. CASE Stuck(items) # {} /\ kind # "git"
      <4>1. ps \in SUBSET (DOMAIN items \ Stuck(items))
        BY <2>1, <3>3
      <4> QED BY <3>3, <4>1
    <3> QED BY <3>1, <3>2, <3>3
  <2> QED BY <2>1, <2>2
<1>2. disk \in [Paths -> Nat] /\ head \in [Paths -> Nat]
  BY DEF ChangeTypes
<1>3. \A p \in Paths : RestoreOne(p, items) \in {0, head[p]}
  BY DEF RestoreOne
<1>4. disk' \in [Paths -> Nat]
  <2>1. \A p \in Paths : RestoreOne(p, items) \in Nat /\ disk[p] \in Nat
    BY <1>2, <1>3
  <2> QED BY <1>1, <2>1
<1>5. excused' = (excused \cup Removed(items)) \cap Dirty(disk', head')
  BY DEF Excuse
<1>6. ASSUME NEW p \in Dirty(disk', head'), p \in ps PROVE Traced(p)'
  <2>1. p \in Paths /\ disk'[p] # head[p]
    BY DEF Dirty
  <2>2. disk'[p] = RestoreOne(p, items)
    BY <1>1, <1>6, <2>1
  <2>3. RestoreOne(p, items) = 0 /\ head[p] # 0
    BY <1>3, <2>1, <2>2
  <2>4. p \in Removed(items)
    BY <1>1, <1>6, <2>3 DEF Removed
  <2>5. p \in excused'
    BY <1>5, <2>4
  <2> QED BY <2>5 DEF Traced
<1>7. Carried
  <2> SUFFICES ASSUME NEW p \in Dirty(disk', head')
               PROVE  Traced(p)' \/ (p \in Dirty(disk, head) /\ ~Traced(p))
    BY DEF Carried
  <2>1. CASE p \in ps
    BY <1>6, <2>1
  <2>2. CASE p \notin ps
    <3>1. p \in Paths /\ disk'[p] # head[p]
      BY DEF Dirty
    <3>2. p \in Dirty(disk, head)
      BY <1>1, <2>2, <3>1 DEF Dirty
    <3>3. OnItsWay(p) => OnItsWay(p)'
      BY DEF OnItsWay
    <3>4. p \in excused => p \in excused'
      BY <1>5
    <3> QED BY <3>2, <3>3, <3>4 DEF Traced
  <2> QED BY <2>1, <2>2
<1>8. Stuck(items) = {} => \A p \in DOMAIN items : p \in Dirty(disk', head') => Traced(p)'
  BY <1>1, <1>6
<1> QED BY <1>4, <1>7, <1>8

\* Nothing more is excused, and what is dirty was so before.
LEMMA FewerDirty ==
  ASSUME UNCHANGED inbox, Dirty(disk', head') \subseteq Dirty(disk, head), NEW paths,
         Excuse(paths)
  PROVE  Carried
PROOF
<1>1. excused' = (excused \cup paths) \cap Dirty(disk', head')
  BY DEF Excuse
<1>2. ASSUME NEW p \in Dirty(disk', head') PROVE Traced(p) => Traced(p)'
  <2>1. OnItsWay(p) => OnItsWay(p)'
    BY DEF OnItsWay
  <2>2. p \in excused => p \in excused'
    BY <1>1
  <2> QED BY <2>1, <2>2 DEF Traced
<1> QED BY <1>2 DEF Carried

\* The driver commits.
LEMMA CommitKeepsIt ==
  ASSUME ChangeInv, NEW r \in Requests, DriverCommits(r)
  PROVE  ChangeInv'
PROOF
<1>1. PICK entries : entries = calls[r].entries
  OBVIOUS
<1>2. /\ UNCHANGED <<disk, execs, alive, inbox, diffs, ledger, csid, lastId, journal, seen,
                     writes>>
      /\ Excuse({}) /\ calls[r].op = "commit" /\ calls[r].at = "driver"
      /\ \/ UNCHANGED head /\ calls' = [calls EXCEPT ![r] = NoCall]
         \/ /\ head' = [p \in Paths |-> IF p \in DOMAIN entries THEN disk[p] ELSE head[p]]
            /\ calls' = [calls EXCEPT ![r].at = "ledger"]
  BY <1>1 DEF DriverCommits
<1>3. /\ disk \in [Paths -> Nat] /\ head \in [Paths -> Nat] /\ DOMAIN calls = Requests
      /\ CallType(calls[r], lastId) /\ DOMAIN calls[r] = {"op", "entries", "shown", "id", "at"}
  BY DEF ChangeInv, ChangeTypes, CallType
<1>4. /\ head' \in [Paths -> Nat]
      /\ Dirty(disk', head') \subseteq Dirty(disk, head)
  <2>1. CASE UNCHANGED head
    BY <1>2, <1>3, <2>1
  <2>2. CASE head' = [p \in Paths |-> IF p \in DOMAIN entries THEN disk[p] ELSE head[p]]
    BY <1>2, <1>3, <2>2 DEF Dirty
  <2> QED BY <1>2, <2>1, <2>2
<1>5. Carried
  BY <1>2, <1>4, FewerDirty
<1>6. \A s \in Requests : s # r => calls'[s] = calls[s]
  BY <1>2, <1>3
<1>7. \/ calls'[r] = NoCall
      \/ /\ calls'[r].op = "commit" /\ calls'[r].at = "ledger"
         /\ calls'[r].entries = entries /\ calls'[r].shown = calls[r].shown
         /\ calls'[r].id = calls[r].id
         /\ DOMAIN calls'[r] = {"op", "entries", "shown", "id", "at"}
         /\ \A p \in DOMAIN entries : p \notin Dirty(disk', head')
  <2>1. CASE calls' = [calls EXCEPT ![r] = NoCall]
    BY <1>3, <2>1
  <2>2. CASE /\ head' = [p \in Paths |-> IF p \in DOMAIN entries THEN disk[p] ELSE head[p]]
             /\ calls' = [calls EXCEPT ![r].at = "ledger"]
    <3>1. \A p \in DOMAIN entries : p \notin Dirty(disk', head')
      BY <1>2, <2>2 DEF Dirty
    <3>2. calls'[r] = [calls[r] EXCEPT !.at = "ledger"]
      BY <1>3, <2>2
    <3> QED BY <1>1, <1>2, <1>3, <3>1, <3>2
  <2> QED BY <1>2, <2>1, <2>2
<1>8. ChangeTypes'
  <2>1. CallType(calls'[r], lastId)
    BY <1>3, <1>7 DEF CallType, NoCall, ChangeInv, ChangeTypes
  <2>2. DOMAIN calls' = Requests
    BY <1>2, <1>3
  <2> QED BY <1>2, <1>4, <1>6, <2>1, <2>2 DEF ChangeInv, ChangeTypes
<1>9. Unseen'
  BY <1>2, <1>5, UnseenStays DEF ChangeInv
<1>10. ASSUME NEW s \in Requests PROVE CallFits(s)'
  <2>1. CASE s # r
    BY <1>2, <1>5, <1>6, <2>1, CallStays DEF ChangeInv
  <2>2. CASE calls'[s] = NoCall
    BY <2>2, NoCallFits
  <2>3. CASE s = r /\ calls'[r] # NoCall
    <3>1. CallFits(r)
      BY DEF ChangeInv
    <3> QED BY <1>1, <1>2, <1>7, <2>3, <3>1 DEF CallFits
  <2> QED BY <2>1, <2>2, <2>3
<1>11. Known(ledger)' /\ Known(Replay)' /\ SeenFits' /\ EmptyIds'
       /\ (NeverRolled' => ledger' = Replay')
  BY <1>2, Quiet
<1> QED BY <1>8, <1>9, <1>10, <1>11 DEF ChangeInv

\* The driver discards.
LEMMA DiscardKeepsIt ==
  ASSUME ChangeInv, NEW r \in Requests, DriverDiscards(r)
  PROVE  ChangeInv'
PROOF
<1>1. PICK entries : entries = calls[r].entries
  OBVIOUS
<1>2. /\ UNCHANGED <<head, execs, alive, inbox, diffs, ledger, csid, lastId, journal, seen,
                     writes>>
      /\ disk' \in Restored(entries) /\ Excuse(Removed(entries))
      /\ calls[r].op = "discard" /\ calls[r].at = "driver"
      /\ calls' = [calls EXCEPT ![r] = IF Stuck(entries) # {} THEN NoCall
                                       ELSE [@ EXCEPT !.at = "ledger"]]
  BY <1>1 DEF DriverDiscards
<1>3. /\ DOMAIN calls = Requests /\ ChangeTypes
      /\ CallType(calls[r], lastId) /\ DOMAIN calls[r] = {"op", "entries", "shown", "id", "at"}
  BY DEF ChangeInv, ChangeTypes, CallType
<1>4. /\ disk' \in [Paths -> Nat] /\ Carried
      /\ Stuck(entries) = {} =>
           \A p \in DOMAIN entries : p \in Dirty(disk', head') => Traced(p)'
  BY <1>2, <1>3, RestoreCarries
<1>5. \A s \in Requests : s # r => calls'[s] = calls[s]
  BY <1>2, <1>3
<1>6. \/ calls'[r] = NoCall
      \/ /\ Stuck(entries) = {} /\ calls'[r].op = "discard" /\ calls'[r].at = "ledger"
         /\ calls'[r].entries = entries /\ calls'[r].shown = calls[r].shown
         /\ calls'[r].id = calls[r].id
         /\ DOMAIN calls'[r] = {"op", "entries", "shown", "id", "at"}
  <2>1. CASE Stuck(entries) # {}
    BY <1>2, <1>3, <2>1
  <2>2. CASE Stuck(entries) = {}
    <3>1. calls'[r] = [calls[r] EXCEPT !.at = "ledger"]
      BY <1>2, <1>3, <2>2
    <3> QED BY <1>1, <1>2, <1>3, <2>2, <3>1
  <2> QED BY <2>1, <2>2
<1>7. ChangeTypes'
  <2>1. CallType(calls'[r], lastId)
    BY <1>3, <1>6 DEF CallType, NoCall, ChangeInv, ChangeTypes
  <2>2. DOMAIN calls' = Requests
    BY <1>2, <1>3
  <2> QED BY <1>2, <1>4, <1>5, <2>1, <2>2 DEF ChangeInv, ChangeTypes
<1>8. Unseen'
  BY <1>2, <1>4, UnseenStays DEF ChangeInv
<1>9. ASSUME NEW s \in Requests PROVE CallFits(s)'
  <2>1. CASE s # r
    BY <1>2, <1>4, <1>5, <2>1, CallStays DEF ChangeInv
  <2>2. CASE calls'[s] = NoCall
    BY <2>2, NoCallFits
  <2>3. CASE s = r /\ calls'[r] # NoCall
    <3>1. CallFits(r)
      BY DEF ChangeInv
    <3> QED BY <1>1, <1>2, <1>4, <1>6, <2>3, <3>1 DEF CallFits
  <2> QED BY <2>1, <2>2, <2>3
<1>10. Known(ledger)' /\ Known(Replay)' /\ SeenFits' /\ EmptyIds'
       /\ (NeverRolled' => ledger' = Replay')
  BY <1>2, Quiet
<1> QED BY <1>7, <1>8, <1>9, <1>10 DEF ChangeInv

\* A ledger of nothing names nothing.
LEMMA NothingKnown ==
  ASSUME NEW states, NEW items
  PROVE  KnownIn(Empty, states, items)
BY DEF KnownIn, Empty

\* The ledger is emptied.
LEMMA FinishKeepsIt ==
  ASSUME ChangeInv, NEW r \in Requests, FinishMutation(r)
  PROVE  ChangeInv'
PROOF
<1>1. /\ UNCHANGED <<disk, head, execs, alive, inbox, diffs, seen, writes>>
      /\ NewId /\ csid' = lastId + 1 /\ lastId' = lastId + 1 /\ ledger' = Empty
      /\ journal' = Append(journal, [kind |-> calls[r].op, id |-> csid'])
      /\ calls' = [calls EXCEPT ![r] = NoCall] /\ calls[r].at = "ledger"
      /\ Excuse(IF Overtaken(r) THEN DOMAIN ledger ELSE {})
  BY DEF FinishMutation, NewId, Journaled
<1>2. PICK ev : ev = [kind |-> calls[r].op, id |-> csid']
  OBVIOUS
<1>3. /\ DOMAIN calls = Requests /\ journal \in Seq(JournalEvents) /\ lastId \in Nat
      /\ calls[r].op \in {"commit", "discard"}
  BY <1>1 DEF ChangeInv, ChangeTypes, CallType
<1>4. ev \in JournalEvents /\ ev.kind \in {"commit", "discard"} /\ ev.id = csid'
  BY <1>1, <1>2, <1>3 DEF JournalEvents
<1>5. /\ journal' \in Seq(JournalEvents) /\ Replay' = ReplayOne(Replay, ev)
  BY <1>1, <1>2, <1>3, <1>4, JournalGrows
<1>6. Replay' = Empty
  BY <1>4, <1>5 DEF ReplayOne
<1>7. /\ csid' \in Nat /\ lastId' \in Nat /\ csid' <= lastId' /\ seen'.id <= lastId'
      /\ SeenFits' /\ EmptyIds'
      /\ \A s \in Requests : calls[s].id # csid' /\ calls[s].id <= lastId'
  BY <1>1, <1>2, <1>4, NewIsNew
<1>8. /\ calls'[r] = NoCall /\ DOMAIN calls' = Requests
      /\ \A s \in Requests : s # r => calls'[s] = calls[s]
  BY <1>1, <1>3
<1>9. ChangeTypes'
  <2>1. CallType(calls'[r], lastId')
    BY <1>7, <1>8 DEF CallType, NoCall
  <2>2. ASSUME NEW s \in Requests, s # r PROVE CallType(calls'[s], lastId')
    BY <1>7, <1>8, <2>2 DEF CallType, ChangeInv, ChangeTypes
  <2> QED BY <1>1, <1>5, <1>7, <1>8, <2>1, <2>2 DEF ChangeInv, ChangeTypes
<1>10. \A s \in Requests : CallFits(s)'
  BY <1>7, <1>8, NoCallFits, OldCallFits DEF ChangeInv
<1>11. Known(ledger)' /\ Known(Replay)' /\ (NeverRolled' => ledger' = Replay')
  BY <1>1, <1>6, NothingKnown DEF Known
<1>12. Unseen'
  <2>1. Carried
    BY <1>1, FewerDirty
  <2>2. excused' = (excused \cup IF Overtaken(r) THEN DOMAIN ledger ELSE {})
                   \cap Dirty(disk', head')
    BY <1>1 DEF Excuse
  <2>3. Dirty(disk', head') = Dirty(disk, head)
    BY <1>1
  <2> SUFFICES ASSUME NEW p \in Dirty(disk', head'), ~Traced(p)' PROVE FALSE
    BY DEF Unseen
  <2>4. p \in Dirty(disk, head) /\ ~Traced(p)
    BY <2>1 DEF Carried
  <2>5. p \in DOMAIN ledger
    BY <2>4 DEF ChangeInv, Unseen
  <2>6. ~Overtaken(r)
    BY <2>2, <2>5 DEF Traced
  <2>7. calls[r].entries = ledger
    BY <1>1, <1>3, <2>6 DEF Overtaken, ChangeInv, CallFits
  <2>8. Traced(p)
    BY <1>1, <2>4, <2>5, <2>6, <2>7 DEF Overtaken, ChangeInv, CallFits
  <2> QED BY <2>4, <2>8
<1> QED BY <1>7, <1>9, <1>10, <1>11, <1>12 DEF ChangeInv

\* One more item among the diffs of an execution.
LEMMA MergeDomain ==
  ASSUME NEW d, NEW p, NEW item
  PROVE  DOMAIN Merge(d, p, item) = DOMAIN d \cup {p}
BY DEF Merge

\* A diff of an execution that is left: what is known of a ledger is known of it with the
\* diff on top.
LEMMA UpsertKnown ==
  ASSUME NEW l, NEW states, NEW items, NEW e \in Executions, NEW p, NEW item, NEW more,
         KnownIn(l, states, items), states[e] # "gone", DOMAIN items = Executions,
         more = [items EXCEPT ![e] = Merge(@, p, item)]
  PROVE  KnownIn(Upsert(l, e, p, item), states, more)
PROOF
<1>1. PICK u : u = Upsert(l, e, p, item)
  OBVIOUS
<1>2. DOMAIN u = DOMAIN l \cup {p}
  BY <1>1 DEF Upsert
<1>3. u[p].exec = e /\ \A q \in DOMAIN l : q # p => u[q] = l[q]
  BY <1>1, UpsertEntry
<1>4. PICK m : m = Merge(items[e], p, item)
  OBVIOUS
<1>5. DOMAIN m = DOMAIN items[e] \cup {p}
  BY <1>4, MergeDomain
<1>6. more[e] = m /\ \A f \in Executions : f # e => more[f] = items[f]
  BY <1>4
<1>7. ASSUME NEW q \in DOMAIN u
      PROVE  /\ u[q].exec \in Executions /\ states[u[q].exec] # "gone"
             /\ q \in DOMAIN more[u[q].exec]
  <2>1. CASE q = p
    BY <1>3, <1>5, <1>6, <2>1
  <2>2. CASE q # p
    <3>1. q \in DOMAIN l /\ u[q] = l[q]
      BY <1>2, <1>3, <2>2
    <3>2. /\ u[q].exec \in Executions /\ states[u[q].exec] # "gone"
          /\ q \in DOMAIN items[u[q].exec]
      BY <3>1 DEF KnownIn
    <3>3. q \in DOMAIN more[u[q].exec]
      BY <1>5, <1>6, <3>2
    <3> QED BY <3>2, <3>3
  <2> QED BY <2>1, <2>2
<1>8. KnownIn(u, states, more)
  BY <1>7 DEF KnownIn
<1> QED BY <1>1, <1>8

\* An event is projected.
LEMMA ProjectKeepsIt ==
  ASSUME ChangeInv, Project
  PROVE  ChangeInv'
PROOF
<1>1. PICK ev : ev = Head(inbox)
  OBVIOUS
<1>2. /\ UNCHANGED <<disk, head, alive, seen, calls, writes>>
      /\ inbox # <<>> /\ inbox' = Tail(inbox)
      /\ \/ /\ execs[ev.exec] = "gone"
            /\ UNCHANGED <<execs, diffs, ledger, csid, lastId, journal>>
            /\ excused' = IF ev.kind = "diff"
                          THEN (excused \cup {ev.path}) \cap Dirty(disk, head) ELSE excused
         \/ /\ execs[ev.exec] # "gone" /\ ev.kind = "end"
            /\ execs' = [execs EXCEPT ![ev.exec] = "ended"]
            /\ UNCHANGED <<diffs, ledger, csid, lastId, journal, excused>>
         \/ /\ execs[ev.exec] # "gone" /\ ev.kind = "diff"
            /\ diffs' = [diffs EXCEPT ![ev.exec] = Merge(@, ev.path, ev)]
            /\ ledger' = Upsert(ledger, ev.exec, ev.path, ev) /\ NewId
            /\ journal' = Append(journal, ev)
            /\ UNCHANGED <<execs, excused>>
  BY <1>1 DEF Project, Journaled
<1>3. /\ inbox' \in Seq(InboxEvents) /\ ev \in InboxEvents
      /\ \A p : OnItsWay(p) => OnItsWay(p)' \/ (ev.kind = "diff" /\ ev.path = p)
  <2>1. inbox \in Seq(InboxEvents)
    BY DEF ChangeInv, ChangeTypes
  <2> QED BY <1>1, <1>2, <2>1, InboxTail
<1>4. ev.exec \in Executions /\ (ev.kind = "diff" => ev \in JournalEvents)
  BY <1>3 DEF InboxEvents, DiffEvents, JournalEvents
<1>5. CASE UNCHANGED <<diffs, ledger, csid, lastId, journal>>
           /\ ~(execs[ev.exec] # "gone" /\ ev.kind = "diff")
  <2>1. /\ execs' \in [Executions -> {"none", "executing", "ended", "gone"}]
        /\ \A f \in Executions : execs[f] # "gone" => execs'[f] # "gone"
    <3>1. execs \in [Executions -> {"none", "executing", "ended", "gone"}]
      BY DEF ChangeInv, ChangeTypes
    <3>2. execs' = execs \/ execs' = [execs EXCEPT ![ev.exec] = "ended"]
      BY <1>2
    <3> QED BY <1>4, <3>1, <3>2
  <2>2. ASSUME NEW p \in Dirty(disk, head), Traced(p) PROVE Traced(p)'
    <3>1. p \in excused => p \in excused'
      BY <1>2
    <3>2. ev.kind = "diff" /\ ev.path = p => p \in excused'
      BY <1>2, <1>5
    <3>3. OnItsWay(p) => OnItsWay(p)' \/ p \in excused'
      BY <1>3, <3>2
    <3> QED BY <2>2, <3>1, <3>3 DEF Traced
  <2>3. Carried
    BY <1>2, <2>2, AllCarried
  <2>4. ChangeTypes'
    BY <1>2, <1>3, <1>5, <2>1 DEF ChangeInv, ChangeTypes
  <2>5. Unseen'
    BY <1>5, <2>3, UnseenStays DEF ChangeInv
  <2>6. \A r \in Requests : CallFits(r)'
    BY <1>2, <1>5, <2>3, CallStays DEF ChangeInv
  <2>7. Known(ledger)' /\ Known(Replay)' /\ SeenFits' /\ EmptyIds'
        /\ (NeverRolled' => ledger' = Replay')
    BY <1>2, <1>5, <2>1, Quiet
  <2> QED BY <2>4, <2>5, <2>6, <2>7 DEF ChangeInv
<1>6. CASE execs[ev.exec] # "gone" /\ ev.kind = "diff"
  <2>1. /\ diffs' = [diffs EXCEPT ![ev.exec] = Merge(@, ev.path, ev)]
        /\ ledger' = Upsert(ledger, ev.exec, ev.path, ev) /\ NewId
        /\ journal' = Append(journal, ev)
        /\ UNCHANGED <<execs, excused>>
    BY <1>2, <1>6
  <2>2. /\ journal \in Seq(JournalEvents) /\ DOMAIN diffs = Executions
        /\ ev \in JournalEvents /\ ev.kind \notin {"commit", "discard"}
    BY <1>4, <1>6 DEF ChangeInv, ChangeTypes
  <2>3. /\ journal' \in Seq(JournalEvents) /\ Replay' = ReplayOne(Replay, ev)
        /\ (NeverRolled' => NeverRolled)
    BY <2>1, <2>2, JournalGrows
  <2>4. Replay' = Upsert(Replay, ev.exec, ev.path, ev)
    BY <1>6, <2>3 DEF ReplayOne
  <2>5. /\ csid' \in Nat /\ lastId' \in Nat /\ csid' <= lastId' /\ seen'.id <= lastId'
        /\ SeenFits' /\ EmptyIds'
        /\ \A s \in Requests : calls[s].id # csid' /\ calls[s].id <= lastId'
    BY <1>2, <2>1, <2>2, NewIsNew
  <2>6. ChangeTypes'
    <3>1. ASSUME NEW s \in Requests PROVE CallType(calls'[s], lastId')
      BY <1>2, <2>5 DEF CallType, ChangeInv, ChangeTypes
    <3>2. DOMAIN diffs' = Executions
      BY <2>1, <2>2
    <3> QED BY <1>2, <1>3, <2>1, <2>3, <2>5, <3>1, <3>2 DEF ChangeInv, ChangeTypes
  <2>7. \A s \in Requests : CallFits(s)'
    BY <1>2, <2>5, OldCallFits DEF ChangeInv
  <2>8. Known(ledger)'
    <3>1. KnownIn(ledger', execs, diffs')
      BY <1>4, <1>6, <2>1, <2>2, UpsertKnown DEF ChangeInv, Known
    <3> QED BY <2>1, <3>1 DEF Known
  <2>9. Known(Replay)'
    <3>1. KnownIn(Replay', execs, diffs')
      BY <1>4, <1>6, <2>1, <2>2, <2>4, UpsertKnown DEF ChangeInv, Known
    <3> QED BY <2>1, <3>1 DEF Known
  <2>10. NeverRolled' => ledger' = Replay'
    BY <2>1, <2>3, <2>4 DEF ChangeInv
  <2>11. Unseen'
    <3>1. DOMAIN ledger' = DOMAIN ledger \cup {ev.path}
      BY <2>1 DEF Upsert
    <3>2. Dirty(disk', head') = Dirty(disk, head)
      BY <1>2
    <3>3. \A p : Traced(p) => Traced(p)' \/ p = ev.path
      BY <1>3, <2>1 DEF Traced
    <3> QED BY <3>1, <3>2, <3>3 DEF ChangeInv, Unseen
  <2> QED BY <2>5, <2>6, <2>7, <2>8, <2>9, <2>10, <2>11 DEF ChangeInv
<1> QED BY <1>2, <1>5, <1>6

\* A rollback that succeeds restores every path of which it drops a pending entry, or, when
\* it knows of none of a git project, what git says has changed.
LEMMA RollbackReaches ==
  ASSUME NEW gone \in SUBSET Executions, NEW items \in RollbackItems(gone),
         Known(ledger), NEW p \in DOMAIN ledger, ledger[p].exec \in gone
  PROVE  p \in DOMAIN items
PROOF
<1> DEFINE paths == UNION {DOMAIN diffs[f] : f \in gone}
           known(q) == {diffs[f][q] : f \in {g \in gone : q \in DOMAIN diffs[g]}}
<1>1. p \in DOMAIN diffs[ledger[p].exec]
  BY DEF Known, KnownIn
<1>2. p \in paths
  BY <1>1
<1>3. CASE kind = "non_git"
  <2>1. items = Restrict(ledger, {q \in DOMAIN ledger : ledger[q].exec \in gone})
    BY <1>3 DEF RollbackItems
  <2> QED BY <2>1 DEF Restrict
<1>4. CASE kind # "non_git"
  <2>1. items \in {i \in [paths -> UNION {known(q) : q \in paths}] :
                     \A q \in paths : i[q] \in known(q)}
    <3>1. paths # {}
      BY <1>2
    <3> QED BY <1>4, <3>1 DEF RollbackItems
  <2> HIDE DEF paths, known
  <2>2. DOMAIN items = paths
    BY <2>1
  <2> QED BY <1>2, <2>2
<1> QED BY <1>3, <1>4

\* A rollback leaves what it restores clean, and keeps the entries of the rest.
LEMMA RollbackKeepsIt ==
  ASSUME ChangeInv, NEW e \in Executions, Rollback(e)
  PROVE  ChangeInv'
PROOF
<1>1. PICK gone : gone = {f \in Executions : f > e /\ execs[f] \in {"executing", "ended"}}
  OBVIOUS
<1>2. PICK items \in RollbackItems(gone) :
        /\ disk' \in Restored(items) /\ UNCHANGED head
        /\ Excuse(Removed(items))
        /\ \/ Stuck(items) # {} /\ UNCHANGED <<execs, diffs, ledger, csid, lastId, journal>>
           \/ /\ Stuck(items) = {}
              /\ execs' = [f \in Executions |-> IF f \in gone THEN "gone" ELSE execs[f]]
              /\ diffs' = [f \in Executions |-> IF f \in gone THEN Empty ELSE diffs[f]]
              /\ ledger' = Rebuild(execs', diffs') /\ NewId
              /\ journal' = Append(journal, [kind |-> "rollback"])
        /\ UNCHANGED <<kind, alive, inbox, seen, calls, writes>>
  BY <1>1 DEF Rollback, Journaled
<1>3. /\ disk' \in [Paths -> Nat] /\ Carried
      /\ Stuck(items) = {} =>
           \A p \in DOMAIN items : p \in Dirty(disk', head') => Traced(p)'
  <2>1. ChangeTypes
    BY DEF ChangeInv
  <2> QED BY <1>2, <2>1, RestoreCarries
<1>4. CASE UNCHANGED <<execs, diffs, ledger, csid, lastId, journal>>
  <2>1. ChangeTypes'
    BY <1>2, <1>3, <1>4 DEF ChangeInv, ChangeTypes
  <2>2. Unseen'
    BY <1>3, <1>4, UnseenStays DEF ChangeInv
  <2>3. \A r \in Requests : CallFits(r)'
    BY <1>2, <1>3, <1>4, CallStays DEF ChangeInv
  <2>4. Known(ledger)' /\ Known(Replay)' /\ SeenFits' /\ EmptyIds'
        /\ (NeverRolled' => ledger' = Replay')
    BY <1>2, <1>4, Quiet
  <2> QED BY <2>1, <2>2, <2>3, <2>4 DEF ChangeInv
<1>5. CASE /\ Stuck(items) = {}
           /\ execs' = [f \in Executions |-> IF f \in gone THEN "gone" ELSE execs[f]]
           /\ diffs' = [f \in Executions |-> IF f \in gone THEN Empty ELSE diffs[f]]
           /\ ledger' = Rebuild(execs', diffs') /\ NewId
           /\ journal' = Append(journal, [kind |-> "rollback"])
  <2>1. PICK ev : ev = [kind |-> "rollback"]
    OBVIOUS
  <2>2. ev \in JournalEvents /\ ev.kind = "rollback" /\ journal \in Seq(JournalEvents)
    BY <2>1 DEF JournalEvents, ChangeInv, ChangeTypes
  <2>3. /\ journal' \in Seq(JournalEvents) /\ Replay' = ReplayOne(Replay, ev)
        /\ ~NeverRolled'
    BY <1>5, <2>1, <2>2, JournalGrows
  <2>4. Replay' = Empty
    BY <2>2, <2>3 DEF ReplayOne
  <2>5. /\ csid' \in Nat /\ lastId' \in Nat /\ csid' <= lastId' /\ seen'.id <= lastId'
        /\ SeenFits' /\ EmptyIds'
        /\ \A s \in Requests : calls[s].id # csid' /\ calls[s].id <= lastId'
    BY <1>2, <1>5, <2>1, <2>2, NewIsNew
  <2>6. ChangeTypes'
    <3>1. ASSUME NEW s \in Requests PROVE CallType(calls'[s], lastId')
      BY <1>2, <2>5 DEF CallType, ChangeInv, ChangeTypes
    <3>2. /\ DOMAIN diffs' = Executions
          /\ execs' \in [Executions -> {"none", "executing", "ended", "gone"}]
      BY <1>5 DEF ChangeInv, ChangeTypes
    <3> QED BY <1>2, <1>3, <2>3, <2>5, <3>1, <3>2 DEF ChangeInv, ChangeTypes
  <2>7. \A s \in Requests : CallFits(s)'
    BY <1>2, <2>5, OldCallFits DEF ChangeInv
  <2>8. PICK l, states, diff : l = ledger' /\ states = execs' /\ diff = diffs'
    OBVIOUS
  <2>9. /\ \A p \in DOMAIN l : /\ l[p].exec \in Executions /\ states[l[p].exec] # "gone"
                               /\ p \in DOMAIN diff[l[p].exec]
        /\ \A f \in Executions : states[f] # "gone" => DOMAIN diff[f] \subseteq DOMAIN l
    <3>1. l = Rebuild(states, diff)
      BY <1>5, <2>8
    <3> QED BY <3>1, RebuildKnows
  <2>10. Known(ledger)' /\ Known(Replay)'
    BY <2>4, <2>8, <2>9, NothingKnown DEF Known, KnownIn
  <2>11. Unseen'
    <3> SUFFICES ASSUME NEW p \in Dirty(disk', head'), ~Traced(p)' PROVE p \in DOMAIN ledger'
      BY DEF Unseen
    <3>1. p \in Dirty(disk, head) /\ ~Traced(p)
      BY <1>3 DEF Carried
    <3>2. p \in DOMAIN ledger /\ Known(ledger)
      BY <3>1 DEF ChangeInv, Unseen
    <3>3. PICK f : f = ledger[p].exec
      OBVIOUS
    <3>4. f \in Executions /\ execs[f] # "gone" /\ p \in DOMAIN diffs[f]
      BY <3>2, <3>3 DEF Known, KnownIn
    <3>5. f \notin gone
      <4>1. p \notin DOMAIN items
        BY <1>3, <1>5
      <4>2. gone \in SUBSET Executions
        BY <1>1
      <4> QED BY <3>2, <3>3, <4>1, <4>2, RollbackReaches
    <3>6. states[f] # "gone" /\ p \in DOMAIN diff[f]
      BY <1>5, <2>8, <3>4, <3>5
    <3> QED BY <2>8, <2>9, <3>4, <3>6
  <2> QED BY <2>3, <2>5, <2>6, <2>7, <2>10, <2>11 DEF ChangeInv
<1> QED BY <1>2, <1>4, <1>5

\* A journal whose last event accepts or refuses a change set leaves an empty ledger.
LEMMA AcceptedLast ==
  ASSUME journal \in Seq(JournalEvents), journal # <<>>,
         journal[Len(journal)].kind \in {"commit", "discard"}
  PROVE  Replay = Empty
PROOF
<1>1. PICK n : n = Len(journal)
  OBVIOUS
<1>2. n \in Nat /\ n # 0
  BY <1>1, EmptySeq
<1>3. PICK f : After(f, n, journal) /\ Replayed(journal) = f[n]
  BY <1>1, ReplayedIs
<1>4. f[n] = ReplayOne(f[n - 1], journal[n])
  <2>1. f = [i \in 0..n |-> IF i = 0 THEN Empty ELSE ReplayOne(f[i - 1], journal[i])]
    BY <1>3 DEF After
  <2>2. n \in 0..n
    BY <1>2
  <2> QED BY <1>2, <2>1, <2>2
<1>5. f[n] = Empty
  BY <1>1, <1>4 DEF ReplayOne
<1> QED BY <1>3, <1>5 DEF Replay

\* The hub restarts.
LEMMA RestartKeepsIt ==
  ASSUME ChangeInv, Restart
  PROVE  ChangeInv'
PROOF
<1>1. PICK last :
        last = IF journal # <<>> /\ journal[Len(journal)].kind \in {"commit", "discard"}
               THEN journal[Len(journal)].id ELSE 0
  OBVIOUS
<1>2. PICK wrote, rolled :
        /\ wrote = {inbox[i].path : i \in {j \in DOMAIN inbox : inbox[j].kind = "diff"}}
        /\ rolled = \E i \in DOMAIN journal : journal[i].kind = "rollback"
  OBVIOUS
<1>3. /\ UNCHANGED <<disk, head, execs, diffs, journal, seen, writes>>
      /\ alive' = {} /\ inbox' = <<>> /\ calls' = [r \in Requests |-> NoCall]
      /\ ledger' = Replay
      /\ (last # 0 /\ csid' = last /\ UNCHANGED lastId) \/ (last = 0 /\ NewId)
      /\ Excuse(wrote \cup IF rolled THEN DOMAIN ledger ELSE {})
  BY <1>1, <1>2 DEF Restart
<1>4. /\ journal \in Seq(JournalEvents) /\ inbox \in Seq(InboxEvents)
      /\ lastId \in Nat /\ seen.id \in Nat /\ seen.id <= lastId
      /\ \A i \in 1..Len(journal) : journal[i].kind \in {"commit", "discard"} =>
           journal[i].id \in 0..lastId /\ journal[i].id # seen.id
  BY DEF ChangeInv, ChangeTypes, EmptyIds
<1>5. Replay' = Replay
  BY <1>3 DEF Replay
<1>6. \/ /\ lastId' = lastId /\ csid' \in 0..lastId /\ csid' # seen.id /\ ledger' = Empty
      \/ lastId' = lastId + 1 /\ csid' = lastId + 1
  <2>1. CASE last # 0 /\ csid' = last /\ UNCHANGED lastId
    <3>1. /\ journal # <<>> /\ journal[Len(journal)].kind \in {"commit", "discard"}
          /\ last = journal[Len(journal)].id
      BY <1>1, <2>1
    <3>2. Len(journal) \in 1..Len(journal)
      BY <1>4, <3>1, EmptySeq
    <3>3. last \in 0..lastId /\ last # seen.id
      BY <1>4, <3>1, <3>2
    <3>4. ledger' = Empty
      BY <1>3, <1>4, <3>1, AcceptedLast
    <3> QED BY <2>1, <3>3, <3>4
  <2>2. CASE last = 0 /\ NewId
    BY <2>2 DEF NewId
  <2> QED BY <1>3, <2>1, <2>2
<1>7. SeenFits' /\ EmptyIds'
  <2>1. csid' # seen'.id
    BY <1>3, <1>4, <1>6
  <2>2. SeenFits'
    BY <2>1 DEF SeenFits
  <2>3. ASSUME NEW i \in 1..Len(journal'), journal'[i].kind \in {"commit", "discard"}
        PROVE  /\ journal'[i].id \in 0..lastId' /\ journal'[i].id # seen'.id
               /\ journal'[i].id = csid' => ledger' = Empty
    <3>1. journal'[i].id \in 0..lastId /\ journal'[i].id # seen'.id
      BY <1>3, <1>4, <2>3
    <3> QED BY <1>4, <1>6, <3>1
  <2> QED BY <2>2, <2>3 DEF EmptyIds
<1>8. ChangeTypes'
  <2>1. ASSUME NEW s \in Requests PROVE CallType(calls'[s], lastId')
    <3>1. calls'[s] = NoCall /\ lastId' \in Nat
      BY <1>3, <1>4, <1>6
    <3> QED BY <3>1 DEF CallType, NoCall
  <2>2. inbox' \in Seq(InboxEvents) /\ DOMAIN calls' = Requests
    BY <1>3
  <2>3. csid' \in Nat /\ lastId' \in Nat /\ csid' <= lastId' /\ seen'.id <= lastId'
    BY <1>3, <1>4, <1>6
  <2> QED BY <1>3, <2>1, <2>2, <2>3 DEF ChangeInv, ChangeTypes
<1>9. \A s \in Requests : CallFits(s)'
  BY <1>3, NoCallFits
<1>10. Known(ledger)' /\ Known(Replay)' /\ (NeverRolled' => ledger' = Replay')
  BY <1>3, <1>5 DEF ChangeInv, Known
<1>11. Unseen'
  <2>1. Dirty(disk', head') = Dirty(disk, head)
    BY <1>3
  <2>2. excused' = (excused \cup (wrote \cup IF rolled THEN DOMAIN ledger ELSE {}))
                   \cap Dirty(disk', head')
    BY <1>3 DEF Excuse
  <2> SUFFICES ASSUME NEW p \in Dirty(disk', head'), p \notin excused'
               PROVE  p \in DOMAIN ledger'
    BY DEF Unseen, Traced
  <2>3. p \in Dirty(disk, head) /\ p \notin excused /\ p \notin wrote
        /\ (rolled => p \notin DOMAIN ledger)
    BY <2>1, <2>2
  <2>4. ~OnItsWay(p)
    <3>1. DOMAIN inbox = 1..Len(inbox)
      BY <1>4
    <3> QED BY <1>2, <2>3, <3>1 DEF OnItsWay
  <2>5. p \in DOMAIN ledger
    BY <2>3, <2>4 DEF ChangeInv, Unseen, Traced
  <2>6. NeverRolled
    <3>1. DOMAIN journal = 1..Len(journal)
      BY <1>4
    <3> QED BY <1>2, <2>3, <2>5, <3>1 DEF NeverRolled
  <2> QED BY <1>3, <2>5, <2>6 DEF ChangeInv
<1> QED BY <1>7, <1>8, <1>9, <1>10, <1>11 DEF ChangeInv

\* Nothing is pending at the start.
LEMMA ChangeStarts ==
  ASSUME ChangeInit
  PROVE  ChangeInv
PROOF
<1>1. /\ disk = [p \in Paths |-> IF p \in Tracked THEN 1 ELSE 0] /\ head = disk
      /\ execs = [e \in Executions |-> "none"] /\ alive = {} /\ inbox = <<>>
      /\ diffs = [e \in Executions |-> Empty]
      /\ ledger = Empty /\ csid = 1 /\ lastId = 1 /\ journal = <<>>
      /\ seen = [id |-> 0, entries |-> Empty] /\ calls = [r \in Requests |-> NoCall]
      /\ writes = 1
  BY DEF ChangeInit
<1>2. Replay = Empty
  <2>1. PICK ev : ev = [kind |-> "rollback"]
    OBVIOUS
  <2>2. <<>> \in Seq(JournalEvents) /\ ev \in JournalEvents
    BY <2>1 DEF JournalEvents
  <2>3. Replayed(<<>>) = Empty
    BY <2>2, ReplayGoesOn
  <2> QED BY <1>1, <2>3 DEF Replay
<1>3. ChangeTypes
  <2>1. \A r \in Requests : CallType(calls[r], lastId)
    BY <1>1 DEF CallType, NoCall
  <2>2. inbox \in Seq(InboxEvents) /\ journal \in Seq(JournalEvents) /\ Len(journal) = 0
    BY <1>1
  <2>3. disk \in [Paths -> Nat] /\ head \in [Paths -> Nat]
    BY <1>1
  <2> QED BY <1>1, <2>1, <2>2, <2>3 DEF ChangeTypes
<1>4. Unseen /\ SeenFits /\ EmptyIds
  <2>1. 1..Len(journal) = {}
    BY <1>1
  <2>2. Unseen
    BY <1>1 DEF Unseen, Dirty
  <2>3. SeenFits
    BY <1>1 DEF SeenFits
  <2>4. EmptyIds
    BY <2>1 DEF EmptyIds
  <2> QED BY <2>2, <2>3, <2>4
<1>5. Known(ledger) /\ Known(Replay) /\ ledger = Replay
  BY <1>1, <1>2, NothingKnown DEF Known
<1>6. \A r \in Requests : CallFits(r)
  BY <1>1 DEF CallFits, NoCall
<1> QED BY <1>3, <1>4, <1>5, <1>6 DEF ChangeInv

\* Nothing happens.
LEMMA ChangeStays ==
  ASSUME ChangeInv, UNCHANGED changeVars
  PROVE  ChangeInv'
PROOF
<1>1. /\ UNCHANGED <<disk, head, execs, alive, inbox, diffs, ledger, csid, lastId, journal,
                     seen, calls, excused, writes>>
  BY DEF changeVars
<1>2. ChangeTypes'
  BY <1>1 DEF ChangeInv, ChangeTypes
<1>3. Carried
  <2>1. \A p : Traced(p)' <=> Traced(p)
    BY <1>1 DEF Traced, OnItsWay
  <2> QED BY <1>1, <2>1, AllCarried
<1>4. Unseen'
  BY <1>1, <1>3, UnseenStays DEF ChangeInv
<1>5. \A r \in Requests : CallFits(r)'
  BY <1>1, <1>3, CallStays DEF ChangeInv
<1>6. Known(ledger)' /\ Known(Replay)' /\ SeenFits' /\ EmptyIds'
      /\ (NeverRolled' => ledger' = Replay')
  BY <1>1, Quiet
<1> QED BY <1>2, <1>4, <1>5, <1>6 DEF ChangeInv

\* The invariant is what the ledger promises, and more.
LEMMA ChangeSuffices ==
  ASSUME ChangeInv
  PROVE  LedgerIsComplete
PROOF
<1>1. DOMAIN inbox = 1..Len(inbox) /\ DOMAIN journal = 1..Len(journal)
  BY DEF ChangeInv, ChangeTypes
<1>2. EscapesOnly
  BY <1>1 DEF EscapesOnly, ChangeInv, Unseen, Traced, OnItsWay
<1>3. ReplayAgrees
  BY <1>1 DEF ReplayAgrees, ChangeInv, NeverRolled
<1>4. ActsOnWhatWasShown
  BY DEF ActsOnWhatWasShown, ChangeInv, CallFits
<1> QED BY <1>2, <1>3, <1>4 DEF LedgerIsComplete

\* What a tool has changed is pending, or on its way, or lost in one of the named ways; a
\* restart brings back the same ledger as long as nothing was rolled back; and a commit or a
\* discard works on what its caller was shown: with any number of paths, executions and
\* requests.
THEOREM LedgerComplete == ChangeSpec => []LedgerIsComplete
PROOF
<1>1. ChangeInit => ChangeInv
  BY ChangeStarts
<1>2. ChangeInv /\ [ChangeNext]_changeVars => ChangeInv'
  <2> SUFFICES ASSUME ChangeInv, [ChangeNext]_changeVars PROVE ChangeInv'
    OBVIOUS
  <2>1. CASE \E e \in Executions : \/ StartExecution(e) \/ RunEnds(e) \/ StopExecution(e)
                                   \/ Rollback(e) \/ \E p \in Paths : ToolWrites(e, p)
    BY <2>1, StartKeepsIt, EndKeepsIt, StopKeepsIt, RollbackKeepsIt, WriteKeepsIt
  <2>2. CASE \E r \in Requests : \/ DriverCommits(r) \/ DriverDiscards(r) \/ FinishMutation(r)
                                 \/ \E op \in {"commit", "discard"} : BeginMutation(r, op)
    BY <2>2, CommitKeepsIt, DiscardKeepsIt, FinishKeepsIt, BeginKeepsIt
  <2>3. CASE FetchChangeSet \/ Project \/ Restart
    BY <2>3, FetchKeepsIt, ProjectKeepsIt, RestartKeepsIt
  <2>4. CASE UNCHANGED changeVars
    BY <2>4, ChangeStays
  <2> QED BY <2>1, <2>2, <2>3, <2>4 DEF ChangeNext
<1>3. ChangeInv => LedgerIsComplete
  BY ChangeSuffices
<1> QED BY <1>1, <1>2, <1>3, PTL DEF ChangeSpec
-------------------------------------------------------------------------------
(* A prompt over ACP sees its run: all of its events, in order, and no others, *)
(* whatever the number of sessions, lines and deltas and the channels' size.   *)
AcpEvents == [run : Nat, kind : {"queued", "started", "delta", "approval_needed", "end"},
              seq : Nat]
AcpRun == [session : SessionIds, phase : {"running", "asked", "stopped", "over"}, deltas : Nat]
Answers == [kind : {"error", "ok", "end_turn"}, run : Nat, updates : Seq(AcpEvents),
            lossy : BOOLEAN]

AcpTypes ==
  /\ log \in [SessionIds -> Seq(AcpEvents)] /\ acpRuns \in Seq(AcpRun)
  /\ batch \in Seq(AcpRequests) /\ held \in Seq(Answers) /\ written \in Seq(Answers)
  /\ prompt = NoPrompt \/ prompt \in [session : SessionIds, run : {0, Len(acpRuns)},
                                      updates : Seq(AcpEvents)]
  /\ replay \in Seq(AcpEvents) /\ live \in Seq(AcpEvents) /\ out \in Seq(AcpEvents)
  /\ dropped \in BOOLEAN /\ Len(live) <= BufferSize
  /\ streams \in Seq(0..MaxSessions) /\ told \in Seq(Seq(AcpEvents))
  /\ Len(told) = Len(streams)

\* An event is of a run that was submitted; the end, of one that is over.
Fitting(events, runs) ==
  \A i \in 1..Len(events) : /\ events[i].run \in 1..Len(runs)
                            /\ events[i].kind = "end" => runs[events[i].run].phase = "over"
Climbs(events) == \A i, j \in 1..Len(events) : i < j => events[i].seq < events[j].seq
UpTo(events, n) == \A i \in 1..Len(events) : events[i].seq <= n
\* The end of a run is its last event, and says that it is over.
EndsOnce(events, phase) ==
  /\ \A i \in 1..Len(events) : i # Len(events) => events[i].kind # "end"
  /\ phase # "over" => \A i \in 1..Len(events) : events[i].kind # "end"

AnswerFits(answer) ==
  answer.kind = "end_turn" =>
    /\ answer.run \in 1..Len(acpRuns) /\ acpRuns[answer.run].phase = "over"
    /\ ~answer.lossy => answer.updates = EventsOf(answer.run)

\* What the prompt has read of its run and what is still before it.
Stream == out \o replay \o live
Rest == prompt.updates \o OfRun(Stream, prompt.run)

\* The run of the prompt is the only one that goes on; without a prompt nothing is on its way.
OnePrompt ==
  /\ \A r \in 1..Len(acpRuns) : acpRuns[r].phase # "over" => r = prompt.run
  /\ prompt.run # 0 => acpRuns[prompt.run].session = prompt.session
  /\ prompt.run = 0 => live = <<>> /\ ~dropped /\ prompt.updates = <<>>
  /\ prompt.session = 0 => replay = <<>> /\ out = <<>>
  /\ prompt.session # 0 => batch # <<>>

\* The events and the ends.
LogFits ==
  /\ \A s \in SessionIds :
       Fitting(log[s], acpRuns) /\ Climbs(log[s]) /\ UpTo(log[s], Len(log[s]))
  /\ \A r \in 1..Len(acpRuns) : EndsOnce(EventsOf(r), acpRuns[r].phase)
  /\ Fitting(out, acpRuns) /\ Fitting(replay, acpRuns) /\ Fitting(live, acpRuns)

\* What is before the prompt is its run's, in order, and all of it if nothing was dropped.
ReadsOn ==
  prompt.run # 0 => /\ Climbs(Rest) /\ UpTo(Rest, Len(log[prompt.session]))
                    /\ ~dropped => Rest = EventsOf(prompt.run)

\* What a stream was told is in order, and earlier than what it will be told.
ToldFits(k) ==
  /\ Climbs(told[k])
  /\ streams[k] # 0 => UpTo(told[k], Len(log[streams[k]]))
  /\ streams[k] # 0 /\ streams[k] = prompt.session /\ prompt.run # 0 =>
       \A i \in 1..Len(told[k]), j \in 1..Len(Rest) : told[k][i].seq < Rest[j].seq

AcpInv ==
  /\ AcpTypes /\ OnePrompt /\ LogFits /\ ReadsOn
  /\ \A k \in 1..Len(told) : ToldFits(k)
  /\ \A i \in 1..Len(held) : AnswerFits(held[i])
  /\ \A i \in 1..Len(written) : AnswerFits(written[i])

\* The events of a run among the first ones, for each number of these.
Filtered(f, events, r) ==
  f = [i \in 0..Len(events) |->
         IF i = 0 THEN <<>>
         ELSE IF events[i].run = r THEN Append(f[i - 1], events[i]) ELSE f[i - 1]]

\* There are such events for any sequence.
LEMMA FilteredExists ==
  ASSUME NEW events, NEW r, Len(events) \in Nat
  PROVE  \E f : Filtered(f, events, r)
PROOF
<1>1. PICK n : n = Len(events)
  OBVIOUS
<1> DEFINE Good(f, k) == f = [i \in 0..k |->
                                IF i = 0 THEN <<>>
                                ELSE IF events[i].run = r THEN Append(f[i - 1], events[i])
                                ELSE f[i - 1]]
           S == {k \in 0..n : \E f : Good(f, k)}
<1>2. 0 \in S
  <2> DEFINE f == [i \in 0..0 |-> <<>>]
  <2>1. Good(f, 0)
    OBVIOUS
  <2> HIDE DEF f
  <2> QED BY <1>1, <2>1
<1>3. ASSUME NEW k \in 0..n, k # n, k \in S PROVE k + 1 \in S
  <2>1. PICK f : Good(f, k)
    BY <1>3
  <2> DEFINE last == IF events[k + 1].run = r THEN Append(f[k], events[k + 1]) ELSE f[k]
             g == [i \in 0..k + 1 |-> IF i = k + 1 THEN last ELSE f[i]]
  <2>2. \A i \in 0..k + 1 :
          g[i] = IF i = 0 THEN <<>>
                 ELSE IF events[i].run = r THEN Append(g[i - 1], events[i]) ELSE g[i - 1]
    <3> SUFFICES ASSUME NEW i \in 0..k + 1
                 PROVE  g[i] = IF i = 0 THEN <<>>
                               ELSE IF events[i].run = r THEN Append(g[i - 1], events[i])
                               ELSE g[i - 1]
      OBVIOUS
    <3>1. CASE i = k + 1
      <4>1. g[i] = last /\ g[i - 1] = f[k] /\ i # 0
        BY <3>1
      <4> QED BY <3>1, <4>1
    <3>2. CASE i # k + 1
      <4>1. i \in 0..k /\ g[i] = f[i] /\ (i # 0 => g[i - 1] = f[i - 1])
        BY <3>2
      <4> QED BY <2>1, <4>1
    <3> QED BY <3>1, <3>2
  <2>3. g = [i \in 0..k + 1 |-> g[i]]
    OBVIOUS
  <2> HIDE DEF g
  <2>4. Good(g, k + 1)
    BY <2>2, <2>3
  <2>5. k + 1 \in 0..n
    BY <1>1, <1>3
  <2> HIDE DEF Good
  <2> QED BY <2>4, <2>5
<1>4. n \in S
  <2> HIDE DEF S
  <2>1. 0..n \subseteq S
    BY <1>1, <1>2, <1>3, Stepwise
  <2> QED BY <1>1, <2>1
<1>5. PICK f : Good(f, n)
  BY <1>4
<1> QED BY <1>1, <1>5 DEF Filtered

\* They are what OfRun says.
LEMMA OfRunIs ==
  ASSUME NEW events, NEW r, Len(events) \in Nat
  PROVE  \E f : Filtered(f, events, r) /\ OfRun(events, r) = f[Len(events)]
PROOF
<1> DEFINE f == CHOOSE x : x = [i \in 0..Len(events) |->
                                  IF i = 0 THEN <<>>
                                  ELSE IF events[i].run = r THEN Append(x[i - 1], events[i])
                                  ELSE x[i - 1]]
<1>1. OfRun(events, r) = f[Len(events)]
  BY DEF OfRun
<1>2. \E x : x = [i \in 0..Len(events) |->
                                  IF i = 0 THEN <<>>
                                  ELSE IF events[i].run = r THEN Append(x[i - 1], events[i])
                                  ELSE x[i - 1]]
  <2>1. \E x : Filtered(x, events, r)
    BY FilteredExists
  <2> QED BY <2>1 DEF Filtered
<1>3. Filtered(f, events, r)
  BY <1>2 DEF Filtered
<1> QED BY <1>1, <1>3

\* The events of a run among none.
LEMMA OfRunEmpty ==
  ASSUME NEW r
  PROVE  OfRun(<<>>, r) = <<>>
PROOF
<1>1. Len(<<>>) = 0
  OBVIOUS
<1>2. PICK f : Filtered(f, <<>>, r) /\ OfRun(<<>>, r) = f[Len(<<>>)]
  BY <1>1, OfRunIs
<1>3. f = [i \in 0..0 |-> IF i = 0 THEN <<>>
                          ELSE IF <<>>[i].run = r THEN Append(f[i - 1], <<>>[i])
                          ELSE f[i - 1]]
  BY <1>1, <1>2 DEF Filtered
<1>4. f[0] = <<>>
  BY <1>3
<1> QED BY <1>1, <1>2, <1>4

\* With one more event, those of its run are one more.
LEMMA OfRunAppend ==
  ASSUME NEW events \in Seq(AcpEvents), NEW e \in AcpEvents, NEW r
  PROVE  OfRun(Append(events, e), r) =
           IF e.run = r THEN Append(OfRun(events, r), e) ELSE OfRun(events, r)
PROOF
<1>1. PICK longer, n : longer = Append(events, e) /\ n = Len(events)
  OBVIOUS
<1>2. /\ n \in Nat /\ Len(longer) = n + 1 /\ \A i \in 1..n : longer[i] = events[i]
      /\ longer[n + 1] = e
  BY <1>1
<1>3. PICK f : Filtered(f, events, r) /\ OfRun(events, r) = f[n]
  BY <1>1, <1>2, OfRunIs
<1>4. PICK g : Filtered(g, longer, r) /\ OfRun(longer, r) = g[n + 1]
  <2>1. Len(longer) \in Nat
    BY <1>2
  <2> QED BY <1>2, <2>1, OfRunIs
<1>5. /\ f[0] = <<>> /\ g[0] = <<>>
      /\ \A i \in 1..n : f[i] = IF events[i].run = r THEN Append(f[i - 1], events[i])
                                ELSE f[i - 1]
      /\ \A i \in 1..n + 1 : g[i] = IF longer[i].run = r THEN Append(g[i - 1], longer[i])
                                    ELSE g[i - 1]
  <2>1. f = [i \in 0..n |->
                IF i = 0 THEN <<>>
                ELSE IF events[i].run = r THEN Append(f[i - 1], events[i]) ELSE f[i - 1]]
    BY <1>1, <1>3 DEF Filtered
  <2>2. g = [i \in 0..n + 1 |->
                IF i = 0 THEN <<>>
                ELSE IF longer[i].run = r THEN Append(g[i - 1], longer[i]) ELSE g[i - 1]]
    BY <1>1, <1>2, <1>4 DEF Filtered
  <2>3. f[0] = <<>>
    BY <1>2, <2>1
  <2>4. g[0] = <<>>
    BY <1>2, <2>2
  <2>5. ASSUME NEW i \in 1..n
        PROVE  f[i] = IF events[i].run = r THEN Append(f[i - 1], events[i]) ELSE f[i - 1]
    <3>1. i \in 0..n /\ i # 0
      BY <1>2
    <3> QED BY <2>1, <3>1
  <2>6. ASSUME NEW i \in 1..n + 1
        PROVE  g[i] = IF longer[i].run = r THEN Append(g[i - 1], longer[i]) ELSE g[i - 1]
    <3>1. i \in 0..n + 1 /\ i # 0
      BY <1>2
    <3> QED BY <2>2, <3>1
  <2> QED BY <2>3, <2>4, <2>5, <2>6
<1> DEFINE S == {i \in 0..n : g[i] = f[i]}
<1>6. 0 \in S
  BY <1>2, <1>5
<1>7. ASSUME NEW i \in 0..n, i # n, i \in S PROVE i + 1 \in S
  <2>1. /\ i + 1 \in 0..n /\ i + 1 \in 1..n /\ i + 1 \in 1..n + 1 /\ i + 1 - 1 = i
        /\ longer[i + 1] = events[i + 1] /\ g[i] = f[i]
    BY <1>2, <1>7
  <2>2. /\ f[i + 1] = IF events[i + 1].run = r THEN Append(f[i], events[i + 1]) ELSE f[i]
        /\ g[i + 1] = IF longer[i + 1].run = r THEN Append(g[i], longer[i + 1]) ELSE g[i]
    BY <1>5, <2>1
  <2> QED BY <2>1, <2>2
<1>8. g[n] = f[n]
  <2>1. n \in S
    <3> HIDE DEF S
    <3>1. 0..n \subseteq S
      BY <1>2, <1>6, <1>7, Stepwise
    <3> QED BY <1>2, <3>1
  <2> QED BY <2>1
<1>9. g[n + 1] = IF longer[n + 1].run = r THEN Append(g[n], longer[n + 1]) ELSE g[n]
  <2>1. \A i \in 1..n + 1 : g[i] = IF longer[i].run = r THEN Append(g[i - 1], longer[i])
                              ELSE g[i - 1]
    BY <1>5
  <2>2. PICK k : k = n + 1
    OBVIOUS
  <2>3. k \in 1..n + 1 /\ k - 1 = n
    BY <1>2, <2>2
  <2>4. g[k] = IF longer[k].run = r THEN Append(g[k - 1], longer[k]) ELSE g[k - 1]
    BY <2>1, <2>3
  <2> QED BY <2>2, <2>3, <2>4
<1> QED BY <1>1, <1>2, <1>3, <1>4, <1>8, <1>9

\* One more of the first events of a sequence.
LEMMA OneMore ==
  ASSUME NEW S, NEW t \in Seq(S), NEW k \in 0..Len(t), k # Len(t)
  PROVE  /\ SubSeq(t, 1, k) \in Seq(S) /\ t[k + 1] \in S
         /\ SubSeq(t, 1, k + 1) = Append(SubSeq(t, 1, k), t[k + 1])
PROOF
<1>1. k + 1 \in 1..Len(t) /\ k \in Nat
  OBVIOUS
<1>2. SubSeq(t, 1, k) \in Seq(S) /\ Len(SubSeq(t, 1, k)) = k
  BY <1>1
<1>3. t[k + 1] \in S
  BY <1>1
<1>4. \A i \in 1..k : SubSeq(t, 1, k)[i] = t[i]
  BY <1>1
<1>5. SubSeq(t, 1, k + 1) \in Seq(S) /\ Len(SubSeq(t, 1, k + 1)) = k + 1
  BY <1>1
<1>6. \A i \in 1..k + 1 : SubSeq(t, 1, k + 1)[i] = t[i]
  BY <1>1
<1>7. PICK u, v : u = Append(SubSeq(t, 1, k), t[k + 1]) /\ v = SubSeq(t, 1, k + 1)
  OBVIOUS
<1>8. u \in Seq(S) /\ Len(u) = k + 1 /\ \A i \in 1..k + 1 : u[i] = t[i]
  BY <1>1, <1>2, <1>3, <1>4, <1>7
<1>9. v \in Seq(S) /\ Len(v) = k + 1 /\ \A i \in 1..k + 1 : v[i] = t[i]
  BY <1>5, <1>6, <1>7
<1>10. u = v
  BY <1>8, <1>9
<1> QED BY <1>2, <1>3, <1>7, <1>10

\* The first ones of all lengths: none of them, and all of them.
LEMMA FirstOnes ==
  ASSUME NEW S, NEW t \in Seq(S)
  PROVE  SubSeq(t, 1, 0) = <<>> /\ SubSeq(t, 1, Len(t)) = t /\ Len(t) \in Nat
PROOF
<1>1. Len(t) \in Nat
  OBVIOUS
<1>2. SubSeq(t, 1, 0) = <<>>
  <2>1. SubSeq(t, 1, 0) \in Seq(S) /\ Len(SubSeq(t, 1, 0)) = 0
    OBVIOUS
  <2> QED BY <2>1, EmptySeq
<1>3. SubSeq(t, 1, Len(t)) = t
  <2>1. SubSeq(t, 1, Len(t)) \in Seq(S) /\ Len(SubSeq(t, 1, Len(t))) = Len(t)
    BY <1>1
  <2>2. \A i \in 1..Len(t) : SubSeq(t, 1, Len(t))[i] = t[i]
    BY <1>1
  <2> QED BY <2>1, <2>2
<1> QED BY <1>1, <1>2, <1>3

\* The events of a run are events.
LEMMA OfRunType ==
  ASSUME NEW t \in Seq(AcpEvents), NEW r
  PROVE  OfRun(t, r) \in Seq(AcpEvents)
PROOF
<1> DEFINE P(k) == OfRun(SubSeq(t, 1, k), r) \in Seq(AcpEvents)
           S == {k \in 0..Len(t) : P(k)}
<1>1. P(0)
  <2>1. <<>> \in Seq(AcpEvents)
    OBVIOUS
  <2> QED BY <2>1, FirstOnes, OfRunEmpty
<1>2. ASSUME NEW k \in 0..Len(t), k # Len(t), P(k) PROVE P(k + 1)
  <2>1. PICK u, e : u = SubSeq(t, 1, k) /\ e = t[k + 1]
    OBVIOUS
  <2>2. u \in Seq(AcpEvents) /\ e \in AcpEvents /\ SubSeq(t, 1, k + 1) = Append(u, e)
    BY <1>2, <2>1, OneMore
  <2>3. OfRun(Append(u, e), r) = IF e.run = r THEN Append(OfRun(u, r), e) ELSE OfRun(u, r)
    BY <2>2, OfRunAppend
  <2>4. OfRun(u, r) \in Seq(AcpEvents)
    BY <1>2, <2>1
  <2>5. Append(OfRun(u, r), e) \in Seq(AcpEvents)
    BY <2>2, <2>4, AppendProperties
  <2>6. OfRun(Append(u, e), r) \in Seq(AcpEvents)
    BY <2>3, <2>4, <2>5
  <2> QED BY <2>2, <2>6
<1>3. Len(t) \in Nat /\ SubSeq(t, 1, Len(t)) = t
  BY FirstOnes
<1>4. 0 \in S /\ \A k \in 0..Len(t) : k # Len(t) /\ k \in S => k + 1 \in S
  <2>1. 0 \in 0..Len(t)
    BY <1>3
  <2>2. 0 \in S
    BY <1>1, <2>1
  <2>3. ASSUME NEW k \in 0..Len(t), k # Len(t), k \in S PROVE k + 1 \in S
    <3>1. P(k)
      BY <2>3
    <3>2. P(k + 1)
      BY <1>2, <2>3, <3>1
    <3>3. k + 1 \in 0..Len(t)
      <4>1. \A n \in Nat : \A i \in 0..n : i # n => i + 1 \in 0..n
        OBVIOUS
      <4>2. Len(t) \in Nat
        BY <1>3
      <4> QED BY <2>3, <4>1, <4>2
    <3> QED BY <3>2, <3>3
  <2> HIDE DEF P, S
  <2> QED BY <2>2, <2>3
<1>5. P(Len(t))
  <2>1. 0..Len(t) \subseteq S
    <3> HIDE DEF S
    <3> QED BY <1>3, <1>4, Stepwise
  <2> HIDE DEF P
  <2> QED BY <1>3, <2>1
<1> QED BY <1>3, <1>5

\* Those of two sequences, one after the other.
LEMMA OfRunConcat ==
  ASSUME NEW s \in Seq(AcpEvents), NEW t \in Seq(AcpEvents), NEW r
  PROVE  OfRun(s \o t, r) = OfRun(s, r) \o OfRun(t, r)
PROOF
<1> DEFINE P(k) == OfRun(s \o SubSeq(t, 1, k), r) = OfRun(s, r) \o OfRun(SubSeq(t, 1, k), r)
           S == {k \in 0..Len(t) : P(k)}
<1>1. P(0)
  <2>1. s \o <<>> = s
    OBVIOUS
  <2>2. OfRun(s, r) \in Seq(AcpEvents)
    BY OfRunType
  <2>3. OfRun(s, r) \o <<>> = OfRun(s, r)
    BY <2>2
  <2> QED BY <2>1, <2>3, FirstOnes, OfRunEmpty
<1>2. ASSUME NEW k \in 0..Len(t), k # Len(t), P(k) PROVE P(k + 1)
  <2>1. PICK u, e : u = SubSeq(t, 1, k) /\ e = t[k + 1]
    OBVIOUS
  <2>2. u \in Seq(AcpEvents) /\ e \in AcpEvents /\ SubSeq(t, 1, k + 1) = Append(u, e)
    BY <1>2, <2>1, OneMore
  <2>3. PICK a, b : a = OfRun(s, r) /\ b = OfRun(u, r)
    OBVIOUS
  <2>4. a \in Seq(AcpEvents) /\ b \in Seq(AcpEvents)
    BY <2>2, <2>3, OfRunType
  <2>5. OfRun(Append(u, e), r) = IF e.run = r THEN Append(b, e) ELSE b
    BY <2>2, <2>3, OfRunAppend
  <2>6. s \o u \in Seq(AcpEvents) /\ s \o Append(u, e) = Append(s \o u, e)
    BY <2>2, ConcatProperties, AppendIsConcat, ConcatAssociative
  <2>7. OfRun(s \o u, r) = a \o b
    BY <1>2, <2>1, <2>3
  <2>8. OfRun(Append(s \o u, e), r) = IF e.run = r THEN Append(a \o b, e) ELSE a \o b
    <3>1. PICK w : w = s \o u
      OBVIOUS
    <3>2. w \in Seq(AcpEvents) /\ OfRun(w, r) = a \o b
      BY <2>6, <2>7, <3>1
    <3>3. OfRun(Append(w, e), r) = IF e.run = r THEN Append(OfRun(w, r), e) ELSE OfRun(w, r)
      BY <2>2, <3>2, OfRunAppend
    <3> QED BY <3>1, <3>2, <3>3
  <2>9. a \o Append(b, e) = Append(a \o b, e)
    BY <2>2, <2>4
  <2>10. OfRun(s \o Append(u, e), r) = a \o OfRun(Append(u, e), r)
    BY <2>5, <2>6, <2>8, <2>9
  <2> QED BY <2>2, <2>3, <2>10
<1>3. Len(t) \in Nat /\ SubSeq(t, 1, Len(t)) = t
  BY FirstOnes
<1>4. 0 \in S /\ \A k \in 0..Len(t) : k # Len(t) /\ k \in S => k + 1 \in S
  <2>1. 0 \in 0..Len(t)
    BY <1>3
  <2>2. 0 \in S
    BY <1>1, <2>1
  <2>3. ASSUME NEW k \in 0..Len(t), k # Len(t), k \in S PROVE k + 1 \in S
    <3>1. P(k)
      BY <2>3
    <3>2. P(k + 1)
      BY <1>2, <2>3, <3>1
    <3>3. k + 1 \in 0..Len(t)
      <4>1. \A n \in Nat : \A i \in 0..n : i # n => i + 1 \in 0..n
        OBVIOUS
      <4>2. Len(t) \in Nat
        BY <1>3
      <4> QED BY <2>3, <4>1, <4>2
    <3> QED BY <3>2, <3>3
  <2> HIDE DEF P, S
  <2> QED BY <2>2, <2>3
<1>5. P(Len(t))
  <2>1. 0..Len(t) \subseteq S
    <3> HIDE DEF S
    <3> QED BY <1>3, <1>4, Stepwise
  <2> HIDE DEF P
  <2> QED BY <1>3, <2>1
<1> QED BY <1>3, <1>5

\* Among events of other runs there are none.
LEMMA OfRunNone ==
  ASSUME NEW t \in Seq(AcpEvents), NEW r, \A i \in 1..Len(t) : t[i].run # r
  PROVE  OfRun(t, r) = <<>>
PROOF
<1> DEFINE P(k) == OfRun(SubSeq(t, 1, k), r) = <<>>
           S == {k \in 0..Len(t) : P(k)}
<1>1. P(0)
  BY FirstOnes, OfRunEmpty
<1>2. ASSUME NEW k \in 0..Len(t), k # Len(t), P(k) PROVE P(k + 1)
  <2>1. PICK u, e : u = SubSeq(t, 1, k) /\ e = t[k + 1]
    OBVIOUS
  <2>2. u \in Seq(AcpEvents) /\ e \in AcpEvents /\ SubSeq(t, 1, k + 1) = Append(u, e)
    BY <1>2, <2>1, OneMore
  <2>3. OfRun(Append(u, e), r) = IF e.run = r THEN Append(OfRun(u, r), e) ELSE OfRun(u, r)
    BY <2>2, OfRunAppend
  <2>4. k + 1 \in 1..Len(t)
    BY <1>2
  <2>5. e.run # r
    BY <2>1, <2>4
  <2> QED BY <1>2, <2>1, <2>2, <2>3, <2>5
<1>3. Len(t) \in Nat /\ SubSeq(t, 1, Len(t)) = t
  BY FirstOnes
<1>4. 0 \in S /\ \A k \in 0..Len(t) : k # Len(t) /\ k \in S => k + 1 \in S
  <2>1. 0 \in 0..Len(t)
    BY <1>3
  <2>2. 0 \in S
    BY <1>1, <2>1
  <2>3. ASSUME NEW k \in 0..Len(t), k # Len(t), k \in S PROVE k + 1 \in S
    <3>1. P(k)
      BY <2>3
    <3>2. P(k + 1)
      BY <1>2, <2>3, <3>1
    <3>3. k + 1 \in 0..Len(t)
      <4>1. \A n \in Nat : \A i \in 0..n : i # n => i + 1 \in 0..n
        OBVIOUS
      <4>2. Len(t) \in Nat
        BY <1>3
      <4> QED BY <2>3, <4>1, <4>2
    <3> QED BY <3>2, <3>3
  <2> HIDE DEF P, S
  <2> QED BY <2>2, <2>3
<1>5. P(Len(t))
  <2>1. 0..Len(t) \subseteq S
    <3> HIDE DEF S
    <3> QED BY <1>3, <1>4, Stepwise
  <2> HIDE DEF P
  <2> QED BY <1>3, <2>1
<1> QED BY <1>3, <1>5

\* Among events of the run there are all.
LEMMA OfRunAll ==
  ASSUME NEW t \in Seq(AcpEvents), NEW r, \A i \in 1..Len(t) : t[i].run = r
  PROVE  OfRun(t, r) = t
PROOF
<1> DEFINE P(k) == OfRun(SubSeq(t, 1, k), r) = SubSeq(t, 1, k)
           S == {k \in 0..Len(t) : P(k)}
<1>1. P(0)
  BY FirstOnes, OfRunEmpty
<1>2. ASSUME NEW k \in 0..Len(t), k # Len(t), P(k) PROVE P(k + 1)
  <2>1. PICK u, e : u = SubSeq(t, 1, k) /\ e = t[k + 1]
    OBVIOUS
  <2>2. u \in Seq(AcpEvents) /\ e \in AcpEvents /\ SubSeq(t, 1, k + 1) = Append(u, e)
    BY <1>2, <2>1, OneMore
  <2>3. OfRun(Append(u, e), r) = IF e.run = r THEN Append(OfRun(u, r), e) ELSE OfRun(u, r)
    BY <2>2, OfRunAppend
  <2>4. k + 1 \in 1..Len(t)
    BY <1>2
  <2>5. e.run = r
    BY <2>1, <2>4
  <2> QED BY <1>2, <2>1, <2>2, <2>3, <2>5
<1>3. Len(t) \in Nat /\ SubSeq(t, 1, Len(t)) = t
  BY FirstOnes
<1>4. 0 \in S /\ \A k \in 0..Len(t) : k # Len(t) /\ k \in S => k + 1 \in S
  <2>1. 0 \in 0..Len(t)
    BY <1>3
  <2>2. 0 \in S
    BY <1>1, <2>1
  <2>3. ASSUME NEW k \in 0..Len(t), k # Len(t), k \in S PROVE k + 1 \in S
    <3>1. P(k)
      BY <2>3
    <3>2. P(k + 1)
      BY <1>2, <2>3, <3>1
    <3>3. k + 1 \in 0..Len(t)
      <4>1. \A n \in Nat : \A i \in 0..n : i # n => i + 1 \in 0..n
        OBVIOUS
      <4>2. Len(t) \in Nat
        BY <1>3
      <4> QED BY <2>3, <4>1, <4>2
    <3> QED BY <3>2, <3>3
  <2> HIDE DEF P, S
  <2> QED BY <2>2, <2>3
<1>5. P(Len(t))
  <2>1. 0..Len(t) \subseteq S
    <3> HIDE DEF S
    <3> QED BY <1>3, <1>4, Stepwise
  <2> HIDE DEF P
  <2> QED BY <1>3, <2>1
<1> QED BY <1>3, <1>5

\* The places of two sequences, one after the other.
LEMMA Places ==
  ASSUME NEW S, NEW a \in Seq(S), NEW b \in Seq(S)
  PROVE  /\ a \o b \in Seq(S) /\ Len(a) \in Nat /\ Len(b) \in Nat
         /\ Len(a \o b) = Len(a) + Len(b)
         /\ \A i \in 1..Len(a) : (a \o b)[i] = a[i] /\ i \in 1..Len(a \o b)
         /\ \A i \in 1..Len(a \o b) : i \notin 1..Len(a) =>
              i - Len(a) \in 1..Len(b) /\ (a \o b)[i] = b[i - Len(a)]
         /\ \A j \in 1..Len(b) : (a \o b)[Len(a) + j] = b[j] /\ Len(a) + j \in 1..Len(a \o b)
OBVIOUS

\* What holds of the events of both sequences holds of those of the two together.
LEMMA ConcatFits ==
  ASSUME NEW a \in Seq(AcpEvents), NEW b \in Seq(AcpEvents)
  PROVE  /\ \A rs : Fitting(a, rs) /\ Fitting(b, rs) => Fitting(a \o b, rs)
         /\ \A n : UpTo(a, n) /\ UpTo(b, n) => UpTo(a \o b, n)
         /\ Climbs(a) /\ Climbs(b)
              /\ (\A i \in 1..Len(a), j \in 1..Len(b) : a[i].seq < b[j].seq) => Climbs(a \o b)
PROOF
<1>1. PICK c : c = a \o b
  OBVIOUS
<1>2. /\ Len(a) \in Nat /\ Len(b) \in Nat /\ Len(c) = Len(a) + Len(b)
      /\ \A i \in 1..Len(c) : \/ i \in 1..Len(a) /\ c[i] = a[i]
                              \/ i \notin 1..Len(a) /\ i - Len(a) \in 1..Len(b)
                                 /\ c[i] = b[i - Len(a)]
  BY <1>1, Places
<1>3. ASSUME NEW rs, Fitting(a, rs), Fitting(b, rs) PROVE Fitting(c, rs)
  BY <1>2, <1>3 DEF Fitting
<1>4. ASSUME NEW n, UpTo(a, n), UpTo(b, n) PROVE UpTo(c, n)
  BY <1>2, <1>4 DEF UpTo
<1>5. ASSUME Climbs(a), Climbs(b), \A i \in 1..Len(a), j \in 1..Len(b) : a[i].seq < b[j].seq
      PROVE  Climbs(c)
  <2> SUFFICES ASSUME NEW i \in 1..Len(c), NEW j \in 1..Len(c), i < j
               PROVE  c[i].seq < c[j].seq
    BY DEF Climbs
  <2>1. CASE j \in 1..Len(a)
    <3>1. i \in 1..Len(a)
      BY <1>2, <2>1
    <3>2. c[i] = a[i] /\ c[j] = a[j]
      BY <1>2, <2>1, <3>1
    <3> QED BY <1>5, <2>1, <3>1, <3>2 DEF Climbs
  <2>2. CASE j \notin 1..Len(a) /\ i \in 1..Len(a)
    <3>1. c[i] = a[i] /\ j - Len(a) \in 1..Len(b) /\ c[j] = b[j - Len(a)]
      BY <1>2, <2>2
    <3> QED BY <1>5, <2>2, <3>1
  <2>3. CASE j \notin 1..Len(a) /\ i \notin 1..Len(a)
    <3>1. /\ j - Len(a) \in 1..Len(b) /\ c[j] = b[j - Len(a)]
          /\ i - Len(a) \in 1..Len(b) /\ c[i] = b[i - Len(a)]
      BY <1>2, <2>3
    <3>2. i - Len(a) < j - Len(a)
      BY <1>2
    <3> QED BY <1>5, <3>1, <3>2 DEF Climbs
  <2> QED BY <2>1, <2>2, <2>3
<1> QED BY <1>1, <1>3, <1>4, <1>5

\* The run r of session s goes on, or starts.
GoesOn(r, s) ==
  /\ acpRuns' \in Seq(AcpRun) /\ r \in 1..Len(acpRuns') /\ s \in SessionIds
  /\ acpRuns'[r].session = s /\ prompt.session = s /\ prompt.updates \in Seq(AcpEvents)
  /\ prompt' = [session |-> s, run |-> r, updates |-> prompt.updates]
  /\ \A q \in 1..Len(acpRuns) : /\ q \in 1..Len(acpRuns')
                                /\ acpRuns'[q].session = acpRuns[q].session
                                /\ q # r => acpRuns'[q].phase = acpRuns[q].phase
  /\ \A q \in 1..Len(acpRuns') : q # r => q \in 1..Len(acpRuns)
  /\ r = Len(acpRuns')
Goes(r) == r \in 1..Len(acpRuns) /\ acpRuns[r].phase # "over" /\ prompt.run = r
Starts(r) == r \notin 1..Len(acpRuns) /\ prompt.run = 0

\* What it emits, and what of it the subscription takes.
News(r, s, new) ==
  /\ new \in Seq(AcpEvents) /\ log' = [log EXCEPT ![s] = @ \o new]
  /\ \A i \in 1..Len(new) : /\ new[i].run = r /\ new[i].seq = Len(log[s]) + i
                            /\ i # Len(new) => new[i].kind # "end"
                            /\ acpRuns'[r].phase # "over" => new[i].kind # "end"
Takes(new, part) ==
  /\ part \in Seq(AcpEvents) /\ live' = live \o part /\ Len(live') <= BufferSize
  /\ Len(part) <= Len(new) /\ \A i \in 1..Len(part) : part[i] = new[i]
  /\ dropped' \in BOOLEAN /\ (~dropped' => ~dropped /\ part = new)
Emission(r, s, new, part) ==
  /\ GoesOn(r, s) /\ News(r, s, new) /\ Takes(new, part)
  /\ Goes(r) \/ Starts(r)
  /\ UNCHANGED <<opened, batch, held, written, replay, out, streams, told>>

\* What the prompt has read of its run and what is before it, before the run emits more.
Before(r) == prompt.updates \o OfRun(Stream, r)
BeforeFits(r, s) ==
  /\ Climbs(Before(r)) /\ UpTo(Before(r), Len(log[s]))
  /\ ~dropped => Before(r) = OfRun(log[s], r)
  /\ \A i \in 1..Len(OfRun(log[s], r)) : OfRun(log[s], r)[i].kind # "end"
  /\ \A k \in 1..Len(told) : streams[k] = s =>
       \A i \in 1..Len(told[k]), j \in 1..Len(Before(r)) : told[k][i].seq < Before(r)[j].seq

\* The stream is one of events.
LEMMA StreamIsOfEvents ==
  ASSUME AcpTypes, NEW r
  PROVE  /\ Stream \in Seq(AcpEvents) /\ prompt.updates \in Seq(AcpEvents)
         /\ OfRun(Stream, r) \in Seq(AcpEvents)
         /\ prompt.updates \o OfRun(Stream, r) \in Seq(AcpEvents)
         /\ OfRun(Stream, r) = OfRun(out, r) \o (OfRun(replay, r) \o OfRun(live, r))
PROOF
<1>1. out \in Seq(AcpEvents) /\ replay \in Seq(AcpEvents) /\ live \in Seq(AcpEvents)
  BY DEF AcpTypes
<1>2. prompt.updates \in Seq(AcpEvents)
  <2>1. <<>> \in Seq(AcpEvents)
    OBVIOUS
  <2>2. CASE prompt = NoPrompt
    BY <2>1, <2>2 DEF NoPrompt
  <2>3. CASE prompt # NoPrompt
    BY <2>3 DEF AcpTypes
  <2> QED BY <2>2, <2>3
<1>3. out \o replay \in Seq(AcpEvents) /\ Stream = (out \o replay) \o live
      /\ Stream \in Seq(AcpEvents)
  BY <1>1 DEF Stream
<1>4. OfRun(Stream, r) = (OfRun(out, r) \o OfRun(replay, r)) \o OfRun(live, r)
  <2>1. PICK w : w = out \o replay
    OBVIOUS
  <2>2. OfRun(w, r) = OfRun(out, r) \o OfRun(replay, r)
    BY <1>1, <2>1, OfRunConcat
  <2>3. OfRun(w \o live, r) = OfRun(w, r) \o OfRun(live, r)
    <3>1. w \in Seq(AcpEvents) /\ live \in Seq(AcpEvents)
      BY <1>1, <1>3, <2>1
    <3> QED BY <3>1, OfRunConcat
  <2> QED BY <1>3, <2>1, <2>2, <2>3
<1>5. /\ OfRun(out, r) \in Seq(AcpEvents) /\ OfRun(replay, r) \in Seq(AcpEvents)
      /\ OfRun(live, r) \in Seq(AcpEvents) /\ OfRun(Stream, r) \in Seq(AcpEvents)
  BY <1>1, <1>3, OfRunType
<1>6. OfRun(Stream, r) = OfRun(out, r) \o (OfRun(replay, r) \o OfRun(live, r))
  BY <1>4, <1>5, ConcatAssociative
<1>7. prompt.updates \o OfRun(Stream, r) \in Seq(AcpEvents)
  BY <1>2, <1>5, ConcatProperties
<1> QED BY <1>2, <1>3, <1>5, <1>6, <1>7

\* A sequence of no length is empty.
LEMMA NoLength ==
  ASSUME NEW S, NEW t \in Seq(S), Len(t) = 0
  PROVE  t = <<>>
BY EmptySeq

\* Before a run emits more, all of it is in the store and what was not dropped is before
\* the prompt; a run that starts has neither.
LEMMA BeforeNews ==
  ASSUME AcpInv, NEW r, NEW s, GoesOn(r, s), Goes(r) \/ Starts(r)
  PROVE  BeforeFits(r, s)
PROOF
<1>1. AcpTypes /\ OnePrompt /\ LogFits /\ ReadsOn /\ \A k \in 1..Len(told) : ToldFits(k)
  BY DEF AcpInv
<1>2. s \in SessionIds /\ log[s] \in Seq(AcpEvents) /\ prompt.session = s
  BY <1>1 DEF AcpTypes, GoesOn
<1>3. CASE Goes(r)
  <2>1. prompt.run = r /\ r # 0 /\ r \in 1..Len(acpRuns) /\ acpRuns[r].phase # "over"
    BY <1>1, <1>3 DEF Goes, AcpTypes
  <2>2. Rest = Before(r)
    BY <2>1 DEF Rest, Before
  <2>3. acpRuns[r].session = s
    BY <1>1, <1>2, <2>1 DEF OnePrompt
  <2>4. EventsOf(r) = OfRun(log[s], r)
    BY <2>3 DEF EventsOf
  <2>5. Climbs(Before(r)) /\ UpTo(Before(r), Len(log[s]))
    BY <1>1, <1>2, <2>1, <2>2 DEF ReadsOn
  <2>6. ~dropped => Before(r) = OfRun(log[s], r)
    BY <1>1, <2>1, <2>2, <2>4 DEF ReadsOn
  <2>7. \A i \in 1..Len(OfRun(log[s], r)) : OfRun(log[s], r)[i].kind # "end"
    <3>1. EndsOnce(OfRun(log[s], r), acpRuns[r].phase)
      BY <1>1, <2>1, <2>4 DEF LogFits
    <3> QED BY <2>1, <3>1 DEF EndsOnce
  <2>8. ASSUME NEW k \in 1..Len(told), streams[k] = s
        PROVE  \A i \in 1..Len(told[k]), j \in 1..Len(Before(r)) :
                 told[k][i].seq < Before(r)[j].seq
    <3>1. s # 0
      BY <1>2 DEF SessionIds
    <3>2. ToldFits(k)
      BY <1>1
    <3> QED BY <1>2, <2>1, <2>2, <2>8, <3>1, <3>2 DEF ToldFits
  <2> QED BY <2>5, <2>6, <2>7, <2>8 DEF BeforeFits
<1>4. CASE Starts(r)
  <2>1. prompt.run = 0 /\ r \notin 1..Len(acpRuns)
    BY <1>4 DEF Starts
  <2>2. ASSUME NEW t \in Seq(AcpEvents), Fitting(t, acpRuns) PROVE OfRun(t, r) = <<>>
    <3>1. \A i \in 1..Len(t) : t[i].run # r
      BY <2>1, <2>2 DEF Fitting
    <3> QED BY <2>2, <3>1, OfRunNone
  <2>3. OfRun(log[s], r) = <<>>
    BY <1>1, <1>2, <2>2 DEF LogFits
  <2>4. OfRun(out, r) = <<>> /\ OfRun(replay, r) = <<>> /\ OfRun(live, r) = <<>>
    BY <1>1, <2>2 DEF LogFits, AcpTypes
  <2>5. <<>> \o <<>> = <<>>
    OBVIOUS
  <2>6. OfRun(Stream, r) = <<>>
    BY <1>1, <2>4, <2>5, StreamIsOfEvents
  <2>7. Before(r) = <<>>
    BY <1>1, <2>1, <2>5, <2>6 DEF Before, OnePrompt
  <2>8. Len(<<>>) = 0 /\ 1..0 = {}
    OBVIOUS
  <2> QED BY <2>3, <2>7, <2>8 DEF BeforeFits, Climbs, UpTo
<1> QED BY <1>3, <1>4

\* The types.
LEMMA NewsTypes ==
  ASSUME AcpInv, NEW r, NEW s, NEW new, NEW part, Emission(r, s, new, part)
  PROVE  AcpTypes'
PROOF
<1>1. AcpTypes /\ GoesOn(r, s) /\ News(r, s, new) /\ Takes(new, part)
  BY DEF AcpInv, Emission
<1>2. UNCHANGED <<opened, batch, held, written, replay, out, streams, told>>
  BY DEF Emission
<1>3. log' \in [SessionIds -> Seq(AcpEvents)]
  <2>1. log \in [SessionIds -> Seq(AcpEvents)] /\ s \in SessionIds
    BY <1>1 DEF AcpTypes, GoesOn
  <2>2. log[s] \o new \in Seq(AcpEvents)
    BY <1>1, <2>1, ConcatProperties DEF News
  <2> QED BY <1>1, <2>1, <2>2 DEF News
<1>4. prompt' \in [session : SessionIds, run : {0, Len(acpRuns')}, updates : Seq(AcpEvents)]
  BY <1>1 DEF GoesOn
<1>5. live' \in Seq(AcpEvents) /\ dropped' \in BOOLEAN /\ Len(live') <= BufferSize
  <2>1. live \in Seq(AcpEvents) /\ part \in Seq(AcpEvents) /\ live' = live \o part
    BY <1>1 DEF AcpTypes, Takes
  <2>2. live \o part \in Seq(AcpEvents)
    BY <2>1, ConcatProperties
  <2> QED BY <1>1, <2>1, <2>2 DEF Takes
<1>6. acpRuns' \in Seq(AcpRun)
  BY <1>1 DEF GoesOn
<1> QED BY <1>1, <1>2, <1>3, <1>4, <1>5, <1>6 DEF AcpTypes

\* The events of a run after those of its session were extended.
LEMMA EventsGrow ==
  ASSUME AcpInv, NEW r, NEW s, NEW new, NEW part, Emission(r, s, new, part),
         NEW q \in 1..Len(acpRuns')
  PROVE  /\ q = r => EventsOf(q)' = OfRun(log[s], r) \o new
         /\ q # r => EventsOf(q)' = EventsOf(q)
PROOF
<1>1. AcpTypes /\ GoesOn(r, s) /\ News(r, s, new)
  BY DEF AcpInv, Emission
<1>2. /\ log \in [SessionIds -> Seq(AcpEvents)] /\ s \in SessionIds /\ new \in Seq(AcpEvents)
      /\ log[s] \in Seq(AcpEvents) /\ log' = [log EXCEPT ![s] = @ \o new]
  BY <1>1 DEF AcpTypes, GoesOn, News
<1>3. EventsOf(q)' = OfRun(log'[acpRuns'[q].session], q)
  BY DEF EventsOf
<1>4. OfRun(log[s] \o new, q) = OfRun(log[s], q) \o OfRun(new, q)
  BY <1>2, OfRunConcat
<1>5. CASE q = r
  <2>1. acpRuns'[q].session = s
    BY <1>1, <1>5 DEF GoesOn
  <2>2. log'[s] = log[s] \o new
    BY <1>2
  <2>3. OfRun(new, r) = new
    <3>1. \A i \in 1..Len(new) : new[i].run = r
      BY <1>1 DEF News
    <3> QED BY <1>2, <3>1, OfRunAll
  <2> QED BY <1>3, <1>4, <1>5, <2>1, <2>2, <2>3
<1>6. CASE q # r
  <2>1. q \in 1..Len(acpRuns) /\ acpRuns'[q].session = acpRuns[q].session
    BY <1>1, <1>6 DEF GoesOn
  <2>2. PICK t : t = acpRuns[q].session
    OBVIOUS
  <2>3. t \in SessionIds
    <3>1. acpRuns[q] \in AcpRun
      BY <1>1, <2>1 DEF AcpTypes
    <3> QED BY <2>2, <3>1 DEF AcpRun
  <2>4. EventsOf(q) = OfRun(log[t], q)
    BY <2>2 DEF EventsOf
  <2>5. EventsOf(q)' = OfRun(log'[t], q)
    BY <1>3, <2>1, <2>2
  <2>6. CASE t # s
    <3>1. log'[t] = log[t]
      BY <1>2, <2>3, <2>6
    <3>2. EventsOf(q)' = EventsOf(q)
      BY <2>4, <2>5, <3>1
    <3> QED BY <1>6, <3>2
  <2>7. CASE t = s
    <3>1. log'[t] = log[s] \o new
      BY <1>2, <2>7
    <3>2. OfRun(new, q) = <<>>
      <4>1. \A i \in 1..Len(new) : new[i].run # q
        BY <1>1, <1>6 DEF News
      <4> QED BY <1>2, <4>1, OfRunNone
    <3>3. OfRun(log[s], q) \in Seq(AcpEvents)
      BY <1>2, OfRunType
    <3>4. OfRun(log[s], q) \o <<>> = OfRun(log[s], q)
      BY <3>3
    <3>5. EventsOf(q)' = OfRun(log[s], q)
      BY <1>4, <2>5, <3>1, <3>2, <3>4
    <3>6. EventsOf(q)' = EventsOf(q)
      BY <2>4, <2>7, <3>5
    <3> QED BY <1>6, <3>6
  <2> QED BY <1>6, <2>6, <2>7
<1> QED BY <1>5, <1>6

\* An event of a run that is over is of another run than the one that goes on.
LEMMA OverStays ==
  ASSUME AcpInv, NEW r, NEW s, NEW new, NEW part, Emission(r, s, new, part),
         NEW q \in 1..Len(acpRuns)
  PROVE  /\ q \in 1..Len(acpRuns')
         /\ acpRuns[q].phase = "over" => q # r /\ acpRuns'[q].phase = "over"
PROOF
<1>1. GoesOn(r, s) /\ (Goes(r) \/ Starts(r))
  BY DEF Emission
<1>2. q \in 1..Len(acpRuns') /\ (q # r => acpRuns'[q].phase = acpRuns[q].phase)
  BY <1>1 DEF GoesOn
<1>3. acpRuns[q].phase = "over" => q # r
  BY <1>1 DEF Goes, Starts
<1> QED BY <1>2, <1>3

\* The events fit the runs.
LEMMA NewsFit ==
  ASSUME AcpInv, NEW r, NEW s, NEW new, NEW part, Emission(r, s, new, part)
  PROVE  LogFits'
PROOF
<1>1. AcpTypes /\ LogFits /\ GoesOn(r, s) /\ News(r, s, new) /\ Takes(new, part)
  BY DEF AcpInv, Emission
<1>2. BeforeFits(r, s)
  BY BeforeNews DEF Emission
<1>3. ASSUME NEW t, Fitting(t, acpRuns) PROVE Fitting(t, acpRuns')
  <2> SUFFICES ASSUME NEW i \in 1..Len(t)
               PROVE  /\ t[i].run \in 1..Len(acpRuns')
                      /\ t[i].kind = "end" => acpRuns'[t[i].run].phase = "over"
    BY DEF Fitting
  <2>1. /\ t[i].run \in 1..Len(acpRuns)
        /\ t[i].kind = "end" => acpRuns[t[i].run].phase = "over"
    BY <1>3 DEF Fitting
  <2> QED BY <2>1, OverStays
<1>4. Fitting(new, acpRuns') /\ Fitting(part, acpRuns')
  <2>1. Len(new) \in Nat /\ Len(part) \in Nat /\ Len(part) <= Len(new)
    BY <1>1 DEF News, Takes
  <2>2. ASSUME NEW i \in 1..Len(new)
        PROVE  /\ new[i].run \in 1..Len(acpRuns')
               /\ new[i].kind = "end" => acpRuns'[new[i].run].phase = "over"
    <3>1. new[i].run = r /\ (acpRuns'[r].phase # "over" => new[i].kind # "end")
      BY <1>1 DEF News
    <3>2. r \in 1..Len(acpRuns')
      BY <1>1 DEF GoesOn
    <3> QED BY <3>1, <3>2
  <2>3. ASSUME NEW i \in 1..Len(part) PROVE part[i] = new[i] /\ i \in 1..Len(new)
    BY <1>1, <2>1 DEF Takes
  <2>4. Fitting(new, acpRuns')
    BY <2>2 DEF Fitting
  <2> QED BY <2>2, <2>3, <2>4 DEF Fitting
<1>5. ASSUME NEW t \in SessionIds
      PROVE  /\ Fitting(log'[t], acpRuns') /\ Climbs(log'[t]) /\ UpTo(log'[t], Len(log'[t]))
  <2>1. /\ log \in [SessionIds -> Seq(AcpEvents)] /\ new \in Seq(AcpEvents)
        /\ s \in SessionIds /\ log' = [log EXCEPT ![s] = @ \o new]
    BY <1>1 DEF AcpTypes, News, GoesOn
  <2>2. Fitting(log[t], acpRuns) /\ Climbs(log[t]) /\ UpTo(log[t], Len(log[t]))
    BY <1>1 DEF LogFits
  <2>3. CASE t # s
    <3>1. log'[t] = log[t]
      BY <2>1, <2>3
    <3> QED BY <1>3, <2>2, <3>1
  <2>4. CASE t = s
    <3>1. PICK old : old = log[s]
      OBVIOUS
    <3>2. old \in Seq(AcpEvents) /\ log'[t] = old \o new
      BY <2>1, <2>4, <3>1
    <3>3. Fitting(old, acpRuns') /\ Climbs(old) /\ UpTo(old, Len(old))
      BY <1>3, <2>2, <2>4, <3>1
    <3>4. Len(old \o new) = Len(old) + Len(new) /\ Len(old) \in Nat /\ Len(new) \in Nat
      BY <2>1, <3>2, Places
    <3>5. \A i \in 1..Len(new) : new[i].seq = Len(old) + i
      BY <1>1, <3>1 DEF News
    <3>6. \A i \in 1..Len(old) : old[i] \in AcpEvents /\ old[i].seq \in Nat
      <4>1. \A i \in 1..Len(old) : old[i] \in AcpEvents
        BY <3>2
      <4> QED BY <4>1 DEF AcpEvents
    <3>7. UpTo(old, Len(old \o new)) /\ UpTo(new, Len(old \o new)) /\ Climbs(new)
      BY <3>3, <3>4, <3>5, <3>6 DEF UpTo, Climbs
    <3>8. \A i \in 1..Len(old), j \in 1..Len(new) : old[i].seq < new[j].seq
      BY <3>3, <3>4, <3>5, <3>6 DEF UpTo
    <3>9. /\ Fitting(old \o new, acpRuns') /\ Climbs(old \o new)
          /\ UpTo(old \o new, Len(old \o new))
      BY <1>4, <2>1, <3>2, <3>3, <3>7, <3>8, ConcatFits
    <3> QED BY <3>2, <3>9
  <2> QED BY <2>3, <2>4
<1>6. ASSUME NEW q \in 1..Len(acpRuns') PROVE EndsOnce(EventsOf(q)', acpRuns'[q].phase)
  <2>1. CASE q # r
    <3>1. q \in 1..Len(acpRuns) /\ acpRuns'[q].phase = acpRuns[q].phase
      BY <1>1, <2>1 DEF GoesOn
    <3>2. EventsOf(q)' = EventsOf(q)
      BY <2>1, EventsGrow
    <3> QED BY <1>1, <3>1, <3>2 DEF LogFits
  <2>2. CASE q = r
    <3>1. PICK old : old = OfRun(log[s], r)
      OBVIOUS
    <3>2. EventsOf(q)' = old \o new
      BY <2>2, <3>1, EventsGrow
    <3>3. old \in Seq(AcpEvents) /\ new \in Seq(AcpEvents)
      BY <1>1, <3>1, OfRunType DEF AcpTypes, GoesOn, News
    <3>4. \A i \in 1..Len(old) : old[i].kind # "end"
      BY <1>2, <3>1 DEF BeforeFits
    <3>5. /\ \A i \in 1..Len(new) : /\ i # Len(new) => new[i].kind # "end"
                                    /\ acpRuns'[q].phase # "over" => new[i].kind # "end"
      BY <1>1, <2>2 DEF News
    <3>6. PICK c : c = old \o new
      OBVIOUS
    <3>7. /\ Len(old) \in Nat /\ Len(new) \in Nat /\ Len(c) = Len(old) + Len(new)
          /\ \A i \in 1..Len(c) : \/ i \in 1..Len(old) /\ c[i] = old[i]
                                  \/ i - Len(old) \in 1..Len(new) /\ c[i] = new[i - Len(old)]
      BY <3>3, <3>6, Places
    <3>8. EndsOnce(c, acpRuns'[q].phase)
      <4>1. ASSUME NEW i \in 1..Len(c)
            PROVE  /\ i # Len(c) => c[i].kind # "end"
                   /\ acpRuns'[q].phase # "over" => c[i].kind # "end"
        <5>1. CASE i \in 1..Len(old) /\ c[i] = old[i]
          BY <3>4, <5>1
        <5>2. CASE i - Len(old) \in 1..Len(new) /\ c[i] = new[i - Len(old)]
          <6>1. i # Len(c) => i - Len(old) # Len(new)
            BY <3>7, <4>1
          <6> QED BY <3>5, <5>2, <6>1
        <5> QED BY <3>7, <5>1, <5>2
      <4> QED BY <4>1 DEF EndsOnce
    <3> QED BY <3>2, <3>6, <3>8
  <2> QED BY <2>1, <2>2
<1>7. Fitting(out', acpRuns') /\ Fitting(replay', acpRuns') /\ Fitting(live', acpRuns')
  <2>1. Fitting(out, acpRuns') /\ Fitting(replay, acpRuns') /\ Fitting(live, acpRuns')
    BY <1>1, <1>3 DEF LogFits
  <2>2. out' = out /\ replay' = replay /\ live' = live \o part
    BY DEF Emission, Takes
  <2>3. live \in Seq(AcpEvents) /\ part \in Seq(AcpEvents)
    BY <1>1 DEF AcpTypes, Takes
  <2>4. Fitting(live \o part, acpRuns')
    BY <1>4, <2>1, <2>3, ConcatFits
  <2> QED BY <2>1, <2>2, <2>4
<1> QED BY <1>5, <1>6, <1>7 DEF LogFits

\* The run that emits is the prompt's, and the only one that goes on.
LEMMA NewsPrompt ==
  ASSUME AcpInv, NEW r, NEW s, NEW new, NEW part, Emission(r, s, new, part)
  PROVE  OnePrompt' /\ prompt'.run = r /\ prompt'.session = s /\ r # 0 /\ s # 0
PROOF
<1>1. AcpTypes /\ OnePrompt /\ GoesOn(r, s) /\ (Goes(r) \/ Starts(r))
  BY DEF AcpInv, Emission
<1>2. prompt'.run = r /\ prompt'.session = s /\ r # 0 /\ s # 0 /\ acpRuns'[r].session = s
  <2>1. prompt' = [session |-> s, run |-> r, updates |-> prompt.updates]
    BY <1>1 DEF GoesOn
  <2>2. r \in 1..Len(acpRuns') /\ s \in SessionIds /\ acpRuns' \in Seq(AcpRun)
        /\ acpRuns'[r].session = s
    BY <1>1 DEF GoesOn
  <2> QED BY <2>1, <2>2 DEF SessionIds
<1>3. ASSUME NEW q \in 1..Len(acpRuns'), acpRuns'[q].phase # "over" PROVE q = prompt'.run
  <2> SUFFICES ASSUME q # r PROVE FALSE
    BY <1>2
  <2>1. q \in 1..Len(acpRuns) /\ acpRuns[q].phase # "over"
    BY <1>1, <1>3 DEF GoesOn
  <2>2. q = prompt.run /\ q # 0
    BY <1>1, <2>1 DEF OnePrompt, AcpTypes
  <2> QED BY <1>1, <2>2 DEF Goes, Starts
<1>4. batch' # <<>>
  <2>1. batch' = batch /\ prompt.session = s
    BY <1>1 DEF Emission, GoesOn
  <2> QED BY <1>1, <1>2, <2>1 DEF OnePrompt
<1> QED BY <1>2, <1>3, <1>4 DEF OnePrompt

\* What is before the prompt afterwards.
LEMMA NewsRest ==
  ASSUME AcpInv, NEW r, NEW s, NEW new, NEW part, Emission(r, s, new, part)
  PROVE  Rest' = Before(r) \o part /\ Before(r) \in Seq(AcpEvents)
PROOF
<1>1. AcpTypes /\ GoesOn(r, s) /\ News(r, s, new) /\ Takes(new, part)
  BY DEF AcpInv, Emission
<1>2. AcpTypes'
  BY NewsTypes
<1>3. prompt'.run = r /\ prompt'.updates = prompt.updates /\ out' = out /\ replay' = replay
  BY <1>1 DEF Emission, GoesOn
<1>4. OfRun(Stream, r) = OfRun(out, r) \o (OfRun(replay, r) \o OfRun(live, r))
      /\ prompt.updates \in Seq(AcpEvents) /\ OfRun(Stream, r) \in Seq(AcpEvents)
      /\ prompt.updates \o OfRun(Stream, r) \in Seq(AcpEvents)
  BY <1>1, StreamIsOfEvents
<1>5. OfRun(Stream', r) = OfRun(out, r) \o (OfRun(replay, r) \o OfRun(live', r))
  <2>1. PICK o, p, l : o = out' /\ p = replay' /\ l = live'
    OBVIOUS
  <2>2. o \in Seq(AcpEvents) /\ p \in Seq(AcpEvents) /\ l \in Seq(AcpEvents)
    BY <1>2, <2>1 DEF AcpTypes
  <2>3. Stream' = (o \o p) \o l
    BY <2>1, <2>2 DEF Stream
  <2>4. OfRun((o \o p) \o l, r) = (OfRun(o, r) \o OfRun(p, r)) \o OfRun(l, r)
    <3>1. PICK w : w = o \o p
      OBVIOUS
    <3>2. w \in Seq(AcpEvents)
      BY <2>2, <3>1, ConcatProperties
    <3>3. OfRun(w \o l, r) = OfRun(w, r) \o OfRun(l, r)
      BY <2>2, <3>2, OfRunConcat
    <3>4. OfRun(w, r) = OfRun(o, r) \o OfRun(p, r)
      BY <2>2, <3>1, OfRunConcat
    <3> QED BY <3>1, <3>3, <3>4
  <2>5. OfRun(o, r) \in Seq(AcpEvents) /\ OfRun(p, r) \in Seq(AcpEvents)
        /\ OfRun(l, r) \in Seq(AcpEvents)
    BY <2>2, OfRunType
  <2>6. (OfRun(o, r) \o OfRun(p, r)) \o OfRun(l, r)
          = OfRun(o, r) \o (OfRun(p, r) \o OfRun(l, r))
    BY <2>5, ConcatAssociative
  <2> QED BY <1>3, <2>1, <2>3, <2>4, <2>6
<1>6. OfRun(live', r) = OfRun(live, r) \o part
  <2>1. live \in Seq(AcpEvents) /\ part \in Seq(AcpEvents) /\ live' = live \o part
    BY <1>1 DEF AcpTypes, Takes
  <2>2. OfRun(live \o part, r) = OfRun(live, r) \o OfRun(part, r)
    BY <2>1, OfRunConcat
  <2>3. OfRun(part, r) = part
    <3>1. Len(new) \in Nat /\ Len(part) \in Nat /\ Len(part) <= Len(new)
      BY <1>1 DEF News, Takes
    <3>2. ASSUME NEW i \in 1..Len(part) PROVE part[i].run = r
      <4>1. part[i] = new[i] /\ i \in 1..Len(new)
        BY <1>1, <3>1 DEF Takes
      <4> QED BY <1>1, <4>1 DEF News
    <3> QED BY <2>1, <3>2, OfRunAll
  <2> QED BY <2>1, <2>2, <2>3
<1>7. PICK a, b, c, u : a = OfRun(out, r) /\ b = OfRun(replay, r) /\ c = OfRun(live, r)
                        /\ u = prompt.updates
  OBVIOUS
<1>8. a \in Seq(AcpEvents) /\ b \in Seq(AcpEvents) /\ c \in Seq(AcpEvents)
      /\ u \in Seq(AcpEvents) /\ part \in Seq(AcpEvents)
  BY <1>1, <1>4, <1>7, OfRunType DEF AcpTypes, Takes
<1>9. a \o (b \o (c \o part)) = (a \o (b \o c)) \o part
  <2>1. PICK w : w = b \o c
    OBVIOUS
  <2>2. w \in Seq(AcpEvents)
    BY <1>8, <2>1, ConcatProperties
  <2>3. ASSUME NEW x \in Seq(AcpEvents), NEW y \in Seq(AcpEvents), NEW z \in Seq(AcpEvents)
        PROVE  x \o (y \o z) = (x \o y) \o z
    OBVIOUS
  <2>4. b \o (c \o part) = w \o part
    BY <1>8, <2>1, <2>3
  <2>5. a \o (w \o part) = (a \o w) \o part
    BY <1>8, <2>2, <2>3
  <2> QED BY <2>1, <2>4, <2>5
<1>10. Rest' = u \o ((a \o (b \o c)) \o part)
  <2>1. Rest' = prompt'.updates \o OfRun(Stream', prompt'.run)
    BY DEF Rest
  <2> QED BY <1>3, <1>5, <1>6, <1>7, <1>9, <2>1
<1>11. Before(r) = u \o (a \o (b \o c)) /\ a \o (b \o c) \in Seq(AcpEvents)
  BY <1>4, <1>7 DEF Before
<1>12. u \o ((a \o (b \o c)) \o part) = (u \o (a \o (b \o c))) \o part
  <2>1. PICK v : v = a \o (b \o c)
    OBVIOUS
  <2>2. v \in Seq(AcpEvents)
    BY <1>11, <2>1
  <2>3. u \o (v \o part) = (u \o v) \o part
    <3>1. u \in Seq(AcpEvents) /\ part \in Seq(AcpEvents)
      BY <1>8
    <3> QED BY <2>2, <3>1
  <2> QED BY <2>1, <2>3
<1> QED BY <1>4, <1>10, <1>11, <1>12 DEF Before

\* It is in order, and all of it if nothing was dropped; later than what streams were told.
LEMMA NewsReach ==
  ASSUME AcpInv, NEW r, NEW s, NEW new, NEW part, Emission(r, s, new, part)
  PROVE  ReadsOn' /\ \A k \in 1..Len(told') : ToldFits(k)'
PROOF
<1>1. AcpTypes /\ GoesOn(r, s) /\ News(r, s, new) /\ Takes(new, part)
      /\ \A k \in 1..Len(told) : ToldFits(k)
  BY DEF AcpInv, Emission
<1>2. BeforeFits(r, s)
  BY BeforeNews DEF Emission
<1>3. prompt'.run = r /\ prompt'.session = s /\ r # 0 /\ s # 0
  BY NewsPrompt
<1>4. PICK a : a = Before(r)
  OBVIOUS
<1>5. a \in Seq(AcpEvents) /\ part \in Seq(AcpEvents) /\ Rest' = a \o part
  BY <1>1, <1>4, NewsRest DEF Takes
<1>6. /\ log \in [SessionIds -> Seq(AcpEvents)] /\ new \in Seq(AcpEvents)
      /\ s \in SessionIds /\ log' = [log EXCEPT ![s] = @ \o new]
  BY <1>1 DEF AcpTypes, News, GoesOn
<1>7. PICK n : n = Len(log[s])
  OBVIOUS
<1>8. n \in Nat /\ Len(new) \in Nat /\ Len(part) \in Nat /\ Len(part) <= Len(new)
      /\ Len(log'[s]) = n + Len(new) /\ Len(a) \in Nat
  <2>1. log[s] \in Seq(AcpEvents) /\ log'[s] = log[s] \o new
    BY <1>6
  <2>2. Len(log[s] \o new) = Len(log[s]) + Len(new) /\ Len(log[s]) \in Nat
    BY <1>6, <2>1
  <2>3. Len(part) \in Nat /\ Len(a) \in Nat /\ Len(new) \in Nat
    BY <1>5, <1>6
  <2> QED BY <1>1, <1>7, <2>1, <2>2, <2>3 DEF Takes
<1>9. \A i \in 1..Len(part) : part[i].seq = n + i /\ i <= Len(new)
  <2> SUFFICES ASSUME NEW i \in 1..Len(part) PROVE part[i].seq = n + i /\ i <= Len(new)
    OBVIOUS
  <2>1. part[i] = new[i] /\ i \in 1..Len(new)
    BY <1>1, <1>8 DEF Takes
  <2> QED BY <1>1, <1>7, <1>8, <2>1 DEF News
<1>10. \A i \in 1..Len(a) : a[i].seq \in Nat /\ a[i].seq <= n
  <2>1. \A i \in 1..Len(a) : a[i] \in AcpEvents
    BY <1>5
  <2>2. UpTo(a, n)
    BY <1>2, <1>4, <1>7 DEF BeforeFits
  <2> QED BY <2>1, <2>2 DEF UpTo, AcpEvents
<1>11. Climbs(a) /\ Climbs(part)
  <2>1. Climbs(a)
    BY <1>2, <1>4 DEF BeforeFits
  <2>2. ASSUME NEW i \in 1..Len(part), NEW j \in 1..Len(part), i < j
        PROVE  part[i].seq < part[j].seq
    <3>1. part[i].seq = n + i /\ part[j].seq = n + j
      BY <1>9
    <3> QED BY <1>8, <2>2, <3>1
  <2>3. Climbs(part)
    BY <2>2 DEF Climbs
  <2> QED BY <2>1, <2>3
<1>12. Climbs(a \o part)
  <2>1. \A i \in 1..Len(a), j \in 1..Len(part) : a[i].seq < part[j].seq
    BY <1>8, <1>9, <1>10
  <2> QED BY <1>5, <1>11, <2>1, ConcatFits
<1>13. UpTo(a \o part, Len(log'[s]))
  <2>1. UpTo(a, n + Len(new)) /\ UpTo(part, n + Len(new))
    BY <1>8, <1>9, <1>10 DEF UpTo
  <2> QED BY <1>5, <1>8, <2>1, ConcatFits
<1>14. ~dropped' => Rest' = EventsOf(r)'
  <2>1. ~dropped' => ~dropped /\ part = new
    BY <1>1 DEF Takes
  <2>2. ~dropped => a = OfRun(log[s], r)
    BY <1>2, <1>4 DEF BeforeFits
  <2>3. EventsOf(r)' = OfRun(log[s], r) \o new
    <3>1. r \in 1..Len(acpRuns')
      BY <1>1 DEF GoesOn
    <3> QED BY <3>1, EventsGrow
  <2> QED BY <1>5, <2>1, <2>2, <2>3
<1>15. ReadsOn'
  <2>1. ~dropped' => Rest' = EventsOf(prompt.run)'
    <3>1. EventsOf(prompt.run)' = EventsOf(r)'
      BY <1>3 DEF EventsOf
    <3> QED BY <1>14, <3>1
  <2>2. Climbs(Rest') /\ UpTo(Rest', Len(log'[prompt'.session]))
    BY <1>3, <1>5, <1>12, <1>13
  <2>3. Climbs(Rest)' /\ UpTo(Rest, Len(log[prompt.session]))'
    BY <2>2 DEF Climbs, UpTo
  <2> QED BY <2>1, <2>3 DEF ReadsOn
<1>16. ASSUME NEW k \in 1..Len(told') PROVE ToldFits(k)'
  <2>1. told' = told /\ streams' = streams /\ k \in 1..Len(told)
    BY <1>16 DEF Emission
  <2>2. ToldFits(k)
    BY <1>1, <2>1
  <2>3. PICK t : t = told[k]
    OBVIOUS
  <2>4. t \in Seq(AcpEvents) /\ told'[k] = t /\ streams[k] \in 0..MaxSessions
    <3>1. told \in Seq(Seq(AcpEvents)) /\ k \in 1..Len(told)
      BY <1>1, <2>1 DEF AcpTypes
    <3>2. told[k] \in Seq(AcpEvents)
      BY <3>1
    <3>3. streams \in Seq(0..MaxSessions) /\ k \in 1..Len(streams)
      BY <1>1, <2>1 DEF AcpTypes
    <3>4. streams[k] \in 0..MaxSessions
      <4>1. PICK T : T = 0..MaxSessions
        OBVIOUS
      <4>2. streams \in Seq(T)
        BY <3>3, <4>1
      <4>3. streams[k] \in T
        BY <3>3, <4>2
      <4> QED BY <4>1, <4>3
    <3> QED BY <2>1, <2>3, <3>2, <3>4
  <2>5. \A i \in 1..Len(t) : t[i] \in AcpEvents /\ t[i].seq \in Nat
    <3>1. \A i \in 1..Len(t) : t[i] \in AcpEvents
      BY <2>4
    <3> QED BY <3>1 DEF AcpEvents
  <2>6. Climbs(t) /\ (streams[k] # 0 => UpTo(t, Len(log[streams[k]])))
    BY <2>2, <2>3 DEF ToldFits
  <2>7. ASSUME streams[k] # 0 PROVE UpTo(t, Len(log'[streams[k]]))
    <3>1. CASE streams[k] = s
      BY <1>7, <1>8, <2>5, <2>6, <2>7, <3>1 DEF UpTo
    <3>2. CASE streams[k] # s
      <4>1. streams[k] \in SessionIds
        BY <2>4, <2>7 DEF SessionIds
      <4>2. log'[streams[k]] = log[streams[k]]
        BY <1>6, <3>2, <4>1
      <4> QED BY <2>6, <2>7, <4>2
    <3> QED BY <3>1, <3>2
  <2>8. ASSUME streams[k] = s
        PROVE  \A i \in 1..Len(t), j \in 1..Len(a \o part) : t[i].seq < (a \o part)[j].seq
    <3> SUFFICES ASSUME NEW i \in 1..Len(t), NEW j \in 1..Len(a \o part)
                 PROVE  t[i].seq < (a \o part)[j].seq
      OBVIOUS
    <3>1. CASE j \in 1..Len(a)
      <4>1. (a \o part)[j] = a[j]
        BY <1>5, <3>1, Places
      <4>2. t[i].seq < a[j].seq
        BY <1>2, <1>4, <2>1, <2>3, <2>8, <3>1 DEF BeforeFits
      <4> QED BY <4>1, <4>2
    <3>2. CASE j \notin 1..Len(a)
      <4>1. PICK m : m = j - Len(a)
        OBVIOUS
      <4>2. m \in 1..Len(part) /\ (a \o part)[j] = part[m]
        BY <1>5, <3>2, <4>1, Places
      <4>3. part[m].seq = n + m /\ m \in Nat \ {0}
        BY <1>8, <1>9, <4>2
      <4>4. t[i].seq <= n /\ t[i].seq \in Nat
        BY <1>3, <1>7, <2>5, <2>6, <2>8 DEF UpTo
      <4>5. PICK x, y : x = t[i].seq /\ y = part[m].seq
        OBVIOUS
      <4>6. x < y
        BY <1>8, <4>3, <4>4, <4>5
      <4> QED BY <4>2, <4>5, <4>6
    <3> QED BY <3>1, <3>2
  <2>9. PICK x : x = Rest'
    OBVIOUS
  <2>10. x = a \o part
    BY <1>5, <2>9
  <2>11. /\ Climbs(told'[k])
         /\ streams'[k] # 0 => UpTo(told'[k], Len(log'[streams'[k]]))
         /\ streams'[k] # 0 /\ streams'[k] = prompt'.session /\ prompt'.run # 0 =>
              \A i \in 1..Len(told'[k]), j \in 1..Len(Rest') : told'[k][i].seq < Rest'[j].seq
    BY <1>3, <2>1, <2>4, <2>6, <2>7, <2>8, <2>9, <2>10
  <2> QED BY <2>11 DEF ToldFits, Climbs, UpTo
<1> QED BY <1>15, <1>16

\* An answer stays what it was.
LEMMA NewsAnswer ==
  ASSUME AcpInv, NEW r, NEW s, NEW new, NEW part, Emission(r, s, new, part),
         NEW answer, AnswerFits(answer)
  PROVE  AnswerFits(answer)'
PROOF
<1> SUFFICES ASSUME answer.kind = "end_turn"
             PROVE  /\ answer.run \in 1..Len(acpRuns') /\ acpRuns'[answer.run].phase = "over"
                    /\ ~answer.lossy => answer.updates = EventsOf(answer.run)'
  BY DEF AnswerFits
<1>1. /\ answer.run \in 1..Len(acpRuns) /\ acpRuns[answer.run].phase = "over"
      /\ ~answer.lossy => answer.updates = EventsOf(answer.run)
  BY DEF AnswerFits
<1>2. /\ answer.run \in 1..Len(acpRuns') /\ acpRuns'[answer.run].phase = "over"
      /\ answer.run # r
  BY <1>1, OverStays
<1>3. EventsOf(answer.run)' = EventsOf(answer.run)
  BY <1>2, EventsGrow
<1> QED BY <1>1, <1>2, <1>3

\* Hence a run that emits keeps the invariant.
LEMMA NewsKeeps ==
  ASSUME AcpInv, NEW r, NEW s, NEW new, NEW part, Emission(r, s, new, part)
  PROVE  AcpInv'
PROOF
<1>1. AcpTypes' /\ OnePrompt' /\ LogFits' /\ ReadsOn' /\ \A k \in 1..Len(told') : ToldFits(k)'
  BY NewsTypes, NewsPrompt, NewsFit, NewsReach
<1>2. held' = held /\ written' = written
  BY DEF Emission
<1>3. ASSUME NEW i \in 1..Len(held) PROVE AnswerFits(held[i])'
  <2>1. PICK answer : answer = held[i]
    OBVIOUS
  <2>2. AnswerFits(answer)
    BY <2>1 DEF AcpInv
  <2>3. AnswerFits(answer)'
    BY <2>2, NewsAnswer
  <2> QED BY <1>2, <2>1, <2>3 DEF AnswerFits
<1>4. ASSUME NEW i \in 1..Len(written) PROVE AnswerFits(written[i])'
  <2>1. PICK answer : answer = written[i]
    OBVIOUS
  <2>2. AnswerFits(answer)
    BY <2>1 DEF AcpInv
  <2>3. AnswerFits(answer)'
    BY <2>2, NewsAnswer
  <2> QED BY <1>2, <2>1, <2>3 DEF AnswerFits
<1> QED BY <1>1, <1>2, <1>3, <1>4 DEF AcpInv

\* The kinds of what a step emits: the end is the last, and the run is over.
KindsFit(kinds, phase) ==
  /\ kinds \in Seq({"queued", "started", "delta", "approval_needed", "end"})
  /\ \A i \in 1..Len(kinds) : /\ i # Len(kinds) => kinds[i] # "end"
                              /\ phase # "over" => kinds[i] # "end"
EmitsIn(r, s) == s = IF r \in DOMAIN acpRuns THEN acpRuns[r].session ELSE prompt.session
EmittedAs(r, s, kinds, new) ==
  new = [i \in DOMAIN kinds |-> [run |-> r, kind |-> kinds[i], seq |-> Len(log[s]) + i]]

\* What Emit adds to the store and to the subscription's channel.
LEMMA EmitGives ==
  ASSUME AcpTypes, NEW r, NEW s, NEW kinds, GoesOn(r, s), EmitsIn(r, s), Emit(r, kinds),
         KindsFit(kinds, acpRuns'[r].phase)
  PROVE  \E new, part : News(r, s, new) /\ Takes(new, part)
PROOF
<1>1. PICK new : EmittedAs(r, s, kinds, new)
  BY DEF EmittedAs
<1>2. PICK room : room = BufferSize - Len(live)
  OBVIOUS
<1>3. PICK kept : kept = IF Len(new) <= room THEN live \o new
                           ELSE live \o SubSeq(new, 1, room)
  OBVIOUS
<1>4. /\ log' = [log EXCEPT ![s] = @ \o new] /\ live' = kept
      /\ dropped' = (dropped \/ Len(kept) < Len(live) + Len(new))
  BY <1>1, <1>2, <1>3 DEF Emit, EmitsIn, EmittedAs
<1>5. s \in SessionIds /\ log[s] \in Seq(AcpEvents) /\ Len(log[s]) \in Nat /\ r \in Nat
  <2>1. s \in SessionIds /\ r \in 1..Len(acpRuns') /\ acpRuns' \in Seq(AcpRun)
    BY DEF GoesOn
  <2>2. log[s] \in Seq(AcpEvents)
    BY <2>1 DEF AcpTypes
  <2> QED BY <2>1, <2>2
<1>6. /\ DOMAIN kinds = 1..Len(kinds) /\ Len(kinds) \in Nat
      /\ \A i \in 1..Len(kinds) :
           kinds[i] \in {"queued", "started", "delta", "approval_needed", "end"}
  BY DEF KindsFit
<1>7. \A i \in 1..Len(kinds) :
        /\ new[i] = [run |-> r, kind |-> kinds[i], seq |-> Len(log[s]) + i]
        /\ new[i] \in AcpEvents
  BY <1>1, <1>5, <1>6 DEF EmittedAs, AcpEvents
<1>8. new \in Seq(AcpEvents) /\ Len(new) = Len(kinds)
  <2>1. new = [i \in 1..Len(kinds) |->
                 [run |-> r, kind |-> kinds[i], seq |-> Len(log[s]) + i]]
    BY <1>1, <1>6 DEF EmittedAs
  <2>2. new \in [1..Len(kinds) -> AcpEvents]
    BY <1>7, <2>1
  <2> QED BY <1>6, <2>2
<1>9. News(r, s, new)
  <2>1. ASSUME NEW i \in 1..Len(new)
        PROVE  /\ new[i].run = r /\ new[i].seq = Len(log[s]) + i
               /\ i # Len(new) => new[i].kind # "end"
               /\ acpRuns'[r].phase # "over" => new[i].kind # "end"
    <3>1. i \in 1..Len(kinds)
      BY <1>8, <2>1
    <3>2. new[i] = [run |-> r, kind |-> kinds[i], seq |-> Len(log[s]) + i]
      BY <1>7, <3>1
    <3>3. new[i].run = r /\ new[i].kind = kinds[i] /\ new[i].seq = Len(log[s]) + i
      BY <3>2
    <3>4. /\ i # Len(kinds) => kinds[i] # "end"
          /\ acpRuns'[r].phase # "over" => kinds[i] # "end"
      BY <3>1 DEF KindsFit
    <3> QED BY <1>8, <3>3, <3>4
  <2> QED BY <1>4, <1>8, <2>1 DEF News
<1>10. /\ live \in Seq(AcpEvents) /\ Len(live) \in Nat /\ Len(live) <= BufferSize
       /\ dropped \in BOOLEAN
  <2>1. live \in Seq(AcpEvents) /\ Len(live) <= BufferSize /\ dropped \in BOOLEAN
    BY DEF AcpTypes
  <2> QED BY <2>1
<1>11. room \in Nat /\ BufferSize = Len(live) + room
  BY <1>2, <1>10, AcpAssumption
<1>12. CASE Len(new) <= room
  <2>1. kept = live \o new
    BY <1>3, <1>12
  <2>2. Len(kept) = Len(live) + Len(new) /\ Len(new) \in Nat
    BY <1>8, <1>10, <2>1, Places
  <2>3. Takes(new, new)
    BY <1>4, <1>8, <1>10, <1>11, <1>12, <2>1, <2>2 DEF Takes
  <2> QED BY <1>9, <2>3
<1>13. CASE ~(Len(new) <= room)
  <2>1. PICK part : part = SubSeq(new, 1, room)
    OBVIOUS
  <2>2. Len(new) \in Nat /\ room < Len(new)
    BY <1>8, <1>11, <1>13
  <2>3. part \in Seq(AcpEvents) /\ Len(part) = room
    BY <1>8, <1>11, <2>1, <2>2
  <2>4. \A i \in 1..Len(part) : part[i] = new[i]
    BY <1>8, <1>11, <2>1, <2>2, <2>3
  <2>5. kept = live \o part
    BY <1>3, <1>13, <2>1
  <2>6. Len(kept) = Len(live) + room
    BY <1>10, <2>3, <2>5, Places
  <2>7. dropped' = TRUE
    <3>1. Len(kept) < Len(live) + Len(new)
      BY <1>10, <1>11, <2>2, <2>6
    <3> QED BY <1>4, <3>1
  <2>8. Len(live') <= BufferSize /\ Len(part) <= Len(new) /\ live' = live \o part
    BY <1>4, <1>10, <1>11, <2>2, <2>3, <2>5, <2>6
  <2>9. Takes(new, part)
    BY <2>3, <2>4, <2>7, <2>8 DEF Takes
  <2> QED BY <1>9, <2>9
<1> QED BY <1>12, <1>13

\* The prompt submits its run.
LEMMA SubmitKeeps ==
  ASSUME AcpInv, Submit
  PROVE  AcpInv'
PROOF
<1>1. AcpTypes /\ OnePrompt
  BY DEF AcpInv
<1>2. PICK r : r = Len(acpRuns) + 1
  OBVIOUS
<1>3. PICK s : s = prompt.session
  OBVIOUS
<1>4. PICK run : run = [session |-> s, phase |-> "running", deltas |-> 0]
  OBVIOUS
<1>5. /\ prompt.session # 0 /\ prompt.run = 0 /\ acpRuns' = Append(acpRuns, run)
      /\ prompt' = [prompt EXCEPT !.run = r] /\ Emit(r, <<"queued", "started">>)
      /\ UNCHANGED <<opened, batch, held, written, replay, out, streams, told>>
  BY <1>2, <1>3, <1>4 DEF Submit, transportVars
<1>6. prompt \in [session : SessionIds, run : {0, Len(acpRuns)}, updates : Seq(AcpEvents)]
  BY <1>1, <1>5 DEF AcpTypes, NoPrompt
<1>7. s \in SessionIds /\ acpRuns \in Seq(AcpRun) /\ Len(acpRuns) \in Nat /\ run \in AcpRun
  BY <1>1, <1>3, <1>4, <1>6 DEF AcpTypes, AcpRun
<1>8. /\ acpRuns' \in Seq(AcpRun) /\ Len(acpRuns') = r /\ acpRuns'[r] = run
      /\ \A q \in 1..Len(acpRuns) : acpRuns'[q] = acpRuns[q]
  BY <1>2, <1>5, <1>7
<1>9. r \in Nat /\ r \in 1..Len(acpRuns') /\ r \notin 1..Len(acpRuns) /\ r \notin DOMAIN acpRuns
  BY <1>2, <1>7, <1>8
<1>10. GoesOn(r, s)
  <2>1. prompt' = [session |-> s, run |-> r, updates |-> prompt.updates]
        /\ prompt.updates \in Seq(AcpEvents)
    BY <1>3, <1>5, <1>6
  <2>2. acpRuns'[r].session = s
    BY <1>4, <1>8
  <2>3. ASSUME NEW q \in 1..Len(acpRuns)
        PROVE  q \in 1..Len(acpRuns') /\ acpRuns'[q] = acpRuns[q]
    BY <1>2, <1>7, <1>8
  <2>4. \A q \in 1..Len(acpRuns') : q # r => q \in 1..Len(acpRuns)
    BY <1>2, <1>7, <1>8
  <2> QED BY <1>3, <1>7, <1>8, <1>9, <2>1, <2>2, <2>3, <2>4 DEF GoesOn
<1>11. KindsFit(<<"queued", "started">>, acpRuns'[r].phase)
  <2>1. PICK kinds : kinds = <<"queued", "started">>
    OBVIOUS
  <2>2. Len(kinds) = 2 /\ kinds[1] = "queued" /\ kinds[2] = "started"
        /\ kinds \in Seq({"queued", "started", "delta", "approval_needed", "end"})
    BY <2>1
  <2> QED BY <2>1, <2>2 DEF KindsFit
<1>12. PICK new, part : News(r, s, new) /\ Takes(new, part)
  <2>1. EmitsIn(r, s)
    BY <1>3, <1>9 DEF EmitsIn
  <2> QED BY <1>1, <1>5, <1>10, <1>11, <2>1, EmitGives
<1>13. Emission(r, s, new, part)
  BY <1>5, <1>9, <1>10, <1>12 DEF Emission, Starts
<1> QED BY <1>13, NewsKeeps

\* A run that goes on emits.
LEMMA RunEmits ==
  ASSUME AcpInv, NEW r, NEW kinds, r \in 1..Len(acpRuns), acpRuns[r].phase # "over",
         acpRuns' \in Seq(AcpRun), Len(acpRuns') = Len(acpRuns),
         \A q \in 1..Len(acpRuns) : /\ acpRuns'[q].session = acpRuns[q].session
                                    /\ q # r => acpRuns'[q] = acpRuns[q],
         KindsFit(kinds, acpRuns'[r].phase), Emit(r, kinds),
         UNCHANGED <<opened, transportVars, prompt, replay, out, streams, told>>
  PROVE  AcpInv'
PROOF
<1>1. AcpTypes /\ OnePrompt
  BY DEF AcpInv
<1>2. r = prompt.run /\ acpRuns \in Seq(AcpRun) /\ Len(acpRuns) \in Nat /\ r # 0
  <2>1. acpRuns \in Seq(AcpRun) /\ r = prompt.run
    BY <1>1 DEF OnePrompt, AcpTypes
  <2> QED BY <2>1
<1>3. prompt \in [session : SessionIds, run : {0, Len(acpRuns)}, updates : Seq(AcpEvents)]
  BY <1>1, <1>2 DEF AcpTypes, NoPrompt
<1>4. PICK s : s = prompt.session
  OBVIOUS
<1>5. s \in SessionIds /\ r = Len(acpRuns) /\ acpRuns[r].session = s
  BY <1>1, <1>2, <1>3, <1>4 DEF OnePrompt
<1>6. GoesOn(r, s)
  <2>1. prompt' = [session |-> s, run |-> r, updates |-> prompt.updates]
        /\ prompt.updates \in Seq(AcpEvents)
    BY <1>2, <1>3, <1>4
  <2>2. ASSUME NEW q \in 1..Len(acpRuns)
        PROVE  q # r => acpRuns'[q].phase = acpRuns[q].phase
    OBVIOUS
  <2>3. acpRuns'[r].session = s /\ r \in 1..Len(acpRuns')
    BY <1>5
  <2> QED BY <1>4, <1>5, <2>1, <2>2, <2>3 DEF GoesOn
<1>7. PICK new, part : News(r, s, new) /\ Takes(new, part)
  <2>1. r \in DOMAIN acpRuns
    BY <1>2
  <2>2. EmitsIn(r, s)
    BY <1>5, <2>1 DEF EmitsIn
  <2> QED BY <1>1, <1>6, <2>2, EmitGives
<1>8. Emission(r, s, new, part)
  BY <1>2, <1>6, <1>7 DEF Emission, Goes, transportVars
<1> QED BY <1>8, NewsKeeps

\* The steps of the run.
LEMMA RunKeeps ==
  ASSUME AcpInv, RunOutputs \/ RunAsks \/ RunFinishes
  PROVE  AcpInv'
PROOF
<1> DEFINE Kinds == {"queued", "started", "delta", "approval_needed", "end"}
<1>1. acpRuns \in Seq(AcpRun) /\ DOMAIN acpRuns = 1..Len(acpRuns) /\ Len(acpRuns) \in Nat
  BY DEF AcpInv, AcpTypes
<1>2. ASSUME NEW r \in 1..Len(acpRuns)
      PROVE  acpRuns[r] \in AcpRun
  BY <1>1
<1>3. ASSUME NEW phase
      PROVE  KindsFit(<<"delta">>, phase) /\ KindsFit(<<"approval_needed">>, phase)
  <2>1. PICK a, b : a = <<"delta">> /\ b = <<"approval_needed">>
    OBVIOUS
  <2>2. Len(a) = 1 /\ a[1] = "delta" /\ a \in Seq(Kinds)
    BY <2>1
  <2>3. Len(b) = 1 /\ b[1] = "approval_needed" /\ b \in Seq(Kinds)
    BY <2>1
  <2> QED BY <2>1, <2>2, <2>3 DEF KindsFit
<1>4. KindsFit(<<"delta", "end">>, "over") /\ KindsFit(<<"end">>, "over")
  <2>1. PICK a, b : a = <<"delta", "end">> /\ b = <<"end">>
    OBVIOUS
  <2>2. Len(a) = 2 /\ a[1] = "delta" /\ a[2] = "end" /\ a \in Seq(Kinds)
    BY <2>1
  <2>3. Len(b) = 1 /\ b[1] = "end" /\ b \in Seq(Kinds)
    BY <2>1
  <2> QED BY <2>1, <2>2, <2>3 DEF KindsFit
<1>5. CASE RunOutputs
  <2>1. PICK r \in Runs("running") : acpRuns' = [acpRuns EXCEPT ![r].deltas = @ + 1]
                                     /\ Emit(r, <<"delta">>)
    BY <1>5 DEF RunOutputs
  <2>2. r \in 1..Len(acpRuns) /\ acpRuns[r].phase # "over" /\ acpRuns[r] \in AcpRun
    BY <1>1, <1>2, <2>1 DEF Runs
  <2>3. PICK run : run = [acpRuns[r] EXCEPT !.deltas = @ + 1]
    OBVIOUS
  <2>4. run \in AcpRun /\ run.session = acpRuns[r].session
    BY <2>2, <2>3 DEF AcpRun
  <2>5. acpRuns' = [acpRuns EXCEPT ![r] = run]
    BY <2>1, <2>3
  <2>6. acpRuns' \in Seq(AcpRun) /\ Len(acpRuns') = Len(acpRuns)
        /\ \A q \in 1..Len(acpRuns) : acpRuns'[q] = IF q = r THEN run ELSE acpRuns[q]
    BY <1>1, <2>2, <2>4, <2>5
  <2>7. KindsFit(<<"delta">>, acpRuns'[r].phase)
    BY <1>3
  <2>8. UNCHANGED <<opened, transportVars, prompt, replay, out, streams, told>>
    BY <1>5 DEF RunOutputs
  <2>9. \A q \in 1..Len(acpRuns) : /\ acpRuns'[q].session = acpRuns[q].session
                                   /\ q # r => acpRuns'[q] = acpRuns[q]
    BY <2>4, <2>6
  <2> QED BY <2>1, <2>2, <2>6, <2>7, <2>8, <2>9, RunEmits
<1>6. CASE RunAsks
  <2>1. PICK r \in Runs("running") : acpRuns' = [acpRuns EXCEPT ![r].phase = "asked"]
                                     /\ Emit(r, <<"approval_needed">>)
    BY <1>6 DEF RunAsks
  <2>2. r \in 1..Len(acpRuns) /\ acpRuns[r].phase # "over" /\ acpRuns[r] \in AcpRun
    BY <1>1, <1>2, <2>1 DEF Runs
  <2>3. PICK run : run = [acpRuns[r] EXCEPT !.phase = "asked"]
    OBVIOUS
  <2>4. run \in AcpRun /\ run.session = acpRuns[r].session
    BY <2>2, <2>3 DEF AcpRun
  <2>5. acpRuns' = [acpRuns EXCEPT ![r] = run]
    BY <2>1, <2>3
  <2>6. acpRuns' \in Seq(AcpRun) /\ Len(acpRuns') = Len(acpRuns)
        /\ \A q \in 1..Len(acpRuns) : acpRuns'[q] = IF q = r THEN run ELSE acpRuns[q]
    BY <1>1, <2>2, <2>4, <2>5
  <2>7. KindsFit(<<"approval_needed">>, acpRuns'[r].phase)
    BY <1>3
  <2>8. UNCHANGED <<opened, transportVars, prompt, replay, out, streams, told>>
    BY <1>6 DEF RunAsks
  <2>9. \A q \in 1..Len(acpRuns) : /\ acpRuns'[q].session = acpRuns[q].session
                                   /\ q # r => acpRuns'[q] = acpRuns[q]
    BY <2>4, <2>6
  <2> QED BY <2>1, <2>2, <2>6, <2>7, <2>8, <2>9, RunEmits
<1>7. CASE RunFinishes
  <2>1. PICK r \in Runs("running") \cup Runs("stopped") :
          /\ acpRuns' = [acpRuns EXCEPT ![r].phase = "over"]
          /\ Emit(r, <<"delta", "end">>) \/ Emit(r, <<"end">>)
    BY <1>7 DEF RunFinishes
  <2>2. r \in 1..Len(acpRuns) /\ acpRuns[r].phase # "over" /\ acpRuns[r] \in AcpRun
    BY <1>1, <1>2, <2>1 DEF Runs
  <2>3. PICK run : run = [acpRuns[r] EXCEPT !.phase = "over"]
    OBVIOUS
  <2>4. run \in AcpRun /\ run.session = acpRuns[r].session /\ run.phase = "over"
    BY <2>2, <2>3 DEF AcpRun
  <2>5. acpRuns' = [acpRuns EXCEPT ![r] = run]
    BY <2>1, <2>3
  <2>6. acpRuns' \in Seq(AcpRun) /\ Len(acpRuns') = Len(acpRuns)
        /\ \A q \in 1..Len(acpRuns) : acpRuns'[q] = IF q = r THEN run ELSE acpRuns[q]
    BY <1>1, <2>2, <2>4, <2>5
  <2>7. /\ KindsFit(<<"delta", "end">>, acpRuns'[r].phase)
        /\ KindsFit(<<"end">>, acpRuns'[r].phase)
    <3>1. acpRuns'[r].phase = "over"
      BY <2>2, <2>4, <2>6
    <3> QED BY <1>4, <3>1
  <2>8. UNCHANGED <<opened, transportVars, prompt, replay, out, streams, told>>
    BY <1>7 DEF RunFinishes
  <2>9. \A q \in 1..Len(acpRuns) : /\ acpRuns'[q].session = acpRuns[q].session
                                   /\ q # r => acpRuns'[q] = acpRuns[q]
    BY <2>4, <2>6
  <2>10. CASE Emit(r, <<"delta", "end">>)
    BY <2>2, <2>6, <2>7, <2>8, <2>9, <2>10, RunEmits
  <2>11. CASE Emit(r, <<"end">>)
    BY <2>2, <2>6, <2>7, <2>8, <2>9, <2>11, RunEmits
  <2> QED BY <2>1, <2>10, <2>11
<1> QED BY <1>5, <1>6, <1>7

\* As long as the store and the runs stay, so do the events of a run and the answers.
LEMMA StoreStays ==
  ASSUME UNCHANGED <<log, acpRuns>>
  PROVE  /\ \A q : EventsOf(q)' = EventsOf(q)
         /\ \A answer : AnswerFits(answer) => AnswerFits(answer)'
PROOF
<1>1. ASSUME NEW q PROVE EventsOf(q)' = EventsOf(q)
  BY DEF EventsOf
<1>2. ASSUME NEW answer, AnswerFits(answer) PROVE AnswerFits(answer)'
  <2> SUFFICES ASSUME answer.kind = "end_turn"
               PROVE  /\ answer.run \in 1..Len(acpRuns')
                      /\ acpRuns'[answer.run].phase = "over"
                      /\ ~answer.lossy => answer.updates = EventsOf(answer.run)'
    BY DEF AnswerFits
  <2>1. /\ answer.run \in 1..Len(acpRuns) /\ acpRuns[answer.run].phase = "over"
        /\ ~answer.lossy => answer.updates = EventsOf(answer.run)
    BY <1>2 DEF AnswerFits
  <2> QED BY <1>1, <2>1
<1> QED BY <1>1, <1>2

\* A response that fits is held with the others.
LEMMA RespondGives ==
  ASSUME AcpInv, NEW answer \in Answers, AnswerFits(answer), Respond(answer), batch # <<>>
  PROVE  /\ batch' \in Seq(AcpRequests) /\ held' \in Seq(Answers) /\ written' = written
         /\ \A i \in 1..Len(held') : AnswerFits(held'[i])
PROOF
<1>1. batch \in Seq(AcpRequests) /\ held \in Seq(Answers)
  BY DEF AcpInv, AcpTypes
<1>2. batch' = Tail(batch) /\ held' = Append(held, answer) /\ written' = written
  BY DEF Respond
<1>3. batch' \in Seq(AcpRequests)
  BY <1>1, <1>2
<1>4. held' \in Seq(Answers) /\ Len(held') = Len(held) + 1 /\ Len(held) \in Nat
      /\ \A i \in 1..Len(held') : held'[i] = IF i \in 1..Len(held) THEN held[i] ELSE answer
  BY <1>1, <1>2
<1>5. ASSUME NEW i \in 1..Len(held') PROVE AnswerFits(held'[i])
  <2>1. CASE i \in 1..Len(held)
    <3>1. AnswerFits(held[i]) /\ held'[i] = held[i]
      BY <1>4, <2>1 DEF AcpInv
    <3> QED BY <3>1
  <2>2. CASE i \notin 1..Len(held)
    BY <1>4, <2>2
  <2> QED BY <2>1, <2>2
<1> QED BY <1>2, <1>3, <1>4, <1>5

\* An answer that ends no prompt fits.
LEMMA PlainAnswers ==
  /\ Succeeds \in Answers /\ AnswerFits(Succeeds)
  /\ Fails \in Answers /\ AnswerFits(Fails)
PROOF
<1>1. <<>> \in Seq(AcpEvents)
  OBVIOUS
<1>2. Fails \in Answers /\ Fails.kind = "error"
  BY <1>1 DEF Fails, Answers
<1>3. Succeeds \in Answers /\ Succeeds.kind = "ok"
  <2>1. PICK x : x = Fails
    OBVIOUS
  <2>2. Succeeds = [x EXCEPT !.kind = "ok"] /\ x \in Answers
    BY <1>2, <2>1 DEF Succeeds
  <2> QED BY <2>2 DEF Answers
<1> QED BY <1>2, <1>3 DEF AnswerFits

\* What a stream is told later stays later as long as the prompt and what is before it stay.
StreamStays(k) ==
  \/ k \in 1..Len(told) /\ told'[k] = told[k] /\ streams'[k] \in {streams[k], 0}
  \/ told'[k] = <<>>

\* A step without a prompt that leaves the store and the runs alone.
LEMMA QuietKeeps ==
  ASSUME AcpInv, UNCHANGED <<log, acpRuns, prompt, feedOfPrompt>>, prompt.session = 0,
         batch' \in Seq(AcpRequests), held' \in Seq(Answers), written' \in Seq(Answers),
         \A i \in 1..Len(held') : AnswerFits(held'[i]),
         \A i \in 1..Len(written') : AnswerFits(written'[i]),
         streams' \in Seq(0..MaxSessions), told' \in Seq(Seq(AcpEvents)),
         Len(told') = Len(streams'), \A k \in 1..Len(told') : StreamStays(k)
  PROVE  AcpInv'
PROOF
<1>1. /\ log' = log /\ acpRuns' = acpRuns /\ prompt' = prompt /\ replay' = replay
      /\ live' = live /\ out' = out /\ dropped' = dropped
  BY DEF feedOfPrompt
<1>2. AcpTypes /\ OnePrompt /\ LogFits /\ ReadsOn /\ \A k \in 1..Len(told) : ToldFits(k)
  BY DEF AcpInv
<1>3. AcpTypes'
  BY <1>1, <1>2 DEF AcpTypes
<1>4. OnePrompt'
  BY <1>1, <1>2 DEF OnePrompt
<1>5. \A q : EventsOf(q)' = EventsOf(q)
  BY <1>1, StoreStays
<1>6. LogFits'
  BY <1>1, <1>2, <1>5 DEF LogFits
<1>7. Rest' = Rest
  BY <1>1 DEF Rest, Stream
<1>8. ReadsOn'
  <2>1. EventsOf(prompt.run)' = EventsOf(prompt.run)
    BY <1>1 DEF EventsOf
  <2>2. Climbs(Rest)' = Climbs(Rest) /\ UpTo(Rest, Len(log[prompt.session]))'
                                          = UpTo(Rest, Len(log[prompt.session]))
    BY <1>1, <1>7 DEF Climbs, UpTo
  <2> QED BY <1>1, <1>2, <1>7, <2>1, <2>2 DEF ReadsOn
<1>9. ASSUME NEW k \in 1..Len(told') PROVE ToldFits(k)'
  <2>1. CASE told'[k] = <<>>
    <3>1. Len(<<>>) = 0 /\ 1..0 = {}
      OBVIOUS
    <3> QED BY <2>1, <3>1 DEF ToldFits, Climbs, UpTo
  <2>2. CASE k \in 1..Len(told) /\ told'[k] = told[k] /\ streams'[k] \in {streams[k], 0}
    <3>1. ToldFits(k)
      BY <1>2, <2>2
    <3> QED BY <1>1, <1>7, <2>2, <3>1 DEF ToldFits, Climbs, UpTo
  <2> QED BY <1>9, <2>1, <2>2 DEF StreamStays
<1>10. /\ \A i \in 1..Len(held') : AnswerFits(held[i])'
       /\ \A i \in 1..Len(written') : AnswerFits(written[i])'
  <2>1. ASSUME NEW i \in 1..Len(held') PROVE AnswerFits(held[i])'
    <3>1. PICK answer : answer = held'[i]
      OBVIOUS
    <3>2. AnswerFits(answer)'
      BY <1>1, <3>1, StoreStays
    <3> QED BY <3>1, <3>2 DEF AnswerFits
  <2>2. ASSUME NEW i \in 1..Len(written') PROVE AnswerFits(written[i])'
    <3>1. PICK answer : answer = written'[i]
      OBVIOUS
    <3>2. AnswerFits(answer)'
      BY <1>1, <3>1, StoreStays
    <3> QED BY <3>1, <3>2 DEF AnswerFits
  <2> QED BY <2>1, <2>2
<1> QED BY <1>3, <1>4, <1>6, <1>8, <1>9, <1>10 DEF AcpInv

\* The streams stay when they are left alone.
LEMMA StreamsAsBefore ==
  ASSUME AcpInv, UNCHANGED <<streams, told>>
  PROVE  /\ streams' \in Seq(0..MaxSessions) /\ told' \in Seq(Seq(AcpEvents))
         /\ Len(told') = Len(streams') /\ \A k \in 1..Len(told') : StreamStays(k)
BY DEF AcpInv, AcpTypes, StreamStays

\* The transport.
LEMMA TransportKeeps ==
  ASSUME AcpInv, ReadLine \/ WriteResponses
  PROVE  AcpInv'
PROOF
<1>1. /\ batch \in Seq(AcpRequests) /\ held \in Seq(Answers) /\ written \in Seq(Answers)
      /\ \A i \in 1..Len(held) : AnswerFits(held[i])
      /\ \A i \in 1..Len(written) : AnswerFits(written[i])
  BY DEF AcpInv, AcpTypes
<1>2. UNCHANGED <<log, acpRuns, prompt, feedOfPrompt, streams, told>>
  BY DEF ReadLine, WriteResponses
<1>3. batch' \in Seq(AcpRequests)
  <2>1. CASE ReadLine
    <3>1. PICK n \in 1..MaxBatch : batch' \in [1..n -> AcpRequests]
      BY <2>1 DEF ReadLine
    <3>2. n \in Nat
      BY <3>1, AcpAssumption
    <3> QED BY <3>1, <3>2
  <2>2. CASE WriteResponses
    BY <1>1, <2>2 DEF WriteResponses
  <2> QED BY <2>1, <2>2
<1>4. /\ held' \in Seq(Answers) /\ written' \in Seq(Answers)
      /\ \A i \in 1..Len(held') : AnswerFits(held'[i])
      /\ \A i \in 1..Len(written') : AnswerFits(written'[i])
  <2>1. CASE ReadLine
    BY <1>1, <2>1 DEF ReadLine
  <2>2. CASE WriteResponses
    <3>1. written' = held /\ held' = <<>>
      BY <2>2 DEF WriteResponses
    <3>2. <<>> \in Seq(Answers) /\ Len(<<>>) = 0 /\ 1..0 = {}
      OBVIOUS
    <3> QED BY <1>1, <3>1, <3>2
  <2> QED BY <2>1, <2>2
<1>5. prompt.session = 0
  <2>1. batch = <<>> /\ OnePrompt
    BY DEF ReadLine, WriteResponses, AcpInv
  <2> QED BY <2>1 DEF OnePrompt
<1> QED BY <1>2, <1>3, <1>4, <1>5, StreamsAsBefore, QuietKeeps

\* Starting a session, and the control of a run that is over, touch neither.
LEMMA SessionKeeps ==
  ASSUME AcpInv, SessionNew \/ RunControl
  PROVE  AcpInv'
PROOF
<1>1. batch # <<>> /\ prompt = NoPrompt
  BY DEF SessionNew, RunControl, Serving
<1>2. ASSUME NEW r \in DOMAIN acpRuns PROVE acpRuns[r].phase = "over"
  <2>1. acpRuns \in Seq(AcpRun) /\ OnePrompt
    BY DEF AcpInv, AcpTypes
  <2>2. r \in 1..Len(acpRuns) /\ r # 0
    BY <1>2, <2>1
  <2> QED BY <1>1, <2>1, <2>2 DEF OnePrompt, NoPrompt
<1>3. UNCHANGED <<log, acpRuns, prompt, feedOfPrompt, streams, told>>
  BY <1>2 DEF SessionNew, RunControl
<1>4. Respond(Succeeds) \/ Respond(Fails)
  BY <1>2 DEF SessionNew, RunControl
<1>5. /\ batch' \in Seq(AcpRequests) /\ held' \in Seq(Answers) /\ written' = written
      /\ \A i \in 1..Len(held') : AnswerFits(held'[i])
  BY <1>1, <1>4, PlainAnswers, RespondGives
<1>6. written' \in Seq(Answers) /\ \A i \in 1..Len(written') : AnswerFits(written'[i])
  BY <1>5 DEF AcpInv, AcpTypes
<1>7. prompt.session = 0
  BY <1>1 DEF NoPrompt
<1> QED BY <1>3, <1>5, <1>6, <1>7, StreamsAsBefore, QuietKeeps

\* A new stream was told nothing; a cancelled one will be told no more.
LEMMA SubscribeKeeps ==
  ASSUME AcpInv, StreamSubscribe \/ StreamUnsubscribe
  PROVE  AcpInv'
PROOF
<1>1. batch # <<>> /\ batch \in Seq(AcpRequests)
  BY DEF StreamSubscribe, StreamUnsubscribe, Serving, AcpInv, AcpTypes
<1>2. UNCHANGED <<log, acpRuns, prompt, feedOfPrompt>>
  BY DEF StreamSubscribe, StreamUnsubscribe
<1>3. Respond(Succeeds) \/ Respond(Fails)
  BY DEF StreamSubscribe, StreamUnsubscribe
<1>4. /\ batch' \in Seq(AcpRequests) /\ held' \in Seq(Answers) /\ written' = written
      /\ \A i \in 1..Len(held') : AnswerFits(held'[i])
  BY <1>1, <1>3, PlainAnswers, RespondGives
<1>5. written' \in Seq(Answers) /\ \A i \in 1..Len(written') : AnswerFits(written'[i])
  BY <1>4 DEF AcpInv, AcpTypes
<1>6. PICK T : T = 0..MaxSessions
  OBVIOUS
<1>7. /\ streams \in Seq(T) /\ told \in Seq(Seq(AcpEvents)) /\ Len(told) = Len(streams)
      /\ Len(streams) \in Nat /\ 0 \in T
  <2>1. streams \in Seq(T) /\ told \in Seq(Seq(AcpEvents)) /\ Len(told) = Len(streams)
    BY <1>6 DEF AcpInv, AcpTypes
  <2>2. 0 \in T
    BY <1>6, AcpAssumption
  <2> QED BY <2>1, <2>2
<1>8. /\ streams' \in Seq(T) /\ told' \in Seq(Seq(AcpEvents)) /\ Len(told') = Len(streams')
      /\ \A k \in 1..Len(told') : StreamStays(k)
  <2>1. CASE UNCHANGED <<streams, told>>
    BY <1>6, <2>1, StreamsAsBefore
  <2>2. CASE StreamSubscribe /\ ~UNCHANGED <<streams, told>>
    <3>1. PICK s : s = Head(batch).of
      OBVIOUS
    <3>2. streams' = Append(streams, s) /\ told' = Append(told, <<>>)
      BY <2>2, <3>1 DEF StreamSubscribe
    <3>3. s \in T
      <4>1. Head(batch) \in AcpRequests
        BY <1>1
      <4>2. Head(batch).of \in 1..MaxSessions
        BY <4>1 DEF AcpRequests
      <4> QED BY <1>6, <3>1, <4>2, AcpAssumption
    <3>4. <<>> \in Seq(AcpEvents)
      OBVIOUS
    <3>5. streams' \in Seq(T) /\ Len(streams') = Len(streams) + 1
          /\ \A k \in 1..Len(streams) : streams'[k] = streams[k]
      BY <1>7, <3>2, <3>3
    <3>6. told' \in Seq(Seq(AcpEvents)) /\ Len(told') = Len(told) + 1
          /\ \A k \in 1..Len(told') : IF k \in 1..Len(told) THEN told'[k] = told[k]
                                      ELSE told'[k] = <<>>
      BY <1>7, <3>2, <3>4
    <3>7. ASSUME NEW k \in 1..Len(told') PROVE StreamStays(k)
      <4>1. CASE k \in 1..Len(told)
        <5>1. told'[k] = told[k] /\ streams'[k] = streams[k]
          BY <1>7, <3>5, <3>6, <4>1
        <5> QED BY <4>1, <5>1 DEF StreamStays
      <4>2. CASE k \notin 1..Len(told)
        BY <3>6, <3>7, <4>2 DEF StreamStays
      <4> QED BY <4>1, <4>2
    <3> QED BY <1>7, <3>5, <3>6, <3>7
  <2>3. CASE StreamUnsubscribe
    <3>1. PICK h : h = Head(batch).of
      OBVIOUS
    <3>2. streams' = [k \in DOMAIN streams |-> IF k = h THEN 0 ELSE streams[k]]
          /\ told' = told
      BY <2>3, <3>1 DEF StreamUnsubscribe
    <3>3. DOMAIN streams = 1..Len(streams)
      BY <1>7
    <3>4. streams' = [k \in 1..Len(streams) |-> IF k = h THEN 0 ELSE streams[k]]
      BY <3>2, <3>3
    <3>5. \A k \in 1..Len(streams) : streams[k] \in T
      BY <1>7
    <3>6. streams' \in [1..Len(streams) -> T]
      BY <1>7, <3>4, <3>5
    <3>7. streams' \in Seq(T) /\ Len(streams') = Len(streams)
      <4>1. PICK n : n = Len(streams)
        OBVIOUS
      <4>2. n \in Nat /\ streams' \in [1..n -> T]
        BY <1>7, <3>6, <4>1
      <4>3. streams' \in Seq(T) /\ Len(streams') = n
        BY <4>2
      <4> QED BY <4>1, <4>3
    <3>8. ASSUME NEW k \in 1..Len(told) PROVE StreamStays(k)
      BY <1>7, <3>2, <3>4, <3>8 DEF StreamStays
    <3> QED BY <1>7, <3>2, <3>7, <3>8
  <2> QED BY <2>1, <2>2, <2>3
<1>9. prompt.session = 0
  BY DEF StreamSubscribe, StreamUnsubscribe, Serving, NoPrompt
<1> QED BY <1>2, <1>4, <1>5, <1>6, <1>8, <1>9, QuietKeeps

\* A prompt that begins has all of its session before it and no run.
LEMMA BeginKeeps ==
  ASSUME AcpInv, BeginPrompt
  PROVE  AcpInv'
PROOF
<1>1. PICK s : s = Head(batch).of
  OBVIOUS
<1>2. batch # <<>> /\ batch \in Seq(AcpRequests) /\ prompt = NoPrompt
  BY DEF BeginPrompt, Serving, AcpInv, AcpTypes
<1>3. CASE ~Open(s)
  <2>1. Respond(Fails) /\ UNCHANGED <<log, acpRuns, prompt, feedOfPrompt, streams, told>>
    BY <1>1, <1>3 DEF BeginPrompt, feedOfPrompt
  <2>2. /\ batch' \in Seq(AcpRequests) /\ held' \in Seq(Answers) /\ written' = written
        /\ \A i \in 1..Len(held') : AnswerFits(held'[i])
    BY <1>2, <2>1, PlainAnswers, RespondGives
  <2>3. written' \in Seq(Answers) /\ \A i \in 1..Len(written') : AnswerFits(written'[i])
    BY <2>2 DEF AcpInv, AcpTypes
  <2>4. prompt.session = 0
    BY <1>2 DEF NoPrompt
  <2> QED BY <2>1, <2>2, <2>3, <2>4, StreamsAsBefore, QuietKeeps
<1>4. CASE Open(s)
  <2>1. /\ prompt' = [NoPrompt EXCEPT !.session = s] /\ replay' = log[s]
        /\ batch' = batch /\ held' = held /\ written' = written
        /\ log' = log /\ acpRuns' = acpRuns /\ live' = live /\ out' = out
        /\ dropped' = dropped /\ streams' = streams /\ told' = told
    BY <1>1, <1>4 DEF BeginPrompt, transportVars
  <2>2. prompt' = [session |-> s, run |-> 0, updates |-> <<>>]
    <3>1. PICK x : x = NoPrompt
      OBVIOUS
    <3>2. x = [session |-> 0, run |-> 0, updates |-> <<>>]
      BY <3>1 DEF NoPrompt
    <3> QED BY <2>1, <3>1, <3>2
  <2>3. s \in SessionIds
    <3>1. Head(batch) \in AcpRequests
      BY <1>2
    <3> QED BY <1>1, <3>1 DEF AcpRequests, SessionIds
  <2>4. AcpTypes /\ OnePrompt /\ LogFits /\ \A k \in 1..Len(told) : ToldFits(k)
    BY DEF AcpInv
  <2>5. AcpTypes'
    <3>1. prompt' \in [session : SessionIds, run : {0, Len(acpRuns)},
                       updates : Seq(AcpEvents)]
      <4>1. <<>> \in Seq(AcpEvents)
        OBVIOUS
      <4> QED BY <2>2, <2>3, <4>1
    <3>2. log[s] \in Seq(AcpEvents)
      BY <2>3, <2>4 DEF AcpTypes
    <3> QED BY <2>1, <2>4, <3>1, <3>2 DEF AcpTypes
  <2>6. OnePrompt'
    <3>1. /\ \A r \in 1..Len(acpRuns) : acpRuns[r].phase # "over" => r = 0
          /\ live = <<>> /\ ~dropped
      BY <1>2, <2>4 DEF OnePrompt, NoPrompt
    <3>2. s # 0
      BY <2>3 DEF SessionIds
    <3> QED BY <1>2, <2>1, <2>2, <3>1, <3>2 DEF OnePrompt
  <2>7. LogFits'
    <3>1. \A q : EventsOf(q)' = EventsOf(q)
      BY <2>1, StoreStays
    <3>2. Fitting(log[s], acpRuns)
      BY <2>3, <2>4 DEF LogFits
    <3> QED BY <2>1, <2>4, <3>1, <3>2 DEF LogFits
  <2>8. ReadsOn'
    BY <2>2 DEF ReadsOn
  <2>9. ASSUME NEW k \in 1..Len(told) PROVE ToldFits(k)'
    <3>1. ToldFits(k)
      BY <2>4
    <3> QED BY <2>1, <2>2, <3>1 DEF ToldFits, Climbs, UpTo
  <2>10. ASSUME NEW answer, AnswerFits(answer) PROVE AnswerFits(answer)'
    BY <2>1, <2>10, StoreStays
  <2>11. /\ \A i \in 1..Len(held) : AnswerFits(held[i])'
         /\ \A i \in 1..Len(written) : AnswerFits(written[i])'
    <3>1. ASSUME NEW i \in 1..Len(held) PROVE AnswerFits(held[i])'
      <4>1. PICK answer : answer = held[i]
        OBVIOUS
      <4>2. AnswerFits(answer)'
        BY <2>10, <4>1 DEF AcpInv
      <4> QED BY <2>1, <4>1, <4>2 DEF AnswerFits
    <3>2. ASSUME NEW i \in 1..Len(written) PROVE AnswerFits(written[i])'
      <4>1. PICK answer : answer = written[i]
        OBVIOUS
      <4>2. AnswerFits(answer)'
        BY <2>10, <4>1 DEF AcpInv
      <4> QED BY <2>1, <4>1, <4>2 DEF AnswerFits
    <3> QED BY <3>1, <3>2
  <2> QED BY <2>1, <2>5, <2>6, <2>7, <2>8, <2>9, <2>11 DEF AcpInv
<1> QED BY <1>3, <1>4

\* A step that moves events on, from one place before the prompt to the next or to it.
LEMMA MovesKeep ==
  ASSUME AcpInv, AcpTypes', OnePrompt', UNCHANGED <<log, acpRuns, dropped, held, written>>,
         UNCHANGED <<streams, told>>,
         prompt'.run = prompt.run, prompt'.session = prompt.session, Rest' = Rest,
         Fitting(out', acpRuns), Fitting(replay', acpRuns), Fitting(live', acpRuns)
  PROVE  AcpInv'
PROOF
<1>1. LogFits /\ ReadsOn /\ \A k \in 1..Len(told) : ToldFits(k)
  BY DEF AcpInv
<1>2. \A q : EventsOf(q)' = EventsOf(q)
  BY StoreStays
<1>3. LogFits'
  BY <1>1, <1>2 DEF LogFits
<1>4. ReadsOn'
  <2>1. EventsOf(prompt.run)' = EventsOf(prompt.run)
    BY DEF EventsOf
  <2>2. Climbs(Rest)' = Climbs(Rest)
    BY DEF Climbs
  <2>3. UpTo(Rest, Len(log[prompt.session]))' = UpTo(Rest, Len(log[prompt.session]))
    BY DEF UpTo
  <2> QED BY <1>1, <2>1, <2>2, <2>3 DEF ReadsOn
<1>5. ASSUME NEW k \in 1..Len(told) PROVE ToldFits(k)'
  <2>1. ToldFits(k)
    BY <1>1
  <2> QED BY <2>1 DEF ToldFits, Climbs, UpTo
<1>6. /\ \A i \in 1..Len(held) : AnswerFits(held[i])'
      /\ \A i \in 1..Len(written) : AnswerFits(written[i])'
  <2>1. ASSUME NEW i \in 1..Len(held) PROVE AnswerFits(held[i])'
    <3>1. PICK answer : answer = held[i]
      OBVIOUS
    <3>2. AnswerFits(answer)'
      BY <3>1, StoreStays DEF AcpInv
    <3> QED BY <3>1, <3>2 DEF AnswerFits
  <2>2. ASSUME NEW i \in 1..Len(written) PROVE AnswerFits(written[i])'
    <3>1. PICK answer : answer = written[i]
      OBVIOUS
    <3>2. AnswerFits(answer)'
      BY <3>1, StoreStays DEF AcpInv
    <3> QED BY <3>1, <3>2 DEF AnswerFits
  <2> QED BY <2>1, <2>2
<1> QED BY <1>3, <1>4, <1>5, <1>6 DEF AcpInv

\* The first event moves from the front of one sequence to the end of another.
LEMMA HeadMoves ==
  ASSUME NEW S, NEW a \in Seq(S), NEW b \in Seq(S), b # <<>>
  PROVE  /\ Append(a, Head(b)) \in Seq(S) /\ Tail(b) \in Seq(S) /\ Head(b) \in S
         /\ Append(a, Head(b)) \o Tail(b) = a \o b
         /\ Len(b) \in Nat \ {0} /\ Len(Tail(b)) = Len(b) - 1 /\ Head(b) = b[1]
         /\ \A i \in 1..Len(Tail(b)) : Tail(b)[i] = b[i + 1] /\ i + 1 \in 1..Len(b)
PROOF
<1>1. Head(b) \in S /\ Tail(b) \in Seq(S) /\ Len(b) \in Nat \ {0} /\ Len(Tail(b)) = Len(b) - 1
      /\ Head(b) = b[1]
  BY EmptySeq
<1>2. \A i \in 1..Len(Tail(b)) : Tail(b)[i] = b[i + 1] /\ i + 1 \in 1..Len(b)
  BY <1>1
<1>3. PICK h, t : h = Head(b) /\ t = Tail(b)
  OBVIOUS
<1>4. Append(a, h) \in Seq(S) /\ Len(Append(a, h)) = Len(a) + 1 /\ Len(a) \in Nat
      /\ (\A i \in 1..Len(a) : Append(a, h)[i] = a[i]) /\ Append(a, h)[Len(a) + 1] = h
  BY <1>1, <1>3
<1>5. Append(a, h) \o t = a \o b
  <2>1. PICK u, v, w : u = Append(a, h) /\ v = u \o t /\ w = a \o b
    OBVIOUS
  <2>2. v \in Seq(S) /\ Len(v) = Len(a) + Len(b) /\ w \in Seq(S) /\ Len(w) = Len(a) + Len(b)
    BY <1>1, <1>3, <1>4, <2>1
  <2>3. ASSUME NEW i \in 1..Len(a) + Len(b) PROVE v[i] = w[i]
    <3>1. CASE i \in 1..Len(a)
      <4>1. v[i] = u[i] /\ u[i] = a[i] /\ w[i] = a[i]
        BY <1>1, <1>3, <1>4, <2>1, <3>1
      <4> QED BY <4>1
    <3>2. CASE i = Len(a) + 1
      <4>1. v[i] = u[i] /\ u[i] = h
        BY <1>1, <1>3, <1>4, <2>1, <3>2
      <4>2. w[i] = b[1]
        BY <1>1, <1>4, <2>1, <3>2
      <4> QED BY <1>1, <1>3, <4>1, <4>2
    <3>3. CASE i \notin 1..Len(a) /\ i # Len(a) + 1
      <4>1. v[i] = t[i - (Len(a) + 1)]
        BY <1>1, <1>3, <1>4, <2>1, <2>3, <3>3
      <4>2. w[i] = b[i - Len(a)]
        BY <1>1, <1>4, <2>1, <2>3, <3>3
      <4>3. t[i - (Len(a) + 1)] = b[i - Len(a)]
        BY <1>1, <1>2, <1>3, <1>4, <2>3, <3>3
      <4> QED BY <4>1, <4>2, <4>3
    <3> QED BY <3>1, <3>2, <3>3
  <2> QED BY <2>1, <2>2, <2>3
<1> QED BY <1>1, <1>2, <1>3, <1>4, <1>5

\* Events fit as well when the first one has left, and where it came to.
LEMMA FittingMoves ==
  ASSUME NEW a \in Seq(AcpEvents), NEW b \in Seq(AcpEvents), NEW rs, b # <<>>,
         Fitting(a, rs), Fitting(b, rs)
  PROVE  Fitting(Append(a, Head(b)), rs) /\ Fitting(Tail(b), rs)
PROOF
<1>1. PICK h, t : h = Head(b) /\ t = Tail(b)
  OBVIOUS
<1>2. /\ Len(b) \in Nat \ {0} /\ Len(t) = Len(b) - 1 /\ h = b[1] /\ h \in AcpEvents
      /\ \A i \in 1..Len(t) : t[i] = b[i + 1] /\ i + 1 \in 1..Len(b)
  BY <1>1, HeadMoves
<1>3. Fitting(t, rs)
  BY <1>2 DEF Fitting
<1>4. h.run \in 1..Len(rs) /\ (h.kind = "end" => rs[h.run].phase = "over")
  BY <1>2 DEF Fitting
<1>5. ASSUME NEW i \in 1..Len(Append(a, h))
      PROVE  \/ Append(a, h)[i] = h
             \/ i \in 1..Len(a) /\ Append(a, h)[i] = a[i]
  <2>1. Len(Append(a, h)) = Len(a) + 1 /\ Len(a) \in Nat
    BY <1>2
  <2>2. CASE i = Len(a) + 1
    BY <1>2, <2>2
  <2>3. CASE i # Len(a) + 1
    <3>1. i \in 1..Len(a)
      BY <1>5, <2>1, <2>3
    <3> QED BY <1>2, <3>1
  <2> QED BY <2>2, <2>3
<1>6. Fitting(Append(a, h), rs)
  BY <1>4, <1>5 DEF Fitting
<1> QED BY <1>1, <1>3, <1>6

\* The subscription carries an event on.
LEMMA PumpKeeps ==
  ASSUME AcpInv, Pump
  PROVE  AcpInv'
PROOF
<1>1. AcpTypes /\ OnePrompt /\ LogFits
  BY DEF AcpInv
<1>2. /\ out \in Seq(AcpEvents) /\ replay \in Seq(AcpEvents) /\ live \in Seq(AcpEvents)
      /\ Fitting(out, acpRuns) /\ Fitting(replay, acpRuns) /\ Fitting(live, acpRuns)
  BY <1>1 DEF AcpTypes, LogFits
<1>3. /\ log' = log /\ acpRuns' = acpRuns /\ batch' = batch /\ held' = held
      /\ written' = written /\ prompt' = prompt /\ dropped' = dropped /\ streams' = streams
      /\ told' = told
  BY DEF Pump, transportVars
<1>4. /\ Stream' = Stream /\ out' \in Seq(AcpEvents) /\ replay' \in Seq(AcpEvents)
      /\ live' \in Seq(AcpEvents) /\ Len(live') <= BufferSize
      /\ Fitting(out', acpRuns) /\ Fitting(replay', acpRuns) /\ Fitting(live', acpRuns)
      /\ (live = <<>> => live' = <<>>)
      /\ (replay = <<>> /\ out = <<>> /\ live = <<>> => out' = <<>> /\ replay' = <<>>)
  <2>1. CASE /\ replay # <<>> /\ out' = Append(out, Head(replay)) /\ replay' = Tail(replay)
             /\ live' = live
    <3>1. /\ out' \in Seq(AcpEvents) /\ replay' \in Seq(AcpEvents)
          /\ out' \o replay' = out \o replay
      BY <1>2, <2>1, HeadMoves
    <3>2. Stream' = Stream
      <4>1. Stream = (out \o replay) \o live /\ Stream' = (out' \o replay') \o live'
        BY <1>2, <2>1, <3>1 DEF Stream
      <4> QED BY <2>1, <3>1, <4>1
    <3>3. Fitting(out', acpRuns) /\ Fitting(replay', acpRuns)
      BY <1>2, <2>1, FittingMoves
    <3> QED BY <1>1, <1>2, <2>1, <3>1, <3>2, <3>3 DEF AcpTypes
  <2>2. CASE /\ replay = <<>> /\ live # <<>> /\ out' = Append(out, Head(live))
             /\ live' = Tail(live) /\ replay' = replay
    <3>1. /\ out' \in Seq(AcpEvents) /\ live' \in Seq(AcpEvents) /\ out' \o live' = out \o live
          /\ Len(live) \in Nat /\ Len(live') = Len(live) - 1
      BY <1>2, <2>2, HeadMoves
    <3>2. Stream' = Stream
      <4>1. \A a \in Seq(AcpEvents) : a \o <<>> = a
        OBVIOUS
      <4>2. Stream = out \o live
        BY <1>2, <2>2, <4>1 DEF Stream
      <4>3. Stream' = out' \o live'
        BY <2>2, <3>1, <4>1 DEF Stream
      <4> QED BY <3>1, <4>2, <4>3
    <3>3. Fitting(out', acpRuns) /\ Fitting(live', acpRuns)
      BY <1>2, <2>2, FittingMoves
    <3>4. Len(live') <= BufferSize
      BY <1>1, <3>1, AcpAssumption DEF AcpTypes
    <3> QED BY <1>2, <2>2, <3>1, <3>2, <3>3, <3>4
  <2> QED BY <2>1, <2>2 DEF Pump
<1>5. AcpTypes'
  BY <1>1, <1>3, <1>4 DEF AcpTypes
<1>6. OnePrompt'
  <2>1. prompt.session = 0 => prompt.run = 0
    BY <1>1 DEF AcpTypes, NoPrompt, SessionIds
  <2> QED BY <1>1, <1>3, <1>4, <2>1 DEF OnePrompt
<1>7. Rest' = Rest
  BY <1>3, <1>4 DEF Rest
<1> QED BY <1>3, <1>4, <1>5, <1>6, <1>7, MovesKeep

\* The first event of a sequence among those of a run.
LEMMA OfRunFirst ==
  ASSUME NEW t \in Seq(AcpEvents), t # <<>>, NEW r
  PROVE  OfRun(t, r) = IF Head(t).run = r THEN <<Head(t)>> \o OfRun(Tail(t), r)
                       ELSE OfRun(Tail(t), r)
PROOF
<1>1. PICK h, rest : h = Head(t) /\ rest = Tail(t)
  OBVIOUS
<1>2. <<>> \in Seq(AcpEvents)
  OBVIOUS
<1>3. h \in AcpEvents /\ rest \in Seq(AcpEvents) /\ Append(<<>>, h) \in Seq(AcpEvents)
      /\ Append(<<>>, h) \o rest = <<>> \o t
  BY <1>1, <1>2, HeadMoves
<1>4. <<>> \o t = t
  OBVIOUS
<1>5. PICK one : one = Append(<<>>, h)
  OBVIOUS
<1>6. OfRun(one \o rest, r) = OfRun(one, r) \o OfRun(rest, r)
  BY <1>3, <1>5, OfRunConcat
<1>7. OfRun(one, r) = IF h.run = r THEN Append(<<>>, h) ELSE <<>>
  BY <1>2, <1>3, <1>5, OfRunAppend, OfRunEmpty
<1>8. OfRun(rest, r) \in Seq(AcpEvents)
  BY <1>3, OfRunType
<1>9. <<>> \o OfRun(rest, r) = OfRun(rest, r)
  BY <1>8
<1>10. Append(<<>>, h) = <<h>>
  BY <1>3
<1>11. OfRun(t, r) = IF h.run = r THEN <<h>> \o OfRun(rest, r) ELSE OfRun(rest, r)
  BY <1>3, <1>4, <1>5, <1>6, <1>7, <1>9, <1>10
<1> QED BY <1>1, <1>11

\* What the prompt reads next, and what is before it then.
Updates == IF Mine(Head(out)) THEN Append(prompt.updates, Head(out)) ELSE prompt.updates
Further ==
  OfRun(Tail(out), prompt.run) \o (OfRun(replay, prompt.run) \o OfRun(live, prompt.run))

\* The event that leaves what is before the prompt comes to what it has read.
LEMMA ReadsNext ==
  ASSUME AcpInv, out # <<>>
  PROVE  /\ Rest = Updates \o Further /\ Updates \in Seq(AcpEvents)
         /\ Further \in Seq(AcpEvents) /\ Head(out) \in AcpEvents
         /\ Tail(out) \in Seq(AcpEvents)
PROOF
<1>1. AcpTypes /\ out \in Seq(AcpEvents) /\ replay \in Seq(AcpEvents)
      /\ live \in Seq(AcpEvents)
  BY DEF AcpInv, AcpTypes
<1>2. PICK r, h, u : r = prompt.run /\ h = Head(out) /\ u = prompt.updates
  OBVIOUS
<1>3. h \in AcpEvents /\ Tail(out) \in Seq(AcpEvents)
  BY <1>1, <1>2, HeadMoves
<1>4. /\ OfRun(Stream, r) = OfRun(out, r) \o (OfRun(replay, r) \o OfRun(live, r))
      /\ u \in Seq(AcpEvents)
  BY <1>1, <1>2, StreamIsOfEvents
<1>5. PICK t, x : t = OfRun(Tail(out), r) /\ x = OfRun(replay, r) \o OfRun(live, r)
  OBVIOUS
<1>6. t \in Seq(AcpEvents) /\ x \in Seq(AcpEvents)
  <2>1. OfRun(replay, r) \in Seq(AcpEvents) /\ OfRun(live, r) \in Seq(AcpEvents)
    BY <1>1, OfRunType
  <2>2. t \in Seq(AcpEvents)
    BY <1>3, <1>5, OfRunType
  <2> QED BY <1>5, <2>1, <2>2, ConcatProperties
<1>7. OfRun(out, r) = IF h.run = r THEN <<h>> \o t ELSE t
  BY <1>1, <1>2, <1>5, OfRunFirst
<1>8. Rest = u \o OfRun(Stream, r) /\ Further = t \o x
  BY <1>2, <1>5 DEF Rest, Further
<1>9. CASE h.run = r
  <2>1. Updates = Append(u, h)
    BY <1>2, <1>9 DEF Updates, Mine
  <2>2. Rest = u \o ((<<h>> \o t) \o x)
    BY <1>4, <1>5, <1>7, <1>8, <1>9
  <2>3. PICK one : one = <<h>>
    OBVIOUS
  <2>4. one \in Seq(AcpEvents) /\ u \o one = Append(u, h)
    BY <1>3, <1>4, <2>3, AppendIsConcat
  <2>5. ASSUME NEW a \in Seq(AcpEvents), NEW b \in Seq(AcpEvents), NEW c \in Seq(AcpEvents)
        PROVE  a \o (b \o c) = (a \o b) \o c
    OBVIOUS
  <2>6. t \o x \in Seq(AcpEvents) /\ Append(u, h) \in Seq(AcpEvents)
    BY <1>3, <1>4, <1>6, ConcatProperties, AppendProperties
  <2>7. (one \o t) \o x = one \o (t \o x)
    BY <1>6, <2>4, <2>5
  <2>8. u \o (one \o (t \o x)) = (u \o one) \o (t \o x)
    BY <1>4, <2>4, <2>5, <2>6
  <2>9. Rest = Append(u, h) \o (t \o x)
    BY <2>2, <2>3, <2>4, <2>7, <2>8
  <2> QED BY <1>2, <1>3, <1>8, <2>1, <2>6, <2>9
<1>10. CASE h.run # r
  <2>1. Updates = u
    BY <1>2, <1>10 DEF Updates, Mine
  <2>2. Rest = u \o (t \o x)
    BY <1>4, <1>5, <1>7, <1>8, <1>10
  <2>3. t \o x \in Seq(AcpEvents)
    BY <1>6, ConcatProperties
  <2> QED BY <1>2, <1>3, <1>4, <1>8, <2>1, <2>2, <2>3
<1> QED BY <1>9, <1>10

\* An event of another kind than the end of the run leaves the prompt reading.
LEMMA ReadOnKeeps ==
  ASSUME AcpInv, Read, ~(Mine(Head(out)) /\ Head(out).kind = "end")
  PROVE  AcpInv'
PROOF
<1>1. AcpTypes /\ OnePrompt /\ LogFits
  BY DEF AcpInv
<1>2. prompt.run # 0 /\ out # <<>>
  BY DEF Read
<1>3. /\ prompt' = [prompt EXCEPT !.updates = Updates] /\ out' = Tail(out)
      /\ log' = log /\ acpRuns' = acpRuns /\ batch' = batch /\ held' = held
      /\ written' = written /\ replay' = replay /\ live' = live /\ dropped' = dropped
      /\ streams' = streams /\ told' = told
  BY DEF Read, Updates, transportVars
<1>4. prompt \in [session : SessionIds, run : {0, Len(acpRuns)}, updates : Seq(AcpEvents)]
  BY <1>1, <1>2 DEF AcpTypes, NoPrompt
<1>5. /\ Rest = Updates \o Further /\ Updates \in Seq(AcpEvents)
      /\ Tail(out) \in Seq(AcpEvents)
  BY <1>2, ReadsNext
<1>6. /\ prompt'.session = prompt.session /\ prompt'.run = prompt.run
      /\ prompt'.updates = Updates
      /\ prompt' \in [session : SessionIds, run : {0, Len(acpRuns)},
                      updates : Seq(AcpEvents)]
  BY <1>3, <1>4, <1>5
<1>7. AcpTypes'
  BY <1>1, <1>3, <1>5, <1>6 DEF AcpTypes
<1>8. OnePrompt'
  <2>1. prompt.session # 0
    BY <1>4 DEF SessionIds
  <2> QED BY <1>1, <1>2, <1>3, <1>6, <2>1 DEF OnePrompt
<1>9. Rest' = Rest
  <2>1. PICK r, o, p, l : r = prompt.run /\ o = Tail(out) /\ p = replay /\ l = live
    OBVIOUS
  <2>2. o \in Seq(AcpEvents) /\ p \in Seq(AcpEvents) /\ l \in Seq(AcpEvents)
    BY <1>1, <1>5, <2>1 DEF AcpTypes
  <2>3. PICK w : w = o \o p
    OBVIOUS
  <2>4. w \in Seq(AcpEvents)
    BY <2>2, <2>3, ConcatProperties
  <2>5. Stream' = w \o l
    BY <1>3, <2>1, <2>2, <2>3 DEF Stream
  <2>6. OfRun(w \o l, r) = OfRun(w, r) \o OfRun(l, r)
    BY <2>2, <2>4, OfRunConcat
  <2>7. OfRun(w, r) = OfRun(o, r) \o OfRun(p, r)
    BY <2>2, <2>3, OfRunConcat
  <2>8. OfRun(o, r) \in Seq(AcpEvents) /\ OfRun(p, r) \in Seq(AcpEvents)
        /\ OfRun(l, r) \in Seq(AcpEvents)
    BY <2>2, OfRunType
  <2>9. (OfRun(o, r) \o OfRun(p, r)) \o OfRun(l, r)
          = OfRun(o, r) \o (OfRun(p, r) \o OfRun(l, r))
    BY <2>8, ConcatAssociative
  <2>10. OfRun(Stream', r) = Further
    BY <2>1, <2>5, <2>6, <2>7, <2>9 DEF Further
  <2>11. Rest' = prompt'.updates \o OfRun(Stream', prompt'.run)
    BY DEF Rest
  <2> QED BY <1>5, <1>6, <2>1, <2>10, <2>11
<1>10. Fitting(out', acpRuns) /\ Fitting(replay', acpRuns) /\ Fitting(live', acpRuns)
  <2>1. Fitting(out, acpRuns) /\ Fitting(replay, acpRuns) /\ Fitting(live, acpRuns)
        /\ out \in Seq(AcpEvents)
    BY <1>1 DEF LogFits, AcpTypes
  <2>2. Fitting(Tail(out), acpRuns)
    BY <1>2, <2>1, FittingMoves
  <2> QED BY <1>3, <2>1, <2>2
<1> QED BY <1>3, <1>6, <1>7, <1>8, <1>9, <1>10, MovesKeep

\* The end of its run ends the prompt: what it has read is in order, later than what the
\* streams of the session were told, and all of the run's unless the channel lost some.
LEMMA ReadsEnd ==
  ASSUME AcpInv, prompt.run # 0, out # <<>>, Mine(Head(out)), Head(out).kind = "end"
  PROVE  /\ prompt.run \in 1..Len(acpRuns) /\ acpRuns[prompt.run].phase = "over"
         /\ ~dropped => Updates = EventsOf(prompt.run)
         /\ Climbs(Updates) /\ UpTo(Updates, Len(log[prompt.session]))
         /\ \A k \in 1..Len(told) : streams[k] # 0 /\ streams[k] = prompt.session =>
              \A i \in 1..Len(told[k]), j \in 1..Len(Updates) :
                told[k][i].seq < Updates[j].seq
PROOF
<1>1. AcpTypes /\ LogFits /\ ReadsOn /\ \A k \in 1..Len(told) : ToldFits(k)
  BY DEF AcpInv
<1>2. PICK u, y, rest : u = Updates /\ y = Further /\ rest = Rest
  OBVIOUS
<1>3. rest = u \o y /\ u \in Seq(AcpEvents) /\ y \in Seq(AcpEvents) /\ rest \in Seq(AcpEvents)
  <2>1. rest = u \o y /\ u \in Seq(AcpEvents) /\ y \in Seq(AcpEvents)
    BY <1>2, ReadsNext
  <2> QED BY <2>1, ConcatProperties
<1>4. /\ Len(u) \in Nat /\ Len(y) \in Nat /\ Len(rest) = Len(u) + Len(y)
      /\ \A i \in 1..Len(u) : rest[i] = u[i] /\ i \in 1..Len(rest)
  BY <1>3, Places
<1>5. Len(u) \in 1..Len(u) /\ u[Len(u)].kind = "end"
  <2>1. PICK h, v : h = Head(out) /\ v = prompt.updates
    OBVIOUS
  <2>2. u = Append(v, h) /\ h \in AcpEvents /\ v \in Seq(AcpEvents)
    BY <1>1, <1>2, <2>1, ReadsNext, StreamIsOfEvents DEF Updates
  <2>3. Len(u) = Len(v) + 1 /\ Len(v) \in Nat /\ u[Len(u)] = h
    BY <2>2
  <2> QED BY <2>1, <2>3
<1>6. prompt.run \in 1..Len(acpRuns) /\ acpRuns[prompt.run].phase = "over"
  <2>1. out \in Seq(AcpEvents) /\ Fitting(out, acpRuns)
    BY <1>1 DEF AcpTypes, LogFits
  <2>2. 1 \in 1..Len(out) /\ Head(out) = out[1]
    BY <2>1, HeadMoves
  <2> QED BY <2>1, <2>2 DEF Fitting, Mine
<1>7. ~dropped => u = EventsOf(prompt.run)
  <2> SUFFICES ASSUME ~dropped PROVE u = EventsOf(prompt.run)
    OBVIOUS
  <2>1. rest = EventsOf(prompt.run)
    BY <1>1, <1>2 DEF ReadsOn
  <2>2. EndsOnce(rest, acpRuns[prompt.run].phase)
    BY <1>1, <1>6, <2>1 DEF LogFits
  <2>3. rest[Len(u)].kind = "end" /\ Len(u) \in 1..Len(rest)
    BY <1>4, <1>5
  <2>4. Len(u) = Len(rest)
    BY <2>2, <2>3 DEF EndsOnce
  <2>5. Len(y) = 0
    BY <1>4, <2>4
  <2>6. y = <<>>
    BY <1>3, <2>5, NoLength
  <2>7. rest = u
    BY <1>3, <2>6
  <2> QED BY <2>1, <2>7
<1>8. Climbs(u) /\ UpTo(u, Len(log[prompt.session]))
  <2>1. Climbs(rest) /\ UpTo(rest, Len(log[prompt.session]))
    BY <1>1, <1>2 DEF ReadsOn
  <2>2. Climbs(u)
    BY <1>4, <2>1 DEF Climbs
  <2>3. UpTo(u, Len(log[prompt.session]))
    BY <1>4, <2>1 DEF UpTo
  <2> QED BY <2>2, <2>3
<1>9. ASSUME NEW k \in 1..Len(told), streams[k] # 0, streams[k] = prompt.session,
             NEW i \in 1..Len(told[k]), NEW j \in 1..Len(u)
      PROVE  told[k][i].seq < u[j].seq
  <2>1. ToldFits(k)
    BY <1>1
  <2>2. \A n \in 1..Len(rest) : told[k][i].seq < rest[n].seq
    BY <1>2, <1>9, <2>1 DEF ToldFits
  <2>3. j \in 1..Len(rest) /\ rest[j] = u[j]
    BY <1>4, <1>9
  <2> QED BY <2>2, <2>3
<1> QED BY <1>2, <1>6, <1>7, <1>8, <1>9

\* The prompt reads the end of its run, answers, and the streams are told.
LEMMA ReadEndKeeps ==
  ASSUME AcpInv, Read, Mine(Head(out)), Head(out).kind = "end"
  PROVE  AcpInv'
PROOF
<1>1. AcpTypes /\ OnePrompt /\ LogFits /\ \A k \in 1..Len(told) : ToldFits(k)
  BY DEF AcpInv
<1>2. prompt.run # 0 /\ out # <<>>
  BY DEF Read
<1>3. PICK u, answer : /\ u = Updates
                       /\ answer = [kind |-> "end_turn", run |-> prompt.run, updates |-> u,
                                    lossy |-> dropped]
  OBVIOUS
<1>4. /\ Respond(answer)
      /\ told' = [k \in DOMAIN told |-> IF streams[k] = prompt.session THEN told[k] \o u
                                        ELSE told[k]]
      /\ prompt' = NoPrompt /\ replay' = <<>> /\ live' = <<>> /\ out' = <<>>
      /\ dropped' = FALSE
      /\ log' = log /\ acpRuns' = acpRuns /\ streams' = streams
  BY <1>3 DEF Read, Updates
<1>5. prompt \in [session : SessionIds, run : {0, Len(acpRuns)}, updates : Seq(AcpEvents)]
  BY <1>1, <1>2 DEF AcpTypes, NoPrompt
<1>6. u \in Seq(AcpEvents)
  BY <1>2, <1>3, ReadsNext
<1>7. /\ prompt.run \in 1..Len(acpRuns) /\ acpRuns[prompt.run].phase = "over"
      /\ ~dropped => u = EventsOf(prompt.run)
      /\ Climbs(u) /\ UpTo(u, Len(log[prompt.session]))
      /\ \A k \in 1..Len(told) : streams[k] # 0 /\ streams[k] = prompt.session =>
           \A i \in 1..Len(told[k]), j \in 1..Len(u) : told[k][i].seq < u[j].seq
  BY <1>2, <1>3, ReadsEnd
<1>8. answer \in Answers /\ AnswerFits(answer)
  <2>1. prompt.run \in Nat /\ dropped \in BOOLEAN
    BY <1>1, <1>7 DEF AcpTypes
  <2>2. answer \in Answers
    BY <1>3, <1>6, <2>1 DEF Answers
  <2>3. answer.run = prompt.run /\ answer.updates = u /\ answer.lossy = dropped
    BY <1>3
  <2> QED BY <1>7, <2>2, <2>3 DEF AnswerFits
<1>9. /\ batch' \in Seq(AcpRequests) /\ held' \in Seq(Answers)
      /\ written' = written /\ \A i \in 1..Len(held') : AnswerFits(held'[i])
  <2>1. batch # <<>>
    BY <1>1, <1>5 DEF OnePrompt, SessionIds
  <2> QED BY <1>4, <1>8, <2>1, RespondGives
<1>10. told \in Seq(Seq(AcpEvents)) /\ Len(told) \in Nat /\ DOMAIN told = 1..Len(told)
  BY <1>1 DEF AcpTypes
<1>11. \A k \in 1..Len(told) : /\ told[k] \in Seq(AcpEvents)
                               /\ told'[k] = IF streams[k] = prompt.session THEN told[k] \o u
                                             ELSE told[k]
  BY <1>4, <1>10
<1>12. told' \in Seq(Seq(AcpEvents)) /\ Len(told') = Len(told)
  <2>1. PICK n, S : n = Len(told) /\ S = Seq(AcpEvents)
    OBVIOUS
  <2>2. ASSUME NEW k \in 1..n PROVE told'[k] \in S
    <3>1. told[k] \o u \in Seq(AcpEvents)
      BY <1>6, <1>11, <2>1, ConcatProperties
    <3> QED BY <1>11, <2>1, <3>1
  <2>3. told' = [k \in 1..n |-> IF streams[k] = prompt.session THEN told[k] \o u
                                ELSE told[k]]
    BY <1>4, <1>10, <2>1
  <2>4. told' \in [1..n -> S] /\ n \in Nat
    BY <1>10, <2>1, <2>2, <2>3
  <2>5. told' \in Seq(S) /\ Len(told') = n
    BY <2>4
  <2> QED BY <2>1, <2>5
<1>13. /\ NoPrompt.session = 0 /\ NoPrompt.run = 0 /\ NoPrompt.updates = <<>>
       /\ <<>> \in Seq(AcpEvents) /\ Len(<<>>) = 0 /\ 1..0 = {}
  BY DEF NoPrompt
<1>14. AcpTypes'
  <2>1. written' \in Seq(Answers) /\ streams' \in Seq(0..MaxSessions)
        /\ Len(told') = Len(streams')
    BY <1>1, <1>4, <1>9, <1>12 DEF AcpTypes
  <2>2. log' \in [SessionIds -> Seq(AcpEvents)] /\ acpRuns' \in Seq(AcpRun)
    BY <1>1, <1>4 DEF AcpTypes
  <2>3. /\ replay' \in Seq(AcpEvents) /\ live' \in Seq(AcpEvents) /\ out' \in Seq(AcpEvents)
        /\ dropped' \in BOOLEAN /\ Len(live') <= BufferSize
    <3>1. Len(live') = 0
      BY <1>4, <1>13
    <3>2. Len(live') <= BufferSize
      BY <3>1, AcpAssumption
    <3> QED BY <1>4, <1>13, <3>2
  <2> QED BY <1>4, <1>9, <1>12, <2>1, <2>2, <2>3 DEF AcpTypes
<1>15. OnePrompt'
  <2>1. ASSUME NEW q \in 1..Len(acpRuns), acpRuns[q].phase # "over" PROVE FALSE
    <3>1. q = prompt.run
      BY <1>1, <2>1 DEF OnePrompt
    <3> QED BY <1>7, <2>1, <3>1
  <2> QED BY <1>4, <1>13, <2>1 DEF OnePrompt
<1>16. LogFits'
  <2>1. \A q : EventsOf(q)' = EventsOf(q)
    BY <1>4, StoreStays
  <2>2. Fitting(<<>>, acpRuns)
    BY <1>13 DEF Fitting
  <2> QED BY <1>1, <1>4, <2>1, <2>2 DEF LogFits
<1>17. ReadsOn'
  BY <1>4, <1>13 DEF ReadsOn
<1>18. ASSUME NEW k \in 1..Len(told) PROVE ToldFits(k)'
  <2>1. ToldFits(k)
    BY <1>1
  <2>2. PICK t, n : t = told[k] /\ n = Len(log[streams[k]])
    OBVIOUS
  <2>3. t \in Seq(AcpEvents) /\ Climbs(t)
    BY <1>11, <2>1, <2>2 DEF ToldFits
  <2>4. Climbs(told'[k]) /\ (streams[k] # 0 => UpTo(told'[k], n))
    <3>1. CASE streams[k] # prompt.session
      <4>1. told'[k] = t
        BY <1>11, <2>2, <3>1
      <4> QED BY <2>1, <2>2, <2>3, <4>1 DEF ToldFits
    <3>2. CASE streams[k] = prompt.session
      <4>1. told'[k] = t \o u
        BY <1>11, <2>2, <3>2
      <4>2. streams[k] # 0
        BY <1>5, <3>2 DEF SessionIds
      <4>3. UpTo(t, n) /\ UpTo(u, n)
        BY <1>7, <2>1, <2>2, <3>2, <4>2 DEF ToldFits
      <4>4. \A i \in 1..Len(t), j \in 1..Len(u) : t[i].seq < u[j].seq
        BY <1>7, <2>2, <3>2, <4>2
      <4>5. Climbs(t \o u) /\ UpTo(t \o u, n)
        BY <1>6, <1>7, <2>3, <4>3, <4>4, ConcatFits
      <4> QED BY <4>1, <4>5
    <3> QED BY <3>1, <3>2
  <2>5. /\ Climbs(told'[k])
        /\ streams'[k] # 0 => UpTo(told'[k], Len(log'[streams'[k]]))
        /\ prompt'.run = 0
    BY <1>4, <1>13, <2>2, <2>4
  <2> QED BY <2>5 DEF ToldFits, Climbs, UpTo
<1>19. /\ \A i \in 1..Len(held') : AnswerFits(held[i])'
       /\ \A i \in 1..Len(written') : AnswerFits(written[i])'
  <2>1. ASSUME NEW i \in 1..Len(held') PROVE AnswerFits(held[i])'
    <3>1. PICK a : a = held'[i]
      OBVIOUS
    <3>2. AnswerFits(a)
      BY <1>9, <3>1
    <3>3. AnswerFits(a)'
      BY <1>4, <3>2, StoreStays
    <3> QED BY <3>1, <3>3 DEF AnswerFits
  <2>2. ASSUME NEW i \in 1..Len(written') PROVE AnswerFits(written[i])'
    <3>1. PICK a : a = written[i]
      OBVIOUS
    <3>2. AnswerFits(a)
      BY <1>9, <3>1 DEF AcpInv
    <3>3. AnswerFits(a)'
      BY <1>4, <3>2, StoreStays
    <3> QED BY <1>9, <3>1, <3>3 DEF AnswerFits
  <2> QED BY <2>1, <2>2
<1> QED BY <1>12, <1>14, <1>15, <1>16, <1>17, <1>18, <1>19 DEF AcpInv

\* Nothing is there at first.
LEMMA AcpStarts ==
  ASSUME AcpInit
  PROVE  AcpInv
PROOF
<1>1. /\ log = [s \in SessionIds |-> <<>>] /\ acpRuns = <<>> /\ batch = <<>> /\ held = <<>>
      /\ written = <<>> /\ prompt = NoPrompt /\ replay = <<>> /\ live = <<>> /\ out = <<>>
      /\ dropped = FALSE /\ streams = <<>> /\ told = <<>>
  BY DEF AcpInit
<1>2. /\ <<>> \in Seq(AcpEvents) /\ <<>> \in Seq(AcpRun) /\ <<>> \in Seq(AcpRequests)
      /\ <<>> \in Seq(Answers) /\ <<>> \in Seq(0..MaxSessions)
      /\ <<>> \in Seq(Seq(AcpEvents)) /\ Len(<<>>) = 0 /\ 1..0 = {}
  OBVIOUS
<1>3. NoPrompt.session = 0 /\ NoPrompt.run = 0 /\ NoPrompt.updates = <<>>
  BY DEF NoPrompt
<1>4. AcpTypes
  <2>1. log \in [SessionIds -> Seq(AcpEvents)]
    BY <1>1, <1>2
  <2>2. Len(live) <= BufferSize
    BY <1>1, <1>2, AcpAssumption
  <2> QED BY <1>1, <1>2, <2>1, <2>2 DEF AcpTypes
<1>5. OnePrompt
  BY <1>1, <1>2, <1>3 DEF OnePrompt
<1>6. LogFits
  <2>1. Fitting(<<>>, acpRuns) /\ Climbs(<<>>) /\ UpTo(<<>>, Len(<<>>))
    BY <1>2 DEF Fitting, Climbs, UpTo
  <2>2. \A s \in SessionIds : log[s] = <<>>
    BY <1>1
  <2> QED BY <1>1, <1>2, <2>1, <2>2 DEF LogFits
<1>7. ReadsOn
  BY <1>1, <1>3 DEF ReadsOn
<1> QED BY <1>1, <1>2, <1>4, <1>5, <1>6, <1>7 DEF AcpInv

\* Every step keeps the invariant.
LEMMA AcpSteps ==
  ASSUME AcpInv, [AcpNext]_acpVars
  PROVE  AcpInv'
PROOF
<1>1. CASE ReadLine \/ WriteResponses
  BY <1>1, TransportKeeps
<1>2. CASE SessionNew \/ RunControl
  BY <1>2, SessionKeeps
<1>3. CASE StreamSubscribe \/ StreamUnsubscribe
  BY <1>3, SubscribeKeeps
<1>4. CASE BeginPrompt
  BY <1>4, BeginKeeps
<1>5. CASE Submit
  BY <1>5, SubmitKeeps
<1>6. CASE Read
  BY <1>6, ReadOnKeeps, ReadEndKeeps
<1>7. CASE Pump
  BY <1>7, PumpKeeps
<1>8. CASE RunOutputs \/ RunAsks \/ RunFinishes
  BY <1>8, RunKeeps
<1>9. CASE UNCHANGED acpVars
  <2>1. /\ log' = log /\ acpRuns' = acpRuns /\ batch' = batch /\ held' = held
        /\ written' = written /\ prompt' = prompt /\ dropped' = dropped
        /\ streams' = streams /\ told' = told /\ replay' = replay /\ live' = live
        /\ out' = out
    BY <1>9 DEF acpVars
  <2>2. AcpTypes /\ OnePrompt /\ LogFits
    BY DEF AcpInv
  <2>3. AcpTypes' /\ OnePrompt'
    BY <2>1, <2>2 DEF AcpTypes, OnePrompt
  <2>4. Rest' = Rest
    BY <2>1 DEF Rest, Stream
  <2>5. Fitting(out', acpRuns) /\ Fitting(replay', acpRuns) /\ Fitting(live', acpRuns)
    BY <2>1, <2>2 DEF LogFits
  <2> QED BY <2>1, <2>3, <2>4, <2>5, MovesKeep
<1> QED BY <1>1, <1>2, <1>3, <1>4, <1>5, <1>6, <1>7, <1>8, <1>9 DEF AcpNext

\* The invariant is enough.
LEMMA AcpGives ==
  ASSUME AcpInv
  PROVE  PromptSeesItsRun
PROOF
<1>1. /\ AcpTypes /\ ReadsOn /\ \A k \in 1..Len(told) : ToldFits(k)
      /\ \A i \in 1..Len(held) : AnswerFits(held[i])
      /\ \A i \in 1..Len(written) : AnswerFits(written[i])
  BY DEF AcpInv
<1>2. held \in Seq(Answers) /\ written \in Seq(Answers) /\ told \in Seq(Seq(AcpEvents))
  BY <1>1 DEF AcpTypes
<1>3. ASSUME NEW i \in DOMAIN (written \o held), (written \o held)[i].kind = "end_turn",
             ~(written \o held)[i].lossy
      PROVE  (written \o held)[i].updates = EventsOf((written \o held)[i].run)
  <2>1. PICK a : a = (written \o held)[i]
    OBVIOUS
  <2>2. i \in 1..Len(written \o held)
    BY <1>2
  <2>3. AnswerFits(a)
    <3>1. CASE i \in 1..Len(written)
      <4>1. a = written[i]
        BY <1>2, <2>1, <3>1, Places
      <4> QED BY <1>1, <3>1, <4>1
    <3>2. CASE i \notin 1..Len(written)
      <4>1. i - Len(written) \in 1..Len(held) /\ a = held[i - Len(written)]
        BY <1>2, <2>1, <2>2, <3>2, Places
      <4> QED BY <1>1, <4>1
    <3> QED BY <3>1, <3>2
  <2> QED BY <1>3, <2>1, <2>3 DEF AnswerFits
<1>4. prompt.run # 0 /\ ~dropped =>
        prompt.updates \o OfRun(out \o replay \o live, prompt.run) = EventsOf(prompt.run)
  BY <1>1 DEF ReadsOn, Rest, Stream
<1>5. ASSUME NEW k \in DOMAIN told, NEW i \in 1..(Len(told[k]) - 1)
      PROVE  told[k][i].seq < told[k][i + 1].seq
  <2>1. k \in 1..Len(told) /\ told[k] \in Seq(AcpEvents)
    BY <1>2
  <2>2. Climbs(told[k])
    BY <1>1, <2>1 DEF ToldFits
  <2>3. i \in 1..Len(told[k]) /\ i + 1 \in 1..Len(told[k]) /\ i < i + 1
    BY <2>1
  <2> QED BY <2>2, <2>3 DEF Climbs
<1> QED BY <1>3, <1>4, <1>5 DEF PromptSeesItsRun

\* AcpServer.PromptSeesItsRun, whatever the number of sessions, lines, requests and deltas
\* and the size of the channels: an answer tells what its run did, a prompt that reads has
\* the rest of it before it, and a stream is told every event once and in order.
THEOREM PromptSeesAll == AcpSpec => []PromptSeesItsRun
PROOF
<1>1. AcpInit => AcpInv
  BY AcpStarts
<1>2. AcpInv /\ [AcpNext]_acpVars => AcpInv'
  BY AcpSteps
<1>3. AcpInv => PromptSeesItsRun
  BY AcpGives
<1> QED BY <1>1, <1>2, <1>3, PTL DEF AcpSpec
-------------------------------------------------------------------------------
(* A call of an MCP server, whatever the server does, however much its pipes  *)
(* hold, and the config of a connection, however often it is edited.          *)

Stages == {"begin", "discover", "send", "await", "post", "closing", "draining",
           "returned", "over"}

\* A request of the server's own may carry any id, an answer that of its message.
Frame == [id : Nat, kind : {"answer", "odd", "error", "request"}]

McpTypes ==
  /\ way \in {"stdio", "http_sse"} /\ purpose \in {"call", "probe"}
  /\ listing \in {"with", "without", "none"}
  /\ at \in Stages \X (0..4) /\ ran \in Nat
  /\ toServer \in Seq(1..4) /\ toClient \in Seq(Frame)
  /\ serving \in {"nothing", "initialize", "list", "call"}

\* The call is on its way to the server,
CallOnItsWay == \E i \in 1..Len(toServer) : toServer[i] = 4

\* it can be sent from now on, and it cannot have been sent yet.
CallDue == at \in {<<"send", 4>>, <<"post", 4>>}
CallNotSent == at[1] \in {"begin", "discover"} \/ at[2] \in 1..3 \/ CallDue

\* One call is on its way, or has been there, and after a list that has the tool.
OneCall ==
  /\ \A i, j \in 1..Len(toServer) : toServer[i] = 4 /\ toServer[j] = 4 => i = j
  /\ CallOnItsWay => ran = 0
  /\ ran <= 1
  /\ CallNotSent => ran = 0 /\ ~CallOnItsWay
  /\ CallDue \/ at = <<"await", 4>> \/ CallOnItsWay \/ ran = 1 => listed \in {"with", "none"}

\* The server is at the call, or has answered it, only after the tool ran.
AnswersRan ==
  /\ serving = "call" => ran = 1
  /\ \A i \in 1..Len(toClient) : toClient[i].id = 3 /\ toClient[i].kind # "request" => ran = 1

\* The result is of the call, and the client is done with it.
ResultStands ==
  outcome = "ok" =>
    /\ at[1] \in {"closing", "draining", "returned", "over"}
    /\ \/ ran = 1 /\ taken.kind \in {"answer", "odd"}
       \/ ran = 1 /\ taken.kind = "empty" /\ way = "http_sse"
       \/ taken.kind = "request" /\ taken.id = 3

\* What a connection holds is in the table, unless it was changed meanwhile.
CopyStands ==
  /\ at[1] = "begin" => ~meanwhile
  /\ \E n : stored \in {{}, {n}}
  /\ purpose = "probe" /\ at[1] \notin {"begin", "over"} /\ ~meanwhile => stored = {copy}
  /\ meanwhile \/ stored = lastSaid

McpInv ==
  /\ McpTypes
  /\ purpose = "call" => OneCall /\ AnswersRan /\ ResultStands
  /\ CopyStands

\* The four messages and their ids.
LEMMA MessageIds ==
  /\ Messages[1] = "initialize" /\ Messages[2] = "initialized" /\ Messages[3] = "list"
  /\ Messages[4] = "call" /\ Id(1) = 1 /\ Id(2) = 0 /\ Id(3) = 2 /\ Id(4) = 3
PROOF
<1>1. /\ Messages[1] = "initialize" /\ Messages[2] = "initialized"
      /\ Messages[3] = "list" /\ Messages[4] = "call"
  BY DEF Messages
<1> QED BY <1>1 DEF Id

\* A message of the client's is one of the four, and the call is only sent by one that
\* calls.
LEMMA MessagesOfClient ==
  ASSUME McpTypes, NEW k \in 1..LastMessage
  PROVE  /\ k \in 1..4 /\ LastMessage \in {3, 4} /\ (k = 4 => purpose = "call")
         /\ (purpose = "call" => LastMessage = 4)
         /\ (Id(k) = 0 <=> k = 2) /\ (Messages[k] = "list" <=> k = 3)
         /\ (Messages[k] = "call" <=> k = 4)
PROOF
<1>1. LastMessage \in {3, 4} /\ (purpose = "call" => LastMessage = 4)
      /\ (LastMessage = 4 => purpose = "call")
  BY DEF LastMessage, McpTypes
<1>2. k \in 1..4 /\ (k = 4 => purpose = "call")
  BY <1>1
<1>3. k \in {1, 2, 3, 4}
  BY <1>2
<1> QED BY <1>1, <1>2, <1>3, MessageIds

\* The end of a call, as far as the stage tells.
LEMMA EndStages ==
  ASSUME McpTypes, NEW result, CallEnds(result)
  PROVE  /\ at' \in Stages \X (0..4) /\ at'[1] \in {"closing", "returned"} /\ at'[2] = 0
         /\ outcome' = result
BY DEF CallEnds, Stages, McpTypes

\* What an answer leaves: the sequence of frames is typed, and shorter by its first.
LEMMA FrameRead ==
  ASSUME McpTypes, toClient # <<>>, toClient' = Tail(toClient)
  PROVE  /\ Head(toClient) \in Frame /\ toClient' \in Seq(Frame)
         /\ \E i \in 1..Len(toClient) : Head(toClient) = toClient[i]
         /\ \A i \in 1..Len(toClient') : \E j \in 1..Len(toClient) : toClient'[i] = toClient[j]
PROOF
<1>1. toClient \in Seq(Frame) /\ Len(toClient) \in Nat
  BY DEF McpTypes
<1>2. Len(toClient) # 0
  BY <1>1, EmptySeq
<1>3. Head(toClient) = toClient[1] /\ 1 \in 1..Len(toClient) /\ Head(toClient) \in Frame
  BY <1>1, <1>2
<1>4. toClient' \in Seq(Frame) /\ Len(toClient') = Len(toClient) - 1
      /\ \A i \in 1..Len(toClient') : toClient'[i] = toClient[i + 1]
  BY <1>1, <1>2, HeadTailProperties
<1>5. \A i \in 1..Len(toClient') : i + 1 \in 1..Len(toClient)
  BY <1>1, <1>2, <1>4
<1> QED BY <1>3, <1>4, <1>5

\* A failed call leaves nothing on its way that was not, and no result.
LEMMA FailureKeeps ==
  ASSUME McpTypes, OneCall, CallFails, UNCHANGED <<ran, toServer>>
  PROVE  OneCall' /\ ResultStands'
PROOF
<1>1. at'[1] \in {"closing", "returned"} /\ at'[2] = 0 /\ outcome' = "error"
  BY EndStages DEF CallFails
<1>2. at' # <<"await", 4>> /\ ~CallDue' /\ ~CallNotSent'
  BY <1>1 DEF CallDue, CallNotSent
<1>3. OneCall'
  BY <1>2 DEF OneCall, CallOnItsWay, CallFails
<1>4. ResultStands'
  BY <1>1 DEF ResultStands
<1> QED BY <1>3, <1>4

\* The answer to a message before the call: the next one is due if the list allows.
LEMMA EarlyAnswer ==
  ASSUME McpTypes, OneCall, purpose = "call", ran = 0, ~CallOnItsWay, outcome # "ok",
         NEW k \in 1..LastMessage, k # 4, NEW f, TakeAnswer(k, f),
         UNCHANGED <<ran, toServer, listing>>
  PROVE  OneCall' /\ ResultStands' /\ at' \in Stages \X (0..4) /\ at'[1] # "begin"
PROOF
<1>1. /\ k \in 1..4 /\ LastMessage = 4 /\ (Messages[k] = "list" <=> k = 3)
      /\ k \in 1..3
  BY MessagesOfClient
<1>2. PICK list : list = (IF f.kind = "answer" THEN listing ELSE "none")
  OBVIOUS
<1>3. listed' = IF k = 3 THEN list ELSE listed
  BY <1>1, <1>2 DEF TakeAnswer
<1>4. CASE k = 3 /\ list = "without"
  <2>1. CallEnds("error")
    BY <1>1, <1>2, <1>4 DEF TakeAnswer, Listed
  <2>2. at'[1] \in {"closing", "returned"} /\ at'[2] = 0 /\ outcome' = "error"
        /\ at' \in Stages \X (0..4)
    BY <2>1, EndStages
  <2>3. at' # <<"await", 4>> /\ ~CallDue' /\ ~CallNotSent'
    BY <2>2 DEF CallDue, CallNotSent
  <2>4. OneCall'
    BY <2>3 DEF OneCall, CallOnItsWay
  <2> QED BY <2>2, <2>4 DEF ResultStands
<1>5. CASE ~(k = 3 /\ list = "without")
  <2>1. at' = <<IF way = "stdio" THEN "send" ELSE "post", k + 1>> /\ UNCHANGED outcome
    BY <1>1, <1>2, <1>5 DEF TakeAnswer, Listed
  <2>2. k + 1 \in 0..4 /\ (k + 1 = 4 => k = 3)
    BY <1>1
  <2>3. at' \in Stages \X (0..4) /\ at'[1] \in {"send", "post"} /\ (CallDue' => k = 3)
    BY <2>1, <2>2 DEF Stages, CallDue
  <2>4. CallDue' => listed' \in {"with", "none"}
    BY <1>2, <1>3, <1>5, <2>3 DEF McpTypes
  <2>5. at' # <<"await", 4>>
    BY <2>3
  <2>6. OneCall'
    BY <2>4, <2>5 DEF OneCall, CallOnItsWay
  <2> QED BY <2>1, <2>3, <2>6 DEF ResultStands
<1> QED BY <1>4, <1>5

\* A step of the server's, or of a process, that leaves the client and the way to the
\* server alone.
LEMMA ClientLeftAlone ==
  ASSUME McpInv, UNCHANGED <<Untouched, at, outcome, listed, taken, configVars>>,
         ran' = ran, toServer' = toServer, serving' \in {serving, "nothing"}, toClient' = toClient
  PROVE  McpInv'
PROOF
<1>1. McpTypes'
  BY DEF McpInv, McpTypes, Untouched
<1>2. CopyStands'
  BY DEF McpInv, CopyStands, Untouched, configVars
<1>3. ASSUME purpose = "call" PROVE (OneCall /\ AnswersRan /\ ResultStands)'
  <2>1. OneCall /\ AnswersRan /\ ResultStands
    BY <1>3 DEF McpInv
  <2>2. OneCall'
    BY <2>1 DEF OneCall, CallOnItsWay, CallNotSent, CallDue
  <2>3. AnswersRan'
    BY <2>1 DEF AnswersRan
  <2>4. ResultStands'
    BY <2>1 DEF ResultStands, Untouched
  <2> QED BY <2>2, <2>3, <2>4
<1> QED BY <1>1, <1>2, <1>3 DEF McpInv, Untouched

\* A step of the client's between its beginning and its end leaves the copy as it was.
LEMMA CopyRests ==
  ASSUME CopyStands, UNCHANGED <<purpose, configVars>>,
         at[1] \notin {"begin", "over"}, at'[1] # "begin"
  PROVE  CopyStands'
BY DEF CopyStands, configVars

\* What the server reads.
LEMMA ServerReadsStep ==
  ASSUME McpInv, ServerReads
  PROVE  McpInv'
PROOF
<1>1. McpTypes /\ toServer \in Seq(1..4) /\ Len(toServer) \in Nat /\ toServer # <<>>
  BY DEF McpInv, McpTypes, ServerReads
<1>2. Len(toServer) # 0
  BY <1>1, EmptySeq
<1>3. PICK h : h = Head(toServer)
  OBVIOUS
<1>4. h = toServer[1] /\ 1 \in 1..Len(toServer) /\ h \in 1..4
  BY <1>1, <1>2, <1>3
<1>5. toServer' \in Seq(1..4) /\ Len(toServer') = Len(toServer) - 1
      /\ \A i \in 1..Len(toServer') : toServer'[i] = toServer[i + 1]
  BY <1>1, <1>2, HeadTailProperties DEF ServerReads
<1>6. \A i \in 1..Len(toServer') : i \in Nat /\ i + 1 \in 1..Len(toServer) /\ i + 1 # 1
  BY <1>1, <1>2, <1>5
<1>7. serving' = (IF Id(h) = 0 THEN "nothing" ELSE Messages[h])
      /\ ran' = (IF serving' = "call" THEN ran + 1 ELSE ran)
      /\ UNCHANGED <<Untouched, at, outcome, listed, taken, configVars, toClient>>
  BY <1>3 DEF ServerReads, ClientRests
<1>8. h \in {1, 2, 3, 4}
  BY <1>4
<1>9. serving' \in {"nothing", "initialize", "list", "call"} /\ (serving' = "call" <=> h = 4)
  BY <1>7, <1>8, MessageIds
<1>10. McpTypes'
  BY <1>1, <1>5, <1>7, <1>9 DEF McpTypes, Untouched
<1>11. CopyStands'
  BY <1>7 DEF McpInv, CopyStands, Untouched, configVars
<1>12. ASSUME purpose = "call" PROVE (OneCall /\ AnswersRan /\ ResultStands)'
  <2>1. OneCall /\ AnswersRan /\ ResultStands
    BY <1>12 DEF McpInv
  <2>2. CallOnItsWay' => CallOnItsWay /\ h # 4
    <3> SUFFICES ASSUME NEW i \in 1..Len(toServer'), toServer'[i] = 4
                 PROVE  CallOnItsWay /\ h # 4
      BY DEF CallOnItsWay
    <3>1. i + 1 \in 1..Len(toServer) /\ toServer[i + 1] = 4 /\ i + 1 # 1
      BY <1>5, <1>6
    <3> QED BY <1>4, <2>1, <3>1 DEF OneCall, CallOnItsWay
  <2>3. h = 4 => CallOnItsWay
    BY <1>4 DEF CallOnItsWay
  <2>4. ran \in Nat
    BY <1>1 DEF McpTypes
  <2>5. ran' = (IF h = 4 THEN 1 ELSE ran) /\ (h = 4 => ran = 0 /\ ~CallOnItsWay')
    BY <1>7, <1>9, <2>1, <2>2, <2>3, <2>4 DEF OneCall
  <2>6. \A i, j \in 1..Len(toServer') :
          toServer'[i] = 4 /\ toServer'[j] = 4 => i = j
    BY <1>5, <1>6, <2>1 DEF OneCall
  <2>7. (CallNotSent' <=> CallNotSent) /\ (CallDue' <=> CallDue)
    BY <1>7 DEF CallNotSent, CallDue
  <2>8. OneCall'
    BY <1>7, <2>1, <2>2, <2>3, <2>4, <2>5, <2>6, <2>7 DEF OneCall
  <2>9. ran = 1 => ran' = 1
    BY <2>5
  <2>10. AnswersRan'
    BY <1>7, <1>9, <2>1, <2>5, <2>9 DEF AnswersRan
  <2>11. ResultStands'
    BY <1>7, <2>1, <2>9 DEF ResultStands, Untouched
  <2> QED BY <2>8, <2>10, <2>11
<1> QED BY <1>7, <1>10, <1>11, <1>12 DEF McpInv, Untouched

\* What the server writes.
LEMMA ServerWritesStep ==
  ASSUME McpInv, ServerAnswers \/ ServerAsks
  PROVE  McpInv'
PROOF
<1>1. McpTypes /\ toClient \in Seq(Frame)
  BY DEF McpInv, McpTypes
<1>2. PICK f \in Frame :
        /\ toClient' = Append(toClient, f)
        /\ f.kind # "request" /\ f.id = 3 => serving = "call"
  <2>1. CASE ServerAnswers
    <3>1. PICK k \in 1..4, how \in {"answer", "odd", "error"} :
            Messages[k] = serving /\ toClient' = Append(toClient, [id |-> Id(k), kind |-> how])
      BY <2>1 DEF ServerAnswers
    <3>2. k \in {1, 2, 3, 4}
      OBVIOUS
    <3>3. Id(k) \in Nat /\ (Id(k) = 3 => Messages[k] = "call")
      BY <3>2, MessageIds
    <3> QED BY <3>1, <3>3 DEF Frame
  <2>2. CASE ServerAsks
    <3>1. PICK id \in 0..3 : toClient' = Append(toClient, [id |-> id, kind |-> "request"])
      BY <2>2 DEF ServerAsks
    <3> QED BY <3>1 DEF Frame
  <2> QED BY <2>1, <2>2
<1>3. /\ UNCHANGED <<Untouched, at, outcome, listed, taken, configVars, ran, toServer>>
      /\ serving' \in {serving, "nothing"}
  BY DEF ServerAnswers, ServerAsks, ClientRests
<1>4. toClient' \in Seq(Frame) /\ \A i \in 1..Len(toClient') :
        toClient'[i] = f \/ \E j \in 1..Len(toClient) : toClient'[i] = toClient[j]
  <2>1. PICK n, w : n = Len(toClient) /\ w = toClient'
    OBVIOUS
  <2>2. n \in Nat /\ w \in Seq(Frame) /\ Len(w) = n + 1 /\ w[n + 1] = f
        /\ \A i \in 1..n : w[i] = toClient[i]
    BY <1>1, <1>2, <2>1, AppendProperties
  <2>3. ASSUME NEW i \in 1..n + 1, i # n + 1
        PROVE  i \in 1..n /\ w[i] = toClient[i]
    BY <2>2, <2>3
  <2>4. \A i \in 1..n + 1 : w[i] = f \/ \E j \in 1..n : w[i] = toClient[j]
    BY <2>2, <2>3
  <2> QED BY <2>1, <2>2, <2>4
<1>5. McpTypes'
  BY <1>1, <1>3, <1>4 DEF McpTypes, Untouched
<1>6. CopyStands'
  BY <1>3 DEF McpInv, CopyStands, Untouched, configVars
<1>7. ASSUME purpose = "call" PROVE (OneCall /\ AnswersRan /\ ResultStands)'
  <2>1. OneCall /\ AnswersRan /\ ResultStands
    BY <1>7 DEF McpInv
  <2>2. OneCall'
    BY <1>3, <2>1 DEF OneCall, CallOnItsWay, CallNotSent, CallDue
  <2>3. ResultStands'
    BY <1>3, <2>1 DEF ResultStands, Untouched
  <2>4. AnswersRan'
    BY <1>2, <1>3, <1>4, <2>1 DEF AnswersRan
  <2> QED BY <2>2, <2>3, <2>4
<1> QED BY <1>3, <1>5, <1>6, <1>7 DEF McpInv, Untouched

\* What the client sends over the pipe.
LEMMA SendStep ==
  ASSUME McpInv, SendFrame
  PROVE  McpInv'
PROOF
<1>1. McpTypes /\ CopyStands /\ toServer \in Seq(1..4) /\ Len(toServer) \in Nat
  BY DEF McpInv, McpTypes
<1>2. PICK k \in 1..LastMessage :
        /\ AtMessage("send", k)
        /\ \/ /\ toServer' = Append(toServer, k)
              /\ at' = IF Id(k) = 0 THEN <<"send", k + 1>> ELSE <<"await", k>>
              /\ UNCHANGED <<outcome, listed, taken>>
           \/ /\ IF Id(k) = 0
                 THEN at' = <<"send", k + 1>> /\ UNCHANGED <<outcome, listed, taken>>
                 ELSE CallFails
              /\ UNCHANGED toServer
        /\ UNCHANGED <<Untouched, toClient, serving, ran, configVars>>
  BY DEF SendFrame
<1>3. k \in 1..4 /\ (purpose = "call" => LastMessage = 4) /\ (Id(k) = 0 <=> k = 2)
  BY <1>1, MessagesOfClient
<1>4. at = <<"send", k>> /\ at[1] = "send" /\ at[2] = k
  BY <1>2 DEF AtMessage
<1>5. (OneCall /\ AnswersRan /\ ResultStands) \/ purpose # "call"
  BY DEF McpInv
<1>6. UNCHANGED <<way, purpose, listing, toClient, serving, ran, configVars>>
  BY <1>2 DEF Untouched
<1>7. purpose = "call" => AnswersRan'
  BY <1>5, <1>6 DEF AnswersRan
<1>8. CASE CallFails /\ UNCHANGED toServer
  <2>1. at' \in Stages \X (0..4) /\ at'[1] # "begin"
    BY <1>1, <1>8, EndStages DEF CallFails
  <2>2. McpTypes'
    BY <1>1, <1>6, <1>8, <2>1 DEF McpTypes
  <2>3. CopyStands'
    BY <1>1, <1>4, <1>6, <2>1, CopyRests
  <2>4. purpose = "call" => OneCall' /\ ResultStands'
    BY <1>1, <1>5, <1>6, <1>8, FailureKeeps
  <2> QED BY <1>6, <1>7, <2>2, <2>3, <2>4 DEF McpInv
<1>9. CASE k = 2 /\ at' = <<"send", 3>> /\ UNCHANGED <<outcome, listed, taken, toServer>>
  <2>1. McpTypes' /\ at'[1] = "send" /\ at'[2] = 3
    BY <1>1, <1>6, <1>9 DEF McpTypes, Stages
  <2>2. CopyStands'
    BY <1>1, <1>4, <1>6, <2>1, CopyRests
  <2>3. ASSUME purpose = "call" PROVE OneCall' /\ ResultStands'
    <3>1. CallNotSent /\ ~CallDue' /\ at' # <<"await", 4>>
      BY <1>4, <1>9 DEF CallNotSent, CallDue
    <3>2. OneCall'
      BY <1>5, <1>6, <1>9, <2>3, <3>1 DEF OneCall, CallOnItsWay
    <3>3. ResultStands'
      BY <1>4, <1>5, <1>9, <2>3 DEF ResultStands
    <3> QED BY <3>2, <3>3
  <2> QED BY <1>6, <1>7, <2>1, <2>2, <2>3 DEF McpInv
<1>10. CASE /\ toServer' = Append(toServer, k) /\ UNCHANGED <<outcome, listed, taken>>
            /\ at' = IF k = 2 THEN <<"send", 3>> ELSE <<"await", k>>
  <2>1. PICK n : n = Len(toServer)
    OBVIOUS
  <2>2. /\ n \in Nat /\ toServer' \in Seq(1..4) /\ Len(toServer') = n + 1
        /\ \A i \in 1..n : toServer'[i] = toServer[i]
        /\ toServer'[n + 1] = k
    BY <1>1, <1>3, <1>10, <2>1, AppendProperties
  <2>3. at' \in Stages \X (0..4) /\ at'[1] \in {"send", "await"} /\ ~CallDue'
    BY <1>3, <1>10 DEF Stages, CallDue
  <2>4. McpTypes'
    BY <1>1, <1>6, <1>10, <2>2, <2>3 DEF McpTypes
  <2>5. CopyStands'
    BY <1>1, <1>4, <1>6, <2>3, CopyRests
  <2>6. ASSUME purpose = "call" PROVE OneCall' /\ ResultStands'
    <3>1. OneCall /\ ran = 0 /\ ~CallOnItsWay
      BY <1>3, <1>4, <1>5, <2>6 DEF OneCall, CallNotSent, CallDue
    <3>2. \A i \in 1..Len(toServer') : toServer'[i] = 4 => i = n + 1 /\ k = 4
      <4> SUFFICES ASSUME NEW i \in 1..Len(toServer'), toServer'[i] = 4
                   PROVE  i = n + 1 /\ k = 4
        OBVIOUS
      <4>1. i \in 1..n \/ i = n + 1
        BY <2>2
      <4>2. i \notin 1..n
        BY <2>1, <2>2, <3>1 DEF CallOnItsWay
      <4> QED BY <2>2, <4>1, <4>2
    <3>3. k = 4 => listed \in {"with", "none"}
      BY <1>4, <3>1 DEF OneCall, CallDue
    <3>4. CallOnItsWay' => k = 4
      BY <3>2 DEF CallOnItsWay
    <3>5. at' = <<"await", 4>> => k = 4
      BY <1>10
    <3>6. CallNotSent' => k # 4
      BY <1>3, <1>10, <2>3 DEF CallNotSent
    <3>7. OneCall'
      BY <1>6, <1>10, <2>3, <3>1, <3>2, <3>3, <3>4, <3>5, <3>6 DEF OneCall
    <3>8. ResultStands'
      BY <1>4, <1>5, <1>10, <2>6 DEF ResultStands
    <3> QED BY <3>7, <3>8
  <2> QED BY <1>6, <1>7, <2>4, <2>5, <2>6 DEF McpInv
<1>11. k = 2 => k + 1 = 3
  OBVIOUS
<1> QED BY <1>2, <1>3, <1>8, <1>9, <1>10, <1>11

\* What the client reads.
LEMMA ReadStep ==
  ASSUME McpInv, ReadFrame
  PROVE  McpInv'
PROOF
<1>1. McpTypes /\ CopyStands
  BY DEF McpInv
<1>2. PICK k \in 1..LastMessage :
        /\ AtMessage("await", k)
        /\ \/ /\ toClient # <<>> /\ toClient' = Tail(toClient)
              /\ UNCHANGED <<at, outcome, listed, taken>>
           \/ CallFails /\ toClient # <<>> /\ toClient' = Tail(toClient)
           \/ CallFails /\ UNCHANGED toClient
           \/ /\ toClient # <<>> /\ toClient' = Tail(toClient)
              /\ Matches(Head(toClient), k) /\ Head(toClient).kind # "error"
              /\ TakeAnswer(k, Head(toClient))
        /\ UNCHANGED <<Untouched, toServer, serving, ran, configVars>>
  BY DEF ReadFrame
<1>3. /\ k \in 1..4 /\ (purpose = "call" => LastMessage = 4) /\ LastMessage \in {3, 4}
      /\ (Messages[k] = "list" <=> k = 3) /\ (k = 4 => purpose = "call")
  BY <1>1, MessagesOfClient
<1>4. at = <<"await", k>> /\ at[1] = "await" /\ at[2] = k
  BY <1>2 DEF AtMessage
<1>5. (OneCall /\ AnswersRan /\ ResultStands) \/ purpose # "call"
  BY DEF McpInv
<1>6. UNCHANGED <<way, purpose, listing, toServer, serving, ran, configVars>>
  BY <1>2 DEF Untouched
<1>7. toClient' \in Seq(Frame) /\ \A i \in 1..Len(toClient') :
        \E j \in 1..Len(toClient) : toClient'[i] = toClient[j]
  <2>1. CASE toClient # <<>> /\ toClient' = Tail(toClient)
    BY <1>1, <2>1, FrameRead
  <2>2. CASE toClient' = toClient
    BY <1>1, <2>2 DEF McpTypes
  <2> QED BY <1>2, <2>1, <2>2
<1>8. purpose = "call" => AnswersRan'
  BY <1>5, <1>6, <1>7 DEF AnswersRan
<1>9. CASE CallFails
  <2>1. at' \in Stages \X (0..4) /\ at'[1] # "begin"
    BY <1>1, <1>9, EndStages DEF CallFails
  <2>2. McpTypes'
    BY <1>1, <1>6, <1>7, <1>9, <2>1 DEF McpTypes
  <2>3. CopyStands'
    BY <1>1, <1>4, <1>6, <2>1, CopyRests
  <2>4. purpose = "call" => OneCall' /\ ResultStands'
    BY <1>1, <1>5, <1>6, <1>9, FailureKeeps
  <2> QED BY <1>6, <1>8, <2>2, <2>3, <2>4 DEF McpInv
<1>10. CASE UNCHANGED <<at, outcome, listed, taken>>
  <2>1. McpTypes'
    BY <1>1, <1>6, <1>7, <1>10 DEF McpTypes
  <2>2. CopyStands'
    BY <1>1, <1>4, <1>6, <1>10, CopyRests
  <2>3. ASSUME purpose = "call" PROVE OneCall' /\ ResultStands'
    <3>1. OneCall'
      BY <1>5, <1>6, <1>10, <2>3 DEF OneCall, CallOnItsWay, CallNotSent, CallDue
    <3>2. ResultStands'
      BY <1>5, <1>6, <1>10, <2>3 DEF ResultStands
    <3> QED BY <3>1, <3>2
  <2> QED BY <1>6, <1>8, <2>1, <2>2, <2>3 DEF McpInv
<1>11. CASE toClient # <<>> /\ toClient' = Tail(toClient) /\ Matches(Head(toClient), k)
            /\ Head(toClient).kind # "error" /\ TakeAnswer(k, Head(toClient))
  <2>1. PICK f : f = Head(toClient)
    OBVIOUS
  <2>2. TakeAnswer(k, f) /\ f \in Frame /\ f.kind \in {"answer", "odd", "request"}
        /\ f.id = Id(k) /\ (f.kind = "odd" => purpose = "probe")
    <3>1. f \in Frame
      BY <1>1, <1>11, <2>1, FrameRead
    <3>2. f.kind # "error" /\ f.kind \in {"answer", "odd", "error", "request"}
      BY <1>11, <2>1, <3>1 DEF Frame
    <3> QED BY <1>11, <2>1, <3>1, <3>2 DEF Matches
  <2>3. PICK i \in 1..Len(toClient) : f = toClient[i]
    BY <1>1, <1>11, <2>1, FrameRead
  <2>4. CASE k # LastMessage
    <3>1. k + 1 \in 0..4
      BY <1>3, <2>4
    <3>2. at' \in Stages \X (0..4) /\ at'[1] # "begin"
      BY <1>1, <2>2, <2>4, <3>1, EndStages DEF TakeAnswer, Stages
    <3>3. McpTypes'
      BY <1>1, <1>6, <1>7, <3>2 DEF McpTypes
    <3>4. CopyStands'
      BY <1>1, <1>4, <1>6, <3>2, CopyRests
    <3>5. ASSUME purpose = "call" PROVE OneCall' /\ ResultStands'
      <4>1. OneCall /\ ran = 0 /\ ~CallOnItsWay /\ outcome # "ok" /\ k # 4
        BY <1>3, <1>4, <1>5, <2>4, <3>5 DEF OneCall, CallNotSent, ResultStands
      <4> QED BY <1>1, <1>6, <2>2, <3>5, <4>1, EarlyAnswer
    <3> QED BY <1>6, <1>8, <3>3, <3>4, <3>5 DEF McpInv
  <2>5. CASE k = LastMessage
    <3>1. CallEnds("ok") /\ taken' = f
          /\ listed' = IF k = 3 THEN IF f.kind = "answer" THEN listing ELSE "none" ELSE listed
      BY <1>3, <2>2, <2>5 DEF TakeAnswer
    <3>2. at' \in Stages \X (0..4) /\ at'[1] \in {"closing", "returned"} /\ at'[2] = 0
          /\ outcome' = "ok"
      BY <1>1, <3>1, EndStages
    <3>3. McpTypes'
      BY <1>1, <1>6, <1>7, <3>2 DEF McpTypes
    <3>4. CopyStands'
      BY <1>1, <1>4, <1>6, <3>2, CopyRests
    <3>5. ASSUME purpose = "call" PROVE OneCall' /\ ResultStands'
      <4>1. k = 4 /\ Id(k) = 3
        BY <1>3, <2>5, <3>5, MessageIds
      <4>2. f.kind # "odd" /\ (f.kind = "answer" => ran = 1)
        BY <1>1, <1>5, <2>2, <2>3, <3>5, <4>1 DEF AnswersRan, McpTypes
      <4>3. ~CallDue' /\ ~CallNotSent' /\ at' # <<"await", 4>> /\ listed' = listed
        BY <3>1, <3>2, <4>1 DEF CallDue, CallNotSent
      <4>4. OneCall'
        BY <1>5, <1>6, <3>5, <4>3 DEF OneCall, CallOnItsWay
      <4>5. f.kind \in {"answer", "request"} /\ f.id = 3
        BY <2>2, <4>1, <4>2
      <4>6. ResultStands'
        BY <1>6, <3>1, <3>2, <4>2, <4>5 DEF ResultStands
      <4> QED BY <4>4, <4>6
    <3> QED BY <1>6, <1>8, <3>3, <3>4, <3>5 DEF McpInv
  <2> QED BY <2>4, <2>5
<1> QED BY <1>2, <1>9, <1>10, <1>11

\* What comes of a POST.
LEMMA PostStep ==
  ASSUME McpInv, Post
  PROVE  McpInv'
PROOF
<1>1. McpTypes /\ CopyStands
  BY DEF McpInv
<1>2. PICK k \in 1..LastMessage, reply \in Replies :
        /\ way = "http_sse" /\ AtMessage("post", k)
        /\ ran' = IF Messages[k] = "call" /\ reply \notin {"error", "unsent"} THEN ran + 1
                  ELSE ran
        /\ IF Id(k) = 0 THEN at' = <<"post", k + 1>> /\ UNCHANGED <<outcome, listed, taken>>
           ELSE IF reply \in {"error", "lost", "unsent"} THEN CallFails
           ELSE TakeAnswer(k, [id |-> Id(k), kind |-> reply])
        /\ UNCHANGED <<Untouched, toServer, toClient, serving, configVars>>
  BY DEF Post
<1>3. /\ k \in 1..4 /\ (purpose = "call" => LastMessage = 4) /\ LastMessage \in {3, 4}
      /\ (Messages[k] = "list" <=> k = 3) /\ (k = 4 => purpose = "call")
      /\ (Id(k) = 0 <=> k = 2) /\ (Messages[k] = "call" <=> k = 4)
  BY <1>1, MessagesOfClient
<1>4. at = <<"post", k>> /\ at[1] = "post" /\ at[2] = k
  BY <1>2 DEF AtMessage
<1>5. reply \in {"answer", "empty", "odd", "error", "lost", "unsent"}
  BY DEF Replies
<1>6. UNCHANGED <<way, purpose, listing, toServer, toClient, serving, configVars>>
  BY <1>2 DEF Untouched
<1>7. ran \in Nat /\ ran' \in Nat /\ (k # 4 => ran' = ran)
      /\ ran' = IF k = 4 /\ reply \notin {"error", "unsent"} THEN ran + 1 ELSE ran
  BY <1>1, <1>2, <1>3 DEF McpTypes
<1>8. purpose = "call" => /\ OneCall /\ AnswersRan /\ ResultStands
                          /\ ran = 0 /\ ~CallOnItsWay /\ outcome # "ok" /\ ran' \in {0, 1}
  <2> SUFFICES ASSUME purpose = "call"
               PROVE  /\ OneCall /\ AnswersRan /\ ResultStands
                      /\ ran = 0 /\ ~CallOnItsWay /\ outcome # "ok" /\ ran' \in {0, 1}
    OBVIOUS
  <2>1. OneCall /\ AnswersRan /\ ResultStands
    BY DEF McpInv
  <2>2. CallNotSent
    BY <1>3, <1>4 DEF CallNotSent, CallDue
  <2> QED BY <1>4, <1>7, <2>1, <2>2 DEF OneCall, ResultStands
<1>9. purpose = "call" => AnswersRan'
  BY <1>6, <1>7, <1>8 DEF AnswersRan
<1>10. ASSUME at' \in Stages \X (0..4), at'[1] # "begin"
       PROVE  McpTypes' /\ CopyStands'
  BY <1>1, <1>4, <1>6, <1>7, <1>10, CopyRests DEF McpTypes
<1>11. CASE CallFails
  <2>1. at' \in Stages \X (0..4) /\ at'[1] \in {"closing", "returned"} /\ at'[2] = 0
        /\ outcome' = "error"
    BY <1>1, <1>11, EndStages DEF CallFails
  <2>2. ASSUME purpose = "call" PROVE OneCall' /\ ResultStands'
    <3>1. ran' = 1 => listed' \in {"with", "none"}
      BY <1>4, <1>7, <1>8, <1>11, <2>2 DEF OneCall, CallDue, CallFails
    <3>2. at' # <<"await", 4>> /\ ~CallDue' /\ ~CallNotSent'
      BY <2>1 DEF CallDue, CallNotSent
    <3>3. ~CallOnItsWay'
      BY <1>6, <1>8, <2>2 DEF CallOnItsWay
    <3>4. OneCall'
      BY <1>6, <1>8, <2>2, <3>1, <3>2, <3>3 DEF OneCall
    <3> QED BY <2>1, <3>4 DEF ResultStands
  <2> QED BY <1>6, <1>9, <1>10, <2>1, <2>2 DEF McpInv
<1>12. CASE k = 2 /\ at' = <<"post", 3>> /\ UNCHANGED <<outcome, listed, taken>>
  <2>1. at' \in Stages \X (0..4) /\ at'[1] = "post" /\ at'[2] = 3 /\ ran' = ran
    BY <1>7, <1>12 DEF Stages
  <2>2. ASSUME purpose = "call" PROVE OneCall' /\ ResultStands'
    <3>1. OneCall'
      BY <1>6, <1>8, <1>12, <2>1, <2>2 DEF OneCall, CallOnItsWay, CallDue
    <3> QED BY <1>8, <1>12, <2>2, <3>1 DEF ResultStands
  <2> QED BY <1>6, <1>9, <1>10, <2>1, <2>2 DEF McpInv
<1>13. CASE /\ k # 2 /\ reply \in {"answer", "empty", "odd"}
            /\ TakeAnswer(k, [id |-> Id(k), kind |-> reply])
  <2>1. PICK f : f = [id |-> Id(k), kind |-> reply]
    OBVIOUS
  <2>2. TakeAnswer(k, f) /\ f.kind = reply
    BY <1>13, <2>1
  <2>3. CASE k # LastMessage
    <3>1. k + 1 \in 0..4 /\ k # 4
      BY <1>3, <2>3
    <3>2. at' \in Stages \X (0..4) /\ at'[1] # "begin"
      BY <1>1, <2>2, <2>3, <3>1, EndStages DEF TakeAnswer, Stages
    <3>3. purpose = "call" => OneCall' /\ ResultStands'
      BY <1>1, <1>6, <1>7, <1>8, <2>2, <3>1, EarlyAnswer
    <3> QED BY <1>6, <1>9, <1>10, <3>2, <3>3 DEF McpInv
  <2>4. CASE k = LastMessage
    <3>1. CallEnds("ok") /\ taken' = f
          /\ listed' = IF k = 3 THEN IF f.kind = "answer" THEN listing ELSE "none" ELSE listed
      BY <1>3, <2>2, <2>4 DEF TakeAnswer
    <3>2. at' \in Stages \X (0..4) /\ at'[1] \in {"closing", "returned"} /\ at'[2] = 0
          /\ outcome' = "ok"
      BY <1>1, <3>1, EndStages
    <3>3. ASSUME purpose = "call" PROVE OneCall' /\ ResultStands'
      <4>1. k = 4 /\ ran' = 1
        BY <1>3, <1>7, <1>8, <1>13, <2>4, <3>3
      <4>2. ~CallDue' /\ ~CallNotSent' /\ at' # <<"await", 4>> /\ listed' \in {"with", "none"}
        BY <1>4, <1>8, <3>1, <3>2, <3>3, <4>1 DEF CallDue, CallNotSent, OneCall
      <4>3. ~CallOnItsWay'
        BY <1>6, <1>8, <3>3 DEF CallOnItsWay
      <4>4. OneCall'
        BY <1>6, <1>8, <3>3, <4>1, <4>2, <4>3 DEF OneCall
      <4>5. ResultStands'
        BY <1>2, <1>6, <1>13, <2>2, <3>1, <3>2, <4>1 DEF ResultStands
      <4> QED BY <4>4, <4>5
    <3> QED BY <1>6, <1>9, <1>10, <3>2, <3>3 DEF McpInv
  <2> QED BY <2>3, <2>4
<1>14. k = 2 => k + 1 = 3
  OBVIOUS
<1> QED BY <1>2, <1>3, <1>5, <1>11, <1>12, <1>13, <1>14

\* The client begins: it reads the config, and has a process or a stream, or not.
LEMMA BeginStep ==
  ASSUME McpInv, StartStdio \/ OpenStream
  PROVE  McpInv'
PROOF
<1>1. McpTypes /\ CopyStands
  BY DEF McpInv
<1>2. /\ at = <<"begin", 0>> /\ ReadStored
      /\ UNCHANGED <<Untouched, toServer, toClient, serving, ran, stored, lastSaid, meanwhile>>
      /\ CallFails \/ (at' \in {<<"send", 1>>, <<"discover", 0>>}
                       /\ UNCHANGED <<outcome, listed, taken>>)
  BY DEF StartStdio, OpenStream, AtMessage, serverVars
<1>3. UNCHANGED <<way, purpose, listing, toServer, toClient, serving, ran, stored, lastSaid,
                  meanwhile>>
  BY <1>2 DEF Untouched
<1>4. at' \in Stages \X (0..4) /\ at'[1] \notin {"begin", "over"}
  <2>1. CASE CallFails
    BY <1>1, <2>1, EndStages DEF CallFails
  <2>2. CASE at' \in {<<"send", 1>>, <<"discover", 0>>}
    BY <2>2 DEF Stages
  <2> QED BY <1>2, <2>1, <2>2
<1>5. McpTypes'
  BY <1>1, <1>3, <1>4 DEF McpTypes
<1>6. CopyStands'
  <2>1. ~meanwhile /\ stored = lastSaid /\ at[1] = "begin"
    BY <1>1, <1>2 DEF CopyStands
  <2>2. PICK n : stored \in {{}, {n}}
    BY <1>1 DEF CopyStands
  <2>3. purpose = "probe" => stored = {copy'}
    BY <1>2, <2>2 DEF ReadStored
  <2> QED BY <1>3, <1>4, <2>1, <2>2, <2>3 DEF CopyStands
<1>7. ASSUME purpose = "call" PROVE (OneCall /\ AnswersRan /\ ResultStands)'
  <2>1. OneCall /\ AnswersRan /\ ResultStands
    BY <1>7 DEF McpInv
  <2>2. AnswersRan'
    BY <1>3, <2>1 DEF AnswersRan
  <2>3. CASE CallFails
    BY <1>1, <1>3, <2>1, <2>2, <2>3, FailureKeeps
  <2>4. CASE at' \in {<<"send", 1>>, <<"discover", 0>>} /\ UNCHANGED <<outcome, listed, taken>>
    <3>1. CallNotSent /\ ~CallDue' /\ at' # <<"await", 4>>
      BY <1>2, <2>4 DEF CallNotSent, CallDue
    <3>2. OneCall'
      BY <1>3, <2>1, <2>4, <3>1 DEF OneCall, CallOnItsWay
    <3>3. ResultStands'
      BY <1>2, <2>1, <2>4 DEF ResultStands
    <3> QED BY <2>2, <3>2, <3>3
  <2> QED BY <1>2, <2>3, <2>4
<1> QED BY <1>3, <1>5, <1>6, <1>7 DEF McpInv

\* The client finds the endpoint, or ends.
LEMMA StageStep ==
  ASSUME McpInv, DiscoverEndpoint \/ KillShell \/ WaitForShell
  PROVE  McpInv'
PROOF
<1>1. McpTypes /\ CopyStands
  BY DEF McpInv
<1>2. /\ UNCHANGED <<way, purpose, listing, outcome, listed, taken, toServer, toClient, ran,
                     configVars>>
      /\ serving' \in {serving, "nothing"}
      /\ \/ at = <<"discover", 0>> /\ at' = <<"post", 1>>
         \/ at[1] \in {"closing", "draining"} /\ at' \in {<<"draining", 0>>, <<"returned", 0>>}
  BY DEF DiscoverEndpoint, KillShell, WaitForShell, AtMessage, Untouched, serverVars
<1>3. at' \in Stages \X (0..4) /\ at'[1] # "begin" /\ at[1] \notin {"begin", "over"}
  BY <1>2 DEF Stages
<1>4. McpTypes'
  BY <1>1, <1>2, <1>3 DEF McpTypes
<1>5. CopyStands'
  BY <1>1, <1>2, <1>3, CopyRests
<1>6. ASSUME purpose = "call" PROVE (OneCall /\ AnswersRan /\ ResultStands)'
  <2>1. OneCall /\ AnswersRan /\ ResultStands
    BY <1>6 DEF McpInv
  <2>2. ~CallDue' /\ at' # <<"await", 4>> /\ (CallNotSent' => CallNotSent)
    BY <1>2 DEF CallNotSent, CallDue
  <2>3. OneCall'
    BY <1>2, <2>1, <2>2 DEF OneCall, CallOnItsWay
  <2>4. AnswersRan'
    BY <1>2, <2>1 DEF AnswersRan
  <2>5. ResultStands'
    BY <1>2, <2>1 DEF ResultStands
  <2> QED BY <2>3, <2>4, <2>5
<1> QED BY <1>2, <1>4, <1>5, <1>6 DEF McpInv

\* The config is written back or changed.
LEMMA ConfigStep ==
  ASSUME McpInv, SaveProbe \/ ChangeConfig
  PROVE  McpInv'
PROOF
<1>1. McpTypes /\ CopyStands
  BY DEF McpInv
<1>2. UNCHANGED <<way, purpose, listing, outcome, listed, taken, toServer, toClient, ran,
                  serving, copy>>
  BY DEF SaveProbe, ChangeConfig, Untouched, serverVars
<1>3. CASE SaveProbe
  <2>1. /\ purpose = "probe" /\ at = <<"returned", 0>> /\ at' = <<"over", 0>>
        /\ stored' = {copy} /\ UNCHANGED <<lastSaid, meanwhile>>
    BY <1>3 DEF SaveProbe
  <2>2. McpTypes'
    BY <1>1, <1>2, <2>1 DEF McpTypes, Stages
  <2>3. CopyStands'
    BY <1>1, <1>2, <2>1 DEF CopyStands
  <2> QED BY <1>2, <2>1, <2>2, <2>3 DEF McpInv
<1>4. CASE ChangeConfig
  <2>1. /\ UNCHANGED at /\ stored' \in {{}, {configEdits'}} /\ lastSaid' = stored'
        /\ meanwhile' = (purpose = "probe" /\ at[1] \notin {"begin", "over"})
    BY <1>4 DEF ChangeConfig
  <2>2. McpTypes'
    BY <1>1, <1>2, <2>1 DEF McpTypes
  <2>3. CopyStands'
    BY <1>1, <1>2, <2>1 DEF CopyStands
  <2>4. ASSUME purpose = "call" PROVE (OneCall /\ AnswersRan /\ ResultStands)'
    <3>1. OneCall /\ AnswersRan /\ ResultStands
      BY <2>4 DEF McpInv
    <3>2. OneCall'
      BY <1>2, <2>1, <3>1 DEF OneCall, CallOnItsWay, CallNotSent, CallDue
    <3>3. AnswersRan'
      BY <1>2, <3>1 DEF AnswersRan
    <3>4. ResultStands'
      BY <1>2, <2>1, <3>1 DEF ResultStands
    <3> QED BY <3>2, <3>3, <3>4
  <2> QED BY <1>2, <2>2, <2>3, <2>4 DEF McpInv
<1> QED BY <1>3, <1>4

(* A result the model is told means that the tool ran, once, after a list that *)
(* has it, and that the server answered, but for the two exceptions the property *)
(* names; and a connection brings back no config that was edited or deleted    *)
(* before it began or after it was over. (Of CallsAreAccounted these are the   *)
(* parts that are not about ENABLED.)                                          *)
THEOREM CallsMeanWhatTheySay == McpSpec => [](ResultMeansItRan /\ ConfigStands)
PROOF
<1>1. McpInit => McpInv
  <2> SUFFICES ASSUME McpInit PROVE McpInv
    OBVIOUS
  <2>1. /\ at = <<"begin", 0>> /\ ran = 0 /\ outcome = "none" /\ serving = "nothing"
        /\ toServer = <<>> /\ toClient = <<>> /\ stored = {0} /\ lastSaid = {0} /\ ~meanwhile
    BY DEF McpInit
  <2>2. Len(toServer) = 0 /\ Len(toClient) = 0
    BY <2>1
  <2>3. McpTypes
    BY <2>1 DEF McpInit, McpTypes, Stages
  <2>4. OneCall
    BY <2>1, <2>2 DEF OneCall, CallOnItsWay, CallDue
  <2>5. AnswersRan /\ ResultStands /\ CopyStands
    BY <2>1, <2>2 DEF AnswersRan, ResultStands, CopyStands
  <2> QED BY <2>3, <2>4, <2>5 DEF McpInv
<1>2. McpInv /\ [McpNext]_mcpVars => McpInv'
  <2> SUFFICES ASSUME McpInv, [McpNext]_mcpVars PROVE McpInv'
    OBVIOUS
  <2>1. CASE StartStdio \/ OpenStream
    BY <2>1, BeginStep
  <2>2. CASE SendFrame
    BY <2>2, SendStep
  <2>3. CASE ReadFrame
    BY <2>3, ReadStep
  <2>4. CASE DiscoverEndpoint \/ KillShell \/ WaitForShell
    BY <2>4, StageStep
  <2>5. CASE Post
    BY <2>5, PostStep
  <2>6. CASE SaveProbe \/ ChangeConfig
    BY <2>6, ConfigStep
  <2>7. CASE ServerReads
    BY <2>7, ServerReadsStep
  <2>8. CASE ServerAnswers \/ ServerAsks
    BY <2>8, ServerWritesStep
  <2>9. CASE DrainStderr \/ Expire \/ ServerChatters \/ ServerExits \/ UNCHANGED mcpVars
    <3>1. /\ UNCHANGED <<Untouched, at, outcome, listed, taken, configVars>>
          /\ ran' = ran /\ toServer' = toServer /\ serving' \in {serving, "nothing"}
          /\ toClient' = toClient
      BY <2>9 DEF DrainStderr, Expire, ServerChatters, ServerExits, ClientRests, Untouched,
                  mcpVars, serverVars
    <3> QED BY <3>1, ClientLeftAlone
  <2> QED BY <2>1, <2>2, <2>3, <2>4, <2>5, <2>6, <2>7, <2>8, <2>9 DEF McpNext, ClientMoves
<1>3. McpInv => ResultMeansItRan /\ ConfigStands
  <2> SUFFICES ASSUME McpInv PROVE ResultMeansItRan /\ ConfigStands
    OBVIOUS
  <2>1. ConfigStands
    BY DEF McpInv, CopyStands, ConfigStands
  <2>2. ASSUME purpose = "call"
        PROVE  /\ ran <= 1 /\ (ran = 1 => listed # "without" /\ listed # "unseen")
               /\ Id(LastMessage) = 3 /\ ResultStands
    <3>1. OneCall /\ ResultStands /\ LastMessage = 4
      BY <2>2 DEF McpInv, LastMessage
    <3>2. ran <= 1 /\ (ran = 1 => listed # "without" /\ listed # "unseen")
      BY <3>1 DEF OneCall
    <3> QED BY <3>1, <3>2, MessageIds
  <2>3. ResultMeansItRan
    BY <2>2 DEF ResultMeansItRan, ResultStands
  <2> QED BY <2>1, <2>3
<1> QED BY <1>1, <1>2, <1>3, PTL DEF McpSpec
=============================================================================
