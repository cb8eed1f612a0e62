----------------------------- MODULE LibraryProofs -----------------------------
(* Proofs about two parts of the engine that share no variable: the sessions *)
(* with their checkpoints, for any files, callers and checkpoints, and the    *)
(* event feed, for any subscribers, buffers and policies.                     *)
EXTENDS Sessions, EventFeedRefinement, Subagents, TLAPS, SequenceTheorems, FiniteSetTheorems
-------------------------------------------------------------------------------
(* Checkpoints and rewinds.                                                   *)

Entries == [path : SavedPaths, was : Nat]
FileContents == [SavedPaths -> Nat]
KnownSessions == [parent : Nat, history : Nat, grants : BOOLEAN, checkpoint : Nat, cursor : Nat]

\* What a caller that takes a snapshot, restores one, or forks holds.
TakesSnapshot(a) ==
  a \in [step : {"snapshot"}, left : Seq(SavedPaths), entries : Seq(Entries),
         crossed : SUBSET SavedPaths]
Restores(a) ==
  a \in [step : {"restore"}, session : Nat, id : Nat, left : Seq(Entries),
         crossed : SUBSET SavedPaths, found : FileContents]
Forks(a) ==
  a \in [step : {"fork"}, parent : Nat, history : SUBSET Nat, checkpoint : SUBSET Nat]

\* Entries tell what the files are, of those that did not change meanwhile.
Tell(entries, files, blurred) ==
  \A i \in 1..Len(entries) :
    entries[i].path \in blurred \/ entries[i].was = files[entries[i].path]

\* The file p holds what one of the entries says.
HeldBy(entries, files, p) ==
  \E i \in 1..Len(entries) : entries[i].path = p /\ files[p] = entries[i].was

\* A restore works on its checkpoint; undisturbed it has put back what it has passed and
\* touched nothing else.
PutsBack(a, files, stored) ==
  /\ a.id \in 1..Len(stored)
  /\ \A j \in 1..Len(a.left) :
       \E i \in 1..Len(stored[a.id]) : a.left[j] = stored[a.id][i]
  /\ a.crossed = {} =>
       \A p \in SavedPaths :
         \/ p \notin PathsOf(stored[a.id]) /\ files[p] = a.found[p]
         \/ p \in PathsOf(a.left)
         \/ HeldBy(stored[a.id], files, p)

\* What a caller holds is true of the files and the checkpoints there are.
CallerHolds(a, files, stored, n) ==
  \/ a = AtEase
  \/ TakesSnapshot(a) /\ Tell(a.entries, files, a.crossed)
  \/ Restores(a) /\ PutsBack(a, files, stored)
  \/ Forks(a) /\ a.parent \in 1..n

Callers == \A c \in SessionCallers : CallerHolds(at[c], content, snapshots, Len(known))

\* A checkpoint tells what there was.
Stored == \A k \in 1..Len(snapshots) : Tell(snapshots[k], moment[k].files, moment[k].blurred)

SessionTypes ==
  /\ content \in FileContents /\ aside \in FileContents
  /\ snapshots \in Seq(Seq(Entries))
  /\ moment \in Seq([files : FileContents, blurred : SUBSET SavedPaths])
  /\ Len(moment) = Len(snapshots)
  /\ known \in Seq(KnownSessions)
  /\ at = [c \in SessionCallers |-> at[c]]
  /\ settled \in 0..Len(snapshots)
  /\ fileWrites \in Nat /\ sessionCalls \in Nat

RewindInv == SessionTypes /\ Callers /\ Stored /\ RewindGivesBack

\* What a caller is doing says what it holds.
LEMMA CallerIs ==
  ASSUME NEW a, NEW files, NEW stored, NEW n, CallerHolds(a, files, stored, n)
  PROVE  /\ a.step = "none" => a = AtEase
         /\ a.step = "snapshot" => TakesSnapshot(a) /\ Tell(a.entries, files, a.crossed)
         /\ a.step = "restore" => Restores(a) /\ PutsBack(a, files, stored)
         /\ a.step = "fork" => Forks(a) /\ a.parent \in 1..n
PROOF
<1>1. AtEase.step = "none"
  BY DEF AtEase
<1>2. /\ TakesSnapshot(a) => a.step = "snapshot"
      /\ Restores(a) => a.step = "restore"
      /\ Forks(a) => a.step = "fork"
  BY DEF TakesSnapshot, Restores, Forks
<1>3. QED BY <1>1, <1>2 DEF CallerHolds

\* A step of one caller that leaves the files and the checkpoints alone.
LEMMA OneCaller ==
  ASSUME RewindInv, NEW c \in SessionCallers, NEW a,
         CallerHolds(a, content, snapshots, Len(known)), Proceed(c, a),
         UNCHANGED <<content, snapshots, known, moment, settled, aside>>,
         fileWrites' \in Nat, sessionCalls' \in Nat
  PROVE  RewindInv'
PROOF
<1>1. \A d \in SessionCallers : at'[d] = IF d = c THEN a ELSE at[d]
  BY DEF RewindInv, SessionTypes, Proceed
<1>2. Callers'
  BY <1>1 DEF RewindInv, Callers
<1>3. at' = [d \in SessionCallers |-> at'[d]]
  BY DEF RewindInv, SessionTypes, Proceed
<1>4. SessionTypes'
  BY <1>3 DEF RewindInv, SessionTypes
<1>5. Stored' /\ RewindGivesBack'
  BY DEF RewindInv, Stored, RewindGivesBack
<1>6. QED BY <1>2, <1>4, <1>5 DEF RewindInv

\* A list of paths, each once, is a sequence of paths.
LEMMA PathLists ==
  ASSUME SessionAssumption, NEW P \in SUBSET SavedPaths, NEW q \in SetToSeqs(P)
  PROVE  q \in Seq(SavedPaths)
PROOF
<1>1. IsFiniteSet(P) /\ Cardinality(P) \in Nat
  BY FS_Subset, FS_CardinalityType DEF SessionAssumption
<1>2. q \in [1..Cardinality(P) -> P]
  BY DEF SetToSeqs
<1>3. q \in [1..Cardinality(P) -> SavedPaths]
  BY <1>2
<1>4. QED BY <1>1, <1>3, IsASeq

\* A snapshot begins, goes on, or breaks off; a restore or a fork does.
LEMMA SnapshotBegins ==
  ASSUME RewindInv, SessionAssumption, NEW c \in SessionCallers, NEW P \in SUBSET SavedPaths,
         NEW q \in SetToSeqs(P), BeginSnapshot(c, q)
  PROVE  RewindInv'
PROOF
<1> DEFINE a == [step |-> "snapshot", left |-> q, entries |-> <<>>, crossed |-> {}]
<1>1. q \in Seq(SavedPaths)
  BY PathLists
<1>2. <<>> \in Seq(Entries) /\ Len(<<>>) = 0
  BY EmptySeq
<1>3. TakesSnapshot(a) /\ Tell(a.entries, content, a.crossed)
  BY <1>1, <1>2 DEF TakesSnapshot, Tell
<1>4. CallerHolds(a, content, snapshots, Len(known))
  BY <1>3 DEF CallerHolds
<1>5. fileWrites' \in Nat /\ sessionCalls' \in Nat
  BY DEF RewindInv, SessionTypes, BeginSnapshot, Counted
<1>6. QED BY <1>4, <1>5, OneCaller DEF BeginSnapshot

LEMMA SnapshotTakes ==
  ASSUME RewindInv, NEW c \in SessionCallers, TakeFile(c)
  PROVE  RewindInv'
PROOF
<1> DEFINE p == Head(at[c].left)
           e == [path |-> p, was |-> content[p]]
           a == [at[c] EXCEPT !.left = Tail(@),
                              !.entries = Append(@, [path |-> Head(at[c].left),
                                                     was |-> content[Head(at[c].left)]])]
<1>1. TakesSnapshot(at[c]) /\ Tell(at[c].entries, content, at[c].crossed) /\ at[c].left # <<>>
  BY CallerIs DEF RewindInv, Callers, TakeFile, Doing
<1>2. /\ p \in SavedPaths /\ Tail(at[c].left) \in Seq(SavedPaths)
      /\ at[c].entries \in Seq(Entries)
  BY <1>1, HeadTailProperties DEF TakesSnapshot
<1>3. e \in Entries
  BY <1>2 DEF RewindInv, SessionTypes, FileContents, Entries
<1>4. Append(at[c].entries, e) \in Seq(Entries)
  BY <1>2, <1>3, AppendProperties
<1>5. /\ a.step = "snapshot" /\ a.left = Tail(at[c].left)
      /\ a.entries = Append(at[c].entries, e) /\ a.crossed = at[c].crossed
      /\ TakesSnapshot(a)
  BY <1>1, <1>2, <1>4 DEF TakesSnapshot
<1>6. Tell(a.entries, content, a.crossed)
  <2>1. /\ Len(a.entries) = Len(at[c].entries) + 1 /\ Len(at[c].entries) \in Nat
        /\ \A i \in 1..Len(at[c].entries) : a.entries[i] = at[c].entries[i]
        /\ a.entries[Len(at[c].entries) + 1] = e
    BY <1>2, <1>3, <1>5, AppendProperties, LenProperties
  <2>2. e.was = content[e.path]
    OBVIOUS
  <2>3. ASSUME NEW i \in 1..Len(a.entries)
        PROVE  a.entries[i].path \in a.crossed \/ a.entries[i].was = content[a.entries[i].path]
    <3>1. CASE i \in 1..Len(at[c].entries)
      BY <1>1, <1>5, <2>1, <3>1 DEF Tell
    <3>2. CASE i = Len(at[c].entries) + 1
      BY <2>1, <2>2, <3>2
    <3>3. QED BY <2>1, <2>3, <3>1, <3>2
  <2>4. QED BY <2>3 DEF Tell
<1>7. CallerHolds(a, content, snapshots, Len(known))
  BY <1>5, <1>6 DEF CallerHolds
<1>8. fileWrites' \in Nat /\ sessionCalls' \in Nat
  BY DEF RewindInv, SessionTypes, TakeFile
<1>9. QED BY <1>7, <1>8, OneCaller DEF TakeFile

LEMMA CallBreaksOff ==
  ASSUME RewindInv, NEW c \in SessionCallers, BreakOff(c)
  PROVE  RewindInv'
PROOF
<1>1. CallerHolds(AtEase, content, snapshots, Len(known))
  BY DEF CallerHolds
<1>2. fileWrites' \in Nat /\ sessionCalls' \in Nat
  BY DEF RewindInv, SessionTypes, BreakOff
<1>3. QED BY <1>1, <1>2, OneCaller DEF BreakOff

LEMMA RewindBegins ==
  ASSUME RewindInv, SessionAssumption, NEW c \in SessionCallers, NEW s \in Nat,
         NEW k \in DOMAIN snapshots, BeginRewind(c, s, k)
  PROVE  RewindInv'
PROOF
<1> DEFINE a == [step |-> "restore", session |-> s, id |-> k, left |-> snapshots[k],
                 crossed |-> {}, found |-> content]
<1>1. snapshots \in Seq(Seq(Entries)) /\ content \in FileContents
  BY DEF RewindInv, SessionTypes
<1>2. k \in 1..Len(snapshots) /\ snapshots[k] \in Seq(Entries)
  BY <1>1, LenProperties, ElementOfSeq
<1>3. Restores(a)
  BY <1>1, <1>2 DEF Restores
<1>4. PutsBack(a, content, snapshots)
  <2>1. \A p \in SavedPaths : p \in PathsOf(snapshots[k]) => p \in PathsOf(a.left)
    OBVIOUS
  <2>2. QED BY <1>2, <2>1 DEF PutsBack
<1>5. CallerHolds(a, content, snapshots, Len(known))
  BY <1>3, <1>4 DEF CallerHolds
<1>6. fileWrites' \in Nat /\ sessionCalls' \in Nat
  BY DEF RewindInv, SessionTypes, BeginRewind, Counted
<1>7. QED BY <1>5, <1>6, OneCaller DEF BeginRewind

\* What a caller holds stays true when sessions or checkpoints are added.
LEMMA MoreKnown ==
  ASSUME NEW a, NEW files, NEW stored, NEW n \in Nat, NEW m \in Nat, n <= m,
         CallerHolds(a, files, stored, n)
  PROVE  CallerHolds(a, files, stored, m)
PROOF
<1>1. \A k \in 1..n : k \in 1..m
  OBVIOUS
<1>2. QED BY <1>1 DEF CallerHolds

LEMMA MoreStored ==
  ASSUME NEW a, NEW files, NEW stored \in Seq(Seq(Entries)), NEW entries \in Seq(Entries),
         NEW n, CallerHolds(a, files, stored, n)
  PROVE  CallerHolds(a, files, Append(stored, entries), n)
PROOF
<1>1. CASE Restores(a) /\ PutsBack(a, files, stored)
  <2> DEFINE more == Append(stored, entries)
  <2>1. /\ Len(more) = Len(stored) + 1 /\ Len(stored) \in Nat
        /\ \A k \in 1..Len(stored) : more[k] = stored[k]
    BY AppendProperties, LenProperties
  <2>2. a.id \in 1..Len(stored)
    BY <1>1 DEF PutsBack
  <2>3. a.id \in 1..Len(more) /\ more[a.id] = stored[a.id]
    BY <2>1, <2>2
  <2> HIDE DEF more
  <2>4. PutsBack(a, files, more)
    BY <1>1, <2>3 DEF PutsBack
  <2>5. QED BY <1>1, <2>4 DEF CallerHolds, more
<1>2. QED BY <1>1 DEF CallerHolds

\* A step that changes what is known of the sessions, and maybe what one caller does.
LEMMA KnownChanges ==
  ASSUME RewindInv, known' \in Seq(KnownSessions), Len(known) <= Len(known'),
         at' = at \/ \E c \in SessionCallers : Proceed(c, AtEase),
         UNCHANGED <<content, snapshots, moment, settled, aside>>,
         fileWrites' \in Nat, sessionCalls' \in Nat
  PROVE  RewindInv'
PROOF
<1>1. Len(known) \in Nat /\ Len(known') \in Nat
  BY LenProperties DEF RewindInv, SessionTypes
<1>2. \A d \in SessionCallers : at'[d] = at[d] \/ at'[d] = AtEase
  BY DEF RewindInv, SessionTypes, Proceed
<1>3. \A d \in SessionCallers : CallerHolds(at[d], content, snapshots, Len(known'))
  BY <1>1, MoreKnown DEF RewindInv, Callers
<1>4. CallerHolds(AtEase, content, snapshots, Len(known'))
  BY DEF CallerHolds
<1>5. Callers'
  BY <1>2, <1>3, <1>4 DEF Callers
<1>6. at' = [d \in SessionCallers |-> at'[d]]
  BY DEF RewindInv, SessionTypes, Proceed
<1>7. SessionTypes'
  BY <1>6 DEF RewindInv, SessionTypes
<1>8. Stored' /\ RewindGivesBack'
  BY DEF RewindInv, Stored, RewindGivesBack
<1>9. QED BY <1>5, <1>7, <1>8 DEF RewindInv

\* A session is registered, changed, forked: it is added or takes the place it had.
LEMMA SessionsChange ==
  ASSUME RewindInv
  PROVE  /\ \A c \in SessionCallers : Register(c) => RewindInv'
         /\ \A s \in DOMAIN known : Resume(s) \/ Clear(s) => RewindInv'
         /\ \A c \in SessionCallers : AddChild(c) => RewindInv'
PROOF
<1>1. known \in Seq(KnownSessions) /\ Len(known) \in Nat /\ DOMAIN known = 1..Len(known)
  BY LenProperties DEF RewindInv, SessionTypes
<1>2. fileWrites \in Nat /\ sessionCalls \in Nat
  BY DEF RewindInv, SessionTypes
<1>3. \A k \in KnownSessions :
        Append(known, k) \in Seq(KnownSessions) /\ Len(known) <= Len(Append(known, k))
  BY <1>1, AppendProperties
<1>4. ASSUME NEW c \in SessionCallers, Register(c) PROVE RewindInv'
  <2>1. [parent |-> 0, history |-> 1, grants |-> TRUE, checkpoint |-> 0, cursor |-> 0]
          \in KnownSessions
    BY DEF KnownSessions
  <2>2. known' \in Seq(KnownSessions) /\ Len(known) <= Len(known')
    BY <1>3, <1>4, <2>1 DEF Register
  <2>3. QED BY <1>2, <1>4, <2>2, KnownChanges DEF Register, Counted
<1>5. ASSUME NEW s \in DOMAIN known, NEW k \in KnownSessions, Update(s, k) PROVE RewindInv'
  <2>1. known' \in Seq(KnownSessions) /\ Len(known') = Len(known)
    BY <1>1, <1>5, ExceptSeq DEF Update
  <2>2. QED BY <1>1, <1>2, <1>5, <2>1, KnownChanges DEF Update, Counted
<1>6. ASSUME NEW s \in DOMAIN known, Resume(s) \/ Clear(s) PROVE RewindInv'
  <2>1. known[s] \in KnownSessions
    BY <1>1, ElementOfSeq
  <2>2. [known[s] EXCEPT !.grants = FALSE] \in KnownSessions
    BY <2>1 DEF KnownSessions
  <2>3. [known[s] EXCEPT !.history = 0, !.cursor = 0, !.checkpoint = 0, !.grants = FALSE]
          \in KnownSessions
    BY <2>1 DEF KnownSessions
  <2>4. QED BY <1>5, <1>6, <2>2, <2>3 DEF Resume, Clear
<1>7. ASSUME NEW c \in SessionCallers, AddChild(c) PROVE RewindInv'
  <2>1. Forks(at[c])
    BY <1>7, CallerIs DEF RewindInv, Callers, AddChild, Doing
  <2>2. PICK h \in at[c].history, k \in at[c].checkpoint :
          known' = Append(known, [parent |-> at[c].parent, history |-> h, grants |-> FALSE,
                                  checkpoint |-> k, cursor |-> 0])
    BY <1>7 DEF AddChild
  <2>3. [parent |-> at[c].parent, history |-> h, grants |-> FALSE, checkpoint |-> k,
         cursor |-> 0] \in KnownSessions
    BY <2>1 DEF Forks, KnownSessions
  <2>4. known' \in Seq(KnownSessions) /\ Len(known) <= Len(known')
    BY <1>3, <2>2, <2>3
  <2>5. QED BY <1>2, <1>7, <2>4, KnownChanges DEF AddChild
<1>8. QED BY <1>4, <1>6, <1>7

\* A fork looks its parent up and reads it.
LEMMA ForkKeeps ==
  ASSUME RewindInv, NEW c \in SessionCallers
  PROVE  /\ \A s \in DOMAIN known : BeginFork(c, s) => RewindInv'
         /\ \A field \in {"history", "checkpoint"} : ReadParent(c, field) => RewindInv'
PROOF
<1>1. known \in Seq(KnownSessions) /\ Len(known) \in Nat /\ DOMAIN known = 1..Len(known)
  BY LenProperties DEF RewindInv, SessionTypes
<1>2. fileWrites \in Nat /\ sessionCalls \in Nat
  BY DEF RewindInv, SessionTypes
<1>3. ASSUME NEW s \in DOMAIN known, BeginFork(c, s) PROVE RewindInv'
  <2> DEFINE a == [step |-> "fork", parent |-> s, history |-> {}, checkpoint |-> {}]
  <2>1. Forks(a) /\ a.parent \in 1..Len(known)
    BY <1>1 DEF Forks
  <2>2. CallerHolds(a, content, snapshots, Len(known))
    BY <2>1 DEF CallerHolds
  <2>3. QED BY <1>2, <1>3, <2>2, OneCaller DEF BeginFork, Counted
<1>4. ASSUME NEW field \in {"history", "checkpoint"}, ReadParent(c, field) PROVE RewindInv'
  <2> DEFINE a == [at[c] EXCEPT ![field] = {known[at[c].parent][field]}]
  <2>1. Forks(at[c]) /\ at[c].parent \in 1..Len(known)
    BY <1>4, CallerIs DEF RewindInv, Callers, ReadParent, Doing
  <2>2. known[at[c].parent] \in KnownSessions
    BY <1>1, <2>1, ElementOfSeq
  <2>3. known[at[c].parent][field] \in Nat
    BY <2>2 DEF KnownSessions
  <2>4. Forks(a) /\ a.parent = at[c].parent
    BY <2>1, <2>3 DEF Forks
  <2>5. CallerHolds(a, content, snapshots, Len(known))
    BY <2>1, <2>4 DEF CallerHolds
  <2>6. QED BY <1>2, <1>4, <2>5, OneCaller DEF ReadParent
<1>5. QED BY <1>3, <1>4

\* The entries are kept as a checkpoint, with what the files are now.
LEMMA SnapshotIsStored ==
  ASSUME RewindInv, NEW c \in SessionCallers, StoreSnapshot(c)
  PROVE  RewindInv'
PROOF
<1> DEFINE entries == at[c].entries
           now == [files |-> content, blurred |-> at[c].crossed]
<1>1. TakesSnapshot(at[c]) /\ Tell(entries, content, at[c].crossed)
  BY CallerIs DEF RewindInv, Callers, StoreSnapshot, Doing
<1>2. /\ snapshots \in Seq(Seq(Entries)) /\ content \in FileContents
      /\ moment \in Seq([files : FileContents, blurred : SUBSET SavedPaths])
      /\ Len(moment) = Len(snapshots) /\ settled \in 0..Len(snapshots)
  BY DEF RewindInv, SessionTypes
<1>3. entries \in Seq(Entries) /\ now \in [files : FileContents, blurred : SUBSET SavedPaths]
  BY <1>1, <1>2 DEF TakesSnapshot
<1>4. snapshots' = Append(snapshots, entries) /\ moment' = Append(moment, now)
  BY DEF StoreSnapshot
<1>5. /\ snapshots' \in Seq(Seq(Entries)) /\ Len(snapshots') = Len(snapshots) + 1
      /\ moment' \in Seq([files : FileContents, blurred : SUBSET SavedPaths])
      /\ Len(moment') = Len(snapshots') /\ Len(snapshots) \in Nat
      /\ snapshots'[Len(snapshots) + 1] = entries /\ moment'[Len(snapshots) + 1] = now
      /\ \A k \in 1..Len(snapshots) : snapshots'[k] = snapshots[k] /\ moment'[k] = moment[k]
  BY <1>2, <1>3, <1>4, AppendProperties, LenProperties
<1>6. now.files = content /\ now.blurred = at[c].crossed
  OBVIOUS
<1> HIDE DEF entries, now
<1>7. SessionTypes'
  <2>1. at' = [d \in SessionCallers |-> at'[d]]
    BY DEF RewindInv, SessionTypes, StoreSnapshot, Proceed
  <2>2. settled' \in 0..Len(snapshots')
    BY <1>2, <1>5 DEF StoreSnapshot
  <2>3. QED BY <1>5, <2>1, <2>2 DEF RewindInv, SessionTypes, StoreSnapshot
<1>8. Callers'
  <2>1. \A d \in SessionCallers : at'[d] = at[d] \/ at'[d] = AtEase
    BY DEF RewindInv, SessionTypes, StoreSnapshot, Proceed
  <2>2. \A d \in SessionCallers : CallerHolds(at[d], content, snapshots', Len(known))
    BY <1>2, <1>3, <1>4, MoreStored DEF RewindInv, Callers
  <2>3. CallerHolds(AtEase, content, snapshots', Len(known))
    BY DEF CallerHolds
  <2>4. QED BY <2>1, <2>2, <2>3 DEF Callers, StoreSnapshot
<1>9. Stored'
  <2>1. ASSUME NEW k \in 1..Len(snapshots')
        PROVE  Tell(snapshots'[k], moment'[k].files, moment'[k].blurred)
    <3>1. CASE k \in 1..Len(snapshots)
      BY <1>5, <3>1 DEF RewindInv, Stored
    <3>2. CASE k = Len(snapshots) + 1
      BY <1>1, <1>5, <1>6, <3>2
    <3>3. QED BY <1>5, <2>1, <3>1, <3>2
  <2>2. QED BY <2>1 DEF Stored
<1>10. RewindGivesBack'
  <2>1. settled # 0 => settled \in 1..Len(snapshots)
    BY <1>2, <1>5
  <2>2. settled # 0 => snapshots'[settled] = snapshots[settled] /\ moment'[settled] = moment[settled]
    BY <1>5, <2>1
  <2>3. QED BY <2>2 DEF RewindInv, RewindGivesBack, StoreSnapshot
<1>11. QED BY <1>7, <1>8, <1>9, <1>10 DEF RewindInv

\* Whoever writes a file disturbs the calls under way, which then promise no more of it.
LEMMA DisturbedHold ==
  ASSUME RewindInv, NEW p \in SavedPaths, NEW v \in Nat, NEW others \in SUBSET SessionCallers,
         NEW d \in others
  PROVE  CallerHolds(Disturbed(others, p)[d], [content EXCEPT ![p] = v], snapshots, Len(known))
PROOF
<1> DEFINE files == [content EXCEPT ![p] = v]
           a == [at[d] EXCEPT !.crossed = @ \cup {p}]
<1>1. CallerHolds(at[d], content, snapshots, Len(known)) /\ content \in FileContents
  BY DEF RewindInv, Callers, SessionTypes
<1>2. Disturbed(others, p)[d] = IF at[d].step \in {"snapshot", "restore"} THEN a ELSE at[d]
  BY DEF Disturbed
<1>3. \A q : q # p /\ q \in SavedPaths => files[q] = content[q]
  BY <1>1 DEF FileContents
<1>4. CASE at[d] = AtEase \/ (Forks(at[d]) /\ at[d].parent \in 1..Len(known))
  <2>1. at[d].step \notin {"snapshot", "restore"}
    BY <1>4 DEF AtEase, Forks
  <2>2. Disturbed(others, p)[d] = at[d]
    BY <1>2, <2>1
  <2>3. CallerHolds(at[d], files, snapshots, Len(known))
    BY <1>4 DEF CallerHolds
  <2>4. QED BY <2>2, <2>3
<1>5. CASE TakesSnapshot(at[d]) /\ Tell(at[d].entries, content, at[d].crossed)
  <2>1. /\ TakesSnapshot(a) /\ a.entries = at[d].entries /\ a.crossed = at[d].crossed \cup {p}
        /\ at[d].step = "snapshot"
    BY <1>5 DEF TakesSnapshot
  <2>2. \A i \in 1..Len(at[d].entries) : at[d].entries[i].path \in SavedPaths
    <3>1. at[d].entries \in Seq(Entries)
      BY <1>5 DEF TakesSnapshot
    <3>2. \A i \in 1..Len(at[d].entries) : at[d].entries[i] \in Entries
      BY <3>1, ElementOfSeq
    <3>3. QED BY <3>2 DEF Entries
  <2> HIDE DEF a, files
  <2>3. Tell(a.entries, files, a.crossed)
    BY <1>3, <1>5, <2>1, <2>2 DEF Tell
  <2>4. CallerHolds(a, files, snapshots, Len(known))
    BY <2>1, <2>3 DEF CallerHolds
  <2>5. QED BY <1>2, <2>1, <2>4 DEF files
<1>6. CASE Restores(at[d]) /\ PutsBack(at[d], content, snapshots)
  <2>1. /\ Restores(a) /\ a.left = at[d].left /\ a.id = at[d].id /\ a.crossed # {}
        /\ at[d].step = "restore"
    BY <1>6 DEF Restores
  <2> HIDE DEF a, files
  <2>2. PutsBack(a, files, snapshots)
    BY <1>6, <2>1 DEF PutsBack
  <2>3. CallerHolds(a, files, snapshots, Len(known))
    BY <2>1, <2>2 DEF CallerHolds
  <2>4. QED BY <1>2, <2>1, <2>3 DEF files
<1>7. QED BY <1>1, <1>4, <1>5, <1>6 DEF CallerHolds

\* A tool writes or removes a file.
LEMMA ToolWrites ==
  ASSUME RewindInv, NEW p \in SavedPaths, NEW removes \in BOOLEAN, ToolWritesFile(p, removes)
  PROVE  RewindInv'
PROOF
<1> DEFINE v == IF removes THEN 0 ELSE fileWrites + 1
<1>1. v \in Nat /\ content' = [content EXCEPT ![p] = v] /\ content' \in FileContents
  BY DEF RewindInv, SessionTypes, ToolWritesFile, FileContents
<1> HIDE DEF v
<1>2. at' = Disturbed(SessionCallers, p)
  BY DEF ToolWritesFile
<1>3. \A d \in SessionCallers : CallerHolds(at'[d], content', snapshots, Len(known))
  BY <1>1, <1>2, DisturbedHold
<1>4. Callers'
  BY <1>3 DEF Callers, ToolWritesFile
<1>5. at' = [d \in SessionCallers |-> at'[d]]
  BY <1>2 DEF Disturbed
<1>6. SessionTypes'
  <2>1. settled' \in 0..Len(snapshots') /\ fileWrites' \in Nat
    BY LenProperties DEF RewindInv, SessionTypes, ToolWritesFile
  <2>2. QED BY <1>1, <1>5, <2>1 DEF RewindInv, SessionTypes, ToolWritesFile
<1>7. Stored' /\ RewindGivesBack'
  BY DEF RewindInv, Stored, RewindGivesBack, ToolWritesFile
<1>8. QED BY <1>4, <1>6, <1>7 DEF RewindInv

\* A restore puts one file back.
LEMMA FileIsRestored ==
  ASSUME RewindInv, NEW c \in SessionCallers, RestoreFile(c)
  PROVE  RewindInv'
PROOF
<1> DEFINE e == Head(at[c].left)
           a == [at[c] EXCEPT !.left = Tail(@)]
           shaken == Disturbed(SessionCallers \ {c}, e.path)
<1>1. Restores(at[c]) /\ PutsBack(at[c], content, snapshots) /\ at[c].left # <<>>
  BY CallerIs DEF RewindInv, Callers, RestoreFile, Doing
<1>2. /\ at[c].left \in Seq(Entries) /\ e \in Entries /\ e = at[c].left[1]
      /\ Tail(at[c].left) \in Seq(Entries) /\ Len(at[c].left) \in Nat /\ Len(at[c].left) # 0
      /\ Len(Tail(at[c].left)) = Len(at[c].left) - 1
      /\ \A i \in 1..(Len(at[c].left) - 1) : Tail(at[c].left)[i] = at[c].left[i + 1]
  BY <1>1, HeadTailProperties, LenProperties, EmptySeq DEF Restores
<1>3. e.path \in SavedPaths /\ e.was \in Nat /\ content \in FileContents
  BY <1>2 DEF Entries, RewindInv, SessionTypes
<1>4. content' = [content EXCEPT ![e.path] = e.was] /\ content' \in FileContents
  BY <1>3 DEF RestoreFile, Restored, FileContents
<1>5. at' = [shaken EXCEPT ![c].left = Tail(@)]
  BY DEF RestoreFile
<1>6. shaken = [d \in SessionCallers |-> shaken[d]] /\ shaken[c] = at[c]
  BY DEF Disturbed
<1> HIDE DEF shaken, e
<1>7. at'[c] = a /\ \A d \in SessionCallers \ {c} : at'[d] = shaken[d]
  BY <1>5, <1>6
<1>8. at' = [d \in SessionCallers |-> at'[d]]
  BY <1>5, <1>6
<1>9. \A d \in SessionCallers \ {c} : CallerHolds(at'[d], content', snapshots, Len(known))
  BY <1>3, <1>4, <1>7, DisturbedHold DEF shaken
<1>10. /\ Restores(a) /\ a.left = Tail(at[c].left) /\ a.id = at[c].id
       /\ a.crossed = at[c].crossed /\ a.found = at[c].found
  BY <1>1, <1>2 DEF Restores
<1> HIDE DEF a
<1>11. PutsBack(a, content', snapshots)
  <2> DEFINE stored == snapshots[at[c].id]
  <2>1. /\ at[c].id \in 1..Len(snapshots)
        /\ \A j \in 1..Len(at[c].left) : \E i \in 1..Len(stored) : at[c].left[j] = stored[i]
        /\ at[c].crossed = {} =>
             \A p \in SavedPaths :
               \/ p \notin PathsOf(stored) /\ content[p] = at[c].found[p]
               \/ p \in PathsOf(at[c].left)
               \/ HeldBy(stored, content, p)
    BY <1>1 DEF PutsBack
  <2>2. stored \in Seq(Entries) /\ DOMAIN stored = 1..Len(stored)
    BY <2>1, ElementOfSeq, LenProperties DEF RewindInv, SessionTypes
  <2>3. \A j \in 1..Len(a.left) : j + 1 \in 1..Len(at[c].left) /\ a.left[j] = at[c].left[j + 1]
    BY <1>2, <1>10
  <2>4. \A j \in 1..Len(a.left) : \E i \in 1..Len(stored) : a.left[j] = stored[i]
    BY <2>1, <2>3
  <2>5. PICK i \in 1..Len(stored) : e = stored[i]
    <3>1. 1 \in 1..Len(at[c].left)
      BY <1>2
    <3>2. QED BY <1>2, <2>1, <3>1
  <2>6. HeldBy(stored, content', e.path)
    BY <1>3, <1>4, <2>5 DEF HeldBy, FileContents
  <2>7. e.path \in PathsOf(stored)
    BY <2>2, <2>5 DEF PathsOf
  <2>8. \A p \in PathsOf(at[c].left) : p = e.path \/ p \in PathsOf(a.left)
    <3>1. DOMAIN at[c].left = 1..Len(at[c].left) /\ DOMAIN a.left = 1..Len(a.left)
      BY <1>2, <1>10, LenProperties
    <3>2. \A j \in 1..Len(at[c].left) : j = 1 \/ (j - 1 \in 1..Len(a.left) /\ a.left[j - 1] = at[c].left[j])
      <4>1. ASSUME NEW j \in 1..Len(at[c].left), j # 1
            PROVE  j - 1 \in 1..Len(a.left) /\ a.left[j - 1] = at[c].left[j]
        <5>1. j - 1 \in 1..(Len(at[c].left) - 1) /\ (j - 1) + 1 = j
          BY <1>2, <4>1
        <5>2. QED BY <1>2, <1>10, <5>1
      <4>2. QED BY <4>1
    <3>3. ASSUME NEW p \in PathsOf(at[c].left) PROVE p = e.path \/ p \in PathsOf(a.left)
      <4>1. PICK j \in 1..Len(at[c].left) : p = at[c].left[j].path
        BY <3>1, <3>3 DEF PathsOf
      <4>2. CASE j = 1
        BY <1>2, <4>1, <4>2
      <4>3. CASE j # 1
        <5>1. j - 1 \in DOMAIN a.left /\ a.left[j - 1].path = p
          BY <3>1, <3>2, <4>1, <4>3
        <5>2. QED BY <5>1 DEF PathsOf
      <4>4. QED BY <4>2, <4>3
    <3>4. QED BY <3>3
  <2>9. \A p \in SavedPaths : p # e.path => content'[p] = content[p]
    BY <1>3, <1>4 DEF FileContents
  <2> HIDE DEF stored
  <2>10. ASSUME a.crossed = {}, NEW p \in SavedPaths
         PROVE  \/ p \notin PathsOf(stored) /\ content'[p] = a.found[p]
                \/ p \in PathsOf(a.left)
                \/ HeldBy(stored, content', p)
    <3>1. CASE p = e.path
      BY <2>6, <3>1
    <3>2. CASE p # e.path
      <4>1. content'[p] = content[p]
        BY <2>9, <3>2
      <4>2. HeldBy(stored, content, p) => HeldBy(stored, content', p)
        BY <4>1 DEF HeldBy
      <4>3. QED BY <1>10, <2>1, <2>8, <2>10, <3>2, <4>1, <4>2
    <3>3. QED BY <3>1, <3>2
  <2>11. a.id \in 1..Len(snapshots) /\ stored = snapshots[a.id]
    BY <1>10, <2>1 DEF stored
  <2>12. QED BY <2>4, <2>10, <2>11 DEF PutsBack
<1>12. CallerHolds(a, content', snapshots, Len(known))
  BY <1>10, <1>11 DEF CallerHolds
<1>13. Callers'
  BY <1>7, <1>9, <1>12 DEF Callers, RestoreFile
<1>14. SessionTypes'
  <2>1. settled' \in 0..Len(snapshots')
    BY LenProperties DEF RewindInv, SessionTypes, RestoreFile
  <2>2. QED BY <1>4, <1>8, <2>1 DEF RewindInv, SessionTypes, RestoreFile
<1>15. Stored' /\ RewindGivesBack'
  BY DEF RewindInv, Stored, RewindGivesBack, RestoreFile
<1>16. QED BY <1>13, <1>14, <1>15 DEF RewindInv

\* A restore that nobody crossed has given back what its checkpoint saw.
LEMMA RewindFinishes ==
  ASSUME RewindInv, SessionAssumption, NEW c \in SessionCallers, NEW place \in Nat,
         NEW forgets \in BOOLEAN, FinishRewind(c, place, forgets)
  PROVE  RewindInv'
PROOF
<1> DEFINE id == at[c].id
           s == at[c].session
<1>1. Restores(at[c]) /\ PutsBack(at[c], content, snapshots) /\ at[c].left = <<>>
  BY CallerIs DEF RewindInv, Callers, FinishRewind, Doing
<1>2. known \in Seq(KnownSessions) /\ Len(known) \in Nat /\ DOMAIN known = 1..Len(known)
  BY LenProperties DEF RewindInv, SessionTypes
<1>3. id \in 1..Len(snapshots) /\ id \in Nat /\ at[c].found \in FileContents
  BY <1>1 DEF Restores, PutsBack
<1>4. known' \in Seq(KnownSessions) /\ Len(known') = Len(known)
  <2>1. CASE s \notin DOMAIN known
    BY <1>2, <2>1 DEF FinishRewind
  <2>2. CASE s \in DOMAIN known
    <3> DEFINE k == [known[s] EXCEPT !.checkpoint = id, !.cursor = place,
                                     !.grants = @ /\ ~forgets]
    <3>1. known[s] \in KnownSessions
      BY <1>2, <2>2, ElementOfSeq
    <3>2. k \in KnownSessions
      BY <1>3, <3>1 DEF KnownSessions
    <3>3. known' = [known EXCEPT ![s] = k]
      BY <2>2 DEF FinishRewind
    <3> HIDE DEF k
    <3>4. QED BY <1>2, <2>2, <3>2, <3>3, ExceptSeq
  <2>3. QED BY <2>1, <2>2
<1>5. Callers'
  <2>1. \A d \in SessionCallers : at'[d] = at[d] \/ at'[d] = AtEase
    BY DEF RewindInv, SessionTypes, FinishRewind, Proceed
  <2>2. CallerHolds(AtEase, content, snapshots, Len(known))
    BY DEF CallerHolds
  <2>3. QED BY <1>4, <2>1, <2>2 DEF RewindInv, Callers, FinishRewind
<1>6. SessionTypes'
  <2>1. at' = [d \in SessionCallers |-> at'[d]]
    BY DEF RewindInv, SessionTypes, FinishRewind, Proceed
  <2>2. settled' \in 0..Len(snapshots')
    BY <1>3, LenProperties DEF RewindInv, SessionTypes, FinishRewind
  <2>3. QED BY <1>3, <1>4, <2>1, <2>2 DEF RewindInv, SessionTypes, FinishRewind
<1>7. Stored'
  BY DEF RewindInv, Stored, FinishRewind
<1>8. RewindGivesBack'
  <2> DEFINE stored == snapshots[id]
  <2>1. SUFFICES ASSUME at[c].crossed = {}, settled' = id, NEW p \in SavedPaths
                 PROVE  \/ p \in PathsOf(stored) /\ content[p] = moment[id].files[p]
                        \/ p \in PathsOf(stored) /\ p \in moment[id].blurred
                        \/ p \notin PathsOf(stored) /\ content[p] = at[c].found[p]
    BY DEF RewindGivesBack, FinishRewind
  <2>2. p \notin PathsOf(at[c].left)
    BY <1>1, EmptySeq DEF PathsOf
  <2>3. CASE p \notin PathsOf(stored) /\ content[p] = at[c].found[p]
    BY <2>3
  <2>4. CASE HeldBy(stored, content, p)
    <3>1. PICK i \in 1..Len(stored) : stored[i].path = p /\ content[p] = stored[i].was
      BY <2>4 DEF HeldBy
    <3>2. stored \in Seq(Entries) /\ DOMAIN stored = 1..Len(stored)
      BY <1>3, ElementOfSeq, LenProperties DEF RewindInv, SessionTypes
    <3>3. p \in PathsOf(stored)
      BY <3>1, <3>2 DEF PathsOf
    <3>4. Tell(stored, moment[id].files, moment[id].blurred)
      BY <1>3 DEF RewindInv, Stored
    <3>5. QED BY <3>1, <3>3, <3>4 DEF Tell
  <2>5. QED BY <1>1, <2>1, <2>2, <2>3, <2>4 DEF PutsBack
<1>9. QED BY <1>5, <1>6, <1>7, <1>8 DEF RewindInv

\* RewindInv is inductive.
LEMMA RewindInvariant == SessionSpec => []RewindInv
PROOF
<1>1. SessionInit => RewindInv
  <2>1. SUFFICES ASSUME SessionInit PROVE RewindInv
    OBVIOUS
  <2>2. <<>> \in Seq(Seq(Entries)) /\ <<>> \in Seq(KnownSessions) /\ Len(<<>>) = 0
        /\ <<>> \in Seq([files : FileContents, blurred : SUBSET SavedPaths])
    BY EmptySeq
  <2>3. SessionTypes
    BY <2>1, <2>2 DEF SessionInit, SessionTypes, FileContents
  <2>4. Callers
    BY <2>1 DEF SessionInit, Callers, CallerHolds
  <2>5. Stored /\ RewindGivesBack
    BY <2>1, <2>2 DEF SessionInit, Stored, RewindGivesBack
  <2>6. QED BY <2>3, <2>4, <2>5 DEF RewindInv
<1>2. RewindInv /\ [SessionNext]_sessionVars => RewindInv'
  <2>1. SUFFICES ASSUME RewindInv, [SessionNext]_sessionVars PROVE RewindInv'
    OBVIOUS
  <2>2. CASE UNCHANGED sessionVars
    BY <2>1, <2>2 DEF sessionVars, RewindInv, SessionTypes, Callers, Stored, RewindGivesBack
  <2>3. CASE \E p \in SavedPaths, removes \in BOOLEAN : ToolWritesFile(p, removes)
    BY <2>1, <2>3, ToolWrites
  <2>4. CASE \E s \in DOMAIN known : Resume(s) \/ Clear(s)
    BY <2>1, <2>4, SessionsChange
  <2>5. CASE \E c \in SessionCallers : SessionCall(c)
    <3>1. PICK c \in SessionCallers : SessionCall(c)
      BY <2>5
    <3>2. CASE Register(c)
      BY <2>1, <3>2, SessionsChange
    <3>3. CASE \E s \in DOMAIN known : BeginFork(c, s)
      BY <2>1, <3>3, ForkKeeps
    <3>4. CASE \E s \in {1, MaxKnown}, k \in DOMAIN snapshots : BeginRewind(c, s, k)
      <4>1. {1, MaxKnown} \subseteq Nat
        BY SessionAssumption DEF SessionAssumption
      <4>2. QED BY <2>1, <3>4, <4>1, SessionAssumption, RewindBegins
    <3>5. CASE \E forgets \in BOOLEAN : FinishRewind(c, 1, forgets)
      BY <2>1, <3>5, SessionAssumption, RewindFinishes
    <3>6. QED BY <3>1, <3>2, <3>3, <3>4, <3>5 DEF SessionCall
  <2>6. CASE \E c \in SessionCallers, P \in SUBSET SavedPaths : \E q \in SetToSeqs(P) : BeginSnapshot(c, q)
    BY <2>1, <2>6, SessionAssumption, SnapshotBegins
  <2>7. CASE \E c \in SessionCallers :
               TakeFile(c) \/ StoreSnapshot(c) \/ BreakOff(c) \/ RestoreFile(c)
    BY <2>1, <2>7, SnapshotTakes, SnapshotIsStored, CallBreaksOff, FileIsRestored
  <2>8. CASE \E c \in SessionCallers :
               (\E field \in {"history", "checkpoint"} : ReadParent(c, field)) \/ AddChild(c)
    BY <2>1, <2>8, ForkKeeps, SessionsChange
  <2>9. QED BY <2>1, <2>2, <2>3, <2>4, <2>5, <2>6, <2>7, <2>8 DEF SessionNext
<1>3. QED BY <1>1, <1>2, PTL DEF SessionSpec

\* A rewind that nobody crossed gives back what its checkpoint saw, whatever snapshots,
\* restores and tools were at work before (checkpoint.Store, Manager.Rewind).
THEOREM RewindsGiveBack == SessionSpec => []RewindGivesBack
PROOF
<1>1. RewindInv => RewindGivesBack
  BY DEF RewindInv
<1>2. QED BY <1>1, RewindInvariant, PTL

-------------------------------------------------------------------------------
(* The event feed, for any subscriptions, events, buffers and policy.         *)

\* A sequence of events in ascending order, from lo to hi.
Climbs(s, lo, hi) ==
  /\ s \in Seq(Int)
  /\ \A k \in 1..Len(s) : s[k] >= lo /\ s[k] <= hi
  /\ \A k \in 1..Len(s) : \A m \in 1..Len(s) : k < m => s[k] < s[m]

FeedTypes ==
  /\ policy \in Policies
  /\ store \in Seq(Int) /\ \A k \in 1..Len(store) : store[k] = k - 1
  /\ publishing \in [todo : SUBSET Subs, at : Subs \cup {Nobody}]
  /\ members \subseteq Subs /\ liveClosed \subseteq Subs
  /\ live \in [Subs -> Seq(Int)] /\ replay \in [Subs -> Seq(Int)]
  /\ hand \in [Subs -> Seq(Int)] /\ out \in [Subs -> Seq(Int)]
  /\ delivered \in [Subs -> Seq(Int)]
  /\ pump \in [Subs -> PumpPhases]
  /\ closer \in [Subs -> {"none", "leaving", "unsubscribing", "gone"}]
  /\ cursor \in [Subs -> -1..MaxEvents]
  /\ joined \in [Subs -> Nat] /\ lost \in [Subs -> Nat]

\* Where a subscription that is not made, is open, or is being served stands.
Placed(i) ==
  /\ ~Made(i) =>
       /\ i \notin members /\ i \notin liveClosed /\ i \notin publishing.todo
       /\ publishing.at # i /\ closer[i] = "none" /\ lost[i] = 0 /\ delivered[i] = <<>>
       /\ out[i] = <<>> /\ replay[i] = <<>> /\ hand[i] = <<>> /\ live[i] = <<>>
       /\ cursor[i] = -1
  /\ i \in members =>
       /\ i \notin liveClosed
       /\ pump[i] \notin {"unsubscribing", "gone"}
       /\ closer[i] \notin {"unsubscribing", "gone"}
  /\ publishing.at = i => i \notin liveClosed /\ i \notin publishing.todo
  /\ Pending(i) = 1 => joined[i] < Len(store)
  /\ joined[i] <= Len(store)

\* What the pump holds.
Held(i) ==
  /\ Len(hand[i]) <= 1
  /\ pump[i] = "forwarding" => replay[i] = <<>>

\* The stream climbs from where it started, and as long as the subscription is open it
\* adds up with what was dropped for it and what is on its way.
Ordered(i) == Climbs(Stream(i), Start(i) + 1, Len(store) - 1 - Pending(i))
Accounted(i) ==
  policy # "overflow_error" /\ (i \in members \/ (Pending(i) = 1 /\ i \notin liveClosed)) =>
    Len(Stream(i)) + lost[i] + Pending(i) = Len(store) - 1 - Start(i)
Unbroken(i) ==
  policy = "block_producer" =>
    lost[i] = 0 /\ \A k \in 1..Len(Stream(i)) : Stream(i)[k] = Start(i) + k

Subscribed(i) == Placed(i) /\ Held(i) /\ Ordered(i) /\ Accounted(i) /\ Unbroken(i)

FeedInv == FeedTypes /\ \A i \in Subs : Subscribed(i)
\* Appending after a concatenation, and moving the head of what follows to what precedes.
LEMMA AppendOver ==
  ASSUME NEW a \in Seq(Int), NEW b \in Seq(Int), NEW x \in Int
  PROVE  a \o Append(b, x) = Append(a \o b, x)
PROOF
<1>1. /\ Append(b, x) \in Seq(Int) /\ a \o Append(b, x) \in Seq(Int) /\ a \o b \in Seq(Int)
      /\ Append(a \o b, x) \in Seq(Int)
  BY AppendProperties, ConcatProperties
<1>2. Len(a) \in Nat /\ Len(b) \in Nat
  BY LenProperties
<1>3. Len(a \o Append(b, x)) = Len(a) + Len(b) + 1 /\ Len(Append(a \o b, x)) = Len(a) + Len(b) + 1
  BY <1>1, <1>2, AppendProperties, ConcatProperties
<1>4. ASSUME NEW k \in 1..(Len(a) + Len(b) + 1)
      PROVE  (a \o Append(b, x))[k] = Append(a \o b, x)[k]
  BY <1>1, <1>2, <1>4, AppendProperties, ConcatProperties
<1>5. QED BY <1>1, <1>2, <1>3, <1>4, SeqEqual

LEMMA HeadMoves ==
  ASSUME NEW a \in Seq(Int), NEW b \in Seq(Int), b # <<>>
  PROVE  /\ Head(b) \in Int /\ Tail(b) \in Seq(Int)
         /\ Append(a, Head(b)) \in Seq(Int) /\ Append(a, Head(b)) \o Tail(b) = a \o b
PROOF
<1>1. /\ Head(b) \in Int /\ Tail(b) \in Seq(Int) /\ Len(b) \in Nat \ {0} /\ Head(b) = b[1]
      /\ Len(Tail(b)) = Len(b) - 1 /\ \A i \in 1..(Len(b) - 1) : Tail(b)[i] = b[i + 1]
  BY HeadTailProperties, LenProperties, EmptySeq
<1>2. /\ Append(a, Head(b)) \in Seq(Int) /\ Len(a) \in Nat
      /\ Len(Append(a, Head(b))) = Len(a) + 1 /\ Append(a, Head(b))[Len(a) + 1] = Head(b)
      /\ \A i \in 1..Len(a) : Append(a, Head(b))[i] = a[i]
  BY <1>1, AppendProperties, LenProperties
<1> DEFINE m == Append(a, Head(b))
<1>3. /\ m \o Tail(b) \in Seq(Int) /\ a \o b \in Seq(Int)
      /\ Len(m \o Tail(b)) = Len(a) + Len(b) /\ Len(a \o b) = Len(a) + Len(b)
  BY <1>1, <1>2, ConcatProperties
<1>4. ASSUME NEW k \in 1..(Len(a) + Len(b)) PROVE (m \o Tail(b))[k] = (a \o b)[k]
  <2>1. (m \o Tail(b))[k] = IF k <= Len(a) + 1 THEN m[k] ELSE Tail(b)[k - (Len(a) + 1)]
    BY <1>1, <1>2, <1>3, ConcatProperties
  <2>2. (a \o b)[k] = IF k <= Len(a) THEN a[k] ELSE b[k - Len(a)]
    BY <1>3, ConcatProperties
  <2>3. CASE k <= Len(a)
    BY <1>2, <2>1, <2>2, <2>3
  <2>4. CASE k = Len(a) + 1
    BY <1>1, <1>2, <2>1, <2>2, <2>4
  <2>5. CASE k > Len(a) + 1
    <3>1. k - (Len(a) + 1) \in 1..(Len(b) - 1) /\ k - (Len(a) + 1) + 1 = k - Len(a)
      BY <1>1, <1>2, <2>5
    <3>2. QED BY <1>1, <1>2, <2>1, <2>2, <2>5, <3>1
  <2>6. QED BY <1>2, <2>3, <2>4, <2>5
<1> HIDE DEF m
<1>5. m \o Tail(b) = a \o b
  BY <1>1, <1>2, <1>3, <1>4, SeqEqual
<1>6. QED BY <1>1, <1>2, <1>5 DEF m

\* A climbing sequence stays one when a later event is appended, when an event is taken
\* out, and when more is allowed.
LEMMA ClimbAppend ==
  ASSUME NEW lo \in Int, NEW hi \in Int, NEW s, Climbs(s, lo, hi), NEW e \in Int, e > hi, e >= lo
  PROVE  Climbs(Append(s, e), lo, e) /\ Len(Append(s, e)) = Len(s) + 1
PROOF
<1>1. /\ s \in Seq(Int) /\ Len(s) \in Nat /\ \A k \in 1..Len(s) : s[k] \in Int
  BY LenProperties, ElementOfSeq DEF Climbs
<1>2. /\ Append(s, e) \in Seq(Int) /\ Len(Append(s, e)) = Len(s) + 1
      /\ Append(s, e)[Len(s) + 1] = e /\ \A k \in 1..Len(s) : Append(s, e)[k] = s[k]
  BY <1>1, AppendProperties
<1> DEFINE t == Append(s, e)
<1> HIDE DEF t
<1>3. \A k \in 1..(Len(s) + 1) : k \in 1..Len(s) \/ k = Len(s) + 1
  BY <1>1
<1>4. \A k \in 1..Len(s) : t[k] = s[k] /\ s[k] \in Int /\ s[k] >= lo /\ s[k] <= hi
  BY <1>1, <1>2 DEF Climbs, t
<1>5. t[Len(s) + 1] = e
  BY <1>2 DEF t
<1>6. ASSUME NEW k \in 1..(Len(s) + 1) PROVE t[k] >= lo /\ t[k] <= e
  <2>1. CASE k \in 1..Len(s)
    BY <1>4, <2>1
  <2>2. CASE k = Len(s) + 1
    BY <1>5, <2>2
  <2>3. QED BY <1>3, <2>1, <2>2
<1>7. ASSUME NEW k \in 1..(Len(s) + 1), NEW m \in 1..(Len(s) + 1), k < m
      PROVE  t[k] < t[m]
  <2>1. k \in 1..Len(s)
    BY <1>1, <1>7
  <2>2. CASE m \in 1..Len(s)
    BY <1>4, <1>7, <2>1, <2>2 DEF Climbs
  <2>3. CASE m = Len(s) + 1
    BY <1>4, <1>5, <2>1, <2>3
  <2>4. QED BY <1>3, <2>2, <2>3
<1>8. QED BY <1>2, <1>6, <1>7 DEF Climbs, t

LEMMA ClimbWider ==
  ASSUME NEW lo \in Int, NEW hi \in Int, NEW top \in Int, hi <= top, NEW s, Climbs(s, lo, hi)
  PROVE  Climbs(s, lo, top)
PROOF
<1>1. \A k \in 1..Len(s) : s[k] \in Int
  BY ElementOfSeq DEF Climbs
<1>2. QED BY <1>1 DEF Climbs

LEMMA ClimbWithout ==
  ASSUME NEW lo \in Int, NEW hi \in Int, NEW a \in Seq(Int), NEW b \in Seq(Int), b # <<>>,
         Climbs(a \o b, lo, hi)
  PROVE  Climbs(a \o Tail(b), lo, hi) /\ Len(a \o Tail(b)) + 1 = Len(a \o b)
PROOF
<1> DEFINE s == a \o b
           t == a \o Tail(b)
           At(k) == IF k <= Len(a) THEN k ELSE k + 1
<1>1. /\ Tail(b) \in Seq(Int) /\ Len(b) \in Nat \ {0} /\ Len(Tail(b)) = Len(b) - 1
      /\ \A i \in 1..(Len(b) - 1) : Tail(b)[i] = b[i + 1]
  BY HeadTailProperties, LenProperties, EmptySeq
<1>2. Len(a) \in Nat
  BY LenProperties
<1>3. /\ t \in Seq(Int) /\ Len(s) = Len(a) + Len(b) /\ Len(t) = Len(a) + Len(b) - 1
  BY <1>1, <1>2, ConcatProperties
<1>4. ASSUME NEW k \in 1..Len(t) PROVE At(k) \in 1..Len(s) /\ t[k] = s[At(k)]
  <2>1. t[k] = IF k <= Len(a) THEN a[k] ELSE Tail(b)[k - Len(a)]
    BY <1>1, <1>2, <1>3, ConcatProperties
  <2>2. At(k) \in 1..Len(s)
    BY <1>1, <1>2, <1>3
  <2>3. s[At(k)] = IF At(k) <= Len(a) THEN a[At(k)] ELSE b[At(k) - Len(a)]
    BY <1>2, <1>3, <2>2, ConcatProperties
  <2>4. CASE k <= Len(a)
    BY <2>1, <2>2, <2>3, <2>4
  <2>5. CASE k > Len(a)
    <3>1. k - Len(a) \in 1..(Len(b) - 1) /\ k - Len(a) + 1 = k + 1 - Len(a)
      BY <1>1, <1>2, <1>3, <2>5
    <3>2. At(k) = k + 1 /\ ~(k + 1 <= Len(a)) /\ ~(k <= Len(a))
      BY <1>2, <2>5
    <3>3. QED BY <1>1, <2>1, <2>2, <2>3, <3>1, <3>2
  <2>6. QED BY <1>2, <2>4, <2>5
<1>5. \A k \in 1..Len(t) : \A m \in 1..Len(t) : k < m => At(k) < At(m)
  BY <1>2, <1>3
<1> HIDE DEF s, t, At
<1>6. Climbs(s, lo, hi)
  BY DEF s
<1>7. Climbs(t, lo, hi)
  BY <1>3, <1>4, <1>5, <1>6 DEF Climbs
<1>8. QED BY <1>1, <1>2, <1>3, <1>7 DEF s, t

\* The stream of a subscription, and what remains of it when one queue feeds the next.
Before(i) == delivered[i] \o out[i] \o replay[i] \o hand[i]

LEMMA StreamIs ==
  ASSUME FeedTypes, NEW i \in Subs
  PROVE  /\ delivered[i] \in Seq(Int) /\ out[i] \in Seq(Int) /\ replay[i] \in Seq(Int)
         /\ hand[i] \in Seq(Int) /\ live[i] \in Seq(Int)
         /\ delivered[i] \o out[i] \in Seq(Int)
         /\ delivered[i] \o out[i] \o replay[i] \in Seq(Int)
         /\ Before(i) \in Seq(Int) /\ Stream(i) \in Seq(Int) /\ Stream(i) = Before(i) \o live[i]
PROOF
<1>1. /\ delivered[i] \in Seq(Int) /\ out[i] \in Seq(Int) /\ replay[i] \in Seq(Int)
      /\ hand[i] \in Seq(Int) /\ live[i] \in Seq(Int)
  BY DEF FeedTypes
<1>2. delivered[i] \o out[i] \in Seq(Int)
  BY <1>1, ConcatProperties
<1>3. delivered[i] \o out[i] \o replay[i] \in Seq(Int)
  BY <1>1, <1>2, ConcatProperties
<1>4. Before(i) \in Seq(Int)
  BY <1>1, <1>3, ConcatProperties DEF Before
<1>5. Stream(i) = Before(i) \o live[i]
  BY DEF Stream, Before
<1>6. Stream(i) \in Seq(Int)
  BY <1>1, <1>4, <1>5, ConcatProperties
<1>7. QED BY <1>1, <1>2, <1>3, <1>4, <1>5, <1>6

\* Where a stream starts and ends.
LEMMA BoundsAre ==
  ASSUME FeedTypes, NEW i \in Subs
  PROVE  /\ Len(store) \in Nat /\ Start(i) \in Int /\ Pending(i) \in {0, 1}
         /\ cursor[i] \in Int /\ cursor[i] >= -1 /\ joined[i] \in Nat /\ lost[i] \in Nat
         /\ (Start(i) < joined[i]) \/ (joined[i] = 0 /\ Start(i) = -1)
         /\ Start(i) >= -1 /\ Start(i) <= cursor[i]
PROOF
<1>1. /\ Len(store) \in Nat /\ cursor[i] \in Int /\ cursor[i] >= -1 /\ joined[i] \in Nat
      /\ lost[i] \in Nat
  BY FeedAssumption, LenProperties DEF FeedTypes, FeedAssumption
<1>2. Start(i) = IF cursor[i] < joined[i] THEN cursor[i] ELSE joined[i] - 1
  BY DEF Start
<1>3. Pending(i) \in {0, 1}
  BY DEF Pending
<1>4. QED BY <1>1, <1>2, <1>3

\* What a step leaves alone for a subscription. One that is not served any more, because
\* it is closed or the hand-out was given up, expects nothing.
Quiet(j) ==
  /\ UNCHANGED <<policy, store>>
  /\ delivered'[j] = delivered[j] /\ out'[j] = out[j] /\ replay'[j] = replay[j]
  /\ hand'[j] = hand[j] /\ live'[j] = live[j]
  /\ cursor'[j] = cursor[j] /\ joined'[j] = joined[j] /\ lost'[j] = lost[j]
  /\ j \in members' => j \in members
  /\ j \in liveClosed => j \in liveClosed'
  /\ publishing'.at = j <=> publishing.at = j
  /\ j \in publishing'.todo => j \in publishing.todo
  /\ \/ j \in publishing.todo => j \in publishing'.todo
     \/ policy = "overflow_error"
     \/ j \in liveClosed

LEMMA QuietKeeps ==
  ASSUME FeedTypes, NEW j \in Subs, Subscribed(j), Quiet(j), Placed(j)', Held(j)'
  PROVE  Subscribed(j)'
PROOF
<1>1. Stream(j)' = Stream(j) /\ Start(j)' = Start(j)
  BY DEF Quiet, Stream, Start
<1>2. /\ Pending(j)' \in {0, 1} /\ Pending(j) \in {0, 1}
      /\ Pending(j)' = 1 => Pending(j) = 1
      /\ Pending(j) = Pending(j)' \/ policy = "overflow_error" \/ j \in liveClosed
  BY DEF Pending, Quiet
<1>3. Len(store') = Len(store) /\ Len(store) \in Nat /\ Start(j) \in Int
  BY BoundsAre DEF Quiet
<1>4. Len(store) - 1 - Pending(j) <= Len(store') - 1 - Pending(j)'
  BY <1>2, <1>3
<1>5. Climbs(Stream(j), Start(j) + 1, Len(store) - 1 - Pending(j))
  BY DEF Subscribed, Ordered
<1>6. Climbs(Stream(j), Start(j) + 1, Len(store') - 1 - Pending(j)')
  <2> DEFINE hi == Len(store) - 1 - Pending(j)
             top == Len(store') - 1 - Pending(j)'
  <2>1. hi \in Int /\ top \in Int /\ hi <= top /\ Start(j) + 1 \in Int
    BY <1>2, <1>3
  <2>2. Climbs(Stream(j), Start(j) + 1, hi)
    BY <1>5
  <2> HIDE DEF hi, top
  <2>3. Climbs(Stream(j), Start(j) + 1, top)
    BY <2>1, <2>2, ClimbWider
  <2>4. QED BY <2>3 DEF top
<1>7. Ordered(j)'
  BY <1>1, <1>6 DEF Ordered
<1>8. Accounted(j)'
  <2>1. SUFFICES ASSUME policy' # "overflow_error",
                        j \in members' \/ (Pending(j)' = 1 /\ j \notin liveClosed')
                 PROVE  Len(Stream(j)') + lost'[j] + Pending(j)' = Len(store') - 1 - Start(j)'
    BY DEF Accounted
  <2>2. policy # "overflow_error" /\ (j \in members \/ (Pending(j) = 1 /\ j \notin liveClosed))
    BY <1>2, <2>1 DEF Quiet
  <2>3. Pending(j)' = Pending(j)
    BY <1>2, <2>2 DEF Subscribed, Placed
  <2>4. QED BY <1>1, <1>3, <2>2, <2>3 DEF Subscribed, Accounted, Quiet
<1>9. Unbroken(j)'
  BY <1>1 DEF Subscribed, Unbroken, Quiet
<1>10. QED BY <1>7, <1>8, <1>9 DEF Subscribed

\* A subscription that is not touched at all.
Untouched(j) ==
  /\ Quiet(j)
  /\ pump'[j] = pump[j] /\ closer'[j] = closer[j]
  /\ j \in members' <=> j \in members
  /\ j \in liveClosed' <=> j \in liveClosed

LEMMA UntouchedKeeps ==
  ASSUME FeedTypes, NEW j \in Subs, Subscribed(j), Untouched(j)
  PROVE  Subscribed(j)'
PROOF
<1>1. Held(j)'
  BY DEF Subscribed, Held, Untouched, Quiet
<1>2. Pending(j)' = 1 => Pending(j) = 1
  BY DEF Pending, Untouched, Quiet
<1>3. Placed(j)'
  BY <1>2 DEF Subscribed, Placed, Made, Untouched, Quiet
<1>4. QED BY <1>1, <1>3, QuietKeeps DEF Untouched

\* A subscription is closed, pruned, or left by its pump: only its place changes.
PlaceVars == <<policy, store, publishing, live, replay, hand, out, cursor, joined, delivered, lost>>

LEMMA PlaceChanges ==
  ASSUME FeedInv, NEW i \in Subs, UNCHANGED PlaceVars,
         members' = members \/ members' = members \ {i},
         liveClosed' = liveClosed \/ liveClosed' = liveClosed \cup {i},
         NEW p \in PumpPhases, pump' = [pump EXCEPT ![i] = p],
         NEW q \in {"none", "leaving", "unsubscribing", "gone"},
         closer' = [closer EXCEPT ![i] = q],
         Placed(i)', p = "forwarding" => pump[i] = "forwarding"
  PROVE  FeedInv'
PROOF
<1>1. FeedTypes /\ \A j \in Subs : Subscribed(j)
  BY DEF FeedInv
<1>2. FeedTypes'
  BY <1>1 DEF FeedTypes, PlaceVars
<1>3. \A j \in Subs : Quiet(j)
  BY <1>1 DEF Quiet, PlaceVars
<1>4. ASSUME NEW j \in Subs, j # i PROVE Untouched(j)
  BY <1>1, <1>3, <1>4 DEF Untouched, FeedTypes
<1>5. \A j \in Subs \ {i} : Subscribed(j)'
  BY <1>1, <1>4, UntouchedKeeps
<1>6. Held(i)'
  <2>1. pump'[i] = p
    BY <1>1 DEF FeedTypes
  <2>2. Held(i)
    BY <1>1 DEF Subscribed
  <2>3. QED BY <2>1, <2>2 DEF Held, PlaceVars
<1>7. Subscribed(i)'
  BY <1>1, <1>3, <1>6, QuietKeeps
<1>8. QED BY <1>2, <1>5, <1>7 DEF FeedInv

LEMMA ClosingKeeps ==
  ASSUME FeedInv, NEW i \in Subs,
         \/ Close(i) \/ Closing(i) \/ PruneIdle(i)
         \/ Leave(i) \/ PumpUnsubscribes(i) \/ PumpGone(i)
  PROVE  FeedInv'
PROOF
<1>1. FeedTypes /\ Placed(i)
  BY DEF FeedInv, Subscribed
<1>2. UNCHANGED PlaceVars
  BY DEF PlaceVars, Close, Closing, CloseUnsubscribes, CloseReturns, PruneIdle, CloseLive,
         Leave, PumpUnsubscribes, PumpGone
<1>3. pump[i] \in PumpPhases /\ closer[i] \in {"none", "leaving", "unsubscribing", "gone"}
  BY <1>1 DEF FeedTypes
<1>4. /\ pump = [pump EXCEPT ![i] = pump[i]]
      /\ closer = [closer EXCEPT ![i] = closer[i]]
  BY <1>1 DEF FeedTypes
<1>5. Pending(i)' = Pending(i)
  BY <1>2 DEF Pending, PlaceVars
<1>6. CASE Close(i)
  <2>1. members' = members /\ liveClosed' = liveClosed /\ pump' = pump
        /\ closer' = [closer EXCEPT ![i] = "leaving"] /\ Made(i)
    BY <1>6 DEF Close
  <2>2. pump'[i] = pump[i] /\ closer'[i] = "leaving"
    BY <1>1, <2>1 DEF FeedTypes
  <2>3. Placed(i)'
    BY <1>1, <1>2, <1>5, <2>1, <2>2 DEF Placed, Made, PlaceVars
  <2>4. QED BY <1>2, <1>3, <1>4, <2>1, <2>3, PlaceChanges
<1>7. CASE CloseUnsubscribes(i)
  <2> DEFINE q == IF i \in members THEN "unsubscribing" ELSE "gone"
  <2>1. members' = members \ {i} /\ liveClosed' = liveClosed /\ pump' = pump
        /\ closer' = [closer EXCEPT ![i] = q] /\ closer[i] = "leaving"
    BY <1>7 DEF CloseUnsubscribes
  <2>2. Placed(i)'
    BY <1>1, <1>2, <1>5, <2>1 DEF Placed, Made, PlaceVars
  <2>3. q \in {"none", "leaving", "unsubscribing", "gone"}
    OBVIOUS
  <2> HIDE DEF q
  <2>4. QED BY <1>2, <1>3, <1>4, <2>1, <2>2, <2>3, PlaceChanges
<1>8. CASE CloseReturns(i)
  <2>1. members' = members /\ liveClosed' = liveClosed \cup {i} /\ pump' = pump
        /\ closer' = [closer EXCEPT ![i] = "gone"] /\ closer[i] = "unsubscribing"
        /\ publishing.at # i
    BY <1>8 DEF CloseReturns, CloseLive
  <2>2. closer'[i] = "gone"
    BY <1>1, <2>1 DEF FeedTypes
  <2>3. Placed(i)'
    BY <1>1, <1>2, <1>5, <2>1, <2>2 DEF Placed, Made, PlaceVars
  <2>4. QED BY <1>2, <1>3, <1>4, <2>1, <2>3, PlaceChanges
<1>9. CASE PruneIdle(i)
  <2>1. members' = members \ {i} /\ liveClosed' = liveClosed \cup {i} /\ pump' = pump
        /\ closer' = closer /\ i \in members /\ publishing.at # i
    BY <1>9 DEF PruneIdle, CloseLive
  <2>2. Placed(i)'
    BY <1>1, <1>2, <1>5, <2>1 DEF Placed, Made, PlaceVars
  <2>3. QED BY <1>2, <1>3, <1>4, <2>1, <2>2, PlaceChanges
<1>10. CASE Leave(i)
  <2>1. members' = members /\ liveClosed' = liveClosed /\ closer' = closer
        /\ pump' = [pump EXCEPT ![i] = "leaving"] /\ pump[i] \in {"replaying", "forwarding"}
    BY <1>10 DEF Leave
  <2>2. pump'[i] = "leaving"
    BY <1>1, <2>1 DEF FeedTypes
  <2>3. Placed(i)'
    BY <1>1, <1>2, <1>5, <2>1, <2>2 DEF Placed, Made, PlaceVars
  <2>4. "leaving" \in PumpPhases
    BY DEF PumpPhases
  <2>5. QED BY <1>2, <1>3, <1>4, <2>1, <2>3, <2>4, PlaceChanges
<1>11. CASE PumpUnsubscribes(i)
  <2> DEFINE p == IF i \in members THEN "unsubscribing" ELSE "gone"
  <2>1. members' = members \ {i} /\ liveClosed' = liveClosed /\ closer' = closer
        /\ pump' = [pump EXCEPT ![i] = p] /\ pump[i] = "leaving"
    BY <1>11 DEF PumpUnsubscribes
  <2>2. p \in PumpPhases /\ p \in {"unsubscribing", "gone"}
    BY DEF PumpPhases
  <2> HIDE DEF p
  <2>3. pump'[i] = p
    BY <1>1, <2>1 DEF FeedTypes
  <2>4. Placed(i)'
    BY <1>1, <1>2, <1>5, <2>1, <2>2, <2>3 DEF Placed, Made, PlaceVars
  <2>5. QED BY <1>2, <1>3, <1>4, <2>1, <2>2, <2>4, PlaceChanges
<1>12. CASE PumpGone(i)
  <2>1. members' = members /\ liveClosed' = liveClosed \cup {i} /\ closer' = closer
        /\ pump' = [pump EXCEPT ![i] = "gone"] /\ pump[i] = "unsubscribing"
        /\ publishing.at # i
    BY <1>12 DEF PumpGone, CloseLive
  <2>2. pump'[i] = "gone" /\ "gone" \in PumpPhases
    BY <1>1, <2>1 DEF FeedTypes, PumpPhases
  <2>3. Placed(i)'
    BY <1>1, <1>2, <1>5, <2>1, <2>2 DEF Placed, Made, PlaceVars
  <2>4. QED BY <1>2, <1>3, <1>4, <2>1, <2>2, <2>3, PlaceChanges
<1>13. QED BY <1>6, <1>7, <1>8, <1>9, <1>10, <1>11, <1>12 DEF Closing

\* What is handed on along the queues of a subscription leaves its stream as it is.
LEMMA HandedOn ==
  ASSUME FeedInv, FeedTypes', NEW i \in Subs,
         UNCHANGED <<policy, store, publishing, members, liveClosed, closer, cursor, joined, lost>>,
         \A j \in Subs \ {i} :
           /\ delivered'[j] = delivered[j] /\ out'[j] = out[j] /\ replay'[j] = replay[j]
           /\ hand'[j] = hand[j] /\ live'[j] = live[j] /\ pump'[j] = pump[j],
         Made(i), pump'[i] # "none", pump'[i] \in {"unsubscribing", "gone"} => pump'[i] = pump[i],
         Held(i)', Stream(i)' = Stream(i)
  PROVE  FeedInv'
PROOF
<1>1. FeedTypes /\ \A j \in Subs : Subscribed(j)
  BY DEF FeedInv
<1>2. ASSUME NEW j \in Subs \ {i} PROVE Untouched(j)
  BY <1>2 DEF Untouched, Quiet
<1>3. \A j \in Subs \ {i} : Subscribed(j)'
  BY <1>1, <1>2, UntouchedKeeps
<1>4. Pending(i)' = Pending(i) /\ Start(i)' = Start(i)
  BY DEF Pending, Start
<1>5. Placed(i)'
  BY <1>1, <1>4 DEF Subscribed, Placed, Made
<1>6. Ordered(i)' /\ Accounted(i)' /\ Unbroken(i)'
  BY <1>1, <1>4 DEF Subscribed, Ordered, Accounted, Unbroken
<1>7. Subscribed(i)'
  BY <1>5, <1>6 DEF Subscribed
<1>8. QED BY <1>3, <1>7 DEF FeedInv

LEMMA ReadKeeps ==
  ASSUME FeedInv, NEW i \in Subs, Read(i)
  PROVE  FeedInv' /\ Made(i) /\ Stream(i)' = Stream(i)
PROOF
<1> DEFINE x == Head(out[i])
           rest == Tail(out[i])
<1>1. FeedTypes /\ Placed(i) /\ Held(i)
  BY DEF FeedInv, Subscribed
<1>2. out[i] # <<>> /\ delivered' = [delivered EXCEPT ![i] = Append(delivered[i], x)]
      /\ out' = [out EXCEPT ![i] = rest]
      /\ UNCHANGED <<policy, store, publishing, members, live, liveClosed, pump, replay,
                     hand, closer, cursor, joined, lost>>
  BY DEF Read
<1>3. /\ x \in Int /\ rest \in Seq(Int) /\ Append(delivered[i], x) \in Seq(Int)
      /\ Append(delivered[i], x) \o rest = delivered[i] \o out[i]
  BY <1>1, <1>2, StreamIs, HeadMoves
<1> HIDE DEF x, rest
<1>4. FeedTypes'
  BY <1>1, <1>2, <1>3 DEF FeedTypes
<1>5. delivered'[i] = Append(delivered[i], x) /\ out'[i] = rest
  BY <1>1, <1>2 DEF FeedTypes
<1>6. Stream(i)' = Stream(i)
  BY <1>2, <1>3, <1>5 DEF Stream
<1>7. Made(i)
  BY <1>1, <1>2 DEF Placed
<1>8. Held(i)'
  BY <1>1, <1>2 DEF Held
<1>9. \A j \in Subs \ {i} : delivered'[j] = delivered[j] /\ out'[j] = out[j]
  BY <1>1, <1>2 DEF FeedTypes
<1>10. pump'[i] # "none"
  BY <1>2, <1>7 DEF Made
<1>11. QED BY <1>2, <1>4, <1>6, <1>7, <1>8, <1>9, <1>10, HandedOn

LEMMA CopyKeeps ==
  ASSUME FeedInv, NEW i \in Subs, CopyReplayed(i)
  PROVE  FeedInv'
PROOF
<1> DEFINE x == Head(replay[i])
           rest == Tail(replay[i])
<1>1. FeedTypes /\ Placed(i) /\ Held(i)
  BY DEF FeedInv, Subscribed
<1>2. UNCHANGED <<policy, store, publishing, members, live, liveClosed, hand, closer,
                  cursor, joined, delivered, lost>> /\ pump[i] = "replaying" /\ Made(i)
  BY DEF CopyReplayed, Made
<1>3. CASE replay[i] # <<>> /\ out' = [out EXCEPT ![i] = Append(out[i], x)]
           /\ replay' = [replay EXCEPT ![i] = rest] /\ UNCHANGED pump
  <2>1. /\ x \in Int /\ rest \in Seq(Int)
        /\ Append(delivered[i] \o out[i], x) \o rest = delivered[i] \o out[i] \o replay[i]
    BY <1>1, <1>3, StreamIs, HeadMoves
  <2> HIDE DEF x, rest
  <2>2. /\ Append(out[i], x) \in Seq(Int)
        /\ delivered[i] \o Append(out[i], x) = Append(delivered[i] \o out[i], x)
    <3>1. delivered[i] \in Seq(Int) /\ out[i] \in Seq(Int)
      BY <1>1, StreamIs
    <3>2. QED BY <2>1, <3>1, AppendOver, AppendProperties
  <2>3. FeedTypes'
    BY <1>1, <1>2, <1>3, <2>1, <2>2 DEF FeedTypes
  <2>4. out'[i] = Append(out[i], x) /\ replay'[i] = rest
    BY <1>1, <1>3 DEF FeedTypes
  <2>5. Stream(i)' = Stream(i)
    BY <1>2, <2>1, <2>2, <2>4 DEF Stream
  <2>6. Held(i)'
    BY <1>1, <1>2, <1>3 DEF Held
  <2>7. \A j \in Subs \ {i} : replay'[j] = replay[j] /\ out'[j] = out[j]
    BY <1>1, <1>3 DEF FeedTypes
  <2>8. pump'[i] # "none"
    BY <1>2, <1>3
  <2>9. QED BY <1>2, <1>3, <2>3, <2>5, <2>6, <2>7, <2>8, HandedOn
<1>4. CASE replay[i] = <<>> /\ pump' = [pump EXCEPT ![i] = "forwarding"]
           /\ UNCHANGED <<out, replay>>
  <2>1. pump'[i] = "forwarding" /\ \A j \in Subs \ {i} : pump'[j] = pump[j]
    BY <1>1, <1>4 DEF FeedTypes
  <2>2. FeedTypes'
    BY <1>1, <1>2, <1>4 DEF FeedTypes, PumpPhases
  <2>3. Stream(i)' = Stream(i)
    BY <1>2, <1>4 DEF Stream
  <2>4. Held(i)'
    BY <1>1, <1>2, <1>4 DEF Held
  <2>5. QED BY <1>2, <1>4, <2>1, <2>2, <2>3, <2>4, HandedOn
<1>5. QED BY <1>3, <1>4 DEF CopyReplayed

LEMMA TakeKeeps ==
  ASSUME FeedInv, NEW i \in Subs, Take(i)
  PROVE  FeedInv'
PROOF
<1> DEFINE x == Head(live[i])
           rest == Tail(live[i])
           front == delivered[i] \o out[i] \o replay[i]
<1>1. FeedTypes /\ Placed(i) /\ Held(i)
  BY DEF FeedInv, Subscribed
<1>2. /\ pump[i] = "forwarding" /\ hand[i] = <<>> /\ live[i] # <<>>
      /\ hand' = [hand EXCEPT ![i] = <<x>>] /\ live' = [live EXCEPT ![i] = rest]
      /\ UNCHANGED <<policy, store, publishing, members, liveClosed, pump, replay, out,
                     closer, cursor, joined, delivered, lost>>
  BY DEF Take
<1>3. front \in Seq(Int) /\ live[i] \in Seq(Int)
  BY <1>1, StreamIs
<1>4. /\ x \in Int /\ rest \in Seq(Int) /\ Append(front, x) \in Seq(Int)
      /\ Append(front, x) \o rest = front \o live[i]
  BY <1>2, <1>3, HeadMoves
<1> HIDE DEF x, rest, front
<1>5. front \o <<x>> = Append(front, x) /\ front \o <<>> = front /\ <<x>> \in Seq(Int)
      /\ Len(<<x>>) = 1
  BY <1>3, <1>4, AppendIsConcat, ConcatEmptySeq
<1>6. FeedTypes'
  BY <1>1, <1>2, <1>4, <1>5 DEF FeedTypes
<1>7. hand'[i] = <<x>> /\ live'[i] = rest
  BY <1>1, <1>2 DEF FeedTypes
<1>8. /\ Stream(i) = front \o hand[i] \o live[i]
      /\ Stream(i)' = front \o hand'[i] \o live'[i]
  BY <1>2 DEF Stream, front
<1>9. Stream(i)' = Stream(i)
  BY <1>2, <1>4, <1>5, <1>7, <1>8
<1>10. Held(i)'
  BY <1>1, <1>2, <1>5, <1>7 DEF Held
<1>11. \A j \in Subs \ {i} : hand'[j] = hand[j] /\ live'[j] = live[j]
  BY <1>1, <1>2 DEF FeedTypes
<1>12. Made(i) /\ pump'[i] = "forwarding"
  BY <1>2 DEF Made
<1>13. QED BY <1>2, <1>6, <1>9, <1>10, <1>11, <1>12, HandedOn

LEMMA ForwardsKeep ==
  ASSUME FeedInv, NEW i \in Subs, Forward(i)
  PROVE  FeedInv'
PROOF
<1> DEFINE x == hand[i][1]
<1>1. FeedTypes /\ Placed(i) /\ Held(i)
  BY DEF FeedInv, Subscribed
<1>2. /\ pump[i] = "forwarding" /\ hand[i] # <<>> /\ replay[i] = <<>>
      /\ out' = [out EXCEPT ![i] = Append(out[i], x)] /\ hand' = [hand EXCEPT ![i] = <<>>]
      /\ UNCHANGED <<policy, store, publishing, members, live, liveClosed, pump, replay,
                     closer, cursor, joined, delivered, lost>>
  BY <1>1 DEF Forward, Held
<1>3. /\ delivered[i] \in Seq(Int) /\ out[i] \in Seq(Int) /\ hand[i] \in Seq(Int)
      /\ delivered[i] \o out[i] \in Seq(Int)
  BY <1>1, StreamIs
<1>4. Len(hand[i]) = 1 /\ x \in Int /\ hand[i] = <<x>>
  <2>1. Len(hand[i]) \in Nat /\ Len(hand[i]) # 0 /\ Len(hand[i]) <= 1
    BY <1>1, <1>2, <1>3, LenProperties, EmptySeq DEF Held
  <2>2. Len(hand[i]) = 1
    <3>1. \A n \in Nat : n # 0 /\ n <= 1 => n = 1
      OBVIOUS
    <3> DEFINE n == Len(hand[i])
    <3>2. n \in Nat /\ n # 0 /\ n <= 1
      BY <2>1
    <3> HIDE DEF n
    <3>3. n = 1
      BY <3>1, <3>2
    <3>4. QED BY <3>3 DEF n
  <2>3. x \in Int
    BY <1>3, <2>2, ElementOfSeq
  <2>4. <<x>> \in Seq(Int) /\ Len(<<x>>) = 1 /\ <<x>>[1] = x
    BY <2>3
  <2>5. hand[i] = <<x>>
    BY <1>3, <2>2, <2>4, SeqEqual
  <2>6. QED BY <2>2, <2>3, <2>5
<1> HIDE DEF x
<1> DEFINE front == delivered[i] \o out[i]
<1>5. /\ delivered[i] \o Append(out[i], x) = Append(front, x) /\ Append(front, x) \in Seq(Int)
      /\ Append(out[i], x) \in Seq(Int)
  BY <1>3, <1>4, AppendOver, AppendProperties
<1>6. front \o <<>> = front /\ front \o <<x>> = Append(front, x)
      /\ Append(front, x) \o <<>> = Append(front, x)
  BY <1>3, <1>4, <1>5, AppendIsConcat, ConcatEmptySeq
<1>7. out'[i] = Append(out[i], x) /\ hand'[i] = <<>>
  BY <1>1, <1>2 DEF FeedTypes
<1>8. Stream(i) = Append(front, x) \o live[i]
  <2>1. Stream(i) = front \o <<>> \o <<x>> \o live[i]
    BY <1>2, <1>4 DEF Stream
  <2>2. QED BY <1>6, <2>1
<1>9. Stream(i)' = Append(front, x) \o live[i]
  <2>1. Stream(i)' = delivered[i] \o Append(out[i], x) \o <<>> \o <<>> \o live[i]
    BY <1>2, <1>7 DEF Stream
  <2>2. QED BY <1>5, <1>6, <2>1
<1>10. FeedTypes'
  <2>1. <<>> \in Seq(Int)
    BY EmptySeq
  <2>2. QED BY <1>1, <1>2, <1>5, <2>1 DEF FeedTypes
<1>11. Held(i)'
  BY <1>2, <1>7, EmptySeq DEF Held
<1>12. \A j \in Subs \ {i} : hand'[j] = hand[j] /\ out'[j] = out[j]
  BY <1>1, <1>2 DEF FeedTypes
<1>13. Made(i) /\ pump'[i] = "forwarding"
  BY <1>2 DEF Made
<1>14. QED BY <1>2, <1>8, <1>9, <1>10, <1>11, <1>12, <1>13, HandedOn

\* The emitter serves one subscription; the others are not touched, except that an
\* overflow may give up on them.
LEMMA OneIsServed ==
  ASSUME FeedInv, FeedTypes', NEW i \in Subs,
         UNCHANGED <<policy, store, members, liveClosed, pump, replay, hand, out, closer,
                     cursor, joined, delivered>>,
         \A j \in Subs \ {i} : live'[j] = live[j] /\ lost'[j] = lost[j],
         publishing.at \in {Nobody, i}, publishing'.at \in {Nobody, i},
         publishing'.todo \subseteq publishing.todo,
         publishing'.todo = publishing.todo \ {i} \/ policy = "overflow_error",
         Subscribed(i)'
  PROVE  FeedInv'
PROOF
<1>1. FeedTypes /\ \A j \in Subs : Subscribed(j)
  BY DEF FeedInv
<1>2. Nobody \notin Subs
  BY FeedAssumption DEF FeedAssumption, Nobody
<1>3. ASSUME NEW j \in Subs \ {i} PROVE Untouched(j)
  BY <1>2, <1>3 DEF Untouched, Quiet
<1>4. \A j \in Subs \ {i} : Subscribed(j)'
  BY <1>1, <1>3, UntouchedKeeps
<1>5. QED BY <1>4 DEF FeedInv

\* The subscription being served stays in its place.
LEMMA ServedPlaced ==
  ASSUME FeedTypes, NEW i \in Subs, Placed(i), Held(i), Made(i),
         UNCHANGED <<policy, store, members, liveClosed, pump, replay, hand, out, closer,
                     cursor, joined, delivered>>,
         Pending(i) = 1, publishing'.at = i => i \notin liveClosed /\ i \notin publishing'.todo
  PROVE  Placed(i)' /\ Held(i)'
PROOF
<1>1. Made(i)'
  BY DEF Made
<1>2. QED BY <1>1 DEF Placed, Held

\* It gets the event.
LEMMA EventArrives ==
  ASSUME FeedTypes, FeedTypes', NEW i \in Subs, Subscribed(i), Made(i),
         UNCHANGED <<policy, store, members, liveClosed, pump, replay, hand, out, closer,
                     cursor, joined, delivered>>,
         lost'[i] = lost[i], Pending(i) = 1, i \notin liveClosed, Pending(i)' = 0,
         publishing'.at # i,
         live'[i] = Append(live[i], Event)
  PROVE  Subscribed(i)'
PROOF
<1> DEFINE s == Stream(i)
           e == Event
           lo == Start(i) + 1
           hi == Len(store) - 1 - Pending(i)
<1>1. /\ Len(store) \in Nat /\ Start(i) \in Int /\ joined[i] \in Nat /\ joined[i] < Len(store)
      /\ (Start(i) < joined[i]) \/ (joined[i] = 0 /\ Start(i) = -1)
      /\ lost[i] \in Nat
  BY BoundsAre DEF Subscribed, Placed
<1>2. e \in Int /\ lo \in Int /\ hi \in Int /\ e > hi /\ e >= lo /\ e = Len(store) - 1 /\ hi = e - 1
  BY <1>1 DEF Event
<1>3. Climbs(s, lo, hi) /\ s \in Seq(Int) /\ Len(s) \in Nat
  BY LenProperties DEF Subscribed, Ordered, Climbs
<1>4. Stream(i)' = Append(s, e)
  <2>1. Before(i) \in Seq(Int) /\ live[i] \in Seq(Int) /\ s = Before(i) \o live[i]
    BY StreamIs
  <2>2. Stream(i)' = Before(i) \o Append(live[i], e)
    BY DEF Stream, Before
  <2> HIDE DEF s, e
  <2>3. QED BY <1>2, <2>1, <2>2, AppendOver
<1>5. Start(i)' = Start(i)
  BY DEF Start
<1> HIDE DEF s, e, lo, hi
<1>6. Climbs(Append(s, e), lo, e) /\ Len(Append(s, e)) = Len(s) + 1
  BY <1>2, <1>3, ClimbAppend
<1>7. Ordered(i)'
  <2>1. Len(store') - 1 - Pending(i)' = e
    BY <1>1, <1>2
  <2>2. QED BY <1>4, <1>5, <1>6, <2>1 DEF Ordered, lo
<1>8. policy # "overflow_error" => Len(s) + lost[i] + 1 = Len(store) - 1 - Start(i)
  BY DEF Subscribed, Accounted, s
<1>9. Accounted(i)'
  <2>1. policy # "overflow_error" => Len(s) + 1 + lost[i] + 0 = Len(store) - 1 - Start(i)
    BY <1>1, <1>3, <1>8
  <2>2. QED BY <1>4, <1>5, <1>6, <2>1 DEF Accounted
<1>10. Unbroken(i)'
  <2>1. SUFFICES ASSUME policy = "block_producer", NEW k \in 1..(Len(s) + 1)
                 PROVE  lost[i] = 0 /\ Append(s, e)[k] = Start(i) + k
    BY <1>4, <1>5, <1>6 DEF Unbroken
  <2>2. lost[i] = 0 /\ \A m \in 1..Len(s) : s[m] = Start(i) + m
    BY <2>1 DEF Subscribed, Unbroken, s
  <2>3. Append(s, e)[Len(s) + 1] = e /\ \A m \in 1..Len(s) : Append(s, e)[m] = s[m]
    BY <1>2, <1>3, AppendProperties
  <2>4. CASE k \in 1..Len(s)
    BY <2>2, <2>3, <2>4
  <2>5. CASE k = Len(s) + 1
    <3>1. e = Start(i) + (Len(s) + 1)
      BY <1>1, <1>2, <1>3, <1>8, <2>1, <2>2
    <3>2. QED BY <2>2, <2>3, <2>5, <3>1
  <2>6. k \in 1..Len(s) \/ k = Len(s) + 1
    BY <1>3, <2>1
  <2>7. QED BY <2>4, <2>5, <2>6
<1>11. Placed(i)' /\ Held(i)'
  BY ServedPlaced DEF Subscribed
<1>12. QED BY <1>7, <1>9, <1>10, <1>11 DEF Subscribed

\* The event is dropped for it, or given up.
LEMMA EventIsDropped ==
  ASSUME FeedTypes, FeedTypes', NEW i \in Subs, Subscribed(i), Made(i),
         UNCHANGED <<policy, store, members, liveClosed, pump, replay, hand, out, closer,
                     cursor, joined, delivered>>,
         policy \in {"drop_newest", "overflow_error"}, Pending(i) = 1, i \notin liveClosed,
         Pending(i)' = 0, publishing'.at # i,
         live'[i] = live[i], lost'[i] = lost[i] + 1
  PROVE  Subscribed(i)'
PROOF
<1>1. Stream(i)' = Stream(i) /\ Start(i)' = Start(i)
  BY DEF Stream, Start
<1>2. Len(store) \in Nat /\ Start(i) \in Int /\ lost[i] \in Nat
  BY BoundsAre
<1>3. Ordered(i)'
  <2> DEFINE lo == Start(i) + 1
             hi == Len(store) - 1 - Pending(i)
             top == Len(store) - 1
  <2>1. lo \in Int /\ hi \in Int /\ top \in Int /\ hi <= top
    BY <1>2
  <2>2. Climbs(Stream(i), lo, hi)
    BY DEF Subscribed, Ordered
  <2>3. top = Len(store') - 1 - Pending(i)'
    BY <1>2
  <2> HIDE DEF hi, top, lo
  <2>4. Climbs(Stream(i), lo, top)
    BY <2>1, <2>2, ClimbWider
  <2>5. QED BY <1>1, <2>3, <2>4 DEF Ordered, lo
<1>4. Accounted(i)'
  <2>1. Len(Stream(i)) \in Nat
    BY StreamIs, LenProperties
  <2>2. policy # "overflow_error" => Len(Stream(i)) + lost[i] + 1 = Len(store) - 1 - Start(i)
    BY DEF Subscribed, Accounted
  <2>3. policy # "overflow_error" => Len(Stream(i)) + (lost[i] + 1) + 0 = Len(store) - 1 - Start(i)
    BY <1>2, <2>1, <2>2
  <2>4. QED BY <1>1, <2>3 DEF Accounted
<1>5. Unbroken(i)'
  BY DEF Unbroken
<1>6. Placed(i)' /\ Held(i)'
  BY ServedPlaced DEF Subscribed
<1>7. QED BY <1>3, <1>4, <1>5, <1>6 DEF Subscribed

\* The oldest event gives way to it.
LEMMA OldestGivesWay ==
  ASSUME FeedTypes, FeedTypes', NEW i \in Subs, Subscribed(i), Made(i),
         UNCHANGED <<policy, store, members, liveClosed, pump, replay, hand, out, closer,
                     cursor, joined, delivered>>,
         policy = "drop_oldest", Pending(i) = 1, i \notin liveClosed, Pending(i)' = 0,
         publishing'.at # i, live[i] # <<>>,
         live'[i] = Append(Tail(live[i]), Event), lost'[i] = lost[i] + 1
  PROVE  Subscribed(i)'
PROOF
<1> DEFINE front == Before(i)
           s == front \o live[i]
           t == front \o Tail(live[i])
           e == Event
           lo == Start(i) + 1
           hi == Len(store) - 1 - Pending(i)
<1>1. /\ Len(store) \in Nat /\ Start(i) \in Int /\ joined[i] \in Nat /\ joined[i] < Len(store)
      /\ (Start(i) < joined[i]) \/ (joined[i] = 0 /\ Start(i) = -1)
      /\ lost[i] \in Nat
  BY BoundsAre DEF Subscribed, Placed
<1>2. e \in Int /\ lo \in Int /\ hi \in Int /\ e > hi /\ e >= lo /\ e = Len(store) - 1
  BY <1>1 DEF Event
<1>3. /\ front \in Seq(Int) /\ live[i] \in Seq(Int) /\ Stream(i) = s
      /\ Tail(live[i]) \in Seq(Int)
  BY StreamIs, HeadTailProperties
<1>4. Climbs(s, lo, hi)
  BY <1>3 DEF Subscribed, Ordered
<1>5. Stream(i)' = front \o Append(Tail(live[i]), e)
  BY DEF Stream, Before
<1>6. Start(i)' = Start(i)
  BY DEF Start
<1> HIDE DEF front, e, lo, hi
<1>7. Climbs(t, lo, hi) /\ Len(t) + 1 = Len(s)
  BY <1>2, <1>3, <1>4, ClimbWithout
<1>8. Stream(i)' = Append(t, e)
  BY <1>2, <1>3, <1>5, AppendOver
<1> HIDE DEF s, t
<1>9. Climbs(Append(t, e), lo, e) /\ Len(Append(t, e)) = Len(t) + 1
  BY <1>2, <1>7, ClimbAppend
<1>10. Ordered(i)'
  <2>1. Len(store') - 1 - Pending(i)' = e
    BY <1>1, <1>2
  <2>2. QED BY <1>6, <1>8, <1>9, <2>1 DEF Ordered, lo
<1>11. Accounted(i)'
  <2>1. Len(s) + lost[i] + 1 = Len(store) - 1 - Start(i)
    BY <1>3 DEF Subscribed, Accounted
  <2>2. Len(t) \in Nat /\ Len(s) \in Nat
    BY <1>4, <1>7, LenProperties DEF Climbs
  <2>3. Len(t) + 1 + (lost[i] + 1) + 0 = Len(store) - 1 - Start(i)
    BY <1>1, <1>7, <2>1, <2>2
  <2>4. QED BY <1>6, <1>8, <1>9, <2>3 DEF Accounted
<1>12. Unbroken(i)'
  BY DEF Unbroken
<1>13. Placed(i)' /\ Held(i)'
  BY ServedPlaced DEF Subscribed
<1>14. QED BY <1>10, <1>11, <1>12, <1>13 DEF Subscribed

\* PublishOne, the send block_producer waits for, and the eviction of drop_oldest.
LEMMA PublishKeeps ==
  ASSUME FeedInv, Publish
  PROVE  FeedInv'
PROOF
<1>1. PICK i \in Subs : PublishOne(i) \/ Unblock(i) \/ Evict(i)
  BY DEF Publish
<1>2. FeedTypes /\ Subscribed(i) /\ Placed(i) /\ Nobody \notin Subs
  BY FeedAssumption DEF FeedInv, Subscribed, FeedAssumption, Nobody
<1>3. /\ live[i] \in Seq(Int) /\ lost[i] \in Nat /\ Event \in Int
      /\ publishing.todo \subseteq Subs
  <2>1. Len(store) \in Nat
    BY <1>2, BoundsAre
  <2>2. QED BY <1>2, <2>1 DEF FeedTypes, Event
<1>4. /\ UNCHANGED <<policy, store, members, liveClosed, pump, replay, hand, out, closer,
                     cursor, joined, delivered>>
  BY <1>1 DEF PublishOne, Unblock, Evict
<1>5. Pending(i) = 1 /\ Made(i)
  BY <1>1, <1>2 DEF PublishOne, Unblock, Evict, Pending, Placed
<1>6. publishing.at \in {Nobody, i}
  BY <1>1 DEF PublishOne, Unblock, Evict
<1>7. ASSUME NEW T \in SUBSET publishing.todo, T = publishing.todo \ {i} \/ policy = "overflow_error",
             NEW a \in {Nobody, i}, GoOn(T, a), Subscribed(i)',
             NEW l \in Seq(Int), live' = [live EXCEPT ![i] = l],
             NEW n \in Nat, lost' = [lost EXCEPT ![i] = n]
      PROVE  FeedInv'
  <2>1. publishing' = [todo |-> T, at |-> a]
    BY <1>7 DEF GoOn
  <2>2. FeedTypes'
    BY <1>2, <1>3, <1>4, <1>7, <2>1 DEF FeedTypes
  <2>3. \A j \in Subs \ {i} : live'[j] = live[j] /\ lost'[j] = lost[j]
    BY <1>2, <1>7 DEF FeedTypes
  <2>4. publishing'.todo = T /\ publishing'.at = a
    BY <2>1
  <2>5. QED BY <1>4, <1>6, <1>7, <2>2, <2>3, <2>4, OneIsServed
<1>8. ASSUME NEW T \in SUBSET publishing.todo, NEW a \in {Nobody, i}, GoOn(T, a),
             NEW l \in Seq(Int), live' = [live EXCEPT ![i] = l],
             NEW n \in Nat, lost' = [lost EXCEPT ![i] = n]
      PROVE  /\ FeedTypes' /\ live'[i] = l /\ lost'[i] = n
             /\ publishing'.todo = T /\ publishing'.at = a
             /\ a = Nobody /\ i \notin T => Pending(i)' = 0
             /\ a = i => Pending(i)' = 1
  <2>1. publishing' = [todo |-> T, at |-> a]
    BY <1>8 DEF GoOn
  <2>2. FeedTypes'
    BY <1>2, <1>3, <1>4, <1>8, <2>1 DEF FeedTypes
  <2>3. QED BY <1>2, <1>8, <2>1, <2>2 DEF Pending, FeedTypes
<1>9. live = [live EXCEPT ![i] = live[i]] /\ lost = [lost EXCEPT ![i] = lost[i]]
  BY <1>2 DEF FeedTypes
<1>10. Append(live[i], Event) \in Seq(Int)
  BY <1>3, AppendProperties
<1> DEFINE others == publishing.todo \ {i}
<1>11. others \in SUBSET publishing.todo /\ i \notin others
  OBVIOUS
<1> HIDE DEF others
\* It is closed, and skipped.
<1>12. CASE /\ i \in liveClosed /\ GoOn(others, Nobody) /\ UNCHANGED <<live, lost>>
            /\ publishing.at = Nobody
  <2>1. /\ FeedTypes' /\ publishing'.todo = others /\ publishing'.at = Nobody
    BY <1>3, <1>8, <1>9, <1>11, <1>12
  <2>2. Quiet(i)
    BY <1>2, <1>4, <1>11, <1>12, <2>1 DEF Quiet
  <2>3. Placed(i)' /\ Held(i)'
    BY <1>2, <1>4, <1>5, <2>1, ServedPlaced DEF Subscribed
  <2>4. Subscribed(i)'
    BY <1>2, <2>2, <2>3, QuietKeeps
  <2>5. QED BY <1>3, <1>7, <1>9, <1>11, <1>12, <2>4 DEF others
\* It has room.
<1>13. CASE /\ i \notin liveClosed /\ live' = [live EXCEPT ![i] = Append(live[i], Event)]
            /\ GoOn(others, Nobody) /\ UNCHANGED lost
  <2> DEFINE l == Append(live[i], Event)
  <2>1. l \in Seq(Int) /\ live' = [live EXCEPT ![i] = l]
    BY <1>10, <1>13
  <2>2. live'[i] = l /\ l = Append(live[i], Event)
    BY <1>2, <2>1 DEF FeedTypes
  <2> HIDE DEF l
  <2>3. /\ FeedTypes' /\ lost'[i] = lost[i] /\ Pending(i)' = 0 /\ publishing'.at = Nobody
    BY <1>3, <1>8, <1>9, <1>11, <1>13, <2>1
  <2>4. Subscribed(i)'
    BY <1>2, <1>4, <1>5, <1>13, <2>2, <2>3, EventArrives
  <2>5. QED BY <1>3, <1>7, <1>9, <1>11, <1>13, <2>1, <2>4 DEF others
\* The emitter waits for room, or will make it.
<1>14. CASE /\ i \notin liveClosed /\ GoOn(others, i) /\ UNCHANGED <<live, lost>>
  <2>1. /\ FeedTypes' /\ Pending(i)' = 1 /\ publishing'.at = i /\ publishing'.todo = others
    BY <1>3, <1>8, <1>9, <1>11, <1>14
  <2>2. Placed(i)' /\ Held(i)'
    BY <1>2, <1>4, <1>5, <1>11, <1>14, <2>1, ServedPlaced DEF Subscribed
  <2>3. Stream(i)' = Stream(i) /\ Start(i)' = Start(i)
    BY <1>4, <1>14 DEF Stream, Start
  <2>4. Ordered(i)' /\ Accounted(i)' /\ Unbroken(i)'
    BY <1>2, <1>4, <1>5, <1>14, <2>1, <2>3 DEF Subscribed, Ordered, Accounted, Unbroken
  <2>5. Subscribed(i)'
    BY <2>2, <2>4 DEF Subscribed
  <2>6. QED BY <1>3, <1>7, <1>9, <1>11, <1>14, <2>5 DEF others
\* The event is dropped, and under overflow_error the hand-out ends.
<1>15. CASE /\ i \notin liveClosed /\ UNCHANGED live /\ lost' = [lost EXCEPT ![i] = lost[i] + 1]
            /\ \/ policy = "drop_newest" /\ GoOn(others, Nobody)
               \/ policy = "overflow_error" /\ GoOn({}, Nobody)
  <2>1. PICK T \in SUBSET publishing.todo :
          /\ T = others \/ policy = "overflow_error"
          /\ i \notin T /\ GoOn(T, Nobody)
    BY <1>11, <1>15
  <2> DEFINE n == lost[i] + 1
  <2>2. n \in Nat /\ lost' = [lost EXCEPT ![i] = n]
    BY <1>3, <1>15
  <2>3. n = lost[i] + 1
    OBVIOUS
  <2> HIDE DEF n
  <2>4. FeedTypes' /\ live'[i] = live[i] /\ lost'[i] = n /\ Pending(i)' = 0 /\ publishing'.at = Nobody
    BY <1>3, <1>8, <1>9, <1>15, <2>1, <2>2
  <2>5. Subscribed(i)'
    BY <1>2, <1>4, <1>5, <1>15, <2>3, <2>4, EventIsDropped
  <2>6. QED BY <1>3, <1>7, <1>9, <1>15, <2>1, <2>2, <2>5 DEF others
\* The event that waited replaces the oldest.
<1>16. CASE /\ publishing.at = i /\ policy = "drop_oldest" /\ live[i] # <<>>
            /\ live' = [live EXCEPT ![i] = Append(Tail(live[i]), Event)]
            /\ lost' = [lost EXCEPT ![i] = lost[i] + 1] /\ GoOn(others, Nobody)
  <2> DEFINE l == Append(Tail(live[i]), Event)
             n == lost[i] + 1
  <2>1. l \in Seq(Int) /\ live' = [live EXCEPT ![i] = l]
    BY <1>3, <1>16, HeadTailProperties, AppendProperties
  <2>2. n \in Nat /\ lost' = [lost EXCEPT ![i] = n]
    BY <1>3, <1>16
  <2>3. n = lost[i] + 1 /\ l = Append(Tail(live[i]), Event)
    OBVIOUS
  <2> HIDE DEF l, n
  <2>4. FeedTypes' /\ live'[i] = l /\ lost'[i] = n /\ Pending(i)' = 0 /\ publishing'.at = Nobody
    BY <1>8, <1>11, <1>16, <2>1, <2>2
  <2>5. i \notin liveClosed
    BY <1>2, <1>16 DEF Placed
  <2>6. Subscribed(i)'
    BY <1>2, <1>4, <1>5, <1>16, <2>3, <2>4, <2>5, OldestGivesWay
  <2>7. QED BY <1>7, <1>11, <1>16, <2>1, <2>2, <2>6 DEF others
<1>17. publishing.at = i => others = publishing.todo /\ i \notin liveClosed
  BY <1>2 DEF Placed, others
<1>18. CASE PublishOne(i)
  <2>1. publishing.at = Nobody
    BY <1>18 DEF PublishOne
  <2>2. \/ i \in liveClosed /\ GoOn(others, Nobody) /\ UNCHANGED <<live, lost>>
        \/ /\ i \notin liveClosed /\ live' = [live EXCEPT ![i] = Append(live[i], Event)]
           /\ GoOn(others, Nobody) /\ UNCHANGED lost
        \/ i \notin liveClosed /\ GoOn(others, i) /\ UNCHANGED <<live, lost>>
        \/ /\ i \notin liveClosed /\ UNCHANGED live /\ lost' = [lost EXCEPT ![i] = lost[i] + 1]
           /\ \/ policy = "drop_newest" /\ GoOn(others, Nobody)
              \/ policy = "overflow_error" /\ GoOn({}, Nobody)
    BY <1>18 DEF PublishOne, OnFull, Drop, others
  <2>3. QED BY <1>12, <1>13, <1>14, <1>15, <2>1, <2>2
<1>19. CASE Unblock(i)
  <2>1. /\ publishing.at = i /\ live' = [live EXCEPT ![i] = Append(live[i], Event)]
        /\ GoOn(publishing.todo, Nobody) /\ UNCHANGED lost
    BY <1>19 DEF Unblock
  <2>2. QED BY <1>13, <1>17, <2>1
<1>20. CASE Evict(i)
  <2>1. publishing.at = i /\ policy = "drop_oldest" /\ GoOn(publishing.todo, Nobody)
    BY <1>20 DEF Evict
  <2>2. CASE live[i] = <<>> /\ live' = [live EXCEPT ![i] = <<Event>>] /\ UNCHANGED lost
    <3>1. Append(live[i], Event) = <<Event>>
      BY <2>2
    <3>2. QED BY <1>13, <1>17, <2>1, <2>2, <3>1
  <2>3. CASE /\ live[i] # <<>> /\ live' = [live EXCEPT ![i] = Append(Tail(live[i]), Event)]
             /\ lost' = [lost EXCEPT ![i] = lost[i] + 1]
    BY <1>16, <1>17, <2>1, <2>3
  <2>4. QED BY <1>20, <2>2, <2>3 DEF Evict, Drop
<1>21. QED BY <1>1, <1>18, <1>19, <1>20

\* An event is stored and will be handed to the members.
LEMMA EmitKeepsFeed ==
  ASSUME FeedInv, Emit
  PROVE  FeedInv'
PROOF
<1>1. FeedTypes /\ \A j \in Subs : Subscribed(j)
  BY DEF FeedInv
<1>2. /\ publishing = [todo |-> {}, at |-> Nobody]
      /\ publishing' = [todo |-> members, at |-> Nobody]
      /\ store' = Append(store, Len(store))
      /\ UNCHANGED <<policy, members, live, liveClosed, pump, replay, hand, out, closer,
                     cursor, joined, delivered, lost>>
  BY DEF Emit, LockFree, Idle, GoOn
<1>3. store \in Seq(Int) /\ Len(store) \in Nat /\ Nobody \notin Subs
  BY <1>1, LenProperties, FeedAssumption DEF FeedTypes, FeedAssumption, Nobody
<1>4. /\ store' \in Seq(Int) /\ Len(store') = Len(store) + 1
      /\ store'[Len(store) + 1] = Len(store)
      /\ \A k \in 1..Len(store) : store'[k] = store[k]
  BY <1>2, <1>3, AppendProperties
<1>5. \A k \in 1..Len(store') : store'[k] = k - 1
  <2>1. \A k \in 1..Len(store') : k \in 1..Len(store) \/ k = Len(store) + 1
    BY <1>3, <1>4
  <2>2. \A k \in 1..Len(store) : store'[k] = k - 1
    BY <1>1, <1>4 DEF FeedTypes
  <2>3. store'[Len(store) + 1] = (Len(store) + 1) - 1
    BY <1>3, <1>4
  <2>4. QED BY <2>1, <2>2, <2>3
<1>6. FeedTypes'
  BY <1>1, <1>2, <1>4, <1>5 DEF FeedTypes
<1>7. ASSUME NEW j \in Subs PROVE Subscribed(j)'
  <2>1. Subscribed(j) /\ Placed(j)
    BY <1>1 DEF Subscribed
  <2>2. Pending(j) = 0 /\ Pending(j)' = IF j \in members THEN 1 ELSE 0
    BY <1>2, <1>3 DEF Pending
  <2>3. Stream(j)' = Stream(j) /\ Start(j)' = Start(j)
    BY <1>2 DEF Stream, Start
  <2>4. Start(j) \in Int /\ lost[j] \in Nat /\ Len(Stream(j)) \in Nat /\ joined[j] \in Nat
    BY <1>1, BoundsAre, StreamIs, LenProperties
  <2>5. Placed(j)'
    <3>1. publishing'.todo = members /\ publishing'.at = Nobody
      BY <1>2
    <3>2. joined[j] <= Len(store) /\ joined[j] < Len(store')
      BY <1>3, <1>4, <2>1, <2>4 DEF Placed
    <3>3. joined[j] <= Len(store')
      BY <1>3, <1>4, <3>2, <2>4
    <3>4. QED BY <1>2, <1>3, <2>1, <3>1, <3>2, <3>3 DEF Placed, Made
  <2>6. Held(j)'
    BY <1>2, <2>1 DEF Subscribed, Held
  <2>7. Ordered(j)'
    <3> DEFINE lo == Start(j) + 1
               hi == Len(store) - 1 - Pending(j)
               top == Len(store') - 1 - Pending(j)'
    <3>1. lo \in Int /\ hi \in Int /\ top \in Int /\ hi <= top
      BY <1>3, <1>4, <2>2, <2>4
    <3>2. Climbs(Stream(j), lo, hi)
      BY <2>1 DEF Subscribed, Ordered
    <3> HIDE DEF lo, hi, top
    <3>3. Climbs(Stream(j), lo, top)
      BY <3>1, <3>2, ClimbWider
    <3>4. QED BY <2>3, <3>3 DEF Ordered, lo, top
  <2>8. Accounted(j)'
    <3>1. SUFFICES ASSUME policy # "overflow_error", Pending(j)' = 1 \/ j \in members
                   PROVE  Len(Stream(j)) + lost[j] + Pending(j)' = Len(store') - 1 - Start(j)
      BY <1>2, <2>3 DEF Accounted
    <3>2. j \in members /\ Pending(j)' = 1
      BY <2>2, <3>1
    <3>3. Len(Stream(j)) + lost[j] + 0 = Len(store) - 1 - Start(j)
      BY <2>1, <2>2, <3>1, <3>2 DEF Subscribed, Accounted
    <3>4. QED BY <1>3, <1>4, <2>4, <3>2, <3>3
  <2>9. Unbroken(j)'
    BY <1>2, <2>1, <2>3 DEF Subscribed, Unbroken
  <2>10. QED BY <2>5, <2>6, <2>7, <2>8, <2>9 DEF Subscribed
<1>8. QED BY <1>6, <1>7 DEF FeedInv

\* A replay is the log from the cursor on.
LEMMA ReplayIs ==
  ASSUME FeedTypes, NEW c \in -1..MaxEvents
  PROVE  /\ Replay(c) \in Seq(Int)
         /\ Len(Replay(c)) = IF c < Len(store) THEN Len(store) - 1 - c ELSE 0
         /\ \A k \in 1..Len(Replay(c)) : Replay(c)[k] = c + k
PROOF
<1>1. MaxEvents \in Nat /\ c \in Int /\ c >= -1
  BY FeedAssumption DEF FeedAssumption
<1>2. store \in Seq(Int) /\ Len(store) \in Nat
  BY LenProperties DEF FeedTypes
<1>3. \A k \in 1..Len(store) : store[k] = k - 1 /\ store[k] \in Int
  BY <1>2 DEF FeedTypes
<1> DEFINE m == c + 2
<1>4. /\ m \in Int /\ m >= 1 /\ Replay(c) = SubSeq(store, m, Len(store))
  BY <1>1 DEF Replay
<1>5. /\ SubSeq(store, m, Len(store)) \in Seq(Int)
      /\ Len(SubSeq(store, m, Len(store))) = IF m <= Len(store) THEN Len(store) - m + 1 ELSE 0
      /\ \A k \in 1..(Len(store) - m + 1) : SubSeq(store, m, Len(store))[k] = store[m + k - 1]
  <2>1. \A k \in m..Len(store) : store[k] \in Int
    BY <1>2, <1>3, <1>4
  <2>2. QED BY <1>2, <1>4, <2>1, SubSeqProperties
<1>6. ASSUME NEW k \in 1..Len(Replay(c)) PROVE Replay(c)[k] = c + k
  <2>1. Len(Replay(c)) = Len(store) - m + 1
    BY <1>2, <1>4, <1>5, <1>6
  <2>2. k \in 1..(Len(store) - m + 1) /\ m + k - 1 \in 1..Len(store)
    BY <1>2, <1>4, <1>6, <2>1
  <2>3. Replay(c)[k] = (m + k - 1) - 1
    BY <1>3, <1>4, <1>5, <2>2
  <2>4. QED BY <1>1, <2>2, <2>3
<1>7. Len(Replay(c)) = IF c < Len(store) THEN Len(store) - 1 - c ELSE 0
  BY <1>1, <1>2, <1>4, <1>5
<1>8. QED BY <1>4, <1>5, <1>6, <1>7

\* A subscription is made: it is for what follows its cursor.
LEMMA SubscribeKeeps ==
  ASSUME FeedInv, NEW i \in Subs, NEW c \in -1..MaxEvents, Subscribe(i, c)
  PROVE  FeedInv'
PROOF
<1>1. FeedTypes /\ \A j \in Subs : Subscribed(j)
  BY DEF FeedInv
<1>2. /\ publishing = [todo |-> {}, at |-> Nobody] /\ ~Made(i)
      /\ members' = members \cup {i} /\ replay' = [replay EXCEPT ![i] = Replay(c)]
      /\ pump' = [pump EXCEPT ![i] = "replaying"] /\ cursor' = [cursor EXCEPT ![i] = c]
      /\ joined' = [joined EXCEPT ![i] = Len(store)]
      /\ UNCHANGED <<policy, store, publishing, live, liveClosed, hand, out, closer,
                     delivered, lost>>
  BY DEF Subscribe, LockFree, Idle
<1>3. /\ Replay(c) \in Seq(Int)
      /\ Len(Replay(c)) = IF c < Len(store) THEN Len(store) - 1 - c ELSE 0
      /\ \A k \in 1..Len(Replay(c)) : Replay(c)[k] = c + k
  BY <1>1, ReplayIs
<1>4. /\ Len(store) \in Nat /\ c \in Int /\ c >= -1 /\ "replaying" \in PumpPhases
      /\ Nobody \notin Subs
  BY <1>1, LenProperties, FeedAssumption DEF FeedTypes, FeedAssumption, PumpPhases, Nobody
<1>5. FeedTypes'
  BY <1>1, <1>2, <1>3, <1>4 DEF FeedTypes
<1>6. ASSUME NEW j \in Subs \ {i} PROVE Subscribed(j)'
  <2>1. Untouched(j)
    BY <1>1, <1>2, <1>6 DEF Untouched, Quiet, FeedTypes
  <2>2. QED BY <1>1, <2>1, UntouchedKeeps
<1>7. Subscribed(i)'
  <2>1. /\ replay'[i] = Replay(c) /\ pump'[i] = "replaying" /\ cursor'[i] = c
        /\ joined'[i] = Len(store)
    BY <1>1, <1>2 DEF FeedTypes
  <2>2. /\ delivered[i] = <<>> /\ out[i] = <<>> /\ hand[i] = <<>> /\ live[i] = <<>>
        /\ lost[i] = 0 /\ i \notin liveClosed /\ closer[i] = "none" /\ Held(i)
    BY <1>1, <1>2 DEF Subscribed, Placed
  <2>3. Pending(i)' = 0
    BY <1>2, <1>4 DEF Pending
  <2>4. Stream(i)' = Replay(c)
    <3>1. Stream(i)' = <<>> \o <<>> \o Replay(c) \o <<>> \o <<>>
      BY <1>2, <2>1, <2>2 DEF Stream
    <3>2. <<>> \o <<>> = <<>> /\ <<>> \o Replay(c) = Replay(c) /\ Replay(c) \o <<>> = Replay(c)
      <4>1. <<>> \in Seq(Int)
        BY EmptySeq
      <4>2. QED BY <1>3, <4>1, ConcatEmptySeq
    <3>3. QED BY <3>1, <3>2
  <2>5. Start(i)' = IF c < Len(store) THEN c ELSE Len(store) - 1
    BY <2>1 DEF Start
  <2>6. Placed(i)'
    <3>1. Made(i)' /\ pump'[i] \notin {"unsubscribing", "gone"} /\ publishing'.at # i
      BY <1>2, <1>4, <2>1 DEF Made
    <3>2. joined'[i] <= Len(store')
      BY <1>2, <1>4, <2>1
    <3>3. QED BY <1>2, <2>2, <2>3, <3>1, <3>2 DEF Placed
  <2>7. Held(i)'
    BY <1>2, <2>1, <2>2 DEF Held
  <2>8. Ordered(i)'
    <3>1. Climbs(Replay(c), Start(i)' + 1, Len(store) - 1 - 0)
      <4>1. ASSUME NEW k \in 1..Len(Replay(c))
            PROVE  Replay(c)[k] >= Start(i)' + 1 /\ Replay(c)[k] <= Len(store) - 1 - 0
        <5>1. c < Len(store) /\ Len(Replay(c)) = Len(store) - 1 - c
          BY <1>3, <1>4, <4>1
        <5>2. Start(i)' = c /\ Replay(c)[k] = c + k /\ k <= Len(store) - 1 - c /\ k >= 1 /\ k \in Int
          BY <1>3, <1>4, <2>5, <4>1, <5>1
        <5>3. QED BY <1>4, <5>2
      <4>2. \A k \in 1..Len(Replay(c)) : \A m \in 1..Len(Replay(c)) :
              k < m => Replay(c)[k] < Replay(c)[m]
        BY <1>3, <1>4
      <4>3. QED BY <1>3, <4>1, <4>2 DEF Climbs
    <3>2. QED BY <1>2, <2>3, <2>4, <3>1 DEF Ordered
  <2>9. Accounted(i)'
    <3>1. Len(Replay(c)) + 0 + 0 = Len(store) - 1 - Start(i)'
      BY <1>3, <1>4, <2>5
    <3>2. QED BY <1>2, <2>2, <2>3, <2>4, <3>1 DEF Accounted
  <2>10. Unbroken(i)'
    <3>1. ASSUME NEW k \in 1..Len(Replay(c)) PROVE Replay(c)[k] = Start(i)' + k
      <4>1. c < Len(store)
        BY <1>3, <1>4, <3>1
      <4>2. QED BY <1>3, <2>5, <3>1, <4>1
    <3>2. QED BY <1>2, <2>2, <2>4, <3>1 DEF Unbroken
  <2>11. QED BY <2>6, <2>7, <2>8, <2>9, <2>10 DEF Subscribed
<1>8. QED BY <1>5, <1>6, <1>7 DEF FeedInv

\* FeedInv is inductive.
LEMMA FeedStarts == Init => FeedInv
PROOF
<1>1. SUFFICES ASSUME Init PROVE FeedInv
  OBVIOUS
<1>2. <<>> \in Seq(Int) /\ Len(<<>>) = 0 /\ MaxEvents \in Nat /\ Nobody \notin Subs
  BY EmptySeq, FeedAssumption DEF FeedAssumption, Nobody
<1>3. FeedTypes
  BY <1>1, <1>2 DEF Init, FeedTypes, Idle, PumpPhases
<1>4. ASSUME NEW i \in Subs PROVE Subscribed(i)
  <2>1. Pending(i) = 0
    BY <1>1, <1>2 DEF Init, Pending, Idle
  <2>2. Stream(i) = <<>>
    <3>1. Stream(i) = <<>> \o <<>> \o <<>> \o <<>> \o <<>>
      BY <1>1 DEF Init, Stream
    <3>2. <<>> \o <<>> = <<>>
      BY <1>2, ConcatEmptySeq
    <3>3. QED BY <3>1, <3>2
  <2>3. Start(i) = -1
    BY <1>1 DEF Init, Start
  <2>4. Placed(i)
    BY <1>1, <1>2, <2>1 DEF Init, Placed, Made, Idle
  <2>5. Held(i)
    BY <1>1, <1>2 DEF Init, Held
  <2>6. Ordered(i)
    BY <1>2, <2>2 DEF Ordered, Climbs
  <2>7. Accounted(i) /\ Unbroken(i)
    BY <1>1, <1>2, <2>1, <2>2, <2>3 DEF Init, Accounted, Unbroken
  <2>8. QED BY <2>4, <2>5, <2>6, <2>7 DEF Subscribed
<1>5. QED BY <1>3, <1>4 DEF FeedInv

LEMMA FeedSteps == FeedInv /\ [Next]_feedVars => FeedInv'
PROOF
<1>1. SUFFICES ASSUME FeedInv, [Next]_feedVars PROVE FeedInv'
  OBVIOUS
<1>2. CASE UNCHANGED feedVars
  <2>1. FeedTypes /\ \A j \in Subs : Subscribed(j)
    BY <1>1 DEF FeedInv
  <2>2. \A j \in Subs : Untouched(j)
    BY <1>2 DEF feedVars, Untouched, Quiet
  <2>3. \A j \in Subs : Subscribed(j)'
    BY <2>1, <2>2, UntouchedKeeps
  <2>4. FeedTypes'
    BY <1>2, <2>1 DEF feedVars, FeedTypes
  <2>5. QED BY <2>3, <2>4 DEF FeedInv
<1>3. CASE Emit \/ Publish
  BY <1>1, <1>3, EmitKeepsFeed, PublishKeeps
<1>4. CASE \E i \in Subs, c \in -1..MaxEvents : Subscribe(i, c)
  BY <1>1, <1>4, SubscribeKeeps
<1>5. CASE \E i \in Subs : Read(i) \/ CopyReplayed(i) \/ Take(i) \/ Forward(i)
  BY <1>1, <1>5, ReadKeeps, CopyKeeps, TakeKeeps, ForwardsKeep
<1>6. CASE \E i \in Subs : \/ Close(i) \/ Closing(i) \/ PruneIdle(i)
                           \/ Leave(i) \/ PumpUnsubscribes(i) \/ PumpGone(i)
  BY <1>1, <1>6, ClosingKeeps
<1>7. QED BY <1>1, <1>2, <1>3, <1>4, <1>5, <1>6 DEF Next, Pump

LEMMA FeedInvariant == Spec => []FeedInv
PROOF
BY FeedStarts, FeedSteps, PTL DEF Spec

\* A subscriber misses only what its own full channel cost it, and gets nothing it is not
\* for, whatever the others read, close or leave unread (Manager.Publish, publishOne).
THEOREM SubscribersLoseTheirOwn == Spec => []OnlyOwnLosses
PROOF
<1>1. FeedInv => OnlyOwnLosses
  <2>1. SUFFICES ASSUME FeedInv PROVE OnlyOwnLosses
    OBVIOUS
  <2>2. FeedTypes /\ members \subseteq Subs /\ \A i \in Subs : Subscribed(i)
    BY <2>1 DEF FeedInv, FeedTypes
  <2>3. ASSUME NEW i \in Subs
        PROVE  /\ Wanted(i) = (Start(i) + 1)..(Len(store) - 1)
               /\ Cardinality(Wanted(i)) = Len(store) - 1 - Start(i)
    <3> DEFINE lo == Start(i) + 1
               hi == Len(store) - 1
    <3>1. /\ Len(store) \in Nat /\ Start(i) \in Int /\ cursor[i] \in Int /\ cursor[i] >= -1
          /\ joined[i] \in Nat /\ joined[i] <= Len(store)
      BY <2>2, BoundsAre DEF Subscribed, Placed
    <3>2. Start(i) = IF cursor[i] < joined[i] THEN cursor[i] ELSE joined[i] - 1
      BY DEF Start
    <3>3. Wanted(i) = lo..hi
      BY <3>1, <3>2 DEF Wanted
    <3>4. lo \in Int /\ hi \in Int /\ lo <= hi + 1 /\ hi - lo + 1 = Len(store) - 1 - Start(i)
      BY <3>1, <3>2
    <3> HIDE DEF lo, hi
    <3>5. Cardinality(lo..hi) = IF lo > hi THEN 0 ELSE hi - lo + 1
      BY <3>4, FS_Interval
    <3>6. Cardinality(lo..hi) = hi - lo + 1
      BY <3>4, <3>5
    <3>7. QED BY <3>3, <3>4, <3>6 DEF lo, hi
  <2>4. ASSUME NEW i \in members, policy # "overflow_error"
        PROVE  Len(Stream(i)) + lost[i] + Pending(i) = Cardinality(Wanted(i))
    <3>1. i \in Subs /\ Accounted(i)
      BY <2>2 DEF Subscribed
    <3>2. Len(Stream(i)) + lost[i] + Pending(i) = Len(store) - 1 - Start(i)
      BY <2>4, <3>1 DEF Accounted
    <3>3. QED BY <2>3, <3>1, <3>2
  <2>5. ASSUME NEW i \in Subs, NEW k \in DOMAIN Stream(i)
        PROVE  Stream(i)[k] \in Wanted(i)
    <3>1. Stream(i) \in Seq(Int) /\ k \in 1..Len(Stream(i))
      BY <2>2, <2>5, StreamIs, LenProperties
    <3>2. Stream(i)[k] \in Int
      BY <3>1, ElementOfSeq
    <3>3. Stream(i)[k] >= Start(i) + 1 /\ Stream(i)[k] <= Len(store) - 1 - Pending(i)
      BY <2>2, <3>1 DEF Subscribed, Ordered, Climbs
    <3>4. Len(store) \in Nat /\ Start(i) \in Int /\ Pending(i) \in {0, 1}
      BY <2>2, BoundsAre
    <3>5. Stream(i)[k] \in (Start(i) + 1)..(Len(store) - 1)
      BY <3>2, <3>3, <3>4
    <3>6. QED BY <2>3, <3>5
  <2>6. QED BY <2>4, <2>5 DEF OnlyOwnLosses
<1>2. QED BY <1>1, FeedInvariant, PTL

\* What the clients have been handed changes only by Subscribe and Read.
LEMMA HandedIs ==
  ASSUME UNCHANGED <<cursor, joined, delivered>>, \A i \in Subs : Made(i)' <=> Made(i)
  PROVE  Handed' = Handed
PROOF
<1>1. \A i \in Subs : Start(i)' = Start(i)
  BY DEF Start
<1>2. ASSUME NEW i \in Subs
      PROVE  (IF Made(i) THEN <<Start(i)>> \o delivered[i] ELSE <<>>)'
               = IF Made(i) THEN <<Start(i)>> \o delivered[i] ELSE <<>>
  <2>1. CASE Made(i)
    BY <1>1, <2>1
  <2>2. CASE ~Made(i)
    BY <2>2
  <2>3. QED BY <2>1, <2>2
<1>3. QED BY <1>2 DEF Handed

\* Where the elements of two joined sequences stand.
LEMMA ConcatHas ==
  ASSUME NEW a \in Seq(Int), NEW b \in Seq(Int)
  PROVE  /\ a \o b \in Seq(Int) /\ Len(a \o b) = Len(a) + Len(b)
         /\ Len(a) \in Nat /\ Len(b) \in Nat
         /\ \A k \in 1..Len(a) : (a \o b)[k] = a[k] /\ k \in 1..Len(a \o b)
         /\ \A k \in 1..Len(b) :
              (a \o b)[Len(a) + k] = b[k] /\ Len(a) + k \in 1..Len(a \o b)
PROOF
<1> DEFINE m == Len(a)
           n == Len(b)
<1>1. m \in Nat /\ n \in Nat
  BY LenProperties
<1>2. /\ a \o b \in Seq(Int) /\ Len(a \o b) = m + n
      /\ \A k \in 1..(m + n) : (a \o b)[k] = IF k <= m THEN a[k] ELSE b[k - m]
  BY ConcatProperties
<1> HIDE DEF m, n
<1>3. ASSUME NEW k \in 1..m
      PROVE  (a \o b)[k] = a[k] /\ k \in 1..Len(a \o b)
  <2>1. k \in 1..(m + n) /\ k <= m
    BY <1>1, <1>3
  <2>2. QED BY <1>2, <2>1
<1>4. ASSUME NEW k \in 1..n
      PROVE  (a \o b)[m + k] = b[k] /\ m + k \in 1..Len(a \o b)
  <2>1. m + k \in 1..(m + n) /\ ~(m + k <= m) /\ (m + k) - m = k
    BY <1>1, <1>4
  <2>2. QED BY <1>2, <2>1
<1>5. QED BY <1>1, <1>2, <1>3, <1>4 DEF m, n

\* The sequence of a reader that was handed something.
LEMMA HandedSeq ==
  ASSUME FeedTypes, NEW i \in Subs
  PROVE  LET h == <<Start(i)>> \o delivered[i]
         IN /\ <<Start(i)>> \in Seq(Int) /\ h \in Seq(Int) /\ Len(h) = Len(delivered[i]) + 1
            /\ h[Len(h)] = IF Len(delivered[i]) = 0 THEN Start(i)
                           ELSE delivered[i][Len(delivered[i])]
            /\ h # <<>>
PROOF
<1> DEFINE d == delivered[i]
           b == <<Start(i)>>
           h == b \o d
<1>1. Start(i) \in Int /\ d \in Seq(Int) /\ Len(d) \in Nat
  BY BoundsAre, StreamIs, LenProperties
<1>2. b \in Seq(Int) /\ Len(b) = 1 /\ b[1] = Start(i)
  BY <1>1
<1> HIDE DEF b, d
<1>3. /\ h \in Seq(Int) /\ Len(h) = Len(b) + Len(d)
      /\ \A k \in 1..Len(b) : h[k] = b[k]
      /\ \A k \in 1..Len(d) : h[Len(b) + k] = d[k]
  BY <1>1, <1>2, ConcatHas
<1>4. Len(h) = Len(d) + 1 /\ Len(h) = 1 + Len(d) /\ 1 \in 1..Len(b)
  BY <1>1, <1>2, <1>3
<1>5. h[Len(h)] = IF Len(d) = 0 THEN Start(i) ELSE d[Len(d)]
  <2>1. CASE Len(d) = 0
    <3>1. Len(h) = 1
      BY <1>4, <2>1
    <3>2. QED BY <1>2, <1>3, <1>4, <2>1, <3>1
  <2>2. CASE Len(d) # 0
    <3>1. Len(d) \in 1..Len(d)
      BY <1>1, <2>2
    <3>2. QED BY <1>2, <1>3, <1>4, <2>2, <3>1
  <2>3. QED BY <2>1, <2>2
<1>6. h # <<>>
  <2>1. Len(h) # 0
    BY <1>1, <1>4
  <2>2. QED BY <1>3, <2>1, EmptySeq
<1>7. QED BY <1>2, <1>3, <1>4, <1>5, <1>6 DEF b, d

\* What a client reads is later than all it has read, and the next one of its stream.
LEMMA NextIsLater ==
  ASSUME FeedInv, NEW i \in Subs, out[i] # <<>>
  PROVE  LET e == Head(out[i])
             position == IF Len(delivered[i]) = 0 THEN Start(i)
                         ELSE delivered[i][Len(delivered[i])]
         IN /\ e \in Int /\ position \in Int /\ position < e /\ e <= Len(store) - 1
            /\ policy = "block_producer" => e = position + 1
PROOF
<1> DEFINE d == delivered[i]
           o == out[i]
           s == Stream(i)
           n == Len(d)
<1>1. FeedTypes /\ Ordered(i) /\ Unbroken(i)
  BY DEF FeedInv, Subscribed
<1>2. /\ d \in Seq(Int) /\ o \in Seq(Int) /\ d \o o \in Seq(Int) /\ replay[i] \in Seq(Int)
      /\ d \o o \o replay[i] \in Seq(Int) /\ hand[i] \in Seq(Int) /\ live[i] \in Seq(Int)
      /\ Before(i) \in Seq(Int) /\ s \in Seq(Int)
  BY <1>1, StreamIs
<1>3. n \in Nat /\ Len(o) \in Nat \ {0} /\ Head(o) = o[1] /\ Head(o) \in Int
  BY <1>2, LenProperties, EmptySeq, HeadTailProperties
<1> DEFINE c == d \o o
           r == c \o replay[i]
           f == Before(i)
<1>4. /\ \A k \in 1..Len(d) : c[k] = d[k] /\ k \in 1..Len(c)
      /\ \A k \in 1..Len(o) : c[Len(d) + k] = o[k] /\ Len(d) + k \in 1..Len(c)
      /\ \A k \in 1..Len(c) : s[k] = c[k] /\ k \in 1..Len(s)
  <2>1. /\ c \in Seq(Int) /\ r \in Seq(Int) /\ f \in Seq(Int) /\ f = r \o hand[i]
        /\ s = f \o live[i]
    BY <1>1, <1>2, StreamIs DEF Before
  <2> HIDE DEF r, f, s
  <2>2. \A k \in 1..Len(f) : s[k] = f[k] /\ k \in 1..Len(s)
    <3> DEFINE v == live[i]
    <3>1. v \in Seq(Int) /\ s = f \o v
      BY <1>2, <2>1
    <3> HIDE DEF v
    <3>2. \A k \in 1..Len(f) : (f \o v)[k] = f[k] /\ k \in 1..Len(f \o v)
      BY <2>1, <3>1, ConcatHas
    <3>3. QED BY <3>1, <3>2
  <2>3. \A k \in 1..Len(r) : f[k] = r[k] /\ k \in 1..Len(f)
    BY <1>2, <2>1, ConcatHas
  <2> HIDE DEF c
  <2>4. \A k \in 1..Len(c) : r[k] = c[k] /\ k \in 1..Len(r)
    BY <1>2, <2>1, ConcatHas DEF r
  <2> HIDE DEF d, o
  <2>5. /\ \A k \in 1..Len(d) : c[k] = d[k] /\ k \in 1..Len(c)
        /\ \A k \in 1..Len(o) : c[Len(d) + k] = o[k] /\ Len(d) + k \in 1..Len(c)
    BY <1>2, ConcatHas DEF c
  <2>6. QED BY <2>2, <2>3, <2>4, <2>5
<1> HIDE DEF c, r, f
<1>5. /\ \A k \in 1..n : s[k] = d[k]
      /\ n + 1 \in 1..Len(s) /\ s[n + 1] = o[1]
  <2>1. 1 \in 1..Len(o)
    BY <1>3
  <2>2. QED BY <1>4, <2>1
<1>6. /\ Len(store) \in Nat /\ Start(i) \in Int /\ Pending(i) \in {0, 1}
  BY <1>1, BoundsAre
<1> HIDE DEF d, o, s, n
<1>7. /\ \A k \in 1..Len(s) : s[k] >= Start(i) + 1 /\ s[k] <= Len(store) - 1 - Pending(i)
      /\ \A k \in 1..Len(s) : \A m \in 1..Len(s) : k < m => s[k] < s[m]
      /\ \A k \in 1..Len(s) : s[k] \in Int
  BY <1>1, <1>2, ElementOfSeq DEF Ordered, Climbs, s
<1>8. policy = "block_producer" => \A k \in 1..Len(s) : s[k] = Start(i) + k
  BY <1>1 DEF Unbroken, s
<1> DEFINE e == Head(o)
           position == IF n = 0 THEN Start(i) ELSE d[n]
<1>9. e = s[n + 1] /\ e \in Int /\ e <= Len(store) - 1 /\ e >= Start(i) + 1
  BY <1>3, <1>5, <1>6, <1>7
<1>10. CASE n = 0
  <2>1. e > Start(i)
    BY <1>6, <1>9
  <2>2. policy = "block_producer" => e = Start(i) + 1
    BY <1>5, <1>8, <1>9, <1>10
  <2>3. QED BY <1>6, <1>9, <1>10, <2>1, <2>2 DEF d, o, n
<1>11. CASE n # 0
  <2>1. n \in 1..n /\ n \in 1..Len(s) /\ n < n + 1
    BY <1>2, <1>3, <1>5, <1>11
  <2>2. position = s[n] /\ position \in Int
    BY <1>5, <1>7, <1>11, <2>1
  <2>3. position < e
    BY <1>5, <1>7, <1>9, <2>1, <2>2
  <2>4. policy = "block_producer" => e = position + 1
    BY <1>3, <1>5, <1>6, <1>8, <1>9, <2>1, <2>2
  <2>5. QED BY <1>9, <2>2, <2>3, <2>4 DEF d, o, n
<1>12. QED BY <1>10, <1>11

\* A client reads: the reader is handed a later event.
LEMMA ReadDelivers ==
  ASSUME FeedInv, NEW i \in Subs, Read(i)
  PROVE  Log!Deliver(i)
PROOF
<1> DEFINE d == delivered[i]
           h == <<Start(i)>> \o d
           e == Head(out[i])
<1>1. FeedTypes /\ Made(i)
  BY ReadKeeps DEF FeedInv
<1>2. /\ out[i] # <<>> /\ delivered' = [delivered EXCEPT ![i] = Append(d, e)]
      /\ UNCHANGED <<policy, store, pump, cursor, joined>>
  BY DEF Read
<1>3. Handed[i] = h
  BY <1>1 DEF Handed
<1>4. /\ h # <<>> /\ <<Start(i)>> \in Seq(Int)
      /\ h[Len(h)] = IF Len(d) = 0 THEN Start(i) ELSE d[Len(d)]
  BY <1>1, HandedSeq
<1>5. /\ e \in Int /\ h[Len(h)] \in Int /\ h[Len(h)] < e /\ e <= Len(store) - 1
      /\ policy = "block_producer" => e = h[Len(h)] + 1
  BY <1>2, <1>4, NextIsLater
<1>6. d \in Seq(Int) /\ Len(store) \in Nat
  BY <1>1, StreamIs, BoundsAre
<1> HIDE DEF d, e
<1>7. <<Start(i)>> \o Append(d, e) = Append(h, e)
  BY <1>4, <1>5, <1>6, AppendOver
<1>8. Handed' = [Handed EXCEPT ![i] = Append(Handed[i], e)]
  <2>1. \A j \in Subs : (Made(j)' <=> Made(j)) /\ Start(j)' = Start(j)
    BY <1>2 DEF Made, Start
  <2>2. delivered'[i] = Append(d, e) /\ \A j \in Subs : j # i => delivered'[j] = delivered[j]
    BY <1>1, <1>2 DEF FeedTypes
  <2>3. Handed' = [j \in Subs |-> (IF Made(j) THEN <<Start(j)>> \o delivered[j] ELSE <<>>)']
    BY DEF Handed
  <2>4. ASSUME NEW j \in Subs
        PROVE  Handed'[j] = IF j = i THEN Append(Handed[i], e) ELSE Handed[j]
    <3>1. CASE j = i
      BY <1>1, <1>3, <1>7, <2>1, <2>2, <2>3, <3>1
    <3>2. CASE j # i
      <4>1. delivered'[j] = delivered[j] /\ Start(j)' = Start(j) /\ (Made(j)' <=> Made(j))
        BY <2>1, <2>2, <3>2
      <4>2. CASE Made(j)
        BY <2>3, <3>2, <4>1, <4>2 DEF Handed
      <4>3. CASE ~Made(j)
        BY <2>3, <3>2, <4>1, <4>3 DEF Handed
      <4>4. QED BY <4>2, <4>3
    <3>3. QED BY <3>1, <3>2
  <2>5. Handed = [j \in Subs |-> Handed[j]] /\ Handed' = [j \in Subs |-> Handed'[j]]
    BY <2>3 DEF Handed
  <2>6. QED BY <2>4, <2>5
<1>9. h[Len(h)] + 1 <= e /\ e \in (h[Len(h)] + 1)..(Len(store) - 1)
  BY <1>5, <1>6
<1>10. policy # "block_producer" \/ e = h[Len(h)] + 1
  BY <1>5
<1>11. UNCHANGED <<policy # "block_producer", Len(store) - 1>>
  BY <1>2
<1>12. QED BY <1>3, <1>4, <1>8, <1>9, <1>10, <1>11 DEF Log!Deliver

\* A subscription is made: a reader starts in the log.
LEMMA SubscribeAttaches ==
  ASSUME FeedInv, NEW i \in Subs, NEW c \in -1..MaxEvents, Subscribe(i, c)
  PROVE  Log!Attach(i)
PROOF
<1>1. FeedTypes /\ Placed(i)
  BY DEF FeedInv, Subscribed
<1>2. /\ ~Made(i) /\ pump' = [pump EXCEPT ![i] = "replaying"]
      /\ cursor' = [cursor EXCEPT ![i] = c] /\ joined' = [joined EXCEPT ![i] = Len(store)]
      /\ UNCHANGED <<policy, store, delivered>>
  BY DEF Subscribe
<1>3. delivered[i] = <<>> /\ Handed[i] = <<>>
  BY <1>1, <1>2 DEF Placed, Handed
<1>4. Len(store) \in Nat /\ c \in Int /\ c >= -1
  BY <1>1, BoundsAre, FeedAssumption DEF FeedAssumption
<1> DEFINE start == IF c < Len(store) THEN c ELSE Len(store) - 1
<1>5. start \in -1..(Len(store) - 1) /\ start \in Int
  BY <1>4
<1>6. Start(i)' = start /\ Made(i)'
  BY <1>1, <1>2 DEF Start, Made, FeedTypes
<1> HIDE DEF start
<1>7. <<start>> \o <<>> = <<start>>
  <2>1. <<start>> \in Seq(Int)
    BY <1>5
  <2>2. QED BY <2>1, ConcatEmptySeq
<1>8. Handed' = [Handed EXCEPT ![i] = <<start>>]
  <2>1. Handed' = [j \in Subs |-> (IF Made(j) THEN <<Start(j)>> \o delivered[j] ELSE <<>>)']
    BY DEF Handed
  <2>2. ASSUME NEW j \in Subs
        PROVE  Handed'[j] = IF j = i THEN <<start>> ELSE Handed[j]
    <3>1. CASE j = i
      BY <1>2, <1>3, <1>6, <1>7, <2>1, <3>1
    <3>2. CASE j # i
      <4>1. Start(j)' = Start(j) /\ (Made(j)' <=> Made(j)) /\ delivered'[j] = delivered[j]
        BY <1>1, <1>2, <3>2 DEF Start, Made, FeedTypes
      <4>2. CASE Made(j)
        BY <2>1, <3>2, <4>1, <4>2 DEF Handed
      <4>3. CASE ~Made(j)
        BY <2>1, <3>2, <4>1, <4>3 DEF Handed
      <4>4. QED BY <4>2, <4>3
    <3>3. QED BY <3>1, <3>2
  <2>3. Handed = [j \in Subs |-> Handed[j]] /\ Handed' = [j \in Subs |-> Handed'[j]]
    BY <2>1 DEF Handed
  <2>4. QED BY <2>2, <2>3
<1>9. UNCHANGED <<policy # "block_producer", Len(store) - 1>>
  BY <1>2
<1>10. QED BY <1>3, <1>5, <1>8, <1>9 DEF Log!Attach

\* Every step of the feed is one of the broadcast, or none of a client's business.
LEMMA StepIsBroadcast ==
  ASSUME FeedInv, [Next]_feedVars
  PROVE  [Log!Next]_(Log!logVars)
PROOF
<1>1. FeedTypes
  BY DEF FeedInv
<1>2. SUFFICES \/ Log!Next
               \/ UNCHANGED <<policy # "block_producer", Len(store) - 1, Handed>>
  BY DEF Log!logVars
<1>3. ASSUME UNCHANGED <<policy, store, cursor, joined, delivered>>,
             \A i \in Subs : Made(i)' <=> Made(i)
      PROVE  UNCHANGED <<policy # "block_producer", Len(store) - 1, Handed>>
  BY <1>3, HandedIs
<1>4. CASE Emit
  <2>1. /\ store' = Append(store, Len(store))
        /\ UNCHANGED <<policy, pump, cursor, joined, delivered>>
    BY <1>4 DEF Emit
  <2>2. Len(store) \in Nat /\ Len(store') = Len(store) + 1
    BY <1>1, <2>1, LenProperties, AppendProperties DEF FeedTypes
  <2>3. Handed' = Handed
    BY <2>1, HandedIs DEF Made
  <2>4. Log!Publish
    BY <2>1, <2>2, <2>3 DEF Log!Publish
  <2>5. QED BY <2>4 DEF Log!Next
<1>5. CASE Publish
  <2>1. UNCHANGED <<policy, store, pump, cursor, joined, delivered>>
    BY <1>5 DEF Publish, PublishOne, Unblock, Evict
  <2>2. QED BY <1>3, <2>1 DEF Made
<1>6. CASE \E i \in Subs, c \in -1..MaxEvents : Subscribe(i, c)
  BY <1>6, SubscribeAttaches DEF Log!Next
<1>7. CASE \E i \in Subs : Read(i)
  BY <1>7, ReadDelivers DEF Log!Next
<1>8. CASE \E i \in Subs : Close(i) \/ Closing(i) \/ PruneIdle(i) \/ Take(i) \/ Forward(i)
  <2>1. UNCHANGED <<policy, store, pump, cursor, joined, delivered>>
    BY <1>8 DEF Close, Closing, CloseUnsubscribes, CloseReturns, PruneIdle, Take, Forward
  <2>2. QED BY <1>3, <2>1 DEF Made
<1>9. CASE \E i \in Subs : CopyReplayed(i) \/ Leave(i) \/ PumpUnsubscribes(i) \/ PumpGone(i)
  <2>1. PICK i \in Subs : CopyReplayed(i) \/ Leave(i) \/ PumpUnsubscribes(i) \/ PumpGone(i)
    BY <1>9
  <2>2. UNCHANGED <<policy, store, cursor, joined, delivered>> /\ Made(i)
    BY <2>1 DEF CopyReplayed, Leave, PumpUnsubscribes, PumpGone, Made
  <2>3. \E p \in {"replaying", "forwarding", "leaving", "unsubscribing", "gone"} :
          pump' = [pump EXCEPT ![i] = p]
    <3>1. CASE CopyReplayed(i)
      <4>1. pump[i] = "replaying" /\ (pump' = pump \/ pump' = [pump EXCEPT ![i] = "forwarding"])
        BY <3>1 DEF CopyReplayed
      <4>2. pump = [pump EXCEPT ![i] = pump[i]]
        BY <1>1 DEF FeedTypes
      <4>3. QED BY <4>1, <4>2
    <3>2. CASE Leave(i) \/ PumpUnsubscribes(i) \/ PumpGone(i)
      BY <3>2 DEF Leave, PumpUnsubscribes, PumpGone
    <3>3. QED BY <2>1, <3>1, <3>2
  <2>4. \A j \in Subs : Made(j)' <=> Made(j)
    BY <1>1, <2>2, <2>3 DEF Made, FeedTypes
  <2>5. QED BY <1>3, <2>2, <2>4
<1>10. CASE UNCHANGED feedVars
  <2>1. UNCHANGED <<policy, store, pump, cursor, joined, delivered>>
    BY <1>10 DEF feedVars
  <2>2. QED BY <1>3, <2>1 DEF Made
<1>11. QED BY <1>4, <1>5, <1>6, <1>7, <1>8, <1>9, <1>10 DEF Next, Pump

\* Whatever the pumps, the policy and the closing do, a client sees the log in order, from
\* its cursor on, each event once, and without a hole under block_producer.
THEOREM FeedImplementsBroadcast == Spec => ImplementsBroadcast
PROOF
<1>1. Init => Log!Init
  <2>1. SUFFICES ASSUME Init PROVE Log!Init
    OBVIOUS
  <2>2. store = <<>> /\ Len(store) - 1 = -1
    BY <2>1, EmptySeq DEF Init
  <2>3. Handed = [i \in Subs |-> <<>>]
    BY <2>1 DEF Init, Handed, Made
  <2>4. (policy # "block_producer") \in BOOLEAN
    OBVIOUS
  <2>5. QED BY <2>2, <2>3, <2>4 DEF Log!Init
<1>2. QED BY <1>1, FeedInvariant, StepIsBroadcast, PTL
          DEF ImplementsBroadcast, Log!Spec, Spec
-------------------------------------------------------------------------------
\* Definitions and requests, and what a run has in hand at each of its steps.
AgentNames == {"explore", "reviewer"}
Tools == {"Bash", "Read"}
Definitions == {Shell, Posing, Reviewer, Builtin}
Wishes == [agent : AgentNames, tools : SUBSET Tools]
Resolving ==
  [step : {"resolve"}, agent : AgentNames, batch : Nat, request : SUBSET Tools,
   left : Seq(ToSet(AgentDirs)), found : Definitions \cup {NoAgent}, disturbed : BOOLEAN]
Working ==
  [step : {"worktree", "execute"}, agent : AgentNames, batch : Nat, request : SUBSET Tools,
   definition : Definitions, tools : SUBSET Tools, asListed : BOOLEAN]
Writing ==
  [step : {"transcript"}, agent : AgentNames, batch : Nat, request : SUBSET Tools,
   definition : Definitions, tools : SUBSET Tools, asListed : BOOLEAN, session : Nat]
Results ==
  [ok : {TRUE}, path : Nat \X AgentNames \X Nat, batch : Nat, agent : AgentNames,
   request : SUBSET Tools, definition : Definitions, tools : SUBSET Tools,
   asListed : BOOLEAN]
Ended == [step : {"done"}, result : Results \cup {Failed}]

AgentTypes ==
  /\ agentFiles \in [ToSet(AgentDirs) -> [listable : BOOLEAN, files : {<<>>, Contents}]]
  /\ numbers \in [Runners -> Nat]
  /\ runs \in [Calls -> {NotRunning} \cup Resolving \cup Working \cup Writing \cup Ended]
  /\ batchOf \in [Runners -> [requests : Seq(Wishes), returned : Seq(Results)]]
  /\ \A r \in Runners : Len(batchOf[r].requests) <= Width
  /\ batches \in Nat

\* What a run has read of the directories while nobody wrote to them: no definition, but for
\* one of the first plugin when the second is still to be read.
SoFar(k) ==
  LET n == Len(k.left)
  IN /\ n <= 3 => InDir("project", k.agent) = NoAgent
     /\ n = 2 => k.found = InDir("plugin1", k.agent)
     /\ n <= 1 => FromPlugins(k.agent) = NoAgent
     /\ n = 0 => InDir("user", k.agent) = NoAgent
     /\ n # 2 => k.found = NoAgent

\* The tools are narrowed from what the definition says and the request w asks for.
Narrowed(k, w) ==
  /\ k.definition.agent = w.agent /\ k.agent = w.agent /\ k.request = w.tools
  /\ k.tools = MergedTools(k.definition, w.tools) /\ k.asListed

\* A result is of its call, and its transcript is in its place or another runner's is.
ResultHolds(c, result, w) ==
  /\ Narrowed(result, w)
  /\ result.path[3] <= numbers[c[1]] /\ result.path \in DOMAIN transcripts
  /\ \/ transcripts[result.path] = [by |-> c, batch |-> result.batch]
     \/ transcripts[result.path].by[1] # c[1]

RunHolds(c) ==
  LET k == runs[c]
      n == Len(batchOf[c[1]].requests)
      w == batchOf[c[1]].requests[c[2]]
  IN k.step # "none" =>
       /\ c[2] <= n
       /\ k.step = "resolve" =>
            /\ k.agent = w.agent /\ k.request = w.tools
            /\ Len(k.left) <= 4
            /\ \A i \in 1..Len(k.left) : k.left[i] = AgentDirs[4 - Len(k.left) + i]
            /\ k.found # NoAgent => k.found.agent = k.agent
            /\ ~k.disturbed => SoFar(k)
       /\ k.step \in {"worktree", "execute", "transcript"} => Narrowed(k, w)
       /\ k.step = "done" /\ k.result.ok => ResultHolds(c, k.result, w)

\* A runner has counted the numbers of its transcripts.
NumbersCounted ==
  \A p \in DOMAIN transcripts :
    /\ p \in Nat \X AgentNames \X Nat /\ transcripts[p].by \in Calls
    /\ p[3] <= numbers[transcripts[p].by[1]]

\* What a runner returned answers the requests of its batch.
Answered(r) ==
  \A i \in DOMAIN batchOf[r].returned :
    /\ i <= Len(batchOf[r].requests)
    /\ ResultHolds(<<r, i>>, batchOf[r].returned[i], batchOf[r].requests[i])

AgentInv ==
  /\ AgentTypes /\ NumbersCounted
  /\ \A c \in Calls : RunHolds(c)
  /\ \A r \in Runners : Answered(r)

\* What a run can have in hand.
InHands == {NotRunning} \cup Resolving \cup Working \cup Writing \cup Ended

\* What a directory has under a name is a definition of that name.
LEMMA InDirIs ==
  ASSUME AgentTypes, NEW d \in ToSet(AgentDirs), NEW agent \in AgentNames
  PROVE  /\ InDir(d, agent) \in Definitions \cup {NoAgent}
         /\ InDir(d, agent) # NoAgent => InDir(d, agent).agent = agent
PROOF
<1> DEFINE files == agentFiles[d].files
           mine == {i \in DOMAIN files : files[i].agent = agent /\ AllowsFile(d, files[i])}
<1>1. files = <<>> \/ files = Contents
  BY DEF AgentTypes
<1>2. InDir(d, agent) = IF mine = {} THEN NoAgent ELSE files[Max(mine)]
  BY DEF InDir
<1>3. CASE files = <<>>
  <2>1. mine = {}
    BY <1>3
  <2>2. QED BY <1>2, <2>1
<1>4. CASE files = Contents
  <2>1. /\ DOMAIN Contents = 1..3 /\ Contents[1] = Shell /\ Contents[2] = Posing
        /\ Contents[3] = Reviewer
    BY DEF Contents
  <2>2. mine \in SUBSET (1..3)
    BY <1>4, <2>1
  <2>3. mine # {} => Max(mine) \in mine
    <3> HIDE DEF mine
    <3>1. ASSUME mine # {}
          PROVE  \E x \in mine : \A y \in mine : x >= y
      <4> \A y \in mine : y = 1 \/ y = 2 \/ y = 3
        BY <2>2
      <4>1. CASE 3 \in mine
        BY <4>1
      <4>2. CASE 3 \notin mine /\ 2 \in mine
        BY <4>2
      <4>3. CASE 3 \notin mine /\ 2 \notin mine
        BY <3>1, <4>3
      <4>4. QED BY <4>1, <4>2, <4>3
    <3>2. QED BY <3>1 DEF Max
  <2>4. \A i \in mine : files[i].agent = agent /\ files[i] \in Definitions
    BY <1>4, <2>1 DEF Definitions
  <2> HIDE DEF mine, files
  <2>5. QED BY <1>2, <2>3, <2>4
<1>5. QED BY <1>1, <1>3, <1>4

\* So does what the plugins have, and what is built in.
LEMMA FoundIs ==
  ASSUME AgentTypes, NEW agent \in AgentNames
  PROVE  /\ FromPlugins(agent) \in Definitions \cup {NoAgent}
         /\ FromPlugins(agent) # NoAgent => FromPlugins(agent).agent = agent
         /\ BuiltIn(agent) \in Definitions \cup {NoAgent}
         /\ BuiltIn(agent) # NoAgent => BuiltIn(agent).agent = agent
PROOF
<1>1. \A d \in {"plugin1", "plugin2"} : d \in ToSet(AgentDirs)
  BY DEF ToSet, AgentDirs
<1>2. \A d \in {"plugin1", "plugin2"} :
        /\ InDir(d, agent) \in Definitions \cup {NoAgent}
        /\ InDir(d, agent) # NoAgent => InDir(d, agent).agent = agent
  BY <1>1, InDirIs
<1>3. QED BY <1>2 DEF FromPlugins, FirstOf, BuiltIn, Definitions, Builtin

\* The names of the directories, in the order Resolve reads them.
LEMMA Dirs ==
  /\ AgentDirs[1] = "project" /\ AgentDirs[2] = "plugin1" /\ AgentDirs[3] = "plugin2"
  /\ AgentDirs[4] = "user" /\ Len(AgentDirs) = 4 /\ AgentDirs \in Seq(ToSet(AgentDirs))
  /\ ToSet(AgentDirs) = {"project", "plugin1", "plugin2", "user"}
PROOF
<1>1. ToSet(AgentDirs) = {"project", "plugin1", "plugin2", "user"}
  BY DEF ToSet, AgentDirs
<1>2. AgentDirs \in Seq(ToSet(AgentDirs))
  BY <1>1 DEF AgentDirs
<1>3. QED BY <1>1, <1>2 DEF AgentDirs

\* A definition that was settled on is none, or one of its name, and has its tools.
LEMMA MergedIs ==
  ASSUME NEW definition \in Definitions, NEW tools \in SUBSET Tools
  PROVE  /\ MergedTools(definition, tools) \in SUBSET Tools
         /\ \A t \in MergedTools(definition, tools) :
              /\ definition.allowed = {} \/ t \in definition.allowed
              /\ tools = {} \/ t \in tools
              /\ t \notin definition.denied
PROOF
<1>1. definition.allowed \in SUBSET Tools
  BY DEF Definitions, Shell, Posing, Reviewer, Builtin, Tools
<1>2. QED BY <1>1 DEF MergedTools

\* One run moves, and no result loses what holds of it.
LEMMA RunMoves ==
  ASSUME AgentInv, NEW c \in Calls, NEW k \in InHands, runs' = [runs EXCEPT ![c] = k],
         UNCHANGED <<agentFiles, batchOf, batches>>,
         numbers' \in [Runners -> Nat], NumbersCounted',
         \A d \in Calls, w \in Wishes : \A result \in Results :
           ResultHolds(d, result, w) => ResultHolds(d, result, w)',
         RunHolds(c)'
  PROVE  AgentInv'
PROOF
<1>1. AgentTypes /\ runs \in [Calls -> InHands]
  BY DEF AgentInv, AgentTypes, InHands
<1>2. runs' \in [Calls -> InHands] /\ \A d \in Calls : runs'[d] = IF d = c THEN k ELSE runs[d]
  BY <1>1
<1>3. AgentTypes'
  BY <1>1, <1>2 DEF AgentTypes, InHands
<1>4. \A r \in Runners : /\ batchOf[r].requests \in Seq(Wishes)
                         /\ batchOf[r].returned \in Seq(Results)
                         /\ Len(batchOf[r].requests) \in Nat
                         /\ Len(batchOf[r].requests) <= Width
  BY <1>1, LenProperties DEF AgentTypes
<1>5. ASSUME NEW d \in Calls, d # c
      PROVE  RunHolds(d)'
  <2> DEFINE h == runs[d]
             w == batchOf[d[1]].requests[d[2]]
  <2>1. RunHolds(d) /\ runs'[d] = h /\ batchOf' = batchOf
    BY <1>2, <1>5 DEF AgentInv
  <2>2. d[1] \in Runners /\ d[2] \in 1..Width
    BY DEF Calls
  <2>3. h.step # "none" => w \in Wishes
    <3>1. h.step # "none" => d[2] <= Len(batchOf[d[1]].requests)
      BY <2>1 DEF RunHolds
    <3>2. d[2] \in Nat /\ 1 <= d[2]
      BY <2>2, SubagentAssumption DEF SubagentAssumption
    <3>3. h.step # "none" => d[2] \in 1..Len(batchOf[d[1]].requests)
      BY <1>4, <2>2, <3>1, <3>2
    <3>4. QED BY <1>4, <2>2, <3>3, ElementOfSeq
  <2>4. h.step = "done" /\ h.result.ok => h.result \in Results
    <3>1. h \in InHands
      BY <1>1
    <3>2. h.step = "done" => h \in Ended
      BY <3>1 DEF InHands, NotRunning, Resolving, Working, Writing
    <3>3. QED BY <3>2 DEF Ended, Failed
  <2>5. h.step = "done" /\ h.result.ok => ResultHolds(d, h.result, w)'
    BY <2>1, <2>3, <2>4 DEF RunHolds
  <2>6. SoFar(h) => SoFar(runs[d])'
    <3>1. \A e, agent : InDir(e, agent)' = InDir(e, agent)
      BY DEF InDir
    <3>2. \A agent : FromPlugins(agent)' = FromPlugins(agent)
      BY <3>1 DEF FromPlugins
    <3>3. QED BY <2>1, <3>1, <3>2 DEF SoFar
  <2>7. QED BY <2>1, <2>5, <2>6 DEF RunHolds
<1>6. ASSUME NEW r \in Runners, NEW i \in DOMAIN batchOf[r].returned
      PROVE  /\ i <= Len(batchOf[r].requests)
             /\ ResultHolds(<<r, i>>, batchOf[r].returned[i], batchOf[r].requests[i])'
  <2>1. /\ i <= Len(batchOf[r].requests) /\ i \in 1..Len(batchOf[r].returned)
        /\ ResultHolds(<<r, i>>, batchOf[r].returned[i], batchOf[r].requests[i])
    BY <1>4 DEF AgentInv, Answered
  <2>2. i \in 1..Width /\ i \in 1..Len(batchOf[r].requests)
    <3>1. Len(batchOf[r].returned) \in Nat /\ Width \in Nat
      BY <1>4, LenProperties, SubagentAssumption DEF SubagentAssumption
    <3>2. QED BY <1>4, <2>1, <3>1
  <2>3. <<r, i>> \in Calls
    BY <2>2 DEF Calls
  <2>4. batchOf[r].returned[i] \in Results /\ batchOf[r].requests[i] \in Wishes
    BY <1>4, <2>1, <2>2, ElementOfSeq
  <2>5. QED BY <2>1, <2>3, <2>4
<1>7. \A d \in Calls : RunHolds(d)'
  BY <1>5
<1>8. batchOf' = batchOf
  OBVIOUS
<1>9. QED BY <1>3, <1>6, <1>7, <1>8 DEF AgentInv, Answered

\* As long as transcripts are left alone and numbers only grow, results keep what holds.
LEMMA ResultsRest ==
  ASSUME AgentTypes, numbers' \in [Runners -> Nat], \A r \in Runners : numbers[r] <= numbers'[r],
         UNCHANGED transcripts
  PROVE  /\ \A c \in Calls, w \in Wishes : \A result \in Results :
              ResultHolds(c, result, w) => ResultHolds(c, result, w)'
         /\ NumbersCounted => NumbersCounted'
PROOF
<1>1. ASSUME NEW c \in Calls, NEW w \in Wishes, NEW result \in Results,
             ResultHolds(c, result, w)
      PROVE  ResultHolds(c, result, w)'
  <2>1. c[1] \in Runners /\ result.path[3] \in Nat
    BY DEF Calls, Results
  <2>2. result.path[3] <= numbers'[c[1]]
    <3>1. numbers[c[1]] \in Nat /\ numbers'[c[1]] \in Nat /\ numbers[c[1]] <= numbers'[c[1]]
      BY <2>1 DEF AgentTypes
    <3>2. QED BY <1>1, <2>1, <3>1 DEF ResultHolds
  <2>3. QED BY <1>1, <2>2 DEF ResultHolds, Narrowed
<1>2. NumbersCounted => NumbersCounted'
  <2>1. SUFFICES ASSUME NumbersCounted, NEW p \in DOMAIN transcripts
                 PROVE  p[3] <= numbers'[transcripts[p].by[1]]
    BY DEF NumbersCounted
  <2>2. /\ transcripts[p].by[1] \in Runners /\ p[3] \in Nat
        /\ p[3] <= numbers[transcripts[p].by[1]]
    BY <2>1 DEF NumbersCounted, Calls
  <2>3. \A r \in Runners : numbers[r] \in Nat /\ numbers'[r] \in Nat
    BY DEF AgentTypes
  <2>4. QED BY <2>2, <2>3
<1>3. QED BY <1>1, <1>2

\* What a run in its step has in hand.
LEMMA StepIs ==
  ASSUME AgentTypes, NEW c \in Calls
  PROVE  /\ runs[c] \in InHands
         /\ runs[c].step = "resolve" => runs[c] \in Resolving
         /\ runs[c].step \in {"worktree", "execute"} => runs[c] \in Working
         /\ runs[c].step = "transcript" => runs[c] \in Writing
         /\ runs[c].step = "done" => runs[c] \in Ended
PROOF
<1>1. runs[c] \in InHands
  BY DEF AgentTypes, InHands
<1>2. QED BY <1>1 DEF InHands, NotRunning, Resolving, Working, Writing, Ended

\* The request a run is for.
LEMMA WishIs ==
  ASSUME AgentInv, NEW c \in Calls, runs[c].step # "none"
  PROVE  /\ c[1] \in Runners /\ c[2] \in 1..Len(batchOf[c[1]].requests)
         /\ batchOf[c[1]].requests[c[2]] \in Wishes
PROOF
<1>1. c[1] \in Runners /\ c[2] \in 1..Width
  BY DEF Calls
<1>2. RunHolds(c) /\ batchOf[c[1]].requests \in Seq(Wishes)
      /\ Len(batchOf[c[1]].requests) \in Nat
  BY <1>1, LenProperties DEF AgentInv, AgentTypes
<1>3. c[2] <= Len(batchOf[c[1]].requests)
  BY <1>2 DEF RunHolds
<1>4. c[2] \in 1..Len(batchOf[c[1]].requests)
  BY <1>1, <1>2, <1>3, SubagentAssumption DEF SubagentAssumption
<1>5. QED BY <1>1, <1>2, <1>4, ElementOfSeq

\* A run goes on to a step that holds, or ends in failure.
LEMMA RunGoesOn ==
  ASSUME AgentInv, NEW c \in Calls, NEW k \in InHands, runs[c].step # "none",
         runs' = [runs EXCEPT ![c] = k],
         UNCHANGED <<agentFiles, batchOf, batches, transcripts>>,
         numbers' \in [Runners -> Nat], \A r \in Runners : numbers[r] <= numbers'[r],
         (k.step = "done" /\ ~k.result.ok) \/ RunHolds(c)'
  PROVE  AgentInv'
PROOF
<1>1. AgentTypes /\ NumbersCounted /\ RunHolds(c) /\ runs'[c] = k
  BY DEF AgentInv, AgentTypes
<1>2. RunHolds(c)'
  BY <1>1 DEF RunHolds
<1>3. /\ \A d \in Calls, w \in Wishes : \A result \in Results :
           ResultHolds(d, result, w) => ResultHolds(d, result, w)'
      /\ NumbersCounted'
  BY <1>1, ResultsRest
<1>4. QED BY <1>2, <1>3, RunMoves

\* A run that has failed.
LEMMA Failure ==
  ASSUME NEW c, Ends(c, Failed)
  PROVE  \E k \in InHands : /\ runs' = [runs EXCEPT ![c] = k]
                            /\ k.step = "done" /\ ~k.result.ok
PROOF
<1>1. [step |-> "done", result |-> Failed] \in InHands
  BY DEF InHands, Ended
<1>2. QED BY <1>1 DEF Ends, Failed

\* Resolve has settled on a definition of the name, and on the one Discover lists if nobody
\* wrote to a directory since it began.
LEMMA Settles ==
  ASSUME AgentInv, NEW c \in Calls, runs[c].step = "resolve",
         NEW definition \in Definitions \cup {NoAgent}, Settle(c, definition),
         UNCHANGED <<agentFiles, numbers, batchOf, batches, transcripts>>,
         definition # NoAgent => definition.agent = runs[c].agent,
         definition # NoAgent /\ ~runs[c].disturbed => definition = Discovered(runs[c].agent)
  PROVE  AgentInv'
PROOF
<1> DEFINE h == runs[c]
           w == batchOf[c[1]].requests[c[2]]
<1>1. /\ AgentTypes /\ h \in Resolving /\ RunHolds(c) /\ runs \in [Calls -> InHands]
      /\ numbers' \in [Runners -> Nat] /\ \A r \in Runners : numbers[r] <= numbers'[r]
  BY StepIs DEF AgentInv, AgentTypes, InHands
<1>2. CASE definition = NoAgent
  BY <1>1, <1>2, Failure, RunGoesOn DEF Settle
<1>3. CASE definition # NoAgent
  <2> DEFINE k == [step |-> "worktree", agent |-> h.agent, batch |-> h.batch,
                   request |-> h.request, definition |-> definition,
                   tools |-> MergedTools(definition, h.request),
                   asListed |-> h.disturbed \/ definition = Discovered(h.agent)]
  <2>1. runs' = [runs EXCEPT ![c] = k]
    BY <1>3 DEF Settle
  <2>2. h.agent = w.agent /\ h.request = w.tools /\ c[2] <= Len(batchOf[c[1]].requests)
    BY <1>1 DEF RunHolds
  <2>3. /\ definition \in Definitions /\ h.request \in SUBSET Tools /\ h.agent \in AgentNames
        /\ h.batch \in Nat /\ h.disturbed \in BOOLEAN
    BY <1>1, <1>3 DEF Resolving
  <2>4. MergedTools(definition, h.request) \in SUBSET Tools
    BY <2>3, MergedIs
  <2>5. h.disturbed \/ definition = Discovered(h.agent)
    BY <1>3
  <2>6. k.asListed = TRUE
    BY <2>5
  <2>7. /\ k.step = "worktree" /\ k.agent = h.agent /\ k.request = h.request
        /\ k.definition = definition /\ k.tools = MergedTools(definition, h.request)
        /\ k.batch = h.batch
        /\ k = [step |-> "worktree", agent |-> h.agent, batch |-> h.batch,
                request |-> h.request, definition |-> definition,
                tools |-> MergedTools(definition, h.request), asListed |-> TRUE]
    BY <2>6
  <2>8. k \in Working
    BY <2>3, <2>4, <2>7 DEF Working
  <2> HIDE DEF k
  <2>9. k \in InHands
    BY <2>8 DEF InHands
  <2>10. Narrowed(k, w)
    BY <1>3, <2>2, <2>6, <2>7 DEF Narrowed
  <2>11. RunHolds(c)'
    <3>1. runs'[c] = k /\ batchOf' = batchOf
      BY <1>1, <2>1
    <3>2. QED BY <2>2, <2>7, <2>10, <3>1 DEF RunHolds, Narrowed
  <2>12. QED BY <1>1, <2>1, <2>9, <2>11, RunGoesOn
<1>4. QED BY <1>2, <1>3

\* Resolve reads the next directory, or takes what is built in.
LEMMA DirectoryReadKeeps ==
  ASSUME AgentInv, NEW c \in Calls, ReadDirectory(c) \/ TakeBuiltin(c)
  PROVE  AgentInv'
PROOF
<1> DEFINE h == runs[c]
           w == batchOf[c[1]].requests[c[2]]
           n == Len(h.left)
<1>1. /\ AgentTypes /\ h \in Resolving /\ h.step = "resolve" /\ RunHolds(c)
      /\ runs \in [Calls -> InHands]
      /\ numbers' \in [Runners -> Nat] /\ \A r \in Runners : numbers[r] <= numbers'[r]
      /\ UNCHANGED <<agentFiles, numbers, batchOf, batches, transcripts>>
  BY StepIs DEF AgentInv, AgentTypes, InHands, ReadDirectory, TakeBuiltin
<1>2. /\ h.agent = w.agent /\ h.request = w.tools /\ c[2] <= Len(batchOf[c[1]].requests)
      /\ n <= 4 /\ \A i \in 1..n : h.left[i] = AgentDirs[4 - n + i]
      /\ h.found # NoAgent => h.found.agent = h.agent
      /\ ~h.disturbed => SoFar(h)
  BY <1>1 DEF RunHolds
<1>3. /\ h.agent \in AgentNames /\ h.found \in Definitions \cup {NoAgent}
      /\ h.left \in Seq(ToSet(AgentDirs)) /\ n \in Nat
  BY <1>1, LenProperties DEF Resolving
<1>4. /\ \A d \in ToSet(AgentDirs) :
           /\ InDir(d, h.agent) \in Definitions \cup {NoAgent}
           /\ InDir(d, h.agent) # NoAgent => InDir(d, h.agent).agent = h.agent
      /\ BuiltIn(h.agent) \in Definitions \cup {NoAgent}
      /\ BuiltIn(h.agent) # NoAgent => BuiltIn(h.agent).agent = h.agent
  BY <1>1, <1>3, InDirIs, FoundIs
<1>5. CASE TakeBuiltin(c)
  <2>1. Settle(c, BuiltIn(h.agent)) /\ n = 0
    BY <1>5, EmptySeq DEF TakeBuiltin
  <2>2. ~h.disturbed => BuiltIn(h.agent) = Discovered(h.agent)
    BY <1>2, <2>1 DEF SoFar, Discovered, Overwritten
  <2>3. QED BY <1>1, <1>4, <2>1, <2>2, Settles
<1>6. CASE ReadDirectory(c)
  <2> DEFINE d == Head(h.left)
             found == FirstOf(h.found, InDir(d, h.agent))
  <2>1. h.left # <<>> /\ n # 0 /\ 1 \in 1..n
    BY <1>3, <1>6, EmptySeq DEF ReadDirectory
  <2>2. d \in ToSet(AgentDirs) /\ d = AgentDirs[5 - n]
    <3>1. d = h.left[1] /\ d \in ToSet(AgentDirs)
      BY <1>3, <2>1, HeadTailProperties
    <3>2. 4 - n + 1 = 5 - n
      BY <1>3
    <3>3. QED BY <1>2, <2>1, <3>1, <3>2
  <2>3. /\ n = 4 => d = "project"
        /\ n = 3 => d = "plugin1"
        /\ n = 2 => d = "plugin2"
        /\ n = 1 => d = "user"
        /\ n \in {1, 2, 3, 4}
    <3>1. n \in {1, 2, 3, 4}
      <4>1. n <= 4 /\ n \in Nat /\ n # 0
        BY <1>2, <1>3, <2>1
      <4> HIDE DEF n
      <4>2. QED BY <4>1
    <3>2. CASE n = 4
      <4>1. d = AgentDirs[1]
        BY <2>2, <3>2
      <4>2. QED BY <3>2, <4>1, Dirs
    <3>3. CASE n = 3
      <4>1. d = AgentDirs[2]
        BY <2>2, <3>3
      <4>2. QED BY <3>3, <4>1, Dirs
    <3>4. CASE n = 2
      <4>1. d = AgentDirs[3]
        BY <2>2, <3>4
      <4>2. QED BY <3>4, <4>1, Dirs
    <3>5. CASE n = 1
      <4>1. d = AgentDirs[4]
        BY <2>2, <3>5
      <4>2. QED BY <3>5, <4>1, Dirs
    <3>6. QED BY <3>1, <3>2, <3>3, <3>4, <3>5
  <2>4. found \in Definitions \cup {NoAgent} /\ (found # NoAgent => found.agent = h.agent)
    BY <1>2, <1>3, <1>4, <2>2 DEF FirstOf
  <2>5. \/ Ends(c, Failed)
        \/ found # NoAgent /\ d # "plugin1" /\ Settle(c, found)
        \/ /\ found = NoAgent \/ d = "plugin1"
           /\ runs' = [runs EXCEPT ![c].left = Tail(@), ![c].found = found]
    BY <1>6 DEF ReadDirectory
  <2>6. ~h.disturbed =>
          /\ n = 4 => found = InDir("project", h.agent)
          /\ n = 3 => found = InDir("plugin1", h.agent)
          /\ n = 2 => found = FromPlugins(h.agent)
          /\ n = 1 => found = InDir("user", h.agent)
    BY <1>2, <2>3 DEF SoFar, FirstOf, FromPlugins
  <2> HIDE DEF found, d
  <2>7. CASE Ends(c, Failed)
    BY <1>1, <2>7, Failure, RunGoesOn
  <2>8. CASE found # NoAgent /\ d # "plugin1" /\ Settle(c, found)
    <3>1. ~h.disturbed => found = Discovered(h.agent)
      <4>1. ASSUME ~h.disturbed
            PROVE  found = Discovered(h.agent)
        <5>1. SoFar(h)
          BY <1>2, <4>1
        <5>2. CASE n = 4
          BY <2>6, <2>8, <4>1, <5>2 DEF Discovered, Overwritten
        <5>3. CASE n = 2
          BY <2>6, <2>8, <4>1, <5>1, <5>3 DEF Discovered, Overwritten, SoFar
        <5>4. CASE n = 1
          BY <2>6, <2>8, <4>1, <5>1, <5>4 DEF Discovered, Overwritten, SoFar
        <5>5. QED BY <2>3, <2>8, <5>2, <5>3, <5>4
      <4>2. QED BY <4>1
    <3>2. QED BY <1>1, <2>4, <2>8, <3>1, Settles
  <2>9. CASE /\ found = NoAgent \/ d = "plugin1"
             /\ runs' = [runs EXCEPT ![c].left = Tail(@), ![c].found = found]
    <3> DEFINE left == Tail(h.left)
               k == [h EXCEPT !.left = left, !.found = found]
    <3>1. runs' = [runs EXCEPT ![c] = k]
      BY <2>9
    <3>2. /\ left \in Seq(ToSet(AgentDirs)) /\ Len(left) = n - 1
          /\ \A i \in 1..Len(left) : left[i] = h.left[i + 1]
      BY <1>3, <2>1, HeadTailProperties
    <3> HIDE DEF left
    <3>3. /\ k.left = left /\ k.found = found /\ k.step = "resolve" /\ k.agent = h.agent
          /\ k.request = h.request /\ k.disturbed = h.disturbed /\ k \in Resolving
      BY <1>1, <2>4, <3>2 DEF Resolving
    <3> HIDE DEF k
    <3>4. /\ Len(left) <= 4
          /\ \A i \in 1..Len(left) : left[i] = AgentDirs[4 - Len(left) + i]
      <4>1. Len(left) <= 4
        BY <1>2, <1>3, <3>2
      <4>2. ASSUME NEW i \in 1..Len(left)
            PROVE  left[i] = AgentDirs[4 - Len(left) + i]
        <5>1. i + 1 \in 1..n /\ 4 - n + (i + 1) = 4 - Len(left) + i
          BY <1>3, <3>2
        <5>2. h.left[i + 1] = AgentDirs[4 - n + (i + 1)]
          BY <1>2, <5>1
        <5>3. QED BY <3>2, <5>1, <5>2
      <4>3. QED BY <4>1, <4>2
    <3>5. ~k.disturbed => SoFar(k)
      <4>1. ASSUME ~k.disturbed
            PROVE  SoFar(k)
        <5>1. SoFar(h) /\ ~h.disturbed
          BY <1>2, <3>3, <4>1
        <5>2. Len(k.left) = n - 1 /\ k.agent = h.agent /\ k.found = found
          BY <3>2, <3>3
        <5>3. n # 3 => found = NoAgent
          BY <2>3, <2>9
        <5>4. CASE n = 4
          BY <2>6, <5>1, <5>2, <5>3, <5>4 DEF SoFar
        <5>5. CASE n = 3
          BY <2>6, <5>1, <5>2, <5>5 DEF SoFar
        <5>6. CASE n = 2
          BY <2>6, <5>1, <5>2, <5>3, <5>6 DEF SoFar
        <5>7. CASE n = 1
          BY <2>6, <5>1, <5>2, <5>3, <5>7 DEF SoFar
        <5>8. QED BY <2>3, <5>4, <5>5, <5>6, <5>7
      <4>2. QED BY <4>1
    <3>6. RunHolds(c)'
      <4>1. \A e, agent : InDir(e, agent)' = InDir(e, agent)
        BY <1>1 DEF InDir
      <4>2. \A agent : FromPlugins(agent)' = FromPlugins(agent)
        BY <4>1 DEF FromPlugins
      <4>3. runs'[c] = k /\ batchOf' = batchOf
        BY <1>1, <3>1
      <4>4. SoFar(k) => SoFar(runs[c])'
        BY <4>1, <4>2, <4>3 DEF SoFar
      <4>5. QED BY <1>2, <2>4, <3>3, <3>4, <3>5, <4>3, <4>4 DEF RunHolds
    <3>7. k \in InHands
      BY <3>3 DEF InHands
    <3>8. QED BY <1>1, <3>1, <3>6, <3>7, RunGoesOn
  <2>10. QED BY <2>5, <2>7, <2>8, <2>9
<1>7. QED BY <1>5, <1>6

\* A worktree is made, and the executor has run.
LEMMA WorkKeeps ==
  ASSUME AgentInv, NEW c \in Calls,
         MakeWorktree(c) \/ \E second \in 0..MaxSecond : Execute(c, second)
  PROVE  AgentInv'
PROOF
<1> DEFINE h == runs[c]
           w == batchOf[c[1]].requests[c[2]]
<1>1. /\ AgentTypes /\ h \in Working /\ h.step \in {"worktree", "execute"} /\ RunHolds(c)
      /\ runs \in [Calls -> InHands] /\ numbers \in [Runners -> Nat] /\ c[1] \in Runners
      /\ UNCHANGED <<agentFiles, batchOf, batches, transcripts>>
  BY StepIs, WishIs DEF AgentInv, AgentTypes, InHands, MakeWorktree, Execute
<1>2. /\ numbers' \in [Runners -> Nat] /\ \A r \in Runners : numbers[r] <= numbers'[r]
  <2>1. numbers' = numbers \/ numbers' = [numbers EXCEPT ![c[1]] = @ + 1]
    BY DEF MakeWorktree, Execute
  <2>2. QED BY <1>1, <2>1
<1>3. Narrowed(h, w) /\ c[2] <= Len(batchOf[c[1]].requests)
  BY <1>1 DEF RunHolds
<1>4. CASE Ends(c, Failed)
  BY <1>1, <1>2, <1>4, Failure, RunGoesOn
<1>5. ASSUME NEW k \in InHands, runs' = [runs EXCEPT ![c] = k],
             k.step \in {"execute", "transcript"}, Narrowed(k, w)
      PROVE  AgentInv'
  <2>1. runs'[c] = k /\ batchOf' = batchOf
    BY <1>1, <1>5
  <2>2. RunHolds(c)'
    BY <1>3, <1>5, <2>1 DEF RunHolds, Narrowed
  <2>3. QED BY <1>1, <1>2, <1>5, <2>2, RunGoesOn
<1>6. CASE MakeWorktree(c) /\ ~Ends(c, Failed)
  <2> DEFINE k == [h EXCEPT !.step = "execute"]
  <2>1. runs' = [runs EXCEPT ![c] = k]
    BY <1>6 DEF MakeWorktree
  <2>2. /\ k \in Working /\ k.step = "execute" /\ k.definition = h.definition
        /\ k.agent = h.agent /\ k.request = h.request /\ k.tools = h.tools
        /\ k.asListed = h.asListed
    BY <1>1 DEF Working
  <2> HIDE DEF k
  <2>3. k \in InHands /\ Narrowed(k, w)
    BY <1>3, <2>2 DEF InHands, Narrowed
  <2>4. QED BY <1>5, <2>1, <2>2, <2>3
<1>7. ASSUME NEW second \in 0..MaxSecond, Execute(c, second), ~Ends(c, Failed)
      PROVE  AgentInv'
  <2> DEFINE k == [step |-> "transcript", agent |-> h.definition.agent, batch |-> h.batch,
                   request |-> h.request, definition |-> h.definition, tools |-> h.tools,
                   asListed |-> h.asListed, session |-> second]
  <2>1. runs' = [runs EXCEPT ![c] = k]
    BY <1>7 DEF Execute
  <2>2. h.definition.agent = w.agent /\ h.definition.agent = h.agent
    BY <1>3 DEF Narrowed
  <2>3. /\ h.batch \in Nat /\ h.agent \in AgentNames /\ h.request \in SUBSET Tools
        /\ h.definition \in Definitions /\ h.tools \in SUBSET Tools /\ h.asListed \in BOOLEAN
        /\ second \in Nat
    BY <1>1, SubagentAssumption DEF Working, SubagentAssumption
  <2>4. k \in Writing
    BY <2>2, <2>3 DEF Writing
  <2>5. /\ k.step = "transcript" /\ k.agent = h.agent /\ k.definition = h.definition
        /\ k.request = h.request /\ k.tools = h.tools /\ k.asListed = h.asListed
    BY <2>2
  <2> HIDE DEF k
  <2>6. k \in InHands /\ Narrowed(k, w)
    BY <1>3, <2>4, <2>5 DEF InHands, Narrowed
  <2>7. QED BY <1>5, <2>1, <2>5, <2>6
<1>8. QED BY <1>4, <1>6, <1>7

\* The transcript is written under a number the runner has not used.
LEMMA TranscriptKeeps ==
  ASSUME AgentInv, NEW c \in Calls, WriteTranscript(c)
  PROVE  AgentInv'
PROOF
<1> DEFINE h == runs[c]
           w == batchOf[c[1]].requests[c[2]]
           number == numbers[c[1]] + 1
           path == <<h.session, h.agent, number>>
           own == [by |-> c, batch |-> h.batch]
<1>1. /\ AgentTypes /\ h \in Writing /\ h.step = "transcript" /\ RunHolds(c) /\ NumbersCounted
      /\ runs \in [Calls -> InHands] /\ numbers \in [Runners -> Nat] /\ c[1] \in Runners
      /\ UNCHANGED <<agentFiles, batchOf, batches>>
  BY StepIs, WishIs DEF AgentInv, AgentTypes, InHands, WriteTranscript
<1>2. /\ numbers' = [numbers EXCEPT ![c[1]] = number]
      /\ numbers' \in [Runners -> Nat] /\ \A r \in Runners : numbers[r] <= numbers'[r]
      /\ numbers'[c[1]] = number /\ number \in Nat
  <2>1. numbers' = [numbers EXCEPT ![c[1]] = number]
    BY DEF WriteTranscript, TakeNumber
  <2>2. QED BY <1>1, <2>1
<1>3. Narrowed(h, w) /\ c[2] <= Len(batchOf[c[1]].requests)
  BY <1>1 DEF RunHolds
<1>4. /\ h.session \in Nat /\ h.agent \in AgentNames /\ h.batch \in Nat
      /\ h.request \in SUBSET Tools /\ h.definition \in Definitions
      /\ h.tools \in SUBSET Tools /\ h.asListed \in BOOLEAN
  BY <1>1 DEF Writing
<1>5. CASE UNCHANGED transcripts /\ Ends(c, Failed)
  BY <1>1, <1>2, <1>5, Failure, RunGoesOn
<1>6. CASE ~(UNCHANGED transcripts /\ Ends(c, Failed))
  <2> DEFINE result == [ok |-> TRUE, path |-> path, batch |-> h.batch, agent |-> h.agent,
                        request |-> h.request, definition |-> h.definition,
                        tools |-> h.tools, asListed |-> h.asListed]
             k == [step |-> "done", result |-> result]
  <2>1. /\ transcripts' = [p \in DOMAIN transcripts \cup {path} |->
                             IF p = path THEN own ELSE transcripts[p]]
        /\ runs' = [runs EXCEPT ![c] = k]
    BY <1>6 DEF WriteTranscript, TakeNumber, Ends
  <2>2. /\ DOMAIN transcripts' = DOMAIN transcripts \cup {path} /\ transcripts'[path] = own
        /\ \A p \in DOMAIN transcripts : p # path => transcripts'[p] = transcripts[p]
    BY <2>1
  <2>3. path \in Nat \X AgentNames \X Nat /\ path[3] = number /\ own.by = c
    BY <1>2, <1>4
  <2>4. result \in Results /\ result.path = path /\ result.ok /\ result.batch = h.batch
        /\ Narrowed(result, w)
    <3>1. result \in Results
      BY <1>4, <2>3 DEF Results
    <3>2. QED BY <1>3, <3>1 DEF Narrowed
  <2>5. k \in InHands /\ k.step = "done" /\ k.result = result
    BY <2>4 DEF InHands, Ended
  <2> HIDE DEF k, result, path, own, number
  <2>6. NumbersCounted'
    <3>1. ASSUME NEW p \in DOMAIN transcripts'
          PROVE  /\ p \in Nat \X AgentNames \X Nat /\ transcripts'[p].by \in Calls
                 /\ p[3] <= numbers'[transcripts'[p].by[1]]
      <4>1. CASE p = path
        BY <1>2, <2>2, <2>3, <4>1
      <4>2. CASE p # path
        <5>1. /\ transcripts'[p] = transcripts[p] /\ p \in Nat \X AgentNames \X Nat
              /\ transcripts[p].by \in Calls /\ p[3] <= numbers[transcripts[p].by[1]]
          BY <1>1, <2>2, <4>2 DEF NumbersCounted
        <5>2. transcripts[p].by[1] \in Runners /\ p[3] \in Nat
          BY <5>1 DEF Calls
        <5>3. QED BY <1>1, <1>2, <5>1, <5>2
      <4>3. QED BY <4>1, <4>2
    <3>2. QED BY <3>1 DEF NumbersCounted
  <2>7. ASSUME NEW d \in Calls, NEW v \in Wishes, NEW x \in Results, ResultHolds(d, x, v)
        PROVE  ResultHolds(d, x, v)'
    <3>1. /\ x.path[3] \in Nat /\ d[1] \in Runners /\ x.path \in DOMAIN transcripts
          /\ x.path[3] <= numbers[d[1]]
      BY <2>7 DEF Results, Calls, ResultHolds
    <3>2. x.path[3] <= numbers'[d[1]]
      BY <1>1, <1>2, <3>1
    <3>3. CASE x.path # path
      BY <2>2, <2>7, <3>1, <3>2, <3>3 DEF ResultHolds, Narrowed
    <3>4. CASE x.path = path
      <4>1. d[1] # c[1]
        <5>1. numbers[c[1]] \in Nat /\ number = numbers[c[1]] + 1
          BY <1>1 DEF number
        <5>2. QED BY <2>3, <3>1, <3>4, <5>1
      <4>2. QED BY <2>2, <2>3, <2>7, <3>1, <3>2, <3>4, <4>1 DEF ResultHolds, Narrowed
    <3>5. QED BY <3>3, <3>4
  <2>8. RunHolds(c)'
    <3>1. runs'[c] = k /\ batchOf' = batchOf
      BY <1>1, <2>1
    <3>2. number <= number
      BY <1>2
    <3>3. /\ Narrowed(result, w) /\ result.path[3] <= numbers'[c[1]]
          /\ result.path \in DOMAIN transcripts'
          /\ transcripts'[result.path] = [by |-> c, batch |-> result.batch]
      BY <1>2, <2>2, <2>3, <2>4, <3>2 DEF own
    <3>4. QED BY <1>3, <2>5, <3>1, <3>3 DEF RunHolds, ResultHolds, Narrowed
  <2>9. QED BY <1>1, <1>2, <2>1, <2>5, <2>6, <2>7, <2>8, RunMoves
<1>7. QED BY <1>5, <1>6

\* A batch begins: its runs have not read anything yet.
LEMMA BatchBegins ==
  ASSUME AgentInv, NEW r \in Runners, NEW agent \in AgentNames, NEW n \in 1..Width,
         RunBatch(r, Requests(agent, n))
  PROVE  AgentInv'
PROOF
<1> DEFINE requests == Requests(agent, n)
           Begun(i) == [step |-> "resolve", agent |-> requests[i].agent, batch |-> batches',
                        request |-> requests[i].tools, left |-> AgentDirs,
                        found |-> NoAgent, disturbed |-> FALSE]
<1>1. /\ AgentTypes /\ NumbersCounted /\ runs \in [Calls -> InHands] /\ batches \in Nat
      /\ \A c \in Calls : RunHolds(c)
      /\ batchOf \in [Runners -> [requests : Seq(Wishes), returned : Seq(Results)]]
      /\ Width \in Nat
  BY SubagentAssumption DEF AgentInv, AgentTypes, InHands, SubagentAssumption
<1>2. /\ n \in Nat /\ n <= Width /\ requests \in Seq(Wishes) /\ Len(requests) = n
      /\ \A i \in 1..n : requests[i] \in Wishes
  <2>1. n \in Nat /\ n <= Width /\ 1 <= n
    BY <1>1
  <2>2. \A i \in 1..n : requests[i] \in Wishes
    BY DEF Requests, Wishes, Tools
  <2>3. requests = [i \in 1..n |-> requests[i]]
    BY DEF Requests
  <2> HIDE DEF requests
  <2>4. requests \in [1..n -> Wishes]
    BY <2>2, <2>3
  <2>5. requests \in Seq(Wishes)
    BY <2>1, <2>4, SeqDef
  <2>6. Len(requests) = n
    BY <2>1, <2>4, <2>5, LenProperties
  <2>7. QED BY <2>1, <2>2, <2>5, <2>6
<1> HIDE DEF requests
<1>3. /\ \A i \in 1..Width : runs[<<r, i>>].step = "none"
      /\ batchOf' = [batchOf EXCEPT ![r] = [requests |-> requests, returned |-> <<>>]]
      /\ runs' = [c \in Calls |-> IF c[1] # r \/ c[2] > Len(requests) THEN runs[c]
                                  ELSE Begun(c[2])]
      /\ UNCHANGED <<agentFiles, numbers, transcripts>>
      /\ batches' \in Nat
  BY <1>1 DEF RunBatch, requests
<1> HIDE DEF Begun
<1>4. /\ batchOf'[r] = [requests |-> requests, returned |-> <<>>]
      /\ \A q \in Runners : q # r => batchOf'[q] = batchOf[q]
      /\ batchOf' \in [Runners -> [requests : Seq(Wishes), returned : Seq(Results)]]
  BY <1>1, <1>2, <1>3, EmptySeq
<1>5. \A i \in 1..n :
        /\ Begun(i) \in Resolving /\ Begun(i).step = "resolve"
        /\ Begun(i).agent = requests[i].agent /\ Begun(i).request = requests[i].tools
        /\ Begun(i).left = AgentDirs /\ Begun(i).found = NoAgent
  BY <1>2, <1>3, Dirs DEF Begun, Resolving, Wishes
<1>6. \A c \in Calls : /\ c[1] \in Runners /\ c[2] \in 1..Width /\ c = <<c[1], c[2]>>
                       /\ c[2] \in Nat
  BY <1>1 DEF Calls
<1>7. \A c \in Calls : runs'[c] = IF c[1] # r \/ c[2] > n THEN runs[c] ELSE Begun(c[2])
  BY <1>2, <1>3
<1>8. \A c \in Calls : ~(c[1] # r \/ c[2] > n) => c[2] \in 1..n
  BY <1>2, <1>6
<1>9. runs' \in [Calls -> InHands]
  BY <1>1, <1>3, <1>5, <1>7, <1>8 DEF InHands
<1>10. AgentTypes'
  <2>1. \A q \in Runners : Len(batchOf'[q].requests) <= Width
    <3>1. Len(batchOf'[r].requests) = n
      BY <1>2, <1>4
    <3>2. \A q \in Runners : q # r => Len(batchOf'[q].requests) <= Width
      BY <1>1, <1>4 DEF AgentTypes
    <3>3. QED BY <1>2, <3>1, <3>2
  <2>2. QED BY <1>1, <1>3, <1>4, <1>9, <2>1 DEF AgentTypes, InHands
<1>11. NumbersCounted'
  BY <1>1, <1>3 DEF NumbersCounted
<1>12. ASSUME NEW c \in Calls
       PROVE  RunHolds(c)'
  <2>1. CASE c[1] # r
    <3>1. /\ runs'[c] = runs[c] /\ batchOf'[c[1]] = batchOf[c[1]] /\ RunHolds(c)
      BY <1>1, <1>4, <1>6, <1>7, <2>1
    <3>2. SoFar(runs[c]) => SoFar(runs[c])'
      <4>1. \A e, a : InDir(e, a)' = InDir(e, a)
        BY <1>3 DEF InDir
      <4>2. \A a : FromPlugins(a)' = FromPlugins(a)
        BY <4>1 DEF FromPlugins
      <4>3. QED BY <3>1, <4>1, <4>2 DEF SoFar
    <3>3. CASE runs[c].step = "done"
      BY <1>3, <3>1, <3>3 DEF RunHolds, ResultHolds, Narrowed
    <3>4. CASE runs[c].step # "done"
      BY <3>1, <3>2, <3>4 DEF RunHolds
    <3>5. QED BY <3>3, <3>4
  <2>2. CASE c[1] = r /\ c[2] > n
    <3>1. runs'[c] = runs[c] /\ runs[c].step = "none"
      BY <1>3, <1>6, <1>7, <2>2
    <3>2. QED BY <3>1 DEF RunHolds
  <2>3. CASE c[1] = r /\ ~(c[2] > n)
    <3> DEFINE k == Begun(c[2])
    <3>1. /\ runs'[c] = k /\ c[2] \in 1..n /\ batchOf'[c[1]].requests = requests
      BY <1>4, <1>7, <1>8, <2>3
    <3>2. /\ k.step = "resolve" /\ k.agent = requests[c[2]].agent
          /\ k.request = requests[c[2]].tools /\ k.left = AgentDirs /\ k.found = NoAgent
      BY <1>5, <3>1
    <3> HIDE DEF k
    <3>3. c[2] <= n
      BY <3>1
    <3>4. Len(k.left) = 4 /\ \A i \in 1..Len(k.left) : k.left[i] = AgentDirs[4 - Len(k.left) + i]
      <4>1. Len(k.left) = 4
        BY <3>2, Dirs
      <4>2. \A i \in 1..4 : 4 - 4 + i = i
        OBVIOUS
      <4>3. QED BY <3>2, <4>1, <4>2
    <3>5. SoFar(runs[c])'
      BY <3>1, <3>2, <3>4 DEF SoFar
    <3>6. QED BY <1>2, <3>1, <3>2, <3>3, <3>4, <3>5 DEF RunHolds
  <2>4. QED BY <2>1, <2>2, <2>3
<1>13. ASSUME NEW q \in Runners
       PROVE  Answered(q)'
  <2>1. CASE q = r
    BY <1>4, <2>1 DEF Answered
  <2>2. CASE q # r
    <3>1. batchOf'[q] = batchOf[q] /\ Answered(q)
      BY <1>4, <2>2 DEF AgentInv
    <3>2. QED BY <1>3, <3>1 DEF Answered, ResultHolds, Narrowed
  <2>3. QED BY <2>1, <2>2
<1>14. QED BY <1>10, <1>11, <1>12, <1>13 DEF AgentInv

\* A file is written: from now on what the runs that resolve have read says nothing.
LEMMA EditKeeps ==
  ASSUME AgentInv, NEW d \in ToSet(AgentDirs),
         NEW state \in [listable : BOOLEAN, files : {<<>>, Contents}], EditAgents(d, state)
  PROVE  AgentInv'
PROOF
<1>1. /\ AgentTypes /\ NumbersCounted /\ runs \in [Calls -> InHands]
      /\ \A c \in Calls : RunHolds(c)
      /\ UNCHANGED <<numbers, batchOf, transcripts, batches>>
  BY DEF AgentInv, AgentTypes, InHands, EditAgents
<1>2. agentFiles' \in [ToSet(AgentDirs) -> [listable : BOOLEAN, files : {<<>>, Contents}]]
  BY <1>1 DEF AgentTypes, EditAgents
<1>3. \A c \in Calls : runs'[c] = IF runs[c].step = "resolve"
                                  THEN [runs[c] EXCEPT !.disturbed = TRUE] ELSE runs[c]
  BY DEF EditAgents
<1>4. ASSUME NEW c \in Calls, runs[c].step = "resolve"
      PROVE  /\ runs'[c] \in Resolving /\ runs'[c].step = "resolve" /\ runs'[c].disturbed
             /\ runs'[c].agent = runs[c].agent /\ runs'[c].request = runs[c].request
             /\ runs'[c].left = runs[c].left /\ runs'[c].found = runs[c].found
  <2>1. runs[c] \in Resolving
    BY <1>1, <1>4, StepIs
  <2>2. runs'[c] = [runs[c] EXCEPT !.disturbed = TRUE]
    BY <1>3, <1>4
  <2>3. QED BY <2>1, <2>2 DEF Resolving
<1>5. \A c \in Calls : runs'[c] \in InHands
  BY <1>1, <1>3, <1>4 DEF InHands
<1>6. runs' \in [Calls -> InHands]
  <2>1. runs' = [c \in Calls |-> runs'[c]]
    BY DEF EditAgents
  <2>2. QED BY <1>5, <2>1
<1>7. AgentTypes'
  BY <1>1, <1>2, <1>6 DEF AgentTypes, InHands
<1>8. NumbersCounted'
  BY <1>1 DEF NumbersCounted
<1>9. ASSUME NEW c \in Calls
      PROVE  RunHolds(c)'
  <2>1. CASE runs[c].step = "resolve"
    <3>1. RunHolds(c) /\ batchOf' = batchOf
      BY <1>1
    <3>2. QED BY <1>4, <2>1, <3>1 DEF RunHolds
  <2>2. CASE runs[c].step # "resolve"
    <3>1. runs'[c] = runs[c] /\ RunHolds(c)
      BY <1>1, <1>3, <2>2
    <3>2. QED BY <1>1, <2>2, <3>1 DEF RunHolds, ResultHolds, Narrowed
  <2>3. QED BY <2>1, <2>2
<1>10. ASSUME NEW r \in Runners
       PROVE  Answered(r)'
  <2>1. Answered(r)
    BY DEF AgentInv
  <2>2. QED BY <1>1, <2>1 DEF Answered, ResultHolds, Narrowed
<1>11. QED BY <1>7, <1>8, <1>9, <1>10 DEF AgentInv

\* The batch has its results, each of its own run, or none.
LEMMA JoinKeeps ==
  ASSUME AgentInv, NEW r \in Runners, JoinBatch(r)
  PROVE  AgentInv'
PROOF
<1> DEFINE requests == batchOf[r].requests
           n == Len(requests)
           all == [i \in 1..n |-> runs[<<r, i>>].result]
           returned == IF \A i \in 1..n : all[i].ok THEN all ELSE <<>>
<1>1. /\ AgentTypes /\ NumbersCounted /\ runs \in [Calls -> InHands]
      /\ \A c \in Calls : RunHolds(c)
      /\ batchOf \in [Runners -> [requests : Seq(Wishes), returned : Seq(Results)]]
      /\ requests \in Seq(Wishes) /\ n \in Nat /\ n <= Width /\ Width \in Nat
  BY SubagentAssumption, LenProperties DEF AgentInv, AgentTypes, InHands, SubagentAssumption
<1>2. /\ \A i \in 1..n : runs[<<r, i>>].step = "done"
      /\ batchOf' = [batchOf EXCEPT ![r].returned = returned]
      /\ runs' = [c \in Calls |-> IF c[1] = r THEN NotRunning ELSE runs[c]]
      /\ UNCHANGED <<agentFiles, numbers, transcripts, batches>>
  BY DEF JoinBatch
<1>3. ASSUME NEW i \in 1..n
      PROVE  /\ <<r, i>> \in Calls /\ runs[<<r, i>>] \in Ended
             /\ runs[<<r, i>>].result.ok =>
                  /\ runs[<<r, i>>].result \in Results
                  /\ ResultHolds(<<r, i>>, runs[<<r, i>>].result, requests[i])
  <2>1. i \in 1..Width
    BY <1>1
  <2>2. <<r, i>> \in Calls
    BY <2>1 DEF Calls
  <2>3. runs[<<r, i>>] \in Ended /\ RunHolds(<<r, i>>)
    BY <1>1, <1>2, <2>2, StepIs
  <2>4. runs[<<r, i>>].result.ok => runs[<<r, i>>].result \in Results
    BY <2>3 DEF Ended, Failed
  <2>5. runs[<<r, i>>].result.ok => ResultHolds(<<r, i>>, runs[<<r, i>>].result, requests[i])
    <3>1. <<r, i>>[1] = r /\ <<r, i>>[2] = i
      OBVIOUS
    <3>2. QED BY <1>2, <2>3, <3>1 DEF RunHolds
  <2>6. QED BY <2>2, <2>3, <2>4, <2>5
<1>4. /\ returned \in Seq(Results)
      /\ \A i \in DOMAIN returned : /\ i \in 1..n
                                    /\ ResultHolds(<<r, i>>, returned[i], requests[i])
  <2>1. CASE \A i \in 1..n : all[i].ok
    <3>1. \A i \in 1..n : /\ all[i] \in Results /\ ResultHolds(<<r, i>>, all[i], requests[i])
      BY <1>3, <2>1
    <3>2. all \in [1..n -> Results] /\ DOMAIN all = 1..n /\ returned = all
      BY <2>1, <3>1
    <3> HIDE DEF all, returned, n
    <3>3. all \in Seq(Results)
      <4>1. n \in Nat
        BY <1>1
      <4>2. QED BY <3>2, <4>1, SeqDef
    <3>4. QED BY <3>1, <3>2, <3>3
  <2>2. CASE ~ \A i \in 1..n : all[i].ok
    <3>1. returned = <<>>
      BY <2>2
    <3> HIDE DEF returned
    <3>2. QED BY <3>1, EmptySeq
  <2>3. QED BY <2>1, <2>2
<1> HIDE DEF returned, all
<1>5. /\ batchOf'[r].requests = requests /\ batchOf'[r].returned = returned
      /\ \A q \in Runners : /\ batchOf'[q].requests = batchOf[q].requests
                            /\ q # r => batchOf'[q] = batchOf[q]
      /\ batchOf' \in [Runners -> [requests : Seq(Wishes), returned : Seq(Results)]]
  <2>1. batchOf[r] \in [requests : Seq(Wishes), returned : Seq(Results)]
    BY <1>1
  <2> DEFINE new == [batchOf[r] EXCEPT !.returned = returned]
  <2>2. /\ new \in [requests : Seq(Wishes), returned : Seq(Results)]
        /\ new.requests = batchOf[r].requests /\ new.returned = returned
    BY <1>4, <2>1
  <2>3. batchOf' = [batchOf EXCEPT ![r] = new]
    BY <1>2
  <2> HIDE DEF new
  <2>4. QED BY <1>1, <2>2, <2>3
<1>6. /\ runs' \in [Calls -> InHands]
      /\ \A c \in Calls : runs'[c] = IF c[1] = r THEN NotRunning ELSE runs[c]
  BY <1>1, <1>2 DEF InHands
<1>7. AgentTypes'
  <2>1. \A q \in Runners : Len(batchOf'[q].requests) <= Width
    BY <1>1, <1>5 DEF AgentTypes
  <2>2. QED BY <1>1, <1>2, <1>5, <1>6, <2>1 DEF AgentTypes, InHands
<1>8. NumbersCounted'
  BY <1>1, <1>2 DEF NumbersCounted
<1>9. ASSUME NEW c \in Calls
      PROVE  RunHolds(c)'
  <2>1. CASE c[1] = r
    BY <1>6, <2>1 DEF RunHolds, NotRunning
  <2>2. CASE c[1] # r
    <3>1. /\ runs'[c] = runs[c] /\ batchOf'[c[1]] = batchOf[c[1]] /\ RunHolds(c)
      <4>1. c[1] \in Runners
        BY DEF Calls
      <4>2. QED BY <1>1, <1>5, <1>6, <2>2, <4>1
    <3>2. SoFar(runs[c]) => SoFar(runs[c])'
      <4>1. \A e, a : InDir(e, a)' = InDir(e, a)
        BY <1>2 DEF InDir
      <4>2. \A a : FromPlugins(a)' = FromPlugins(a)
        BY <4>1 DEF FromPlugins
      <4>3. QED BY <3>1, <4>1, <4>2 DEF SoFar
    <3>3. QED BY <1>2, <3>1, <3>2 DEF RunHolds, ResultHolds, Narrowed
  <2>3. QED BY <2>1, <2>2
<1>10. ASSUME NEW q \in Runners
       PROVE  Answered(q)'
  <2>1. CASE q = r
    <3>1. \A i \in DOMAIN returned : /\ i \in 1..n /\ i <= n
                                     /\ ResultHolds(<<r, i>>, returned[i], requests[i])
      BY <1>1, <1>4
    <3>2. batchOf'[q].requests = requests /\ batchOf'[q].returned = returned
      BY <1>5, <2>1
    <3>3. ASSUME NEW i \in DOMAIN returned
          PROVE  /\ i <= n /\ Narrowed(returned[i], requests[i])
                 /\ returned[i].path[3] <= numbers'[r]
                 /\ returned[i].path \in DOMAIN transcripts'
                 /\ \/ transcripts'[returned[i].path] = [by |-> <<r, i>>, batch |-> returned[i].batch]
                    \/ transcripts'[returned[i].path].by[1] # r
      <4>1. <<r, i>>[1] = r
        OBVIOUS
      <4>2. QED BY <1>2, <3>1, <4>1 DEF ResultHolds
    <3> HIDE DEF requests
    <3>4. \A i : <<q, i>> = <<r, i>> /\ <<q, i>>[1] = r
      BY <2>1
    <3>5. QED BY <3>2, <3>3, <3>4 DEF Answered, ResultHolds, Narrowed, n
  <2>2. CASE q # r
    <3>1. batchOf'[q] = batchOf[q] /\ Answered(q)
      BY <1>5, <2>2 DEF AgentInv
    <3>2. UNCHANGED <<numbers, transcripts>>
      BY <1>2
    <3>3. QED BY <3>1, <3>2 DEF Answered, ResultHolds, Narrowed
  <2>3. QED BY <2>1, <2>2
<1>11. QED BY <1>7, <1>8, <1>9, <1>10 DEF AgentInv

\* The runs of a batch are accounted for as long as the runners live.
LEMMA AgentInvHolds ==
  ASSUME AgentInv, [AgentNext]_agentVars
  PROVE  AgentInv'
PROOF
<1>1. ASSUME NEW d \in ToSet(AgentDirs),
             \/ EditAgents(d, [listable |-> TRUE, files |-> Contents])
             \/ EditAgents(d, [listable |-> FALSE, files |-> <<>>])
      PROVE  AgentInv'
  BY <1>1, EditKeeps
<1>2. ASSUME NEW r \in Runners, NEW agent \in {"explore", "reviewer"}, NEW n \in 1..Width,
             RunBatch(r, Requests(agent, n))
      PROVE  AgentInv'
  BY <1>2, BatchBegins DEF AgentNames
<1>3. ASSUME NEW r \in Runners, JoinBatch(r)
      PROVE  AgentInv'
  BY <1>3, JoinKeeps
<1>4. ASSUME NEW c \in Calls,
             \/ ReadDirectory(c) \/ TakeBuiltin(c) \/ MakeWorktree(c)
             \/ \E second \in 0..MaxSecond : Execute(c, second)
             \/ WriteTranscript(c)
      PROVE  AgentInv'
  BY <1>4, DirectoryReadKeeps, WorkKeeps, TranscriptKeeps
<1>5. CASE UNCHANGED agentVars
  <2>1. AgentTypes'
    BY <1>5 DEF agentVars, AgentInv, AgentTypes
  <2>2. NumbersCounted'
    BY <1>5 DEF agentVars, AgentInv, NumbersCounted
  <2>3. \A c \in Calls : RunHolds(c)'
    <3>1. \A e, a : InDir(e, a)' = InDir(e, a)
      BY <1>5 DEF InDir, agentVars
    <3>2. \A a : FromPlugins(a)' = FromPlugins(a)
      BY <3>1 DEF FromPlugins
    <3>3. ASSUME NEW c \in Calls
          PROVE  RunHolds(c)'
      <4>1. RunHolds(c) /\ runs' = runs /\ batchOf' = batchOf
        BY <1>5 DEF AgentInv, agentVars
      <4>2. SoFar(runs[c]) => SoFar(runs[c])'
        BY <3>1, <3>2, <4>1 DEF SoFar
      <4>3. \A result, v : ResultHolds(c, result, v) => ResultHolds(c, result, v)'
        BY <1>5 DEF ResultHolds, Narrowed, agentVars
      <4>4. QED BY <4>1, <4>2, <4>3 DEF RunHolds
    <3>4. QED BY <3>3
  <2>4. \A r \in Runners : Answered(r)'
    BY <1>5 DEF AgentInv, agentVars, Answered, ResultHolds, Narrowed
  <2>5. QED BY <2>1, <2>2, <2>3, <2>4 DEF AgentInv
<1>6. QED BY <1>1, <1>2, <1>3, <1>4, <1>5 DEF AgentNext

\* What a batch returns is accounted for.
THEOREM AgentsAccounted == AgentSpec => []AgentsAreAccounted
PROOF
<1>1. AgentInit => AgentInv
  <2> SUFFICES ASSUME AgentInit PROVE AgentInv
    OBVIOUS
  <2>1. AgentTypes
    <3>1. batchOf \in [Runners -> [requests : Seq(Wishes), returned : Seq(Results)]]
      BY EmptySeq DEF AgentInit
    <3>2. \A r \in Runners : Len(batchOf[r].requests) <= Width
      BY EmptySeq, SubagentAssumption DEF AgentInit, SubagentAssumption
    <3>3. QED BY <3>1, <3>2 DEF AgentInit, AgentTypes
  <2>2. NumbersCounted
    BY DEF AgentInit, NumbersCounted
  <2>3. QED BY <2>1, <2>2 DEF AgentInit, AgentInv, RunHolds, NotRunning, Answered
<1>2. AgentInv /\ [AgentNext]_agentVars => AgentInv'
  BY AgentInvHolds
<1>3. AgentInv => AgentsAreAccounted
  <2> SUFFICES ASSUME AgentInv, NEW r \in Runners, NEW i \in DOMAIN batchOf[r].returned
               PROVE  LET result == batchOf[r].returned[i]
                          wanted == batchOf[r].requests[i]
                      IN /\ \/ transcripts[result.path] = [by |-> <<r, i>>, batch |-> result.batch]
                            \/ Overwrote(<<r, i>>, result)
                         /\ result.agent = wanted.agent
                         /\ \A t \in result.tools :
                              /\ \/ result.definition.allowed = {}
                                 \/ t \in result.definition.allowed
                              /\ wanted.tools = {} \/ t \in wanted.tools
                              /\ t \notin result.definition.denied
                         /\ result.asListed
    BY DEF AgentsAreAccounted, OwnTranscript, ToolsAreNarrowed
  <2> DEFINE result == batchOf[r].returned[i]
             wanted == batchOf[r].requests[i]
  <2>1. /\ batchOf[r].returned \in Seq(Results) /\ batchOf[r].requests \in Seq(Wishes)
        /\ i <= Len(batchOf[r].requests) /\ ResultHolds(<<r, i>>, result, wanted)
    BY DEF AgentInv, AgentTypes, Answered
  <2>2. i \in 1..Len(batchOf[r].returned) /\ i \in 1..Len(batchOf[r].requests)
    <3>1. /\ i \in 1..Len(batchOf[r].returned) /\ Len(batchOf[r].returned) \in Nat
          /\ Len(batchOf[r].requests) \in Nat
      BY <2>1, LenProperties
    <3>2. QED BY <2>1, <3>1
  <2>3. result \in Results /\ wanted \in Wishes
    BY <2>1, <2>2, ElementOfSeq
  <2> HIDE DEF result, wanted
  <2>4. /\ result.definition \in Definitions /\ wanted.tools \in SUBSET Tools
        /\ result.tools = MergedTools(result.definition, wanted.tools)
        /\ result.agent = wanted.agent /\ result.asListed
    BY <2>1, <2>3 DEF Results, Wishes, ResultHolds, Narrowed
  <2>5. \A t \in result.tools : /\ \/ result.definition.allowed = {}
                                   \/ t \in result.definition.allowed
                                /\ wanted.tools = {} \/ t \in wanted.tools
                                /\ t \notin result.definition.denied
    BY <2>4, MergedIs
  <2>6. QED BY <2>1, <2>4, <2>5 DEF ResultHolds, Overwrote, result, wanted
<1>4. QED BY <1>1, <1>2, <1>3, PTL DEF AgentSpec
===============================================================================
