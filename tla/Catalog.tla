------------------------------- MODULE Catalog --------------------------------
(* The model catalog of one workspace (catalog_files.go): a file below the    *)
(* catalog root, which a user edits with an editor; the root, a row that is   *)
(* also kept in memory; and the catalog last loaded. A load reads the root,   *)
(* stats the file, reads it, answers from memory when nothing changed, parses *)
(* it otherwise, and writes a sparse file back with its defaults filled in.   *)
(* It holds no lock from one of these to the next. GET loads, POST loads with *)
(* force, and so do the watcher every three seconds and whoever needs a       *)
(* vendor. Two writes of a file never have the same modification time; a      *)
(* write is one step.                                                         *)
EXTENDS Naturals, FiniteSets

CONSTANTS CatalogCallers,   \* bound: loads and settings of the root under way together
          Roots, DefaultRoot, \* directories, and the one of a workspace without a row
          Embedded,         \* the catalog built into the program
          MaxCatalogCalls, MaxEdits, MaxCatalogFaults \* bounds; a restart is a fault

ASSUME CatalogAssumption ==
  /\ DefaultRoot \in Roots /\ Embedded \notin Roots /\ "root" \notin Roots
  /\ MaxCatalogCalls \in Nat /\ MaxEdits \in Nat /\ MaxCatalogFaults \in Nat

VARIABLES
  file,      \* per root: form and text of its catalog, and when it was written
  rootRow,   \* the root in the table: none or one
  rootKept,  \* the root in memory: none or one
  entry,     \* the catalog in memory: none or one, with its source and revision
  caller,    \* per caller: how far it is and what it has in hand
  lastEdit,  \* ghost: per root the text the user wrote last, and how
  amid,   \* ghost: the roots, or "root", whose last change fell amid a call
  now, catalogCalls, edits, catalogFaults \* time of the last write, and counts

catalogVars == <<file, rootRow, rootKept, entry, caller, lastEdit, amid, now,
                 catalogCalls, edits, catalogFaults>>

\* What parseModelCatalogPayload makes of a file: it refuses a broken one, and
\* fills in what a sparse one leaves out of its vendors' auth or its labels.
Forms == {"absent", "broken", "sparse", "full"}

Resting == [step |-> "rest"]

RootInForce == IF rootRow = {} THEN DefaultRoot ELSE CHOOSE r \in rootRow : TRUE

\* Mutant: a file that was edited is not read again.
Hit_AnyRevision(e, source, revision) == e.source = source
\* The catalog in memory answers a load that found this source and revision.
Hit(e, source, revision) == e.source = source /\ e.revision = revision
-------------------------------------------------------------------------------
CatalogInit ==
  /\ file = [r \in Roots |-> [form |-> "absent", text |-> 0, written |-> 0]]
  /\ rootRow = {} /\ rootKept = {} /\ entry = {}
  /\ caller = [c \in CatalogCallers |-> Resting]
  /\ lastEdit = [r \in Roots |-> [form |-> "absent", text |-> 0]] /\ amid = {}
  /\ now = 0 /\ catalogCalls = 0 /\ edits = 0 /\ catalogFaults = 0

GoTo(c, to) == caller' = [caller EXCEPT ![c] = to]
CallAt(c, step) == caller[c].step = step
Counts == <<catalogCalls, edits>>
Kept == <<rootRow, rootKept, entry>>

StartCall(c, to) ==
  /\ CallAt(c, "rest")
  /\ catalogCalls < MaxCatalogCalls /\ catalogCalls' = catalogCalls + 1
  /\ GoTo(c, to)
  /\ UNCHANGED <<file, rootKept, entry, lastEdit, now, edits, catalogFaults>>

-------------------------------------------------------------------------------
(* The root.                                                                  *)

\* A call that is about to keep the root it has in hand.
HoldsRoot(c) == CallAt(c, "row set") \/ CallAt(c, "row read")

\* SetCatalogRoot: first the row, unless the table refuses it, ...
SetCatalogRoot(c, r) ==
  /\ StartCall(c, [step |-> "row set", root |-> r])
  /\ rootRow' = {r}
  /\ amid' = IF \E d \in CatalogCallers \ {c} : HoldsRoot(d) THEN amid \cup {"root"}
             ELSE amid \ {"root"}

\* ... then the memory; the catalog of the old root is forgotten.
KeepSetRoot(c) ==
  /\ CallAt(c, "row set")
  /\ rootKept' = {caller[c].root} /\ entry' = {}
  /\ GoTo(c, Resting)
  /\ UNCHANGED <<file, rootRow, lastEdit, amid, now, Counts, catalogFaults>>

\* A load begins with GetCatalogRoot, which looks into the memory, ...
BeginLoad(c, force) ==
  /\ StartCall(c, IF rootKept = {} THEN [step |-> "no root", force |-> force]
                  ELSE [step |-> "root", force |-> force,
                        root |-> CHOOSE r \in rootKept : TRUE])
  /\ UNCHANGED <<rootRow, amid>>

\* ... then into the table, and gives up when it cannot, ...
ReadRootRow(c) ==
  /\ CallAt(c, "no root")
  /\ \/ /\ GoTo(c, [step |-> "row read", force |-> caller[c].force, root |-> RootInForce])
        /\ UNCHANGED catalogFaults
     \/ /\ catalogFaults < MaxCatalogFaults /\ catalogFaults' = catalogFaults + 1
        /\ GoTo(c, Resting)
  /\ UNCHANGED <<file, Kept, lastEdit, amid, now, Counts>>

\* ... and keeps what it found, the default when there was no row.
KeepReadRoot(c) ==
  /\ CallAt(c, "row read")
  /\ rootKept' = {caller[c].root}
  /\ GoTo(c, [caller[c] EXCEPT !.step = "root"])
  /\ UNCHANGED <<file, rootRow, entry, lastEdit, amid, now, Counts, catalogFaults>>
-------------------------------------------------------------------------------
(* The file.                                                                  *)

Found(c, step, source, revision, form, text) ==
  GoTo(c, [step |-> step, force |-> caller[c].force, root |-> caller[c].root,
           source |-> source, revision |-> revision, form |-> form, text |-> text])
FoundNone(c) == Found(c, "resolved", Embedded, 0, "full", 0)

\* resolveWorkspaceModelCatalog: the revision first, ...
StatFile(c) ==
  LET f == file[caller[c].root] IN
  /\ CallAt(c, "root")
  /\ IF f.form = "absent" THEN FoundNone(c)
     ELSE Found(c, "stat", caller[c].root, f.written, "absent", 0)
  /\ UNCHANGED <<file, Kept, lastEdit, amid, now, Counts, catalogFaults>>

\* ... the text after it. A file that is gone by then counts as none.
ReadFile(c) ==
  LET f == file[caller[c].root] IN
  /\ CallAt(c, "stat")
  /\ IF f.form = "absent" THEN FoundNone(c)
     ELSE Found(c, "resolved", caller[c].root, caller[c].revision, f.form, f.text)
  /\ UNCHANGED <<file, Kept, lastEdit, amid, now, Counts, catalogFaults>>

\* loadEmbeddedCatalogForRecovery
Recover(c) == Found(c, "parsed", Embedded, 0, "full", 0)

\* Answer from memory, or parse.
LookUp(c) ==
  LET k == caller[c] IN
  /\ CallAt(c, "resolved")
  /\ \/ /\ ~k.force /\ \E e \in entry : Hit(e, k.source, k.revision)
        /\ GoTo(c, Resting)
     \/ /\ k.force \/ \A e \in entry : ~Hit(e, k.source, k.revision)
        /\ \/ k.form = "broken" /\ Recover(c)
           \/ k.form = "sparse" /\ GoTo(c, [k EXCEPT !.step = "filled"])
           \/ k.form = "full" /\ GoTo(c, [k EXCEPT !.step = "parsed"])
  /\ UNCHANGED <<file, Kept, lastEdit, amid, now, Counts, catalogFaults>>

\* What was filled in goes to the file; when it cannot be written, the user gets
\* the embedded catalog.
WriteBack(c) ==
  LET k == caller[c] IN
  /\ CallAt(c, "filled")
  /\ \/ /\ now' = now + 1
        /\ file' = [file EXCEPT ![k.root] =
                      [form |-> "full", text |-> k.text, written |-> now']]
        /\ GoTo(c, [k EXCEPT !.step = "written"])
        /\ UNCHANGED catalogFaults
     \/ /\ catalogFaults < MaxCatalogFaults /\ catalogFaults' = catalogFaults + 1
        /\ Recover(c)
        /\ UNCHANGED <<file, now>>
  /\ UNCHANGED <<Kept, lastEdit, amid, Counts>>

\* The revision of what was written is asked for; of a file that is gone, the
\* revision it was read with stands.
StatWritten(c) ==
  LET k == caller[c]  f == file[k.root] IN
  /\ CallAt(c, "written")
  /\ GoTo(c, [k EXCEPT !.step = "parsed",
                       !.revision = IF f.form = "absent" THEN @ ELSE f.written])
  /\ UNCHANGED <<file, Kept, lastEdit, amid, now, Counts, catalogFaults>>

\* The catalog is kept, and answered.
KeepCatalog(c) ==
  LET k == caller[c] IN
  /\ CallAt(c, "parsed")
  /\ entry' = {[source |-> k.source, revision |-> k.revision, text |-> k.text]}
  /\ GoTo(c, Resting)
  /\ UNCHANGED <<file, rootRow, rootKept, lastEdit, amid, now, Counts, catalogFaults>>
-------------------------------------------------------------------------------
(* The user at the file, and the end of the program.                          *)

\* A load that will still write to this root, or will take the revision of the
\* edit for that of its own text.
Overwrites(c, r) ==
  \/ CallAt(c, "resolved") /\ caller[c].source = r /\ caller[c].form = "sparse"
  \/ (CallAt(c, "filled") \/ CallAt(c, "written")) /\ caller[c].root = r

EditFile(r, form) ==
  /\ edits < MaxEdits /\ edits' = edits + 1
  /\ form # "absent" \/ file[r].form # "absent"
  /\ now' = now + 1
  /\ file' = [file EXCEPT ![r] = [form |-> form, text |-> edits', written |-> now']]
  /\ lastEdit' = [lastEdit EXCEPT ![r] = [form |-> form, text |-> edits']]
  /\ amid' = IF \E c \in CatalogCallers : Overwrites(c, r) THEN amid \cup {r}
             ELSE amid \ {r}
  /\ UNCHANGED <<Kept, caller, catalogCalls, catalogFaults>>

RestartHub ==
  /\ catalogFaults < MaxCatalogFaults /\ catalogFaults' = catalogFaults + 1
  /\ rootKept' = {} /\ entry' = {}
  /\ caller' = [c \in CatalogCallers |-> Resting]
  /\ amid' = amid \ {"root"}
  /\ UNCHANGED <<file, rootRow, lastEdit, now, Counts>>

CatalogNext ==
  \/ \E c \in CatalogCallers :
       \/ \E r \in Roots : SetCatalogRoot(c, r)
       \/ \E force \in BOOLEAN : BeginLoad(c, force)
       \/ KeepSetRoot(c) \/ ReadRootRow(c) \/ KeepReadRoot(c)
       \/ StatFile(c) \/ ReadFile(c) \/ LookUp(c) \/ WriteBack(c) \/ StatWritten(c)
       \/ KeepCatalog(c)
  \/ \E r \in Roots, form \in Forms : EditFile(r, form)
  \/ RestartHub

CatalogSpec == CatalogInit /\ [][CatalogNext]_catalogVars
-------------------------------------------------------------------------------
\* The root in memory is the one in the table, as soon as no call has one in hand
\* that it is about to keep.
RootAgrees ==
  \/ \E c \in CatalogCallers : HoldsRoot(c)
  \/ rootKept \subseteq {RootInForce}

\* The file holds what the user wrote last, filled in or not.
EditStands(r) ==
  /\ file[r].text = lastEdit[r].text
  /\ \/ file[r].form = lastEdit[r].form
     \/ file[r].form = "full" /\ lastEdit[r].form = "sparse"

\* A load without force that finds the file as it is answers what a reload would.
MemoryIsFresh(r) ==
  \A e \in entry :
    file[r].form # "absent" /\ Hit(e, r, file[r].written) => e.text = file[r].text

\* The catalog follows the last root that was set and the last edit of each file:
\* memory and table agree on the root, no load puts an older text over the edit,
\* and none is answered with an older text from memory. Excepted is a change that
\* fell amid a call that had an older root, or an older text it was writing back,
\* in hand; the next change that does not mends it, as a restart does the root
\* (SetCatalogRoot, GetCatalogRoot, loadModelCatalogDetailed).
LastChangeCounts ==
  /\ "root" \in amid \/ RootAgrees
  /\ \A r \in Roots \ amid : EditStands(r) /\ MemoryIsFresh(r)
===============================================================================
