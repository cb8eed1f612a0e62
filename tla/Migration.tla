------------------------------- MODULE Migration -------------------------------
(* The opening of the hub's database (httpapi/db_sqlite.go): statements that   *)
(* create what is missing, mend what they can and stamp the version, then the  *)
(* validation, and for a database of a previous schema a copy of its file and  *)
(* a rebuild, which drops every table and creates them anew. Each statement    *)
(* commits by itself; any of them may fail, and the hub may be killed between  *)
(* any two. Once open, the store is seeded in one transaction, and is written  *)
(* to.                                                                         *)
(*                                                                             *)
(* A table of a previous schema is "lacking" when what it lacks is added,      *)
(* "previous" when the validation finds it, and "blocking" when a statement    *)
(* before the validation needs what it lacks. An "odd" row has a mode that is  *)
(* none any more.                                                              *)
EXTENDS Naturals, FiniteSets, SequencesExt

CONSTANTS MaxStarts, MaxRowWrites \* bounds

ASSUME MigrationAssumption == {MaxStarts, MaxRowWrites} \subseteq Nat

\* Of the tables that are created, in order, and of those that are dropped.
Created == <<"role_grants", "abac_policies", "projects", "project_configs",
             "hub_schema_versions">>
Dropped == <<"role_grants", "abac_policies", "project_configs", "projects", "workers",
             "hub_schema_versions">>
SchemaTables == ToSet(Dropped)

VARIABLES
  tables,    \* table -> whether and in which form it is there, and its rows
  opening,   \* how far the opening is, "off" when no hub runs
  statement, \* the number of the next statement of a list
  found,     \* what the validation failed on
  copies,    \* the rows of the complete copies
  owed,      \* ghost: the rows that were written, but for what the seeds reset
  blind,     \* ghost: the rows dropped because the schema could not be read
  starts, rowWrites \* counts

migrationVars == <<tables, opening, statement, found, copies, owed, blind, starts, rowWrites>>

Absent == [form |-> "absent", rows |-> {}]
Table(form, rows) == [form |-> form, rows |-> rows]
Missing(t) == tables[t].form = "absent"

Mended(r) == IF r = "odd" THEN "plain" ELSE r
RowsOf(tt) == UNION {{<<t, Mended(r)>> : r \in tt[t].rows} : t \in SchemaTables}

\* No database, one of this schema, or one of a previous schema.
MigrationInit ==
  /\ \E p \in {Absent, Table("current", {"odd"}), Table("previous", {"odd"}),
               Table("blocking", {"plain"})},
        c \in {Absent, Table("lacking", {"plain"}), Table("current", {"plain"})},
        w \in {Absent, Table("previous", {"plain"})} :
       tables = [t \in SchemaTables |-> CASE t = "projects" -> p
                                       [] t = "project_configs" -> c
                                       [] t = "workers" -> w
                                       [] OTHER -> Absent]
  /\ opening = "off" /\ statement = 1 /\ found = "nothing"
  /\ copies = {} /\ owed = RowsOf(tables) /\ blind = {}
  /\ starts = 0 /\ rowWrites = 0

MoveOn(to) == opening' = to /\ statement' = 1
Change(t, table) == tables' = [tables EXCEPT ![t] = table]

OpenStore ==
  /\ opening = "off" /\ starts < MaxStarts /\ starts' = starts + 1
  /\ MoveOn("create") /\ found' = "nothing"
  /\ UNCHANGED <<tables, copies, owed, blind, rowWrites>>

\* A statement fails, or the hub is killed; what is done stays.
StartFails ==
  /\ opening # "off" /\ MoveOn("off")
  /\ UNCHANGED <<tables, found, copies, owed, blind, starts, rowWrites>>

\* CREATE TABLE IF NOT EXISTS and the indexes: an index of a blocking table fails.
CreateTable ==
  LET t == Created[statement]
  IN /\ opening \in {"create", "recreate"} /\ tables[t].form # "blocking"
     /\ Change(t, IF Missing(t) THEN Table("current", {}) ELSE tables[t])
     /\ IF statement < Len(Created) THEN statement' = statement + 1 /\ UNCHANGED opening
        ELSE MoveOn(IF opening = "create" THEN "mend" ELSE "revalidate")
     /\ UNCHANGED <<found, copies, owed, blind, starts, rowWrites>>

\* normalizePermissionModes
NormalizeModes ==
  /\ opening = "mend" /\ statement = 1 /\ statement' = 2
  /\ Change("projects", [tables["projects"] EXCEPT !.rows = {Mended(r) : r \in @}])
  /\ UNCHANGED <<opening, found, copies, owed, blind, starts, rowWrites>>

\* The columns are added unless they are there.
AddColumns ==
  /\ opening = "mend" /\ statement = 2 /\ statement' = 3
  /\ Change("project_configs", [tables["project_configs"] EXCEPT
                                  !.form = IF @ = "lacking" THEN "current" ELSE @])
  /\ UNCHANGED <<opening, found, copies, owed, blind, starts, rowWrites>>

StampVersion ==
  /\ opening = "mend" /\ statement = 3 /\ MoveOn("validate")
  /\ Change("hub_schema_versions", Table("current", {"version"}))
  /\ UNCHANGED <<found, copies, owed, blind, starts, rowWrites>>

\* validateStrictSchema: required columns, then tables that must not be there; a
\* query may fail before either is seen.
Faults ==
  (IF \E t \in ToSet(Created) : tables[t].form = "previous" THEN {"missing"}
   ELSE IF ~Missing("workers") THEN {"unexpected"} ELSE {"nothing"}) \cup {"unreadable"}

\* Mutant: only one of the messages is taken for that of a previous schema.
NeedsBackup_MissingOnly(fault) == fault = "missing"
\* shouldBackupPreviousSchema
NeedsBackup(fault) == fault \in {"missing", "unexpected"}

Validate ==
  /\ opening = "validate"
  /\ \E fault \in Faults :
       /\ found' = fault
       /\ MoveOn(CASE fault = "nothing" -> "open"
                 [] fault # "nothing" /\ NeedsBackup(fault) -> "backup"
                 [] OTHER -> "drop")
       /\ blind' = IF fault = "unreadable" THEN blind \cup RowsOf(tables) ELSE blind
  /\ UNCHANGED <<tables, copies, owed, starts, rowWrites>>

\* backupPreviousSchemaDBFile: a copy under a name of its own, complete once synced.
BackUp ==
  /\ opening = "backup" /\ MoveOn("drop")
  /\ copies' = copies \cup RowsOf(tables)
  /\ UNCHANGED <<tables, found, owed, blind, starts, rowWrites>>

\* rebuildSchema
DropTable ==
  /\ opening = "drop" /\ Change(Dropped[statement], Absent)
  /\ IF statement < Len(Dropped) THEN statement' = statement + 1 /\ UNCHANGED opening
     ELSE MoveOn("recreate")
  /\ UNCHANGED <<found, copies, owed, blind, starts, rowWrites>>

Revalidate ==
  /\ opening = "revalidate" /\ "nothing" \in Faults /\ MoveOn("open")
  /\ UNCHANGED <<tables, found, copies, owed, blind, starts, rowWrites>>
-------------------------------------------------------------------------------
(* The open store.                                                             *)

\* ensureWorkspaceSeeds: the grants of the roles are set anew, a policy that is there
\* is left alone. A transaction that fails leaves no trace, and the hub goes on.
SeedWorkspace ==
  /\ opening = "open"
  /\ tables' = [tables EXCEPT
                  !["role_grants"].rows = {"default"},
                  !["abac_policies"].rows = IF @ = {} THEN {"default"} ELSE @]
  /\ UNCHANGED <<opening, statement, found, copies, owed, blind, starts, rowWrites>>

\* Handlers write: a project, a policy or a grant edited.
WriteRow(t, r) ==
  /\ opening = "open" /\ rowWrites < MaxRowWrites /\ rowWrites' = rowWrites + 1
  /\ Change(t, [tables[t] EXCEPT !.rows = (@ \ {"default"}) \cup {r}])
  /\ owed' = IF t = "role_grants" THEN owed ELSE owed \cup {<<t, r>>}
  /\ UNCHANGED <<opening, statement, found, copies, blind, starts>>

MigrationNext ==
  \/ OpenStore \/ StartFails \/ CreateTable \/ NormalizeModes \/ AddColumns \/ StampVersion
  \/ Validate \/ BackUp \/ DropTable \/ Revalidate \/ SeedWorkspace
  \/ \E t \in {"projects", "abac_policies", "role_grants"} : WriteRow(t, "edited")

MigrationSpec == MigrationInit /\ [][MigrationNext]_migrationVars
-------------------------------------------------------------------------------
(* However often an opening fails or is killed half way, a row that was ever   *)
(* written is in its table or in a complete copy, but for those of a database  *)
(* that was rebuilt because a query of the validation failed; and a store that *)
(* is open has every table in its present form, no other, and no odd mode.     *)
MigrationKeepsRows ==
  /\ owed \subseteq RowsOf(tables) \cup copies \cup blind
  /\ opening = "open" =>
       /\ Missing("workers") /\ "odd" \notin tables["projects"].rows
       /\ \A t \in ToSet(Created) : tables[t].form = "current"
===============================================================================
