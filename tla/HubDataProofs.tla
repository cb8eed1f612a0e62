----------------------------- MODULE HubDataProofs -----------------------------
(* Proofs about what the hub and its command line keep, for every number of   *)
(* starts, writes, failures, clients and terminals.                           *)
EXTENDS Migration, ExecutionStore, EventStream, CliState, TLAPS, SequenceTheorems,
        FiniteSetTheorems

(* The database as it is opened and migrated: every start goes through its    *)
(* statements in order, and what each of them may rely on is what the ones    *)
(* before it have done, in this start.                                        *)

Forms == {"absent", "current", "lacking", "previous", "blocking"}
RowKinds == {"odd", "plain", "version", "default", "edited"}
Openings == {"off", "create", "mend", "validate", "backup", "drop", "recreate",
             "revalidate", "open"}

DatabaseTypes ==
  /\ tables \in [SchemaTables -> [form : Forms, rows : SUBSET RowKinds]]
  /\ opening \in Openings
  /\ \A t \in SchemaTables : Missing(t) => tables[t].rows = {}
  /\ \A t \in SchemaTables : tables[t].form = "lacking" => t = "project_configs"

\* Only the users' rows are owed, and a rebuild begins once every row is in a copy or
\* is given up.
RowsPreserved ==
  /\ owed \subseteq {"projects", "abac_policies", "project_configs", "workers"} \X {"plain", "edited"}
  /\ owed \subseteq RowsOf(tables) \cup copies \cup blind
  /\ opening = "drop" => RowsOf(tables) \subseteq copies \cup blind

\* What the statements before the validation have done.
Settled(i) == tables[Created[i]].form \notin {"absent", "blocking"}
Prepared ==
  /\ opening = "create" => statement \in 1..5 /\ \A i \in 1..(statement - 1) : Settled(i)
  /\ opening \in {"mend", "validate"} => \A i \in 1..5 : Settled(i)
  /\ opening = "mend" => statement \in 1..3
  /\ opening = "validate" \/ (opening = "mend" /\ statement >= 2)
       => "odd" \notin tables["projects"].rows
  /\ opening = "validate" \/ (opening = "mend" /\ statement >= 3)
       => tables["project_configs"].form # "lacking"

\* What the rebuild has done.
Fresh(t) == tables[t] \in {Absent, Table("current", {})}
Rebuilt ==
  /\ opening = "drop" => statement \in 1..6 /\ \A i \in 1..(statement - 1) : tables[Dropped[i]] = Absent
  /\ opening \in {"recreate", "revalidate"} => Missing("workers") /\ \A t \in SchemaTables : Fresh(t)
  /\ opening = "recreate" => statement \in 1..5 /\ \A i \in 1..(statement - 1) : ~Missing(Created[i])
  /\ opening = "revalidate" => \A i \in 1..5 : ~Missing(Created[i])

Usable ==
  opening = "open" =>
    /\ Missing("workers") /\ "odd" \notin tables["projects"].rows
    /\ \A t \in ToSet(Created) : tables[t].form = "current"

DatabaseInv == DatabaseTypes /\ RowsPreserved /\ Prepared /\ Rebuilt /\ Usable

\* The tables of the two lists.
LEMMA SchemaLists ==
  /\ SchemaTables = {"role_grants", "abac_policies", "project_configs", "projects", "workers",
                     "hub_schema_versions"}
  /\ ToSet(Created) = SchemaTables \ {"workers"}
  /\ Len(Created) = 5 /\ Len(Dropped) = 6
  /\ \A i \in 1..5 : Created[i] \in SchemaTables \ {"workers"}
  /\ \A t \in SchemaTables \ {"workers"} : \E i \in 1..5 : Created[i] = t
  /\ \A i \in 1..6 : Dropped[i] \in SchemaTables
  /\ \A t \in SchemaTables : \E i \in 1..6 : Dropped[i] = t
  /\ \A i, j \in 1..5 : Created[i] = Created[j] => i = j
PROOF
<1>1. /\ Created[1] = "role_grants" /\ Created[2] = "abac_policies" /\ Created[3] = "projects"
      /\ Created[4] = "project_configs" /\ Created[5] = "hub_schema_versions"
      /\ Len(Created) = 5 /\ DOMAIN Created = 1..5
  BY DEF Created
<1>2. /\ Dropped[1] = "role_grants" /\ Dropped[2] = "abac_policies"
      /\ Dropped[3] = "project_configs" /\ Dropped[4] = "projects" /\ Dropped[5] = "workers"
      /\ Dropped[6] = "hub_schema_versions" /\ Len(Dropped) = 6 /\ DOMAIN Dropped = 1..6
  BY DEF Dropped
<1>3. 1..5 = {1, 2, 3, 4, 5} /\ 1..6 = {1, 2, 3, 4, 5, 6}
  OBVIOUS
<1>4. SchemaTables = {"role_grants", "abac_policies", "project_configs", "projects", "workers",
                      "hub_schema_versions"}
  BY <1>2, <1>3 DEF SchemaTables, ToSet
<1>5. ToSet(Created) = SchemaTables \ {"workers"}
  BY <1>1, <1>3, <1>4 DEF ToSet
<1>6. \A i \in 1..5 : Created[i] \in SchemaTables \ {"workers"}
  BY <1>1, <1>3, <1>4
<1>7. \A t \in SchemaTables \ {"workers"} : \E i \in 1..5 : Created[i] = t
  BY <1>1, <1>4
<1>8. (\A i \in 1..6 : Dropped[i] \in SchemaTables) /\ \A t \in SchemaTables : \E i \in 1..6 : Dropped[i] = t
  BY <1>2, <1>3, <1>4
<1>9. \A i, j \in 1..5 : Created[i] = Created[j] => i = j
  BY <1>1, <1>3
<1>10. QED BY <1>1, <1>2, <1>4, <1>5, <1>6, <1>7, <1>8, <1>9

\* A change of one table changes the rows of that table.
LEMMA RowsOfChanged ==
  ASSUME NEW t \in SchemaTables, NEW table, DatabaseTypes, Change(t, table)
  PROVE  /\ tables'[t] = table /\ \A u \in SchemaTables \ {t} : tables'[u] = tables[u]
         /\ RowsOf(tables) \subseteq RowsOf(tables') \cup {<<t, Mended(r)>> : r \in tables[t].rows}
         /\ RowsOf(tables') \subseteq RowsOf(tables) \cup {<<t, Mended(r)>> : r \in table.rows}
         /\ {<<t, Mended(r)>> : r \in tables[t].rows} \subseteq RowsOf(tables)
         /\ {<<t, Mended(r)>> : r \in table.rows} \subseteq RowsOf(tables')
PROOF
<1>1. tables'[t] = table /\ \A u \in SchemaTables \ {t} : tables'[u] = tables[u]
  BY DEF Change, DatabaseTypes
<1>2. \A x : x \in RowsOf(tables) <=> \E u \in SchemaTables : \E r \in tables[u].rows : x = <<u, Mended(r)>>
  BY DEF RowsOf
<1>3. \A x : x \in RowsOf(tables') <=> \E u \in SchemaTables : \E r \in tables'[u].rows : x = <<u, Mended(r)>>
  BY DEF RowsOf
<1>4. RowsOf(tables) \subseteq RowsOf(tables') \cup {<<t, Mended(r)>> : r \in tables[t].rows}
  BY <1>1, <1>2, <1>3
<1>5. RowsOf(tables') \subseteq RowsOf(tables) \cup {<<t, Mended(r)>> : r \in table.rows}
  BY <1>1, <1>2, <1>3
<1>6. {<<t, Mended(r)>> : r \in tables[t].rows} \subseteq RowsOf(tables)
  BY <1>2
<1>7. {<<t, Mended(r)>> : r \in table.rows} \subseteq RowsOf(tables')
  BY <1>1, <1>3
<1>8. QED BY <1>1, <1>4, <1>5, <1>6, <1>7

\* Tables that lose no owed row keep the rows, while nothing is dropped.
LEMMA RowsStay ==
  ASSUME DatabaseInv, UNCHANGED <<copies, owed, blind>>, opening' # "drop",
         \A x \in RowsOf(tables) :
           x \in {"projects", "abac_policies", "project_configs", "workers"} \X {"plain", "edited"}
             => x \in RowsOf(tables')
  PROVE  RowsPreserved'
PROOF
BY DEF DatabaseInv, RowsPreserved

\* CREATE TABLE IF NOT EXISTS loses nothing, in a first pass or after a rebuild.
LEMMA CreateTableKeeps ==
  ASSUME DatabaseInv, CreateTable
  PROVE  DatabaseInv'
PROOF
<1> DEFINE t == Created[statement]
           table == IF Missing(t) THEN Table("current", {}) ELSE tables[t]
<1>1. /\ opening \in {"create", "recreate"} /\ statement \in 1..5
      /\ t \in SchemaTables \ {"workers"} /\ Len(Created) = 5
  BY SchemaLists DEF CreateTable, DatabaseInv, Prepared, Rebuilt
<1>2. /\ tables[t].form # "blocking" /\ Change(t, table)
      /\ UNCHANGED <<found, copies, owed, blind>>
      /\ \/ statement < 5 /\ statement' = statement + 1 /\ opening' = opening
         \/ /\ ~(statement < 5) /\ statement' = 1
            /\ opening' = IF opening = "create" THEN "mend" ELSE "revalidate"
  BY <1>1 DEF CreateTable, MoveOn
<1>3. /\ tables \in [SchemaTables -> [form : Forms, rows : SUBSET RowKinds]]
      /\ Missing(t) => tables[t].rows = {}
      /\ DatabaseTypes
  BY <1>1 DEF DatabaseInv, DatabaseTypes
<1> HIDE DEF t
<1>4. /\ tables'[t] = table /\ \A u \in SchemaTables \ {t} : tables'[u] = tables[u]
      /\ RowsOf(tables) \subseteq RowsOf(tables') \cup {<<t, Mended(r)>> : r \in tables[t].rows}
      /\ {<<t, Mended(r)>> : r \in table.rows} \subseteq RowsOf(tables')
  BY <1>1, <1>2, <1>3, RowsOfChanged
<1>5. /\ table \in [form : Forms, rows : SUBSET RowKinds] /\ table.form # "absent"
      /\ table.form # "blocking" /\ table.rows = tables[t].rows
      /\ table.form # "lacking" \/ table = tables[t]
      /\ Fresh(t) => table = Table("current", {})
  BY <1>1, <1>2, <1>3 DEF Missing, Table, Forms, Fresh, Absent
<1>6. tables' = [tables EXCEPT ![t] = table]
  BY <1>2 DEF Change
<1> HIDE DEF table
<1>7. DatabaseTypes'
  <2>1. opening' \in Openings
    BY <1>1, <1>2 DEF Openings
  <2>2. tables' \in [SchemaTables -> [form : Forms, rows : SUBSET RowKinds]]
    BY <1>1, <1>3, <1>5, <1>6
  <2>3. QED BY <1>1, <1>3, <1>4, <1>5, <2>1, <2>2 DEF DatabaseTypes, Missing
<1>8. RowsPreserved'
  <2>1. RowsOf(tables) \subseteq RowsOf(tables')
    BY <1>4, <1>5
  <2>2. opening' # "drop"
    BY <1>1, <1>2
  <2>3. QED BY <1>2, <2>1, <2>2, RowsStay
<1>9. Prepared'
  <2>1. CASE opening = "create"
    <3>1. \A i \in 1..(statement - 1) : tables[Created[i]].form \notin {"absent", "blocking"}
      BY <2>1 DEF DatabaseInv, Prepared, Settled
    <3>2. \A i \in 1..statement : tables'[Created[i]].form \notin {"absent", "blocking"}
      <4>1. SUFFICES ASSUME NEW i \in 1..statement
                     PROVE  tables'[Created[i]].form \notin {"absent", "blocking"}
        OBVIOUS
      <4>2. i \in 1..5 /\ Created[i] \in SchemaTables
        BY <1>1, SchemaLists
      <4>3. CASE Created[i] = t
        BY <1>4, <1>5, <4>3
      <4>4. CASE Created[i] # t
        BY <1>1, <1>4, <3>1, <4>2, <4>4 DEF t
      <4>5. QED BY <4>3, <4>4
    <3>3. CASE statement < 5
      BY <1>1, <1>2, <2>1, <3>2, <3>3 DEF Prepared, Settled
    <3>4. CASE ~(statement < 5)
      BY <1>1, <1>2, <2>1, <3>2, <3>4 DEF Prepared, Settled
    <3>5. QED BY <3>3, <3>4
  <2>2. CASE opening = "recreate"
    BY <1>2, <2>2 DEF Prepared
  <2>3. QED BY <1>1, <2>1, <2>2
<1>10. Rebuilt'
  <2>1. CASE opening = "create"
    BY <1>2, <2>1 DEF Rebuilt
  <2>2. CASE opening = "recreate"
    <3>1. Missing("workers") /\ \A u \in SchemaTables : Fresh(u)
      BY <2>2 DEF DatabaseInv, Rebuilt
    <3>2. \A i \in 1..(statement - 1) : tables[Created[i]].form # "absent"
      BY <2>2 DEF DatabaseInv, Rebuilt, Missing
    <3>3. \A u \in SchemaTables : tables'[u] \in {Absent, Table("current", {})}
      BY <1>1, <1>4, <1>5, <3>1 DEF Fresh
    <3>4. tables'["workers"].form = "absent"
      BY <1>1, <1>4, <3>1, SchemaLists DEF Missing
    <3>5. \A i \in 1..statement : tables'[Created[i]].form # "absent"
      <4>1. SUFFICES ASSUME NEW i \in 1..statement PROVE tables'[Created[i]].form # "absent"
        OBVIOUS
      <4>2. i \in 1..5 /\ Created[i] \in SchemaTables
        BY <1>1, SchemaLists
      <4>3. CASE Created[i] = t
        BY <1>4, <1>5, <4>3
      <4>4. CASE Created[i] # t
        BY <1>1, <1>4, <3>2, <4>2, <4>4 DEF t
      <4>5. QED BY <4>3, <4>4
    <3>6. CASE statement < 5
      BY <1>1, <1>2, <2>2, <3>3, <3>4, <3>5, <3>6 DEF Rebuilt, Missing, Fresh
    <3>7. CASE ~(statement < 5)
      BY <1>1, <1>2, <2>2, <3>3, <3>4, <3>5, <3>7 DEF Rebuilt, Missing, Fresh
    <3>8. QED BY <3>6, <3>7
  <2>3. QED BY <1>1, <2>1, <2>2
<1>11. Usable'
  BY <1>1, <1>2 DEF Usable
<1>12. QED BY <1>7, <1>8, <1>9, <1>10, <1>11 DEF DatabaseInv

\* The statements after the tables are there: modes, columns, version.
LEMMA MendingKeeps ==
  ASSUME DatabaseInv, NormalizeModes \/ AddColumns \/ StampVersion
  PROVE  DatabaseInv'
PROOF
<1>1. /\ opening = "mend" /\ \A i \in 1..5 : Settled(i)
      /\ \A t \in SchemaTables \ {"workers"} : tables[t].form \notin {"absent", "blocking"}
      /\ DatabaseTypes /\ {"projects", "project_configs", "hub_schema_versions"} \subseteq SchemaTables
      /\ tables \in [SchemaTables -> [form : Forms, rows : SUBSET RowKinds]]
  <2>1. opening = "mend"
    BY DEF NormalizeModes, AddColumns, StampVersion
  <2>2. \A i \in 1..5 : Settled(i)
    BY <2>1 DEF DatabaseInv, Prepared
  <2>3. \A t \in SchemaTables \ {"workers"} : tables[t].form \notin {"absent", "blocking"}
    BY <2>2, SchemaLists DEF Settled
  <2>4. QED BY <2>1, <2>2, <2>3, SchemaLists DEF DatabaseInv, DatabaseTypes
<1>2. PICK t \in {"projects", "project_configs", "hub_schema_versions"},
           table \in [form : Forms \ {"absent", "blocking"}, rows : SUBSET RowKinds] :
        /\ Change(t, table) /\ UNCHANGED <<copies, owed, blind>>
        /\ (table.form = "lacking" => t = "project_configs")
        /\ \/ t = "projects" /\ opening' = "mend" /\ statement' = 2 /\ statement = 1
                /\ table.rows = {Mended(r) : r \in tables[t].rows}
           \/ t = "project_configs" /\ opening' = "mend" /\ statement' = 3 /\ statement = 2
                /\ table.rows = tables[t].rows /\ table.form # "lacking"
           \/ t = "hub_schema_versions" /\ opening' = "validate" /\ statement = 3
  <2>1. CASE NormalizeModes
    <3> DEFINE table == [tables["projects"] EXCEPT !.rows = {Mended(r) : r \in @}]
    <3>1. /\ Change("projects", table) /\ UNCHANGED <<copies, owed, blind, opening>>
          /\ statement' = 2 /\ statement = 1
      BY <2>1 DEF NormalizeModes
    <3>2. /\ tables["projects"] \in [form : Forms, rows : SUBSET RowKinds]
          /\ tables["projects"].form \notin {"absent", "blocking", "lacking"}
      BY <1>1, SchemaLists DEF DatabaseTypes
    <3>3. \A r \in RowKinds : Mended(r) \in RowKinds
      BY DEF Mended, RowKinds
    <3>4. /\ table.form = tables["projects"].form
          /\ table.rows = {Mended(r) : r \in tables["projects"].rows}
          /\ table \in [form : Forms \ {"absent", "blocking"}, rows : SUBSET RowKinds]
      BY <3>2, <3>3
    <3> HIDE DEF table
    <3>5. QED BY <1>1, <3>1, <3>2, <3>4
  <2>2. CASE AddColumns
    <3> DEFINE table == [tables["project_configs"] EXCEPT
                           !.form = IF @ = "lacking" THEN "current" ELSE @]
    <3>1. /\ Change("project_configs", table) /\ UNCHANGED <<copies, owed, blind, opening>>
          /\ statement' = 3 /\ statement = 2
      BY <2>2 DEF AddColumns
    <3>2. /\ tables["project_configs"] \in [form : Forms, rows : SUBSET RowKinds]
          /\ tables["project_configs"].form \notin {"absent", "blocking"}
      BY <1>1, SchemaLists
    <3>3. /\ table.form # "lacking" /\ table.rows = tables["project_configs"].rows
          /\ table \in [form : Forms \ {"absent", "blocking"}, rows : SUBSET RowKinds]
      BY <3>2 DEF Forms
    <3> HIDE DEF table
    <3>4. QED BY <1>1, <3>1, <3>3
  <2>3. CASE StampVersion
    BY <2>3 DEF StampVersion, MoveOn, Table, Forms, RowKinds
  <2>4. QED BY <2>1, <2>2, <2>3
<1>3. /\ t \in SchemaTables /\ t # "workers"
      /\ tables'[t] = table /\ \A u \in SchemaTables \ {t} : tables'[u] = tables[u]
      /\ RowsOf(tables) \subseteq RowsOf(tables') \cup {<<t, Mended(r)>> : r \in tables[t].rows}
      /\ {<<t, Mended(r)>> : r \in table.rows} \subseteq RowsOf(tables')
      /\ tables' = [tables EXCEPT ![t] = table]
  <2>1. t \in SchemaTables /\ t # "workers"
    BY <1>1
  <2>2. tables' = [tables EXCEPT ![t] = table]
    BY <1>2 DEF Change
  <2>3. QED BY <1>1, <1>2, <2>1, <2>2, RowsOfChanged
<1>4. DatabaseTypes'
  <2>1. tables' \in [SchemaTables -> [form : Forms, rows : SUBSET RowKinds]]
    BY <1>1, <1>3
  <2>2. opening' \in Openings
    BY <1>2 DEF Openings
  <2>3. QED BY <1>1, <1>2, <1>3, <2>1, <2>2 DEF DatabaseTypes, Missing
<1>5. RowsPreserved'
  <2>1. \A x \in RowsOf(tables) : x[1] # "hub_schema_versions" => x \in RowsOf(tables')
    <3>1. ASSUME NEW r \in tables[t].rows, t # "hub_schema_versions"
          PROVE  <<t, Mended(r)>> \in RowsOf(tables')
      <4>1. Mended(Mended(r)) = Mended(r)
        BY DEF Mended
      <4>2. r \in table.rows \/ Mended(r) \in table.rows
        BY <1>2, <3>1
      <4>3. Mended(r) \in {Mended(x) : x \in table.rows}
        BY <4>1, <4>2
      <4>4. QED BY <1>3, <4>3
    <3>2. SUFFICES ASSUME NEW x \in RowsOf(tables), x[1] # "hub_schema_versions"
                   PROVE  x \in RowsOf(tables')
      OBVIOUS
    <3>3. CASE \E r \in tables[t].rows : x = <<t, Mended(r)>>
      <4>1. PICK r \in tables[t].rows : x = <<t, Mended(r)>>
        BY <3>3
      <4>2. x[1] = t
        BY <4>1
      <4>3. QED BY <3>1, <3>2, <4>1, <4>2
    <3>4. QED BY <1>3, <3>3
  <2>2. opening' # "drop"
    BY <1>2
  <2>3. QED BY <1>2, <2>1, <2>2, RowsStay
<1>6. Prepared'
  <2>1. \A u \in SchemaTables \ {"workers"} : tables'[u].form \notin {"absent", "blocking"}
    BY <1>1, <1>2, <1>3
  <2>2. \A i \in 1..5 : Settled(i)'
    BY <2>1, SchemaLists DEF Settled
  <2>3. statement >= 2 => "odd" \notin tables["projects"].rows
    BY <1>1 DEF DatabaseInv, Prepared
  <2>4. statement >= 3 => tables["project_configs"].form # "lacking"
    BY <1>1 DEF DatabaseInv, Prepared
  <2>5. "odd" \notin {Mended(r) : r \in tables["projects"].rows}
    BY DEF Mended
  <2>6. "odd" \notin tables'["projects"].rows
    BY <1>1, <1>2, <1>3, <2>3, <2>5
  <2>7. opening' = "validate" \/ statement' = 3 => tables'["project_configs"].form # "lacking"
    BY <1>1, <1>2, <1>3, <2>4
  <2>8. QED BY <1>2, <2>2, <2>6, <2>7 DEF Prepared
<1>7. QED BY <1>2, <1>4, <1>5, <1>6 DEF DatabaseInv, Rebuilt, Usable

\* The validation, the copy of a previous schema, and the one after the rebuild: no
\* table changes, and what the validation did not find is as the open store needs it.
LEMMA ValidationKeeps ==
  ASSUME DatabaseInv, Validate \/ BackUp \/ Revalidate
  PROVE  DatabaseInv'
PROOF
<1>1. UNCHANGED tables /\ statement' = 1 /\ UNCHANGED owed
  BY DEF Validate, BackUp, Revalidate, MoveOn
<1>2. \A t \in SchemaTables : tables[t].form \in Forms
  BY DEF DatabaseInv, DatabaseTypes
<1>3. CASE Validate
  <2>1. PICK fault \in Faults :
           /\ opening' \in {"open", "backup", "drop"}
           /\ opening' = "open" => fault = "nothing"
           /\ opening' = "drop" => fault = "unreadable"
           /\ blind' = IF fault = "unreadable" THEN blind \cup RowsOf(tables) ELSE blind
           /\ UNCHANGED copies
    <3>1. PICK fault \in Faults :
             /\ opening' = CASE fault = "nothing" -> "open"
                             [] fault # "nothing" /\ NeedsBackup(fault) -> "backup"
                             [] OTHER -> "drop"
             /\ blind' = IF fault = "unreadable" THEN blind \cup RowsOf(tables) ELSE blind
             /\ UNCHANGED copies
      BY <1>3 DEF Validate, MoveOn
    <3>2. fault \in {"missing", "unexpected", "nothing", "unreadable"}
      BY DEF Faults
    <3>3. QED BY <3>1, <3>2 DEF NeedsBackup
  <2>2. opening = "validate"
    BY <1>3 DEF Validate
  <2>3. RowsPreserved'
    BY <1>1, <2>1, <2>2 DEF DatabaseInv, RowsPreserved, RowsOf
  <2>4. Usable'
    <3>1. SUFFICES ASSUME opening' = "open"
                   PROVE  /\ Missing("workers") /\ "odd" \notin tables["projects"].rows
                          /\ \A t \in ToSet(Created) : tables[t].form = "current"
      BY <1>1 DEF Usable, Missing
    <3>2. "nothing" \in Faults
      BY <2>1, <3>1
    <3>3. Missing("workers") /\ \A t \in ToSet(Created) : tables[t].form # "previous"
      BY <3>2 DEF Faults
    <3>4. \A t \in ToSet(Created) : tables[t].form \notin {"absent", "blocking"}
      BY <2>2, SchemaLists DEF DatabaseInv, Prepared, Settled
    <3>5. \A t \in ToSet(Created) : tables[t].form # "lacking"
      BY <2>2, SchemaLists DEF DatabaseInv, DatabaseTypes, Prepared
    <3>6. QED BY <1>2, <2>2, <3>3, <3>4, <3>5, SchemaLists DEF Forms, DatabaseInv, Prepared
  <2>5. Prepared' /\ Rebuilt'
    BY <1>1, <2>1 DEF Prepared, Rebuilt
  <2>6. DatabaseTypes'
    BY <1>1, <2>1 DEF DatabaseInv, DatabaseTypes, Openings, Missing
  <2>7. QED BY <2>3, <2>4, <2>5, <2>6 DEF DatabaseInv
<1>4. CASE BackUp
  <2>1. opening' = "drop" /\ copies' = copies \cup RowsOf(tables) /\ UNCHANGED blind
    BY <1>4 DEF BackUp, MoveOn
  <2>2. RowsPreserved'
    BY <1>1, <2>1 DEF DatabaseInv, RowsPreserved, RowsOf
  <2>3. Prepared' /\ Rebuilt' /\ Usable'
    BY <1>1, <2>1 DEF Prepared, Rebuilt, Usable
  <2>4. DatabaseTypes'
    BY <1>1, <2>1 DEF DatabaseInv, DatabaseTypes, Openings, Missing
  <2>5. QED BY <2>2, <2>3, <2>4 DEF DatabaseInv
<1>5. CASE Revalidate
  <2>1. /\ opening = "revalidate" /\ opening' = "open" /\ UNCHANGED <<copies, blind>>
    BY <1>5 DEF Revalidate, MoveOn
  <2>2. RowsPreserved'
    BY <1>1, <2>1 DEF DatabaseInv, RowsPreserved, RowsOf
  <2>3. Missing("workers") /\ \A t \in SchemaTables : Fresh(t)
    BY <2>1 DEF DatabaseInv, Rebuilt
  <2>4. \A t \in ToSet(Created) : ~Missing(t)
    BY <2>1, SchemaLists DEF DatabaseInv, Rebuilt
  <2>5. \A t \in SchemaTables : tables[t].rows = {} /\ (~Missing(t) => tables[t].form = "current")
    BY <2>3 DEF Fresh, Absent, Table, Missing
  <2>6. Usable'
    BY <1>1, <2>3, <2>4, <2>5, SchemaLists DEF Usable, Missing
  <2>7. Prepared' /\ Rebuilt'
    BY <1>1, <2>1 DEF Prepared, Rebuilt
  <2>8. DatabaseTypes'
    BY <1>1, <2>1 DEF DatabaseInv, DatabaseTypes, Openings, Missing
  <2>9. QED BY <2>2, <2>6, <2>7, <2>8 DEF DatabaseInv
<1>6. QED BY <1>3, <1>4, <1>5

\* The rebuild drops a table whose rows are in a copy, or were given up.
LEMMA DropTableKeeps ==
  ASSUME DatabaseInv, DropTable
  PROVE  DatabaseInv'
PROOF
<1> DEFINE t == Dropped[statement]
<1>1. /\ opening = "drop" /\ statement \in 1..6 /\ t \in SchemaTables /\ Len(Dropped) = 6
      /\ \A i \in 1..(statement - 1) : tables[Dropped[i]] = Absent
      /\ RowsOf(tables) \subseteq copies \cup blind
      /\ owed \subseteq RowsOf(tables) \cup copies \cup blind
      /\ DatabaseTypes
  BY SchemaLists DEF DropTable, DatabaseInv, Rebuilt, RowsPreserved
<1>2. /\ Change(t, Absent) /\ UNCHANGED <<copies, owed, blind>>
      /\ \/ statement < 6 /\ statement' = statement + 1 /\ opening' = "drop"
         \/ ~(statement < 6) /\ statement' = 1 /\ opening' = "recreate"
  BY <1>1 DEF DropTable, MoveOn
<1> HIDE DEF t
<1>3. /\ tables'[t] = Absent /\ \A u \in SchemaTables \ {t} : tables'[u] = tables[u]
      /\ RowsOf(tables') \subseteq RowsOf(tables) \cup {<<t, Mended(r)>> : r \in Absent.rows}
  BY <1>1, <1>2, RowsOfChanged
<1>4. Absent.rows = {} /\ Absent.form = "absent" /\ Absent \in [form : Forms, rows : SUBSET RowKinds]
  BY DEF Absent, Forms
<1>5. RowsPreserved'
  <2>1. RowsOf(tables') \subseteq copies \cup blind
    BY <1>1, <1>3, <1>4
  <2>2. owed \subseteq copies \cup blind
    BY <1>1
  <2>3. QED BY <1>2, <2>1, <2>2 DEF DatabaseInv, RowsPreserved
<1>6. DatabaseTypes'
  <2>1. tables' \in [SchemaTables -> [form : Forms, rows : SUBSET RowKinds]]
    BY <1>1, <1>2, <1>4 DEF Change, DatabaseTypes
  <2>2. QED BY <1>1, <1>2, <1>3, <1>4, <2>1 DEF DatabaseTypes, Openings, Missing
<1>7. Rebuilt'
  <2>1. \A i \in 1..statement : tables'[Dropped[i]] = Absent
    <3>1. SUFFICES ASSUME NEW i \in 1..statement PROVE tables'[Dropped[i]] = Absent
      OBVIOUS
    <3>2. i \in 1..6 /\ Dropped[i] \in SchemaTables
      BY <1>1, SchemaLists
    <3>3. CASE Dropped[i] = t
      BY <1>3, <3>3
    <3>4. CASE Dropped[i] # t
      BY <1>1, <1>3, <3>2, <3>4 DEF t
    <3>5. QED BY <3>3, <3>4
  <2>2. CASE statement < 6
    BY <1>1, <1>2, <2>1, <2>2 DEF Rebuilt
  <2>3. CASE ~(statement < 6)
    <3>1. \A u \in SchemaTables : tables'[u] = Absent
      BY <1>1, <2>1, <2>3, SchemaLists
    <3>2. "workers" \in SchemaTables
      BY SchemaLists
    <3>3. QED BY <1>2, <1>4, <2>3, <3>1, <3>2 DEF Rebuilt, Missing, Fresh
  <2>4. QED BY <2>2, <2>3
<1>8. Prepared' /\ Usable'
  BY <1>2 DEF Prepared, Usable
<1>9. QED BY <1>5, <1>6, <1>7, <1>8 DEF DatabaseInv

\* Seeds and handlers change rows of an open store, and none that is owed for another.
LEMMA OpenStoreKeeps ==
  ASSUME DatabaseInv,
         SeedWorkspace \/ \E t \in {"projects", "abac_policies", "role_grants"} : WriteRow(t, "edited")
  PROVE  DatabaseInv'
PROOF
<1>1. /\ opening = "open" /\ UNCHANGED <<opening, copies, blind>>
      /\ {"projects", "abac_policies", "role_grants", "workers"} \subseteq SchemaTables
      /\ DatabaseTypes /\ Usable
  BY SchemaLists DEF SeedWorkspace, WriteRow, DatabaseInv
<1>2. /\ tables' \in [SchemaTables -> [form : Forms, rows : SUBSET RowKinds]]
      /\ \A u \in SchemaTables : tables'[u].form = tables[u].form
      /\ \A u \in SchemaTables \ {"projects", "abac_policies", "role_grants"} : tables'[u] = tables[u]
      /\ \A u \in {"projects", "abac_policies"} : tables[u].rows \ {"default"} \subseteq tables'[u].rows
      /\ "odd" \notin tables'["projects"].rows
      /\ \A u \in SchemaTables : \A r : <<u, r>> \in owed' \ owed => r = "edited" /\ r \in tables'[u].rows
      /\ owed' \subseteq owed \cup ({"projects", "abac_policies"} \X {"edited"})
  <2>1. /\ \A u \in SchemaTables : tables[u] \in [form : Forms, rows : SUBSET RowKinds]
        /\ tables \in [SchemaTables -> [form : Forms, rows : SUBSET RowKinds]]
        /\ "odd" \notin tables["projects"].rows
    BY <1>1 DEF DatabaseTypes, Usable
  <2>2. "default" \in RowKinds /\ "edited" \in RowKinds
    BY DEF RowKinds
  <2>3. CASE SeedWorkspace
    <3> DEFINE grants == [tables["role_grants"] EXCEPT !.rows = {"default"}]
               policies == [tables["abac_policies"] EXCEPT !.rows = IF @ = {} THEN {"default"} ELSE @]
    <3>1. tables' = [tables EXCEPT !["role_grants"] = grants, !["abac_policies"] = policies]
      BY <1>1, <2>1, <2>3 DEF SeedWorkspace
    <3>2. /\ grants \in [form : Forms, rows : SUBSET RowKinds]
          /\ grants.form = tables["role_grants"].form
          /\ policies \in [form : Forms, rows : SUBSET RowKinds]
          /\ policies.form = tables["abac_policies"].form
          /\ tables["abac_policies"].rows \subseteq policies.rows
      BY <1>1, <2>1, <2>2
    <3> HIDE DEF grants, policies
    <3>3. UNCHANGED owed
      BY <2>3 DEF SeedWorkspace
    <3>4. tables'["projects"] = tables["projects"]
      BY <1>1, <2>1, <3>1
    <3>5. QED BY <1>1, <2>1, <3>1, <3>2, <3>3, <3>4
  <2>4. ASSUME NEW t \in {"projects", "abac_policies", "role_grants"}, WriteRow(t, "edited")
        PROVE  /\ tables' \in [SchemaTables -> [form : Forms, rows : SUBSET RowKinds]]
               /\ \A u \in SchemaTables : tables'[u].form = tables[u].form
               /\ \A u \in SchemaTables \ {"projects", "abac_policies", "role_grants"} : tables'[u] = tables[u]
               /\ \A u \in {"projects", "abac_policies"} : tables[u].rows \ {"default"} \subseteq tables'[u].rows
               /\ "odd" \notin tables'["projects"].rows
               /\ \A u \in SchemaTables : \A r : <<u, r>> \in owed' \ owed => r = "edited" /\ r \in tables'[u].rows
               /\ owed' \subseteq owed \cup ({"projects", "abac_policies"} \X {"edited"})
    <3> DEFINE table == [tables[t] EXCEPT !.rows = (@ \ {"default"}) \cup {"edited"}]
    <3>1. tables' = [tables EXCEPT ![t] = table] /\ t \in SchemaTables
      BY <1>1, <2>4 DEF WriteRow, Change
    <3>2. /\ table \in [form : Forms, rows : SUBSET RowKinds]
          /\ table.form = tables[t].form
          /\ table.rows = (tables[t].rows \ {"default"}) \cup {"edited"}
      BY <2>1, <2>2, <3>1
    <3> HIDE DEF table
    <3>3. /\ owed' = owed \/ owed' = owed \cup {<<t, "edited">>}
          /\ t = "role_grants" => owed' = owed
      BY <2>4 DEF WriteRow
    <3>4. tables'[t] = table /\ \A u \in SchemaTables \ {t} : tables'[u] = tables[u]
      BY <2>1, <3>1
    <3>5. tables' \in [SchemaTables -> [form : Forms, rows : SUBSET RowKinds]]
      BY <2>1, <3>1, <3>2
    <3>6. "odd" \notin tables'["projects"].rows
      BY <1>1, <2>1, <3>2, <3>4
    <3>7. owed' \subseteq owed \cup ({"projects", "abac_policies"} \X {"edited"})
      BY <3>3
    <3>8. \A u \in SchemaTables : \A r : <<u, r>> \in owed' \ owed => r = "edited" /\ r \in tables'[u].rows
      BY <3>2, <3>3, <3>4
    <3>9. QED BY <1>1, <3>2, <3>4, <3>5, <3>6, <3>7, <3>8
  <2>5. QED BY <2>3, <2>4
<1>3. DatabaseTypes'
  <2>1. \A u \in SchemaTables : tables[u].form # "absent" \/ u = "workers"
    BY <1>1, SchemaLists DEF Usable
  <2>2. QED BY <1>1, <1>2, <2>1 DEF DatabaseTypes, Missing
<1>4. RowsPreserved'
  <2>1. owed \subseteq {"projects", "abac_policies", "project_configs", "workers"} \X {"plain", "edited"}
        /\ owed \subseteq RowsOf(tables) \cup copies \cup blind
    BY DEF DatabaseInv, RowsPreserved
  <2>2. \A u \in SchemaTables, r \in {"plain", "edited"} :
           <<u, r>> \in RowsOf(tables) <=> \E x \in tables[u].rows : Mended(x) = r
    BY DEF RowsOf
  <2>3. \A u \in SchemaTables, r \in {"plain", "edited"} :
           <<u, r>> \in RowsOf(tables') <=> \E x \in tables'[u].rows : Mended(x) = r
    BY DEF RowsOf
  <2>4. Mended("default") = "default" /\ Mended("edited") = "edited"
    BY DEF Mended
  <2>5. \A u \in {"projects", "abac_policies", "project_configs", "workers"}, r \in {"plain", "edited"} :
           <<u, r>> \in RowsOf(tables) => <<u, r>> \in RowsOf(tables')
    <3>1. {"projects", "abac_policies", "project_configs", "workers"} \subseteq SchemaTables
      BY SchemaLists
    <3>2. \A u \in {"projects", "abac_policies", "project_configs", "workers"} :
             tables[u].rows \ {"default"} \subseteq tables'[u].rows
      BY <1>2, <3>1
    <3>3. SUFFICES ASSUME NEW u \in {"projects", "abac_policies", "project_configs", "workers"},
                          NEW r \in {"plain", "edited"}, <<u, r>> \in RowsOf(tables)
                   PROVE  <<u, r>> \in RowsOf(tables')
      OBVIOUS
    <3>4. u \in SchemaTables
      BY <3>1
    <3>5. PICK x \in tables[u].rows : Mended(x) = r
      BY <2>2, <3>3, <3>4
    <3>6. x \in tables'[u].rows
      BY <2>4, <3>2, <3>5
    <3>7. QED BY <2>3, <3>4, <3>5, <3>6
  <2>6. \A u \in SchemaTables : \A r : <<u, r>> \in owed' \ owed => <<u, r>> \in RowsOf(tables')
    BY <1>2, <2>3, <2>4
  <2>7. owed' \subseteq {"projects", "abac_policies", "project_configs", "workers"} \X {"plain", "edited"}
    BY <1>2, <2>1
  <2>8. owed' \subseteq RowsOf(tables') \cup copies \cup blind
    <3>1. SUFFICES ASSUME NEW u \in {"projects", "abac_policies", "project_configs", "workers"},
                          NEW r \in {"plain", "edited"}, <<u, r>> \in owed'
                   PROVE  <<u, r>> \in RowsOf(tables') \cup copies \cup blind
      BY <2>7
    <3>2. u \in SchemaTables
      BY SchemaLists
    <3>3. QED BY <2>1, <2>5, <2>6, <3>1, <3>2
  <2>9. QED BY <1>1, <2>7, <2>8 DEF RowsPreserved
<1>5. Usable'
  BY <1>1, <1>2, SchemaLists DEF Usable, Missing
<1>6. Prepared' /\ Rebuilt'
  BY <1>1 DEF Prepared, Rebuilt
<1>7. QED BY <1>3, <1>4, <1>5, <1>6 DEF DatabaseInv

\* Every step of an opening, and of the store it opened, keeps the invariant.
LEMMA NextKeepsDatabase == DatabaseInv /\ [MigrationNext]_migrationVars => DatabaseInv'
PROOF
<1> SUFFICES ASSUME DatabaseInv, [MigrationNext]_migrationVars PROVE DatabaseInv'
  OBVIOUS
<1>1. CASE OpenStore \/ StartFails
  <2>1. /\ opening' \in {"create", "off"} /\ statement' = 1 /\ UNCHANGED <<tables, copies, owed, blind>>
    BY <1>1 DEF OpenStore, StartFails, MoveOn
  <2>2. DatabaseTypes' /\ RowsPreserved'
    BY <2>1 DEF DatabaseInv, DatabaseTypes, RowsPreserved, Openings, Missing, RowsOf
  <2>3. QED BY <2>1, <2>2 DEF DatabaseInv, Prepared, Rebuilt, Usable
<1>2. CASE UNCHANGED migrationVars
  BY <1>2 DEF migrationVars, DatabaseInv, DatabaseTypes, RowsPreserved, Prepared, Rebuilt, Usable,
              Missing, RowsOf, Settled, Fresh
<1>3. QED BY <1>1, <1>2, CreateTableKeeps, MendingKeeps, ValidationKeeps, DropTableKeeps,
             OpenStoreKeeps DEF MigrationNext

\* The invariant holds at first, for every database the hub may find.
LEMMA FirstDatabase == MigrationInit => DatabaseInv
PROOF
<1> SUFFICES ASSUME MigrationInit PROVE DatabaseInv
  OBVIOUS
<1>1. PICK p \in {Absent, Table("current", {"odd"}), Table("previous", {"odd"}),
                  Table("blocking", {"plain"})},
           c \in {Absent, Table("lacking", {"plain"}), Table("current", {"plain"})},
           w \in {Absent, Table("previous", {"plain"})} :
        tables = [t \in SchemaTables |-> CASE t = "projects" -> p
                                        [] t = "project_configs" -> c
                                        [] t = "workers" -> w
                                        [] OTHER -> Absent]
  BY DEF MigrationInit
<1>2. \A t \in SchemaTables :
        /\ tables[t] \in [form : Forms, rows : SUBSET RowKinds]
        /\ tables[t].form = "absent" => tables[t].rows = {}
        /\ tables[t].rows \subseteq {"odd", "plain"}
        /\ tables[t].rows = {} \/ t \in {"projects", "abac_policies", "project_configs", "workers"}
        /\ tables[t].form = "lacking" => t = "project_configs"
  <2>1. /\ p.form \in Forms \ {"lacking"} /\ p.rows \in SUBSET {"odd", "plain"}
        /\ p = [form |-> p.form, rows |-> p.rows] /\ (p.form = "absent" => p.rows = {})
    BY DEF Absent, Table, Forms
  <2>2. /\ c.form \in Forms /\ c.rows \in SUBSET {"odd", "plain"}
        /\ c = [form |-> c.form, rows |-> c.rows] /\ (c.form = "absent" => c.rows = {})
    BY DEF Absent, Table, Forms
  <2>3. /\ w.form \in Forms \ {"lacking"} /\ w.rows \in SUBSET {"odd", "plain"}
        /\ w = [form |-> w.form, rows |-> w.rows] /\ (w.form = "absent" => w.rows = {})
    BY DEF Absent, Table, Forms
  <2>4. /\ Absent.form = "absent" /\ Absent.rows = {} /\ "absent" \in Forms
        /\ Absent = [form |-> "absent", rows |-> {}]
    BY DEF Absent, Forms
  <2>5. "odd" \in RowKinds /\ "plain" \in RowKinds
    BY DEF RowKinds
  <2>6. \A t \in SchemaTables : tables[t] = CASE t = "projects" -> p
                                        [] t = "project_configs" -> c
                                        [] t = "workers" -> w
                                        [] OTHER -> Absent
    BY <1>1
  <2>7. QED BY <2>1, <2>2, <2>3, <2>4, <2>5, <2>6
<1>3. opening = "off" /\ owed = RowsOf(tables)
  BY DEF MigrationInit
<1>4. DatabaseTypes
  BY <1>1, <1>2, <1>3 DEF DatabaseTypes, Openings, Missing
<1>5. RowsPreserved
  <2>1. Mended("odd") = "plain" /\ Mended("plain") = "plain"
    BY DEF Mended
  <2>2. RowsOf(tables) \subseteq {"projects", "abac_policies", "project_configs", "workers"} \X {"plain", "edited"}
    BY <1>2, <2>1 DEF RowsOf
  <2>3. QED BY <1>3, <2>2 DEF RowsPreserved
<1>6. QED BY <1>3, <1>4, <1>5 DEF DatabaseInv, Prepared, Rebuilt, Usable

\* However often an opening fails or is killed half way, no row that was ever written is
\* lost but those of a database that was rebuilt because a query of its validation
\* failed; and a store that is open has the tables the hub needs, in their present form.
THEOREM DatabaseKeepsRows == MigrationSpec => []MigrationKeepsRows
PROOF
<1>1. DatabaseInv => MigrationKeepsRows
  BY DEF DatabaseInv, RowsPreserved, Usable, MigrationKeepsRows
<1>2. QED BY <1>1, FirstDatabase, NextKeepsDatabase, PTL DEF MigrationSpec

-------------------------------------------------------------------------------
(* The conversations in memory and in SQLite. What a handler captured is the  *)
(* memory of the moment it names; as long as no write fails, the last change  *)
(* is in a handler's hands, in the tables, or among the named accidents; and  *)
(* requests that do not overlap leave nothing half written but at a crash.    *)

States == [moment : Nat, rows : [Conversations -> Nat]]
Operations == {"create", "change", "delete", "look"}
HandlerStates ==
  {AtRest}
    \cup [at : {"seeded", "acted"}, op : Operations, conversation : Conversations, seed : Nat]
    \cup [at : {"captured", "main", "sessions"}, op : Operations,
          conversation : Conversations, state : States]

StoreTypes ==
  /\ memory \in [Conversations -> Nat] /\ moment \in Nat /\ newest \in Nat /\ unsynced \in Nat
  /\ mainTables \in States /\ sessions \in States /\ runs \in States
  /\ handlers \in [Handlers -> HandlerStates]
  /\ overlapped \in BOOLEAN /\ writeFaults \in Nat
  /\ born \subseteq Conversations

StatesAreTrue ==
  /\ newest <= moment /\ unsynced <= moment /\ mainTables.moment <= newest
  /\ mainTables.moment = moment => mainTables.rows = memory
  /\ \A h \in Handlers : handlers[h].at = "captured" =>
       /\ handlers[h].state.moment <= moment
       /\ handlers[h].state.moment = moment => handlers[h].state.rows = memory

NoWriteForgotten ==
  writeFaults = 0 =>
    \/ \E h \in Handlers : \/ handlers[h].at = "acted"
                           \/ handlers[h].at = "captured" /\ handlers[h].state.moment = moment
    \/ newest = moment
    \/ unsynced = moment
    \/ /\ \A h \in Handlers : handlers[h].at \in {"rest", "seeded"}
       /\ memory = mainTables.rows

Synced == mainTables.rows = memory /\ sessions = mainTables /\ runs = mainTables

\* What is true of the only request, wherever it is.
Attended(h) ==
  /\ handlers[h].at # "rest" => handlers[h].conversation \in born \ gone
  /\ handlers[h].at = "seeded" /\ handlers[h].op # "create"
       => memory[handlers[h].conversation] # 0
  /\ handlers[h].at \in {"acted", "captured", "main", "sessions"} =>
       /\ handlers[h].op # "look"
       /\ handlers[h].op = "delete" => memory[handlers[h].conversation] = 0
  /\ handlers[h].at \in {"captured", "main", "sessions"} => handlers[h].state.rows = memory
  /\ handlers[h].at \in {"main", "sessions"} => mainTables = handlers[h].state
  /\ handlers[h].at = "sessions" => sessions = handlers[h].state

Serial ==
  ~overlapped /\ writeFaults = 0 =>
    /\ \A g, h \in Handlers : handlers[g].at # "rest" /\ handlers[h].at # "rest" => g = h
    /\ gone \subseteq born
    /\ \A c \in gone : memory[c] = 0 /\ mainTables.rows[c] = 0
    /\ (\A h \in Handlers : handlers[h].at \in {"rest", "seeded"}) => Synced
    /\ \A h \in Handlers : Attended(h)

StoreInv == StoreTypes /\ StatesAreTrue /\ NoWriteForgotten /\ Serial

\* The fields of a handler's record, by where it is.
LEMMA HandlerFields ==
  ASSUME NEW me \in HandlerStates
  PROVE  /\ me.at \in {"rest", "seeded", "acted", "captured", "main", "sessions"}
         /\ me.at = "rest" <=> me = AtRest
         /\ me.at \in {"seeded", "acted"} =>
              me \in [at : {"seeded", "acted"}, op : Operations, conversation : Conversations,
                      seed : Nat]
         /\ me.at \in {"captured", "main", "sessions"} =>
              me \in [at : {"captured", "main", "sessions"}, op : Operations,
                      conversation : Conversations, state : States]
PROOF
<1>1. AtRest.at = "rest"
  BY DEF AtRest
<1>2. QED BY <1>1 DEF HandlerStates

\* A handler moves: it is where it moves to, and the others are where they were.
LEMMA HandlerGoes ==
  ASSUME StoreTypes, NEW h \in Handlers, NEW to \in HandlerStates, Go(h, to)
  PROVE  /\ handlers'[h] = to /\ \A g \in Handlers \ {h} : handlers'[g] = handlers[g]
         /\ handlers' \in [Handlers -> HandlerStates]
PROOF
BY DEF StoreTypes, Go

\* A request that comes in while another is at work is no longer serial.
LEMMA ArriveKeepsStore ==
  ASSUME StoreInv, NEW h \in Handlers, NEW c \in Conversations, NEW op \in Operations,
         Arrive(h, c, op)
  PROVE  StoreInv'
PROOF
<1> DEFINE to == [at |-> "seeded", op |-> op, conversation |-> c, seed |-> Seed(c)]
<1>1. /\ UNCHANGED <<memory, moment, mainTables, sessions, runs, newest, unsynced, gone, writeFaults>>
      /\ handlers[h] = AtRest /\ born' = born \cup {c} /\ Go(h, to)
      /\ IF op = "create" THEN c \notin born ELSE Seed(c) # 0
      /\ overlapped' = (overlapped \/ \E g \in Handlers \ {h} : handlers[g] # AtRest)
  BY DEF Arrive
<1>2. to \in HandlerStates /\ Seed(c) \in Nat
  <2>1. Seed(c) \in Nat
    BY DEF Seed, StoreInv, StoreTypes, States
  <2>2. QED BY <2>1 DEF HandlerStates
<1>3. /\ to.at = "seeded" /\ to.op = op /\ to.conversation = c
      /\ handlers[h].at = "rest"
  BY <1>1 DEF AtRest
<1> HIDE DEF to
<1>4. /\ handlers'[h] = to /\ \A g \in Handlers \ {h} : handlers'[g] = handlers[g]
      /\ handlers' \in [Handlers -> HandlerStates]
  BY <1>1, <1>2, HandlerGoes DEF StoreInv
<1>5. StoreTypes'
  BY <1>1, <1>4 DEF StoreInv, StoreTypes
<1>6. StatesAreTrue'
  BY <1>1, <1>3, <1>4 DEF StoreInv, StatesAreTrue
<1>7. NoWriteForgotten'
  BY <1>1, <1>3, <1>4 DEF StoreInv, NoWriteForgotten
<1>8. Serial'
  <2>1. SUFFICES ASSUME ~overlapped', writeFaults' = 0
                 PROVE  /\ \A f, g \in Handlers : handlers'[f].at # "rest" /\ handlers'[g].at # "rest" => f = g
                        /\ gone' \subseteq born'
                        /\ \A x \in gone' : memory'[x] = 0 /\ mainTables'.rows[x] = 0
                        /\ (\A g \in Handlers : handlers'[g].at \in {"rest", "seeded"}) => Synced'
                        /\ \A g \in Handlers : Attended(g)'
    BY DEF Serial
  <2>2. ~overlapped /\ writeFaults = 0 /\ \A g \in Handlers : handlers[g] = AtRest
    BY <1>1, <2>1 DEF StoreInv, StoreTypes
  <2>3. \A g \in Handlers : handlers[g].at = "rest"
    BY <2>2 DEF AtRest
  <2>4. Synced /\ gone \subseteq born /\ \A x \in gone : memory[x] = 0 /\ mainTables.rows[x] = 0
    BY <2>2, <2>3 DEF StoreInv, Serial
  <2>5. \A g \in Handlers \ {h} : handlers'[g].at = "rest"
    BY <1>4, <2>3
  <2>6. op # "create" => memory[c] # 0
    BY <1>1, <2>4 DEF Seed, Synced
  <2>7. c \notin gone
    BY <1>1, <2>4, <2>6
  <2>8. \A g \in Handlers : Attended(g)'
    BY <1>1, <1>3, <1>4, <2>5, <2>6, <2>7 DEF Attended
  <2>9. QED BY <1>1, <2>4, <2>5, <2>8 DEF Synced
<1>9. QED BY <1>5, <1>6, <1>7, <1>8 DEF StoreInv

\* The critical section.
LEMMA ActKeepsStore ==
  ASSUME StoreInv, NEW h \in Handlers, Act(h)
  PROVE  StoreInv'
PROOF
<1> DEFINE me == handlers[h]
           c == me.conversation
           puts == me.op # "look" \/ memory[c] = 0
           to == IF me.op = "look" THEN AtRest ELSE [me EXCEPT !.at = "acted"]
<1>1. /\ me.at = "seeded" /\ me.op \in Operations /\ c \in Conversations /\ me.seed \in Nat
      /\ me \in [at : {"seeded", "acted"}, op : Operations, conversation : Conversations, seed : Nat]
  <2>1. me.at = "seeded" /\ me \in HandlerStates
    BY DEF Act, StoreInv, StoreTypes
  <2>2. QED BY <2>1, HandlerFields
<1>2. /\ moment' = IF puts THEN moment + 1 ELSE moment
      /\ memory' = [memory EXCEPT ![c] =
                      CASE me.op = "delete" -> 0
                        [] me.op = "look" -> IF @ = 0 THEN me.seed ELSE @
                        [] OTHER -> moment + 1]
      /\ unsynced' = IF me.op = "look" /\ puts THEN moment' ELSE unsynced
      /\ Go(h, to)
      /\ UNCHANGED <<mainTables, sessions, runs, newest, born, gone, overlapped, writeFaults>>
  BY DEF Act
<1>3. /\ to \in HandlerStates
      /\ to.at = IF me.op = "look" THEN "rest" ELSE "acted"
      /\ me.op # "look" => to.op = me.op /\ to.conversation = c
  BY <1>1 DEF HandlerStates, AtRest
<1>4. /\ memory' \in [Conversations -> Nat] /\ moment' \in Nat /\ unsynced' \in Nat
      /\ moment \in Nat /\ newest \in Nat /\ unsynced \in Nat /\ mainTables.moment \in Nat
      /\ \A x \in Conversations \ {c} : memory'[x] = memory[x]
      /\ ~puts => memory' = memory
      /\ me.op = "delete" => memory'[c] = 0
  <2>1. memory \in [Conversations -> Nat] /\ moment \in Nat /\ newest \in Nat /\ unsynced \in Nat
        /\ mainTables.moment \in Nat
    BY DEF StoreInv, StoreTypes, States
  <2>2. QED BY <1>1, <1>2, <2>1 DEF Operations
<1>5. \A g \in Handlers : handlers[g].at = "captured" => handlers[g].state.moment \in Nat
  BY HandlerFields DEF StoreInv, StoreTypes, States
<1> HIDE DEF to
<1>6. /\ handlers'[h] = to /\ \A g \in Handlers \ {h} : handlers'[g] = handlers[g]
      /\ handlers' \in [Handlers -> HandlerStates]
  BY <1>2, <1>3, HandlerGoes DEF StoreInv
<1>7. StoreTypes'
  BY <1>2, <1>4, <1>6 DEF StoreInv, StoreTypes
<1>8. StatesAreTrue'
  <2>1. StatesAreTrue /\ UNCHANGED <<mainTables, newest>>
    BY <1>2 DEF StoreInv
  <2>2. \A g \in Handlers : handlers'[g].at = "captured" =>
          handlers[g].at = "captured" /\ handlers'[g].state = handlers[g].state
    BY <1>3, <1>6
  <2>3. CASE puts
    <3>1. moment' = moment + 1 /\ unsynced' \in {unsynced, moment + 1}
      BY <1>2, <2>3
    <3>2. \A g \in Handlers : handlers[g].at = "captured" => handlers[g].state.moment <= moment
      BY <2>1 DEF StatesAreTrue
    <3>3. \A g \in Handlers : handlers'[g].at = "captured" =>
            handlers'[g].state.moment <= moment' /\ handlers'[g].state.moment # moment'
      BY <1>4, <1>5, <2>2, <3>1, <3>2
    <3>4. /\ newest' <= moment' /\ unsynced' <= moment' /\ mainTables'.moment <= newest'
          /\ mainTables'.moment # moment'
      BY <1>4, <2>1, <3>1 DEF StatesAreTrue
    <3>5. QED BY <3>3, <3>4 DEF StatesAreTrue
  <2>4. CASE ~puts
    <3>1. UNCHANGED <<moment, unsynced, memory>>
      BY <1>2, <1>4, <2>4
    <3>2. QED BY <2>1, <2>2, <3>1 DEF StatesAreTrue
  <2>5. QED BY <2>3, <2>4
<1>9. NoWriteForgotten'
  <2>1. CASE me.op # "look"
    BY <1>3, <1>6, <2>1 DEF NoWriteForgotten
  <2>2. CASE me.op = "look" /\ puts
    BY <1>2, <2>2 DEF NoWriteForgotten
  <2>3. CASE ~puts
    <3>1. UNCHANGED <<moment, unsynced, memory, mainTables, newest, writeFaults>>
      BY <1>2, <1>4, <2>3
    <3>2. \A g \in Handlers : handlers'[g] = handlers[g] \/ (g = h /\ handlers'[g].at = "rest")
      BY <1>3, <1>6, <2>3
    <3>3. NoWriteForgotten /\ handlers[h].at = "seeded"
      BY <1>1 DEF StoreInv
    <3>4. QED BY <3>1, <3>2, <3>3 DEF NoWriteForgotten
  <2>4. QED BY <2>1, <2>2, <2>3
<1>10. Serial'
  <2>1. SUFFICES ASSUME ~overlapped, writeFaults = 0
                 PROVE  /\ \A f, g \in Handlers : handlers'[f].at # "rest" /\ handlers'[g].at # "rest" => f = g
                        /\ gone \subseteq born
                        /\ \A x \in gone : memory'[x] = 0 /\ mainTables.rows[x] = 0
                        /\ (\A g \in Handlers : handlers'[g].at \in {"rest", "seeded"}) => Synced'
                        /\ \A g \in Handlers : Attended(g)'
    BY <1>2 DEF Serial
  <2>2. /\ \A f, g \in Handlers : handlers[f].at # "rest" /\ handlers[g].at # "rest" => f = g
        /\ gone \subseteq born /\ \A x \in gone : memory[x] = 0 /\ mainTables.rows[x] = 0
        /\ (\A g \in Handlers : handlers[g].at \in {"rest", "seeded"}) => Synced
        /\ Attended(h)
    BY <2>1 DEF StoreInv, Serial
  <2>3. \A g \in Handlers \ {h} : handlers[g].at = "rest" /\ handlers'[g].at = "rest"
    BY <1>1, <1>6, <2>2
  <2>4. Synced /\ c \in born \ gone /\ (me.op = "look" => memory[c] # 0 /\ ~puts)
    BY <1>1, <2>2, <2>3 DEF Attended
  <2>5. Attended(h)'
    BY <1>2, <1>3, <1>4, <1>6, <2>4 DEF Attended
  <2>6. \A g \in Handlers : Attended(g)'
    BY <2>3, <2>5 DEF Attended
  <2>7. (\A g \in Handlers : handlers'[g].at \in {"rest", "seeded"}) => Synced'
    BY <1>2, <1>3, <1>4, <1>6, <2>4 DEF Synced
  <2>8. \A x \in gone : memory'[x] = 0
    BY <1>4, <2>2, <2>4 DEF StoreInv, StoreTypes
  <2>9. QED BY <2>2, <2>3, <2>6, <2>7, <2>8
<1>11. QED BY <1>7, <1>8, <1>9, <1>10 DEF StoreInv

\* The read lock: what is captured is the memory of this moment.
LEMMA CaptureKeepsStore ==
  ASSUME StoreInv, NEW h \in Handlers, Capture(h)
  PROVE  StoreInv'
PROOF
<1> DEFINE me == handlers[h]
           to == [at |-> "captured", op |-> me.op, conversation |-> me.conversation,
                  state |-> Captured]
<1>1. /\ me.at = "acted" /\ Go(h, to)
      /\ UNCHANGED <<memory, moment, mainTables, sessions, runs, newest, unsynced, born, gone,
                     overlapped, writeFaults>>
  BY DEF Capture
<1>2. me.op \in Operations /\ me.conversation \in Conversations
  BY <1>1, HandlerFields DEF StoreInv, StoreTypes
<1>3. /\ to \in HandlerStates /\ to.at = "captured" /\ to.op = me.op
      /\ to.conversation = me.conversation
      /\ to.state.moment = moment /\ to.state.rows = memory
  BY <1>2 DEF HandlerStates, Captured, States, StoreInv, StoreTypes
<1> HIDE DEF to
<1>4. /\ handlers'[h] = to /\ \A g \in Handlers \ {h} : handlers'[g] = handlers[g]
      /\ handlers' \in [Handlers -> HandlerStates]
  BY <1>1, <1>3, HandlerGoes DEF StoreInv
<1>5. StoreTypes'
  BY <1>1, <1>4 DEF StoreInv, StoreTypes
<1>6. StatesAreTrue'
  BY <1>1, <1>3, <1>4 DEF StoreInv, StatesAreTrue, StoreTypes
<1>7. NoWriteForgotten'
  BY <1>1, <1>3, <1>4 DEF NoWriteForgotten
<1>8. Serial'
  <2>1. SUFFICES ASSUME ~overlapped, writeFaults = 0
                 PROVE  /\ \A f, g \in Handlers : handlers'[f].at # "rest" /\ handlers'[g].at # "rest" => f = g
                        /\ gone \subseteq born
                        /\ \A x \in gone : memory[x] = 0 /\ mainTables.rows[x] = 0
                        /\ (\A g \in Handlers : handlers'[g].at \in {"rest", "seeded"}) => Synced'
                        /\ \A g \in Handlers : Attended(g)'
    BY <1>1 DEF Serial
  <2>2. /\ \A f, g \in Handlers : handlers[f].at # "rest" /\ handlers[g].at # "rest" => f = g
        /\ gone \subseteq born /\ \A x \in gone : memory[x] = 0 /\ mainTables.rows[x] = 0
        /\ \A g \in Handlers : Attended(g)
    BY <2>1 DEF StoreInv, Serial
  <2>3. Attended(h)'
    BY <1>1, <1>3, <1>4, <2>2 DEF Attended
  <2>4. \A g \in Handlers \ {h} : Attended(g)'
    BY <1>1, <1>4, <2>2 DEF Attended
  <2>5. \A f, g \in Handlers : handlers'[f].at # "rest" /\ handlers'[g].at # "rest" => f = g
    BY <1>1, <1>3, <1>4, <2>2
  <2>6. handlers'[h].at = "captured"
    BY <1>3, <1>4
  <2>7. QED BY <2>2, <2>3, <2>4, <2>5, <2>6
<1>9. QED BY <1>5, <1>6, <1>7, <1>8 DEF StoreInv

\* The main tables are replaced by what was captured, unless the write fails.
LEMMA WriteMainKeepsStore ==
  ASSUME StoreInv, NEW h \in Handlers, WriteMain(h)
  PROVE  StoreInv'
PROOF
<1> DEFINE me == handlers[h]
           to == [me EXCEPT !.at = "main"]
<1>1. /\ me.at = "captured" /\ Go(h, to)
      /\ \/ /\ mainTables' = me.state /\ UNCHANGED writeFaults
            /\ newest' = IF me.state.moment > newest THEN me.state.moment ELSE newest
         \/ writeFaults' = writeFaults + 1 /\ UNCHANGED <<mainTables, newest>>
      /\ UNCHANGED <<memory, moment, sessions, runs, unsynced, born, gone, overlapped>>
  BY DEF WriteMain, Replaced, Fault
<1>2. me \in [at : {"captured", "main", "sessions"}, op : Operations,
              conversation : Conversations, state : States]
  BY <1>1, HandlerFields DEF StoreInv, StoreTypes
<1>3. /\ to \in HandlerStates /\ to.at = "main" /\ to.op = me.op
      /\ to.conversation = me.conversation /\ to.state = me.state
      /\ me.state \in States /\ me.state.moment \in Nat
  BY <1>2 DEF HandlerStates, States
<1> HIDE DEF to
<1>4. /\ handlers'[h] = to /\ \A g \in Handlers \ {h} : handlers'[g] = handlers[g]
      /\ handlers' \in [Handlers -> HandlerStates]
  BY <1>1, <1>3, HandlerGoes DEF StoreInv
<1>5. /\ StoreTypes /\ StatesAreTrue /\ NoWriteForgotten /\ Serial
      /\ moment \in Nat /\ newest \in Nat /\ writeFaults \in Nat /\ mainTables.moment \in Nat
  BY DEF StoreInv, StoreTypes, States
<1>6. StoreTypes'
  BY <1>1, <1>3, <1>4, <1>5 DEF StoreTypes
<1>7. StatesAreTrue'
  <2>1. /\ \A g \in Handlers : handlers'[g].at = "captured" =>
             handlers[g].at = "captured" /\ handlers'[g].state = handlers[g].state
        /\ me.state.moment <= moment /\ (me.state.moment = moment => me.state.rows = memory)
    BY <1>1, <1>3, <1>4, <1>5 DEF StatesAreTrue
  <2>2. CASE mainTables' = me.state /\ newest' = IF me.state.moment > newest THEN me.state.moment ELSE newest
    BY <1>1, <1>3, <1>5, <2>1, <2>2 DEF StatesAreTrue
  <2>3. CASE UNCHANGED <<mainTables, newest>>
    BY <1>1, <1>5, <2>1, <2>3 DEF StatesAreTrue
  <2>4. QED BY <1>1, <2>2, <2>3
<1>8. NoWriteForgotten'
  <2>1. SUFFICES ASSUME writeFaults' = 0
                 PROVE  \/ \E g \in Handlers :
                             \/ handlers'[g].at = "acted"
                             \/ handlers'[g].at = "captured" /\ handlers'[g].state.moment = moment
                        \/ newest' = moment \/ unsynced = moment
    BY <1>1 DEF NoWriteForgotten
  <2>2. /\ writeFaults = 0 /\ mainTables' = me.state
        /\ newest' = IF me.state.moment > newest THEN me.state.moment ELSE newest
    BY <1>1, <1>5, <2>1
  <2>3. newest <= moment /\ me.state.moment <= moment
    BY <1>1, <1>5 DEF StatesAreTrue
  <2>4. CASE newest = moment \/ me.state.moment = moment
    BY <1>3, <1>5, <2>2, <2>3, <2>4
  <2>5. CASE unsynced = moment
    BY <2>5
  <2>6. ASSUME NEW g \in Handlers, me.state.moment # moment,
               handlers[g].at = "acted" \/ (handlers[g].at = "captured" /\ handlers[g].state.moment = moment)
        PROVE  handlers'[g].at = "acted" \/ (handlers'[g].at = "captured" /\ handlers'[g].state.moment = moment)
    BY <1>1, <1>4, <2>6
  <2>7. QED BY <1>1, <1>5, <2>2, <2>4, <2>5, <2>6 DEF NoWriteForgotten
<1>9. Serial'
  <2>1. SUFFICES ASSUME ~overlapped, writeFaults' = 0
                 PROVE  /\ \A f, g \in Handlers : handlers'[f].at # "rest" /\ handlers'[g].at # "rest" => f = g
                        /\ gone \subseteq born
                        /\ \A x \in gone : memory[x] = 0 /\ mainTables'.rows[x] = 0
                        /\ (\A g \in Handlers : handlers'[g].at \in {"rest", "seeded"}) => Synced'
                        /\ \A g \in Handlers : Attended(g)'
    BY <1>1 DEF Serial
  <2>2. writeFaults = 0 /\ mainTables' = me.state
    BY <1>1, <1>5, <2>1
  <2>3. /\ \A f, g \in Handlers : handlers[f].at # "rest" /\ handlers[g].at # "rest" => f = g
        /\ gone \subseteq born /\ \A x \in gone : memory[x] = 0
        /\ Attended(h)
    BY <1>5, <2>1, <2>2 DEF Serial
  <2>4. me.state.rows = memory
    BY <1>1, <2>3 DEF Attended
  <2>5. \A g \in Handlers \ {h} : handlers'[g].at = "rest"
    BY <1>1, <1>4, <2>3
  <2>6. Attended(h)'
    BY <1>1, <1>3, <1>4, <2>2, <2>3, <2>4 DEF Attended
  <2>7. \A g \in Handlers : Attended(g)'
    BY <2>5, <2>6 DEF Attended
  <2>8. handlers'[h].at = "main"
    BY <1>3, <1>4
  <2>9. QED BY <2>2, <2>3, <2>4, <2>5, <2>7, <2>8
<1>10. QED BY <1>6, <1>7, <1>8, <1>9 DEF StoreInv

\* The runtime tables follow one by one; the handler is done at the last, or at the
\* first that fails.
LEMMA WriteRuntimeKeepsStore ==
  ASSUME StoreInv, NEW h \in Handlers, WriteSessions(h) \/ WriteRuns(h)
  PROVE  StoreInv'
PROOF
<1> DEFINE me == handlers[h]
<1>1. /\ me.at \in {"main", "sessions"}
      /\ me \in [at : {"captured", "main", "sessions"}, op : Operations,
                 conversation : Conversations, state : States]
      /\ UNCHANGED <<memory, moment, mainTables, newest, unsynced, born, overlapped>>
  <2>1. me.at \in {"main", "sessions"} /\ UNCHANGED <<memory, moment, mainTables, newest, unsynced, born, overlapped>>
    BY DEF WriteSessions, WriteRuns
  <2>2. QED BY <2>1, HandlerFields DEF StoreInv, StoreTypes
<1>2. PICK to \in {AtRest, [me EXCEPT !.at = "sessions"]} :
        /\ Go(h, to)
        /\ to = AtRest => gone' = IF me.op = "delete" THEN gone \cup {me.conversation} ELSE gone
        /\ to # AtRest => me.at = "main" /\ gone' = gone
        /\ \/ /\ UNCHANGED writeFaults
              /\ IF me.at = "main" THEN sessions' = me.state /\ runs' = runs /\ to # AtRest
                 ELSE runs' = me.state /\ sessions' = sessions
           \/ writeFaults' = writeFaults + 1 /\ UNCHANGED <<sessions, runs>>
  <2>1. [me EXCEPT !.at = "sessions"].at = "sessions" /\ AtRest.at = "rest"
    BY <1>1 DEF AtRest
  <2>2. [me EXCEPT !.at = "sessions"] # AtRest
    BY <2>1
  <2>3. CASE WriteSessions(h)
    BY <2>2, <2>3 DEF WriteSessions, Ends, Fault
  <2>4. CASE WriteRuns(h)
    BY <2>2, <2>4 DEF WriteRuns, Ends, Fault
  <2>5. QED BY <2>3, <2>4
<1>3. /\ to \in HandlerStates
      /\ to.at \in {"rest", "sessions"} /\ (to.at = "rest" <=> to = AtRest)
      /\ to # AtRest => to.op = me.op /\ to.conversation = me.conversation /\ to.state = me.state
      /\ me.state \in States
  <2>1. AtRest.at = "rest"
    BY DEF AtRest
  <2>2. QED BY <1>1, <1>2, <2>1 DEF HandlerStates
<1>4. /\ handlers'[h] = to /\ \A g \in Handlers \ {h} : handlers'[g] = handlers[g]
      /\ handlers' \in [Handlers -> HandlerStates]
  BY <1>2, <1>3, HandlerGoes DEF StoreInv
<1>5. StoreTypes /\ StatesAreTrue /\ NoWriteForgotten /\ Serial /\ writeFaults \in Nat
  BY DEF StoreInv, StoreTypes
<1>6. StoreTypes'
  BY <1>1, <1>2, <1>3, <1>4, <1>5 DEF StoreTypes
<1>7. \A g \in Handlers : handlers'[g] = handlers[g] \/ (g = h /\ handlers'[g].at \in {"rest", "sessions"})
  BY <1>3, <1>4
<1>8. StatesAreTrue'
  BY <1>1, <1>5, <1>7 DEF StatesAreTrue
<1>9. NoWriteForgotten'
  BY <1>1, <1>2, <1>5, <1>7 DEF NoWriteForgotten
<1>10. Serial'
  <2>1. SUFFICES ASSUME ~overlapped, writeFaults' = 0
                 PROVE  /\ \A f, g \in Handlers : handlers'[f].at # "rest" /\ handlers'[g].at # "rest" => f = g
                        /\ gone' \subseteq born
                        /\ \A x \in gone' : memory[x] = 0 /\ mainTables.rows[x] = 0
                        /\ (\A g \in Handlers : handlers'[g].at \in {"rest", "seeded"}) => Synced'
                        /\ \A g \in Handlers : Attended(g)'
    BY <1>1 DEF Serial
  <2>2. /\ writeFaults = 0
        /\ IF me.at = "main" THEN sessions' = me.state /\ runs' = runs /\ to # AtRest
           ELSE runs' = me.state /\ sessions' = sessions
    BY <1>2, <1>5, <2>1
  <2>3. /\ \A f, g \in Handlers : handlers[f].at # "rest" /\ handlers[g].at # "rest" => f = g
        /\ gone \subseteq born /\ \A x \in gone : memory[x] = 0 /\ mainTables.rows[x] = 0
        /\ Attended(h)
    BY <1>5, <2>1, <2>2 DEF Serial
  <2>4. /\ me.state.rows = memory /\ mainTables = me.state
        /\ me.conversation \in born /\ (me.op = "delete" => memory[me.conversation] = 0)
        /\ me.conversation \notin gone /\ me.op # "look"
        /\ me.at = "sessions" => sessions = me.state
    BY <1>1, <2>3 DEF Attended
  <2>5. \A g \in Handlers \ {h} : handlers'[g].at = "rest"
    BY <1>1, <1>4, <2>3
  <2>6. gone' \subseteq born /\ \A x \in gone' : memory[x] = 0 /\ mainTables.rows[x] = 0
    BY <1>2, <2>3, <2>4
  <2>7. Attended(h)'
    BY <1>1, <1>2, <1>3, <1>4, <2>2, <2>4 DEF Attended
  <2>8. \A g \in Handlers : Attended(g)'
    BY <2>5, <2>7 DEF Attended
  <2>9. (\A g \in Handlers : handlers'[g].at \in {"rest", "seeded"}) => Synced'
    <3>1. SUFFICES ASSUME handlers'[h].at \in {"rest", "seeded"} PROVE Synced'
      OBVIOUS
    <3>2. me.at = "sessions" /\ runs' = me.state /\ sessions' = sessions
      BY <1>1, <1>3, <1>4, <2>2, <3>1
    <3>3. QED BY <1>1, <2>4, <3>2 DEF Synced
  <2>10. QED BY <2>5, <2>6, <2>8, <2>9
<1>11. QED BY <1>6, <1>8, <1>9, <1>10 DEF StoreInv

\* A restart: memory is what the main tables hold, and the runtime tables follow.
LEMMA CrashKeepsStore ==
  ASSUME StoreInv, CrashAndHydrate
  PROVE  StoreInv'
PROOF
<1>1. /\ handlers' = [h \in Handlers |-> AtRest] /\ memory' = mainTables.rows
      /\ newest' = mainTables.moment /\ unsynced' = 0
      /\ sessions' = mainTables /\ runs' = mainTables
      /\ UNCHANGED <<mainTables, moment, born, gone, overlapped, writeFaults>>
  BY DEF CrashAndHydrate, Rewritten
<1>2. /\ \A h \in Handlers : handlers'[h] = AtRest /\ handlers'[h].at = "rest"
      /\ handlers' \in [Handlers -> HandlerStates]
  BY <1>1 DEF AtRest, HandlerStates
<1>3. StoreTypes'
  BY <1>1, <1>2 DEF StoreInv, StoreTypes, States
<1>4. StatesAreTrue'
  <2>1. mainTables.moment \in Nat /\ moment \in Nat /\ newest \in Nat
    BY DEF StoreInv, StoreTypes, States
  <2>2. QED BY <1>1, <1>2, <2>1 DEF StoreInv, StatesAreTrue
<1>5. NoWriteForgotten'
  BY <1>1, <1>2 DEF NoWriteForgotten
<1>6. Serial'
  BY <1>1, <1>2 DEF StoreInv, Serial, Synced, Attended
<1>7. QED BY <1>3, <1>4, <1>5, <1>6 DEF StoreInv

\* Every step of a handler, and a restart at any moment, keeps the invariant.
LEMMA NextKeepsStore == StoreInv /\ [StoreNext]_storeVars => StoreInv'
PROOF
<1> SUFFICES ASSUME StoreInv, [StoreNext]_storeVars PROVE StoreInv'
  OBVIOUS
<1>1. CASE UNCHANGED storeVars
  BY <1>1 DEF storeVars, StoreInv, StoreTypes, StatesAreTrue, NoWriteForgotten, Serial, Synced,
              Attended
<1>2. ASSUME NEW h \in Handlers, NEW c \in Conversations,
             NEW op \in {"create", "change", "delete", "look"}, Arrive(h, c, op)
      PROVE  StoreInv'
  BY <1>2, ArriveKeepsStore DEF Operations
<1>3. QED BY <1>1, <1>2, ActKeepsStore, CaptureKeepsStore, WriteMainKeepsStore,
             WriteRuntimeKeepsStore, CrashKeepsStore DEF StoreNext

\* The tables are the memory: after requests that do not overlap always, whatever the
\* moments of the restarts; after any others unless an older state was written over a
\* newer one, a lookup put a conversation back and nobody has written since, or a write
\* failed.
THEOREM StoreKeepsMemory == StoreSpec => []TablesKeepMemory
PROOF
<1>1. StoreInit => StoreInv
  <2> SUFFICES ASSUME StoreInit PROVE StoreInv
    OBVIOUS
  <2>1. Nothing \in States /\ Nothing.moment = 0 /\ Nothing.rows = [c \in Conversations |-> 0]
    BY DEF Nothing, States
  <2>2. \A h \in Handlers : handlers[h] = AtRest /\ handlers[h].at = "rest"
    BY DEF StoreInit, AtRest
  <2>3. StoreTypes
    BY <2>1 DEF StoreInit, StoreTypes, States, HandlerStates
  <2>4. StatesAreTrue
    BY <2>1, <2>2 DEF StoreInit, StatesAreTrue
  <2>5. NoWriteForgotten /\ Serial
    BY <2>1, <2>2 DEF StoreInit, NoWriteForgotten, Serial, Synced, Attended
  <2>6. QED BY <2>3, <2>4, <2>5 DEF StoreInv
<1>2. StoreInv => TablesKeepMemory
  <2> SUFFICES ASSUME StoreInv PROVE TablesKeepMemory
    OBVIOUS
  <2>1. AllAtRest => \A h \in Handlers : handlers[h].at = "rest"
    BY DEF AllAtRest, AtRest
  <2>2. SerialIsDurable
    BY <2>1 DEF StoreInv, Serial, Synced, SerialIsDurable
  <2>3. OnlyOvertakenIsStale
    <3>1. SUFFICES ASSUME AllAtRest, writeFaults = 0
                   PROVE  mainTables.rows = memory \/ mainTables.moment < newest \/ newest < unsynced
      BY DEF OnlyOvertakenIsStale
    <3>2. newest = moment \/ unsynced = moment \/ memory = mainTables.rows
      BY <2>1, <3>1 DEF StoreInv, NoWriteForgotten
    <3>3. /\ moment \in Nat /\ newest \in Nat /\ unsynced \in Nat /\ mainTables.moment \in Nat
          /\ newest <= moment /\ unsynced <= moment /\ mainTables.moment <= newest
          /\ mainTables.moment = moment => mainTables.rows = memory
      BY DEF StoreInv, StoreTypes, States, StatesAreTrue
    <3>4. QED BY <3>2, <3>3
  <2>4. QED BY <2>2, <2>3 DEF TablesKeepMemory
<1>3. QED BY <1>1, <1>2, NextKeepsStore, PTL DEF StoreSpec
-------------------------------------------------------------------------------
(* The events on their way to a client. What makes the claims of EventStream   *)
(* inductive: events are ordered, so that what a client has seen last says what *)
(* it still needs; it is warned, by a resync in front of its messages, when     *)
(* the history no longer tells it; and what a crash may take from the hub is    *)
(* older than what comes next.                                                  *)

Messages == [id : 1..Unknown, resync : BOOLEAN]

\* Only the first message of a list is a resync, the others are in their order.
Sorted(q) ==
  \A j \in 1..Len(q) :
    /\ q[j].resync => j = 1
    /\ \A i \in 1..Len(q) : i < j /\ ~q[i].resync => q[i].id < q[j].id

\* A list of events of the hub.
Faithful(q, events) ==
  \A m \in ToSet(q) : IF m.resync THEN m.id = Unknown ELSE m.id \in events
Warns(q) == \E m \in ToSet(q) : m.resync

Ascends(s) == \A i, j \in 1..Len(s) : i < j => s[i] < s[j]
Saved == {facts[i] : i \in 1..saved}

StreamTypes ==
  /\ facts \in Seq(1..MaxEvents) /\ saved \in 0..Len(facts) /\ lastEvent \in 0..MaxEvents
  /\ up \in BOOLEAN /\ channel \in Seq(Messages) /\ wire \in Seq(Messages)
  /\ lastSeen \in 0..lastEvent \cup {Unknown} /\ view \subseteq 1..lastEvent
  /\ fetch \in [stage : {"none", "asked", "answered"}, events : SUBSET (1..lastEvent)]
  /\ fetch.stage = "none" => fetch = NoFetch
  /\ blocking \in BOOLEAN /\ skipped \in BOOLEAN
  /\ Ascends(facts) /\ \A i \in 1..Len(facts) : facts[i] <= lastEvent

\* What is written and what waits in the channel.
Underway ==
  /\ ~up => wire = <<>> /\ channel = <<>>
  /\ Len(channel) <= ChannelSize
  /\ Sorted(wire) /\ Sorted(channel) /\ ~Warns(channel)
  /\ Faithful(wire, ToSet(facts)) /\ Faithful(channel, ToSet(facts))
  /\ \A m \in ToSet(wire), n \in ToSet(channel) : ~m.resync => m.id < n.id
  /\ Warns(wire) => lastSeen \notin ToSet(History(facts))

\* A fetch begins with a resync; as long as nothing is ignored, it was the last message.
Fetching ==
  /\ fetch # NoFetch => lastSeen # None
  /\ fetch # NoFetch /\ ~skipped => blocking /\ lastSeen = Unknown
  /\ blocking => fetch # NoFetch

\* What the client has seen, will see or has lost.
Seen(v, l) == lastSeen # Unknown => \A f \in ToSet(facts) : f <= lastSeen => f \in v \cup l
Comes(v, l) == up /\ ~Warns(wire) => ToSet(facts) \subseteq v \cup Ids(wire) \cup Ids(channel) \cup l
Covered ==
  /\ fetch = NoFetch /\ lastSeen # None => Seen(view, lost)
  /\ fetch = NoFetch => Comes(view, lost)
  /\ fetch.stage = "answered" /\ ~skipped => Comes(fetch.events, lost)

\* The events of the view that a crash may still take from the hub.
Loose == {v \in view : v \in ToSet(facts) /\ v \notin Saved /\ v \notin kept}

\* Those are older than what the client will see next, and the hub knows the last event
\* the client has seen, or will warn it.
Grounded ==
  /\ \A v \in Loose : \A m \in ToSet(wire) : m.resync \/ v < m.id
  /\ \A v \in Loose : \A m \in ToSet(channel) : v < m.id
  /\ lastSeen = None => view = {}
  /\ lastSeen # Unknown => \A v \in Loose : lastSeen \in ToSet(facts) /\ v <= lastSeen
  /\ lastSeen = Unknown => \A v \in Loose : \A h \in ToSet(History(facts)) : v < h

\* The view has nothing that the hub has forgotten, unless the client will be warned.
Honest ==
  fetch = NoFetch /\ (lastSeen \in ToSet(facts) \/ (up /\ ~Warns(wire))) =>
    view \subseteq ToSet(facts) \cup kept

StreamInv == StreamTypes /\ Underway /\ Fetching /\ Covered /\ Grounded /\ Honest

-------------------------------------------------------------------------------
(* The history and what a connection starts with.                             *)

HistoryStart(s) == IF Len(s) > HistoryLimit THEN Len(s) - HistoryLimit + 1 ELSE 1

\* The history is the end of the list of events.
LEMMA HistoryIs ==
  ASSUME NEW s \in Seq(1..MaxEvents)
  PROVE  /\ History(s) \in Seq(1..MaxEvents) /\ HistoryStart(s) \in 1..(Len(s) + 1)
         /\ Len(History(s)) = Len(s) - HistoryStart(s) + 1
         /\ \A i \in 1..Len(History(s)) : History(s)[i] = s[HistoryStart(s) + i - 1]
         /\ ToSet(History(s)) = {s[i] : i \in HistoryStart(s)..Len(s)}
PROOF
<1> DEFINE n == HistoryStart(s)
           h == History(s)
<1>1. Len(s) \in Nat /\ DOMAIN s = 1..Len(s) /\ HistoryLimit \in Nat \ {0}
  BY StreamAssumption
<1>2. n \in 1..(Len(s) + 1)
  BY <1>1 DEF HistoryStart
<1>3. h = SubSeq(s, n, Len(s))
  BY DEF History, HistoryStart
<1> HIDE DEF n, h
<1>4. /\ h \in Seq(1..MaxEvents) /\ Len(h) = Len(s) - n + 1
      /\ \A i \in 1..Len(h) : h[i] = s[n + i - 1]
  <2>1. n \in 1..Len(s)+1 /\ Len(s) \in (n-1)..Len(s)
    BY <1>1, <1>2
  <2>2. /\ h \in Seq(1..MaxEvents)
        /\ Len(h) = IF n <= Len(s) THEN Len(s) - n + 1 ELSE 0
        /\ \A i \in 1..(Len(s) - n + 1) : h[i] = s[n + i - 1]
    <3>1. ASSUME NEW i \in n..Len(s) PROVE s[i] \in 1..MaxEvents
      <4>1. i \in 1..Len(s)
        BY <1>1, <1>2
      <4>2. QED BY <4>1, ElementOfSeq
    <3>2. QED BY <1>1, <1>2, <1>3, <3>1, SubSeqProperties
  <2>3. QED BY <1>1, <1>2, <2>2
<1>5. ToSet(h) = {s[i] : i \in n..Len(s)}
  <2>1. DOMAIN h = 1..Len(h)
    BY <1>4
  <2>2. ASSUME NEW i \in 1..Len(h) PROVE n + i - 1 \in n..Len(s)
    BY <1>1, <1>2, <1>4
  <2>3. ASSUME NEW i \in n..Len(s) PROVE i - n + 1 \in 1..Len(h) /\ h[i - n + 1] = s[i]
    <3>1. i - n + 1 \in 1..Len(h) /\ n + (i - n + 1) - 1 = i
      BY <1>1, <1>2, <1>4
    <3>2. QED BY <1>4, <3>1
  <2>4. \A x \in ToSet(h) : \E i \in n..Len(s) : x = s[i]
    BY <1>4, <2>1, <2>2 DEF ToSet
  <2>5. \A i \in n..Len(s) : s[i] \in ToSet(h)
    BY <2>1, <2>3 DEF ToSet
  <2>6. QED BY <2>4, <2>5
<1>6. QED BY <1>2, <1>4, <1>5 DEF n, h

\* What the hub's events, the saved ones and the history have to do with each other.
LEMMA FactsAre ==
  ASSUME StreamTypes
  PROVE  /\ ToSet(facts) \subseteq 1..lastEvent /\ Saved \subseteq ToSet(facts)
         /\ ToSet(History(facts)) \subseteq ToSet(facts)
         /\ \A f \in ToSet(facts), h \in ToSet(History(facts)) : f > h => f \in ToSet(History(facts))
         /\ \A f \in ToSet(facts), v \in Saved : f < v => f \in Saved
         /\ lastEvent \in Nat /\ MaxEvents \in Nat /\ lastEvent <= MaxEvents
         /\ Unknown = MaxEvents + 1 /\ Unknown \notin ToSet(facts) /\ None \notin ToSet(facts)
PROOF
<1>1. /\ facts \in Seq(1..MaxEvents) /\ Len(facts) \in Nat /\ DOMAIN facts = 1..Len(facts)
      /\ saved \in 0..Len(facts) /\ lastEvent \in 0..MaxEvents /\ MaxEvents \in Nat
      /\ Ascends(facts) /\ \A i \in 1..Len(facts) : facts[i] \in 1..lastEvent
  BY StreamAssumption DEF StreamTypes
<1>2. /\ HistoryStart(facts) \in 1..(Len(facts) + 1)
      /\ ToSet(History(facts)) = {facts[i] : i \in HistoryStart(facts)..Len(facts)}
  BY <1>1, HistoryIs
<1>3. ToSet(facts) = {facts[i] : i \in 1..Len(facts)}
  BY <1>1 DEF ToSet
<1>4. ToSet(facts) \subseteq 1..lastEvent /\ Saved \subseteq ToSet(facts)
      /\ ToSet(History(facts)) \subseteq ToSet(facts)
  <2>1. ToSet(facts) \subseteq 1..lastEvent
    BY <1>1, <1>3
  <2>2. 1..saved \subseteq 1..Len(facts) /\ HistoryStart(facts)..Len(facts) \subseteq 1..Len(facts)
    BY <1>1, <1>2
  <2>3. QED BY <1>2, <1>3, <2>1, <2>2 DEF Saved
<1>5. ASSUME NEW f \in ToSet(facts), NEW h \in ToSet(History(facts)), f > h
      PROVE  f \in ToSet(History(facts))
  <2>1. PICK i \in 1..Len(facts) : f = facts[i]
    BY <1>3
  <2>2. PICK j \in HistoryStart(facts)..Len(facts) : h = facts[j]
    BY <1>2
  <2>3. j \in 1..Len(facts) /\ facts[i] \in Nat /\ facts[j] \in Nat
    <3>1. j \in 1..Len(facts)
      BY <1>1, <1>2
    <3>2. QED BY <1>1, <3>1
  <2>4. i \in HistoryStart(facts)..Len(facts)
    <3>1. ~(i < j)
      BY <1>1, <1>5, <2>1, <2>2, <2>3 DEF Ascends
    <3>2. QED BY <1>1, <1>2, <2>2, <3>1
  <2>5. QED BY <1>2, <2>1, <2>4
<1>6. ASSUME NEW f \in ToSet(facts), NEW v \in Saved, f < v
      PROVE  f \in Saved
  <2>1. PICK i \in 1..Len(facts) : f = facts[i]
    BY <1>3
  <2>2. PICK j \in 1..saved : v = facts[j]
    BY DEF Saved
  <2>3. j \in 1..Len(facts) /\ facts[i] \in Nat /\ facts[j] \in Nat
    <3>1. j \in 1..Len(facts)
      BY <1>1
    <3>2. QED BY <1>1, <3>1
  <2>4. i \in 1..saved
    <3>1. ~(j < i)
      BY <1>1, <1>6, <2>1, <2>2, <2>3 DEF Ascends
    <3>2. QED BY <1>1, <3>1
  <2>5. QED BY <2>1, <2>4 DEF Saved
<1>7. Unknown = MaxEvents + 1 /\ Unknown \notin ToSet(facts) /\ None \notin ToSet(facts)
  BY <1>1, <1>4 DEF Unknown, None
<1>8. QED BY <1>1, <1>4, <1>5, <1>6, <1>7

\* A new event is the newest of the history.
LEMMA AppendFacts ==
  ASSUME StreamTypes, lastEvent < MaxEvents, facts' = Append(facts, lastEvent + 1), saved' = saved,
         lastEvent' = lastEvent + 1
  PROVE  /\ facts' \in Seq(1..MaxEvents) /\ Ascends(facts') /\ \A i \in 1..Len(facts') : facts'[i] <= lastEvent'
         /\ saved' \in 0..Len(facts') /\ lastEvent' \in 0..MaxEvents
         /\ ToSet(facts') = ToSet(facts) \cup {lastEvent + 1} /\ Saved' = Saved
         /\ ToSet(History(facts')) \subseteq ToSet(History(facts)) \cup {lastEvent + 1}
PROOF
<1> DEFINE id == lastEvent + 1
<1>1. /\ facts \in Seq(1..MaxEvents) /\ Len(facts) \in Nat /\ DOMAIN facts = 1..Len(facts)
      /\ saved \in 0..Len(facts) /\ lastEvent \in Nat /\ id \in 1..MaxEvents /\ MaxEvents \in Nat
      /\ Ascends(facts) /\ \A i \in 1..Len(facts) : facts[i] <= lastEvent
      /\ \A i \in DOMAIN facts : facts[i] \in 1..MaxEvents
  BY StreamAssumption DEF StreamTypes
<1>2. /\ facts' \in Seq(1..MaxEvents) /\ Len(facts') = Len(facts) + 1
      /\ \A i \in 1..Len(facts) : facts'[i] = facts[i]
      /\ facts'[Len(facts) + 1] = id
  BY <1>1, AppendProperties
<1>3. /\ HistoryStart(facts') \in 1..(Len(facts) + 1 + 1) /\ HistoryStart(facts) \in 1..(Len(facts) + 1)
      /\ HistoryStart(facts) <= HistoryStart(facts')
      /\ ToSet(History(facts)) = {facts[i] : i \in HistoryStart(facts)..Len(facts)}
      /\ ToSet(History(facts')) = {facts'[i] : i \in HistoryStart(facts')..(Len(facts) + 1)}
  <2>1. HistoryStart(facts) <= HistoryStart(facts')
    BY <1>1, <1>2, StreamAssumption DEF HistoryStart
  <2>2. /\ HistoryStart(facts) \in 1..(Len(facts) + 1)
        /\ ToSet(History(facts)) = {facts[i] : i \in HistoryStart(facts)..Len(facts)}
    BY <1>1, HistoryIs
  <2>3. /\ HistoryStart(facts') \in 1..(Len(facts) + 1 + 1)
        /\ ToSet(History(facts')) = {facts'[i] : i \in HistoryStart(facts')..(Len(facts) + 1)}
    BY <1>2, HistoryIs
  <2>4. QED BY <2>1, <2>2, <2>3
<1>4. DOMAIN facts' = 1..(Len(facts) + 1)
  BY <1>2
<1> HIDE DEF id
<1>5. ToSet(facts') = ToSet(facts) \cup {id}
  <2>1. \A x \in ToSet(facts') : x \in ToSet(facts) \cup {id}
    <3>1. \A i \in 1..(Len(facts) + 1) : i \in 1..Len(facts) \/ i = Len(facts) + 1
      BY <1>1
    <3>2. QED BY <1>1, <1>2, <1>4, <3>1 DEF ToSet
  <2>2. \A x \in ToSet(facts) \cup {id} : x \in ToSet(facts')
    <3>1. \A i \in 1..Len(facts) : i \in 1..(Len(facts) + 1)
      BY <1>1
    <3>2. Len(facts) + 1 \in 1..(Len(facts) + 1)
      BY <1>1
    <3>3. QED BY <1>1, <1>2, <1>4, <3>1, <3>2 DEF ToSet
  <2>3. QED BY <2>1, <2>2
<1>6. ToSet(History(facts')) \subseteq ToSet(History(facts)) \cup {id}
  <2>1. SUFFICES ASSUME NEW i \in HistoryStart(facts')..(Len(facts) + 1)
                 PROVE  facts'[i] \in ToSet(History(facts)) \cup {id}
    BY <1>3
  <2>2. i = Len(facts) + 1 \/ (i \in HistoryStart(facts)..Len(facts) /\ i \in 1..Len(facts))
    BY <1>1, <1>3
  <2>3. QED BY <1>2, <1>3, <2>2
<1>7. Saved' = Saved
  <2>1. \A i \in 1..saved : facts'[i] = facts[i]
    BY <1>1, <1>2
  <2>2. QED BY <2>1 DEF Saved
<1>8. Ascends(facts')
  <2>1. SUFFICES ASSUME NEW i \in 1..(Len(facts) + 1), NEW j \in 1..(Len(facts) + 1), i < j
                 PROVE  facts'[i] < facts'[j]
    BY <1>2 DEF Ascends
  <2>2. i \in 1..Len(facts)
    BY <1>1, <2>1
  <2>3. CASE j = Len(facts) + 1
    BY <1>1, <1>2, <2>2, <2>3 DEF id
  <2>4. CASE j \in 1..Len(facts)
    BY <1>1, <1>2, <2>1, <2>2, <2>4 DEF Ascends
  <2>5. QED BY <1>1, <2>3, <2>4
<1>9. \A i \in 1..Len(facts') : facts'[i] <= lastEvent'
  <2>1. \A i \in 1..(Len(facts) + 1) : i \in 1..Len(facts) \/ i = Len(facts) + 1
    BY <1>1
  <2>2. QED BY <1>1, <1>2, <1>4, <2>1 DEF id
<1>10. saved' \in 0..Len(facts') /\ lastEvent' \in 0..MaxEvents
  BY <1>1, <1>2 DEF id
<1>11. QED BY <1>2, <1>5, <1>6, <1>7, <1>8, <1>9, <1>10 DEF id
-------------------------------------------------------------------------------
(* Lists of messages.                                                         *)

\* The set of the elements of a list.
LEMMA ToSetIs ==
  ASSUME NEW S, NEW q \in Seq(S)
  PROVE  /\ ToSet(q) = {q[i] : i \in 1..Len(q)} /\ ToSet(q) \subseteq S
         /\ Len(q) \in Nat /\ DOMAIN q = 1..Len(q)
PROOF
<1>1. DOMAIN q = 1..Len(q) /\ Len(q) \in Nat
  OBVIOUS
<1>2. \A i \in 1..Len(q) : q[i] \in S
  BY ElementOfSeq
<1>3. ToSet(q) = {q[i] : i \in 1..Len(q)}
  BY <1>1 DEF ToSet
<1>4. QED BY <1>1, <1>2, <1>3

\* The ids of a list.
LEMMA IdsAre ==
  ASSUME NEW q \in Seq(Messages)
  PROVE  Ids(q) = {m.id : m \in ToSet(q)}
PROOF
<1>1. ToSet(q) = {q[i] : i \in 1..Len(q)} /\ DOMAIN q = 1..Len(q)
  BY ToSetIs
<1>2. QED BY <1>1 DEF Ids

\* What is left when the first message of a list is taken.
LEMMA TailIs ==
  ASSUME NEW q \in Seq(Messages), q # <<>>, Sorted(q)
  PROVE  /\ Head(q) \in Messages /\ Tail(q) \in Seq(Messages) /\ Sorted(Tail(q))
         /\ ToSet(q) = {Head(q)} \cup ToSet(Tail(q))
         /\ \A m \in ToSet(Tail(q)) : ~m.resync /\ (~Head(q).resync => Head(q).id < m.id)
PROOF
<1>1. /\ Head(q) \in Messages /\ Tail(q) \in Seq(Messages) /\ Len(Tail(q)) = Len(q) - 1
      /\ \A i \in 1..Len(Tail(q)) : Tail(q)[i] = q[i + 1]
  BY HeadTailProperties
<1>2. Len(q) \in Nat \ {0} /\ Head(q) = q[1]
  BY EmptySeq
<1>3. /\ ToSet(q) = {q[i] : i \in 1..Len(q)}
      /\ ToSet(Tail(q)) = {Tail(q)[i] : i \in 1..Len(Tail(q))}
  BY <1>1, ToSetIs
<1>4. \A i \in 1..Len(Tail(q)) : i + 1 \in 1..Len(q) /\ 1 < i + 1
  BY <1>1, <1>2
<1>5. \A i \in 1..Len(q) : i = 1 \/ i - 1 \in 1..Len(Tail(q))
  BY <1>1, <1>2
<1>6. 1 \in 1..Len(q)
  BY <1>2
<1>7. ToSet(q) = {Head(q)} \cup ToSet(Tail(q))
  <2>1. ASSUME NEW i \in 1..Len(q), i # 1 PROVE q[i] = Tail(q)[i - 1]
    <3>1. i - 1 \in 1..Len(Tail(q)) /\ i - 1 + 1 = i
      BY <1>5, <2>1
    <3>2. QED BY <1>1, <3>1
  <2>2. \A x \in ToSet(q) : x \in {Head(q)} \cup ToSet(Tail(q))
    BY <1>2, <1>3, <1>5, <2>1
  <2>3. \A x \in {Head(q)} \cup ToSet(Tail(q)) : x \in ToSet(q)
    BY <1>1, <1>2, <1>3, <1>4, <1>6
  <2>4. QED BY <2>2, <2>3
<1>8. ASSUME NEW i \in 1..Len(Tail(q))
      PROVE  ~Tail(q)[i].resync /\ (~Head(q).resync => Head(q).id < Tail(q)[i].id)
  BY <1>1, <1>2, <1>4, <1>6 DEF Sorted
<1>9. Sorted(Tail(q))
  <2>1. ASSUME NEW i \in 1..Len(Tail(q)), NEW j \in 1..Len(Tail(q)), i < j, ~Tail(q)[i].resync
        PROVE  Tail(q)[i].id < Tail(q)[j].id
    <3>1. i + 1 < j + 1
      BY <2>1
    <3>2. QED BY <1>1, <1>4, <2>1, <3>1 DEF Sorted
  <2>2. QED BY <1>8, <2>1 DEF Sorted
<1>10. QED BY <1>1, <1>3, <1>7, <1>8, <1>9

\* A message put behind all others.
LEMMA AppendIs ==
  ASSUME NEW q \in Seq(Messages), NEW m \in Messages, Sorted(q), ~m.resync,
         \A n \in ToSet(q) : n.resync \/ n.id < m.id
  PROVE  /\ Append(q, m) \in Seq(Messages) /\ Sorted(Append(q, m))
         /\ ToSet(Append(q, m)) = ToSet(q) \cup {m}
PROOF
<1> DEFINE p == Append(q, m)
<1>1. /\ p \in Seq(Messages) /\ Len(p) = Len(q) + 1 /\ p[Len(q) + 1] = m
      /\ \A i \in 1..Len(q) : p[i] = q[i]
  BY AppendProperties
<1>2. Len(q) \in Nat /\ ToSet(q) = {q[i] : i \in 1..Len(q)} /\ ToSet(p) = {p[i] : i \in 1..Len(p)}
  BY <1>1, ToSetIs
<1> HIDE DEF p
<1>3. /\ \A i \in 1..Len(p) : i \in 1..Len(q) \/ i = Len(q) + 1
      /\ \A i \in 1..Len(q) : i \in 1..Len(p)
      /\ Len(q) + 1 \in 1..Len(p)
  BY <1>1, <1>2
<1>4. ToSet(p) = ToSet(q) \cup {m}
  BY <1>1, <1>2, <1>3
<1>5. Sorted(p)
  <2>1. ASSUME NEW j \in 1..Len(p), p[j].resync PROVE j = 1
    BY <1>1, <1>3, <2>1 DEF Sorted
  <2>2. ASSUME NEW i \in 1..Len(p), NEW j \in 1..Len(p), i < j, ~p[i].resync PROVE p[i].id < p[j].id
    <3>1. i \in 1..Len(q)
      BY <1>1, <1>2, <2>2
    <3>2. CASE j = Len(q) + 1
      BY <1>1, <1>2, <2>2, <3>1, <3>2
    <3>3. CASE j \in 1..Len(q)
      BY <1>1, <2>2, <3>1, <3>3 DEF Sorted
    <3>4. QED BY <1>3, <3>2, <3>3
  <2>3. QED BY <2>1, <2>2 DEF Sorted
<1>6. QED BY <1>1, <1>4, <1>5 DEF p

\* Two lists, one behind the other.
LEMMA ConcatIs ==
  ASSUME NEW p \in Seq(Messages), NEW q \in Seq(Messages)
  PROVE  p \o q \in Seq(Messages) /\ ToSet(p \o q) = ToSet(p) \cup ToSet(q)
PROOF
<1> DEFINE r == p \o q
<1>1. /\ r \in Seq(Messages) /\ Len(r) = Len(p) + Len(q)
      /\ \A i \in 1..(Len(p) + Len(q)) : r[i] = IF i <= Len(p) THEN p[i] ELSE q[i - Len(p)]
  BY ConcatProperties
<1>2. /\ ToSet(p) = {p[i] : i \in 1..Len(p)} /\ ToSet(q) = {q[i] : i \in 1..Len(q)}
      /\ ToSet(r) = {r[i] : i \in 1..Len(r)} /\ Len(p) \in Nat /\ Len(q) \in Nat
  BY <1>1, ToSetIs
<1> HIDE DEF r
<1>3. ASSUME NEW i \in 1..Len(p) PROVE i \in 1..Len(r) /\ r[i] = p[i]
  BY <1>1, <1>2
<1>4. ASSUME NEW i \in 1..Len(q) PROVE Len(p) + i \in 1..Len(r) /\ r[Len(p) + i] = q[i]
  <2>1. Len(p) + i \in 1..(Len(p) + Len(q)) /\ ~(Len(p) + i <= Len(p)) /\ Len(p) + i - Len(p) = i
    BY <1>2
  <2>2. QED BY <1>1, <2>1
<1>5. ASSUME NEW i \in 1..Len(r) PROVE r[i] \in ToSet(p) \cup ToSet(q)
  <2>1. CASE i <= Len(p)
    BY <1>1, <1>2, <2>1
  <2>2. CASE ~(i <= Len(p))
    <3>1. i - Len(p) \in 1..Len(q)
      BY <1>1, <1>2, <2>2
    <3>2. QED BY <1>1, <1>2, <2>2, <3>1
  <2>3. QED BY <2>1, <2>2
<1>6. ToSet(r) = ToSet(p) \cup ToSet(q)
  <2>1. \A x \in ToSet(r) : x \in ToSet(p) \cup ToSet(q)
    BY <1>2, <1>5
  <2>2. \A x \in ToSet(p) \cup ToSet(q) : x \in ToSet(r)
    BY <1>2, <1>3, <1>4
  <2>3. QED BY <2>1, <2>2
<1>7. QED BY <1>1, <1>6 DEF r

Resync == [id |-> Unknown, resync |-> TRUE]

\* The messages of ascending events.
LEMMA ListIs ==
  ASSUME NEW h \in Seq(1..MaxEvents), Ascends(h), NEW q, q = [i \in DOMAIN h |-> Event(h[i])]
  PROVE  /\ q \in Seq(Messages) /\ Sorted(q)
         /\ ToSet(q) = {Event(x) : x \in ToSet(h)}
PROOF
<1>1. /\ Len(h) \in Nat /\ DOMAIN h = 1..Len(h) /\ ToSet(h) = {h[i] : i \in 1..Len(h)}
      /\ \A i \in 1..Len(h) : h[i] \in 1..MaxEvents
  BY ToSetIs, ElementOfSeq
<1>2. \A x \in 1..MaxEvents : Event(x) \in Messages /\ Event(x).id = x /\ ~Event(x).resync
  BY StreamAssumption DEF Event, Messages, Unknown
<1>3. q = [i \in 1..Len(h) |-> Event(h[i])]
  BY <1>1
<1>4. \A i \in 1..Len(h) : q[i] = Event(h[i]) /\ q[i] \in Messages /\ q[i].id = h[i] /\ ~q[i].resync
  BY <1>1, <1>2, <1>3
<1>5. q \in Seq(Messages) /\ Len(q) = Len(h)
  <2>1. q \in [1..Len(h) -> Messages]
    BY <1>1, <1>2, <1>3
  <2>2. q \in Seq(Messages)
    BY <1>1, <2>1, SeqDef
  <2>3. DOMAIN q = 1..Len(h) /\ DOMAIN q = 1..Len(q) /\ Len(q) \in Nat
    BY <1>3, <2>2, LenProperties
  <2>4. QED BY <1>1, <2>2, <2>3
<1>6. Sorted(q)
  <2>1. ASSUME NEW i \in 1..Len(q), NEW j \in 1..Len(q), i < j PROVE q[i].id < q[j].id
    <3>1. i \in 1..Len(h) /\ j \in 1..Len(h)
      BY <1>5
    <3>2. h[i] < h[j]
      BY <2>1, <3>1 DEF Ascends
    <3>3. QED BY <1>4, <3>1, <3>2
  <2>2. \A j \in 1..Len(q) : ~q[j].resync
    BY <1>4, <1>5
  <2>3. QED BY <2>1, <2>2 DEF Sorted
<1>7. ToSet(q) = {Event(x) : x \in ToSet(h)}
  <2>1. ToSet(q) = {q[i] : i \in 1..Len(h)}
    <3>1. ToSet(q) = {q[i] : i \in 1..Len(q)}
      BY ONLY <1>5, ToSetIs
    <3>2. QED BY <1>5, <3>1
  <2>2. QED BY <1>1, <1>4, <2>1
<1>8. QED BY <1>5, <1>6, <1>7

\* A warning in front of a list.
LEMMA WarnedIs ==
  ASSUME NEW q \in Seq(Messages), Sorted(q), \A m \in ToSet(q) : ~m.resync
  PROVE  /\ <<Resync>> \o q \in Seq(Messages) /\ Sorted(<<Resync>> \o q)
         /\ ToSet(<<Resync>> \o q) = {Resync} \cup ToSet(q)
PROOF
<1>1. Resync \in Messages /\ Resync.resync
  BY StreamAssumption DEF Resync, Messages, Unknown
<1> DEFINE w == <<Resync>>
           r == w \o q
<1>2. w \in Seq(Messages) /\ Len(w) = 1 /\ w[1] = Resync
  BY <1>1
<1> HIDE DEF w
<1>3. ToSet(w) = {Resync}
  <2>1. ToSet(w) = {w[i] : i \in 1..Len(w)}
    BY <1>2, ToSetIs
  <2>2. 1..Len(w) = {1}
    BY <1>2
  <2>3. QED BY <1>2, <2>1, <2>2
<1>4. r \in Seq(Messages) /\ ToSet(r) = {Resync} \cup ToSet(q)
  BY <1>2, <1>3, ConcatIs
<1>5. /\ Len(r) = 1 + Len(q) /\ Len(q) \in Nat /\ ToSet(q) = {q[i] : i \in 1..Len(q)}
      /\ \A i \in 1..(1 + Len(q)) : r[i] = IF i <= 1 THEN w[i] ELSE q[i - 1]
  <2>1. /\ Len(r) = Len(w) + Len(q)
        /\ \A i \in 1..(Len(w) + Len(q)) : r[i] = IF i <= Len(w) THEN w[i] ELSE q[i - Len(w)]
    BY <1>2, ConcatProperties
  <2>2. Len(q) \in Nat /\ ToSet(q) = {q[i] : i \in 1..Len(q)}
    BY ToSetIs
  <2> HIDE DEF r
  <2>3. QED BY <1>2, <2>1, <2>2
<1> HIDE DEF r
<1>6. r[1] = Resync
  BY <1>2, <1>5
<1>7. ASSUME NEW i \in 1..Len(r), i # 1
      PROVE  i - 1 \in 1..Len(q) /\ r[i] = q[i - 1] /\ ~r[i].resync
  <2>1. i - 1 \in 1..Len(q) /\ ~(i <= 1) /\ i \in 1..(1 + Len(q))
    BY <1>5, <1>7
  <2>2. r[i] = q[i - 1]
    BY <1>5, <2>1
  <2>3. QED BY <1>5, <2>1, <2>2
<1>8. Sorted(r)
  <2>1. ASSUME NEW i \in 1..Len(r), NEW j \in 1..Len(r), i < j, ~r[i].resync PROVE r[i].id < r[j].id
    <3>1. i # 1
      BY <1>1, <1>6, <2>1
    <3>2. j # 1 /\ i - 1 < j - 1
      BY <1>5, <2>1, <3>1
    <3>3. ~q[i - 1].resync
      BY <1>7, <2>1, <3>1
    <3>4. q[i - 1].id < q[j - 1].id
      BY <1>7, <3>1, <3>2, <3>3 DEF Sorted
    <3>5. QED BY <1>7, <3>1, <3>2, <3>4
  <2>2. QED BY <1>7, <2>1 DEF Sorted
<1>9. QED BY <1>4, <1>8 DEF r, w

\* What a connection starts with: the rest of the history, or all of it behind a warning.
LEMMA BacklogIs ==
  ASSUME StreamTypes
  PROVE  /\ Backlog \in Seq(Messages) /\ Sorted(Backlog)
         /\ lastSeen = None => ToSet(Backlog) = {Event(h) : h \in ToSet(History(facts))}
         /\ lastSeen # None /\ lastSeen \in ToSet(History(facts)) =>
              ToSet(Backlog) = {Event(h) : h \in {k \in ToSet(History(facts)) : lastSeen < k}}
         /\ lastSeen # None /\ lastSeen \notin ToSet(History(facts)) =>
              ToSet(Backlog) = {Resync} \cup {Event(h) : h \in ToSet(History(facts))}
PROOF
<1> DEFINE n == HistoryStart(facts)
           s == History(facts)
           named == {i \in DOMAIN s : s[i] = lastSeen}
           all == [i \in DOMAIN s |-> Event(s[i])]
<1>1. /\ facts \in Seq(1..MaxEvents) /\ Len(facts) \in Nat /\ Ascends(facts)
      /\ lastSeen \in Nat /\ Unknown \in Nat
      /\ \A i \in 1..Len(facts) : facts[i] \in Nat
  <2>1. facts \in Seq(1..MaxEvents) /\ Len(facts) \in Nat /\ Ascends(facts)
    BY DEF StreamTypes
  <2>2. lastSeen \in Nat /\ Unknown \in Nat
    BY StreamAssumption DEF StreamTypes, Unknown
  <2>3. \A i \in 1..Len(facts) : facts[i] \in 1..MaxEvents
    BY <2>1, ElementOfSeq
  <2>4. QED BY <2>1, <2>2, <2>3
<1>2. /\ s \in Seq(1..MaxEvents) /\ n \in 1..(Len(facts) + 1) /\ Len(s) = Len(facts) - n + 1
      /\ \A i \in 1..Len(s) : s[i] = facts[n + i - 1]
  BY <1>1, HistoryIs
<1>3. ToSet(s) = {s[i] : i \in 1..Len(s)} /\ DOMAIN s = 1..Len(s) /\ Len(s) \in Nat
  BY <1>2, ToSetIs
<1>4. Backlog = IF lastSeen = None THEN all
                ELSE IF named = {} THEN <<Resync>> \o all
                ELSE [i \in DOMAIN SubSeq(s, (CHOOSE i \in named : TRUE) + 1, Len(s))
                        |-> Event(SubSeq(s, (CHOOSE j \in named : TRUE) + 1, Len(s))[i])]
  BY DEF Backlog, ListEventsSince, Resync
<1> HIDE DEF n, s, named, all
<1>5. Ascends(s)
  <2>1. \A i \in 1..Len(s) : n + i - 1 \in 1..Len(facts)
    BY <1>1, <1>2
  <2>2. SUFFICES ASSUME NEW i \in 1..Len(s), NEW j \in 1..Len(s), i < j PROVE s[i] < s[j]
    BY DEF Ascends
  <2>3. n + i - 1 < n + j - 1
    BY <1>2, <2>2
  <2>4. QED BY <1>1, <1>2, <2>1, <2>3 DEF Ascends
<1>6. all \in Seq(Messages) /\ Sorted(all) /\ ToSet(all) = {Event(x) : x \in ToSet(s)}
  BY <1>2, <1>5, ListIs DEF all
<1>7. CASE lastSeen = None
  BY <1>4, <1>6, <1>7 DEF s
<1>8. named # {} <=> lastSeen \in ToSet(s)
  BY <1>3 DEF named
<1>9. CASE lastSeen # None /\ lastSeen \notin ToSet(s)
  <2>1. \A m \in ToSet(all) : ~m.resync
    BY <1>6 DEF Event
  <2>2. <<Resync>> \o all \in Seq(Messages) /\ Sorted(<<Resync>> \o all)
        /\ ToSet(<<Resync>> \o all) = {Resync} \cup ToSet(all)
    BY <1>6, <2>1, WarnedIs
  <2>3. Backlog = <<Resync>> \o all
    BY <1>4, <1>8, <1>9
  <2>4. QED BY <1>6, <1>9, <2>2, <2>3 DEF s
<1>10. CASE lastSeen # None /\ lastSeen \in ToSet(s)
  <2> DEFINE k == CHOOSE i \in named : TRUE
             r == SubSeq(s, k + 1, Len(s))
  <2>1. k \in 1..Len(s) /\ s[k] = lastSeen /\ k \in Nat
    <3>1. k \in named
      BY <1>8, <1>10
    <3>2. k \in 1..Len(s) /\ s[k] = lastSeen
      BY <1>3, <3>1 DEF named
    <3>3. QED BY <1>3, <3>2
  <2>2. Backlog = [i \in DOMAIN r |-> Event(r[i])]
    BY <1>4, <1>8, <1>10
  <2> HIDE DEF k
  <2>3. /\ r \in Seq(1..MaxEvents) /\ Len(r) = Len(s) - k
        /\ \A i \in 1..Len(r) : r[i] = s[k + i] /\ k + i \in 1..Len(s)
    <3>1. ASSUME NEW i \in (k + 1)..Len(s) PROVE s[i] \in 1..MaxEvents
      <4>1. i \in 1..Len(s)
        BY <1>3, <2>1
      <4>2. QED BY <1>2, <4>1, ElementOfSeq
    <3>2. /\ r \in Seq(1..MaxEvents)
          /\ Len(r) = IF k + 1 <= Len(s) THEN Len(s) - (k + 1) + 1 ELSE 0
          /\ \A i \in 1..(Len(s) - (k + 1) + 1) : r[i] = s[k + 1 + i - 1]
      <4>1. k + 1 \in Int /\ Len(s) \in Int
        BY <1>3, <2>1
      <4>2. QED BY <3>1, <4>1, SubSeqProperties
    <3> HIDE DEF r
    <3>3. Len(r) = Len(s) - k
      <4>1. Len(s) \in Nat /\ k \in Nat /\ k <= Len(s)
        BY <1>3, <2>1
      <4>2. Len(r) = IF k + 1 <= Len(s) THEN Len(s) - (k + 1) + 1 ELSE 0
        BY <3>2
      <4>3. QED BY ONLY <4>1, <4>2
    <3>4. ASSUME NEW i \in 1..Len(r) PROVE r[i] = s[k + i] /\ k + i \in 1..Len(s)
      <4>1. i \in 1..(Len(s) - (k + 1) + 1)
        BY <1>3, <2>1, <3>3
      <4>2. k + 1 + i - 1 = k + i /\ k + i \in 1..Len(s)
        BY <1>3, <2>1, <3>3
      <4>3. QED BY <3>2, <4>1, <4>2
    <3>5. QED BY <3>2, <3>3, <3>4
  <2> HIDE DEF r
  <2>4. Ascends(r)
    <3>1. SUFFICES ASSUME NEW i \in 1..Len(r), NEW j \in 1..Len(r), i < j PROVE r[i] < r[j]
      BY DEF Ascends
    <3>2. k + i < k + j
      BY <1>3, <2>1, <3>1
    <3>3. QED BY <1>5, <2>3, <3>2 DEF Ascends
  <2>5. ToSet(r) = {x \in ToSet(s) : lastSeen < x}
    <3>1. ToSet(r) = {r[i] : i \in 1..Len(r)}
      BY <2>3, ToSetIs
    <3>2. ASSUME NEW i \in 1..Len(r) PROVE r[i] \in ToSet(s) /\ lastSeen < r[i]
      <4>1. k < k + i
        BY <1>3, <2>1
      <4>2. QED BY <1>3, <1>5, <2>1, <2>3, <4>1 DEF Ascends
    <3>3. ASSUME NEW j \in 1..Len(s), lastSeen < s[j] PROVE s[j] \in ToSet(r)
      <4>1. s[j] \in Nat /\ s[k] \in Nat
        <5>1. s[j] \in 1..MaxEvents /\ s[k] \in 1..MaxEvents
          BY <1>2, <2>1, ElementOfSeq
        <5>2. QED BY <5>1
      <4>2. ~(j < k) /\ j # k
        BY <1>5, <2>1, <3>3, <4>1 DEF Ascends
      <4>3. j - k \in 1..Len(r) /\ k + (j - k) = j
        BY <1>3, <2>1, <2>3, <4>2
      <4>4. r[j - k] = s[j]
        BY <2>3, <4>3
      <4>5. QED BY <3>1, <4>3, <4>4
    <3>4. QED BY <1>3, <3>1, <3>2, <3>3
  <2>6. Backlog \in Seq(Messages) /\ Sorted(Backlog) /\ ToSet(Backlog) = {Event(x) : x \in ToSet(r)}
    BY <2>2, <2>3, <2>4, ListIs
  <2>7. QED BY <1>10, <2>5, <2>6 DEF s
<1>11. QED BY <1>7, <1>9, <1>10 DEF s
-------------------------------------------------------------------------------
(* The steps.                                                                 *)

\* No message.
LEMMA NothingIs ==
  /\ <<>> \in Seq(Messages) /\ Sorted(<<>>) /\ ~Warns(<<>>) /\ ToSet(<<>>) = {} /\ Ids(<<>>) = {}
  /\ Len(<<>>) = 0
PROOF
<1>1. <<>> \in Seq(Messages) /\ Len(<<>>) = 0 /\ DOMAIN <<>> = {}
  OBVIOUS
<1>2. 1..0 = {}
  OBVIOUS
<1>3. QED BY <1>1, <1>2 DEF Sorted, Warns, ToSet, Ids

\* A message goes from the channel to the stream.
LEMMA ForwardKeeps ==
  ASSUME StreamInv, Forward
  PROVE  StreamInv'
PROOF
<1> DEFINE m == Head(channel)
           rest == Tail(channel)
<1>1. /\ up /\ channel # <<>> /\ wire' = Append(wire, m) /\ channel' = rest
      /\ UNCHANGED <<facts, saved, lastEvent, up, lastSeen, view, fetch, blocking, skipped,
                     lost, kept>>
  BY DEF Forward
<1>2. StreamTypes /\ Underway /\ Fetching /\ Covered /\ Grounded /\ Honest
  BY DEF StreamInv
<1>3. /\ m \in Messages /\ rest \in Seq(Messages) /\ Sorted(rest)
      /\ ToSet(channel) = {m} \cup ToSet(rest) /\ ~m.resync
      /\ \A n \in ToSet(rest) : ~n.resync /\ m.id < n.id
  <2>1. channel \in Seq(Messages) /\ Sorted(channel) /\ ~Warns(channel)
    BY <1>2 DEF StreamTypes, Underway
  <2>2. /\ m \in Messages /\ rest \in Seq(Messages) /\ Sorted(rest)
        /\ ToSet(channel) = {m} \cup ToSet(rest)
        /\ \A n \in ToSet(rest) : ~n.resync /\ (~m.resync => m.id < n.id)
    BY <1>1, <2>1, TailIs
  <2>3. ~m.resync
    BY <2>1, <2>2 DEF Warns
  <2>4. QED BY <2>2, <2>3
<1>4. Len(rest) <= ChannelSize
  <2>1. channel \in Seq(Messages) /\ Len(channel) \in Nat /\ Len(channel) <= ChannelSize
    BY <1>2 DEF StreamTypes, Underway
  <2>2. Len(rest) = Len(channel) - 1
    BY <1>1, <2>1, HeadTailProperties
  <2>3. QED BY <2>1, <2>2, StreamAssumption
<1> HIDE DEF m, rest
<1>5. /\ wire' \in Seq(Messages) /\ Sorted(wire') /\ ToSet(wire') = ToSet(wire) \cup {m}
  <2>1. /\ wire \in Seq(Messages) /\ Sorted(wire)
        /\ \A n \in ToSet(wire) : n.resync \/ n.id < m.id
    BY <1>2, <1>3 DEF StreamTypes, Underway
  <2>2. QED BY <1>1, <1>3, <2>1, AppendIs
<1>6. /\ ToSet(channel) = {m} \cup ToSet(channel') /\ ToSet(channel') \subseteq ToSet(channel)
      /\ Warns(wire') = Warns(wire) /\ ~Warns(channel')
      /\ Ids(wire') \cup Ids(channel') = Ids(wire) \cup Ids(channel)
  <2>1. Warns(wire') = Warns(wire) /\ ~Warns(channel')
    BY <1>1, <1>3, <1>5 DEF Warns
  <2>2. /\ Ids(wire') = {n.id : n \in ToSet(wire')} /\ Ids(channel') = {n.id : n \in ToSet(channel')}
        /\ Ids(wire) = {n.id : n \in ToSet(wire)} /\ Ids(channel) = {n.id : n \in ToSet(channel)}
    <3>1. /\ wire \in Seq(Messages) /\ channel \in Seq(Messages)
          /\ wire' \in Seq(Messages) /\ channel' \in Seq(Messages)
      BY <1>1, <1>2, <1>3, <1>5 DEF StreamTypes
    <3>2. QED BY <3>1, IdsAre
  <2>3. QED BY <1>1, <1>3, <1>5, <2>1, <2>2
<1>7. StreamTypes'
  BY <1>1, <1>2, <1>3, <1>5 DEF StreamTypes
<1>8. Underway'
  <2>1. Faithful(wire', ToSet(facts)) /\ Faithful(channel', ToSet(facts))
    BY <1>2, <1>3, <1>5, <1>6 DEF Underway, Faithful
  <2>2. \A w \in ToSet(wire'), n \in ToSet(channel') : ~w.resync => w.id < n.id
    BY <1>1, <1>2, <1>3, <1>5, <1>6 DEF Underway
  <2>3. QED BY <1>1, <1>2, <1>3, <1>4, <1>5, <1>6, <2>1, <2>2 DEF Underway
<1>9. Fetching'
  BY <1>1, <1>2 DEF Fetching
<1>10. Covered'
  BY <1>1, <1>2, <1>6 DEF Covered, Seen, Comes
<1>11. Grounded' /\ Honest'
  <2>1. Loose' = Loose
    BY <1>1 DEF Loose, Saved
  <2>2. QED BY <1>1, <1>2, <1>3, <1>5, <1>6, <2>1 DEF Grounded, Honest
<1>12. QED BY <1>7, <1>8, <1>9, <1>10, <1>11 DEF StreamInv

\* A new event enters the history, and the channel if that has room.
LEMMA AppendKeeps ==
  ASSUME StreamInv, AppendEvent
  PROVE  StreamInv'
PROOF
<1> DEFINE id == lastEvent + 1
           room == up /\ Len(channel) < ChannelSize
<1>1. /\ lastEvent < MaxEvents /\ lastEvent' = id /\ facts' = Append(facts, id)
      /\ channel' = IF room THEN Append(channel, Event(id)) ELSE channel
      /\ lost' = IF up /\ Len(channel) = ChannelSize THEN lost \cup {id} ELSE lost
      /\ UNCHANGED <<saved, up, wire, lastSeen, view, fetch, blocking, skipped, kept>>
  BY DEF AppendEvent
<1>2. StreamTypes /\ Underway /\ Fetching /\ Covered /\ Grounded /\ Honest
  BY DEF StreamInv
<1>3. /\ facts' \in Seq(1..MaxEvents) /\ Ascends(facts') /\ \A i \in 1..Len(facts') : facts'[i] <= lastEvent'
      /\ saved' \in 0..Len(facts') /\ lastEvent' \in 0..MaxEvents
      /\ ToSet(facts') = ToSet(facts) \cup {id} /\ Saved' = Saved
      /\ ToSet(History(facts')) \subseteq ToSet(History(facts)) \cup {id}
  BY <1>1, <1>2, AppendFacts
<1>4. /\ id \in Nat /\ id \in 1..MaxEvents /\ lastEvent < id /\ id < Unknown
      /\ \A f \in ToSet(facts) : f \in Nat /\ f < id
      /\ \A f \in view : f \in Nat /\ f < id
      /\ lastSeen \in Nat /\ lastSeen # id /\ (lastSeen < id \/ lastSeen = Unknown)
  <2>1. ToSet(facts) \subseteq 1..lastEvent /\ lastEvent \in Nat /\ MaxEvents \in Nat /\ Unknown = MaxEvents + 1
    BY <1>2, FactsAre
  <2>2. view \subseteq 1..lastEvent /\ lastSeen \in 0..lastEvent \cup {Unknown}
    BY <1>2 DEF StreamTypes
  <2>3. QED BY <1>1, <2>1, <2>2
<1> HIDE DEF id
<1>5. /\ Event(id) \in Messages /\ Event(id).id = id /\ ~Event(id).resync
  BY <1>4, StreamAssumption DEF Event, Messages, Unknown
<1>6. /\ channel \in Seq(Messages) /\ Sorted(channel) /\ ~Warns(channel) /\ wire \in Seq(Messages)
      /\ Len(channel) \in Nat /\ Len(channel) <= ChannelSize /\ ChannelSize \in Nat
      /\ Faithful(channel, ToSet(facts)) /\ Faithful(wire, ToSet(facts))
  BY <1>2, StreamAssumption DEF StreamTypes, Underway
<1>7. \A n \in ToSet(channel) \cup ToSet(wire) : n.resync \/ n.id < id
  BY <1>4, <1>6 DEF Faithful
<1>8. /\ channel' \in Seq(Messages) /\ Sorted(channel') /\ Len(channel') <= ChannelSize
      /\ ToSet(channel') = IF room THEN ToSet(channel) \cup {Event(id)} ELSE ToSet(channel)
  <2>1. CASE room
    <3>1. /\ Append(channel, Event(id)) \in Seq(Messages) /\ Sorted(Append(channel, Event(id)))
          /\ ToSet(Append(channel, Event(id))) = ToSet(channel) \cup {Event(id)}
      BY <1>5, <1>6, <1>7, AppendIs
    <3>2. Len(Append(channel, Event(id))) = Len(channel) + 1
      BY <1>5, <1>6, AppendProperties
    <3>3. QED BY <1>1, <1>6, <2>1, <3>1, <3>2
  <2>2. CASE ~room
    BY <1>1, <1>6, <2>2
  <2>3. QED BY <2>1, <2>2
<1>9. /\ ~Warns(channel') /\ Ids(channel) \subseteq Ids(channel') /\ lost \subseteq lost'
      /\ up => id \in Ids(channel') \cup lost'
  <2>1. ~Warns(channel')
    BY <1>5, <1>6, <1>8 DEF Warns
  <2>2. Ids(channel') = {n.id : n \in ToSet(channel')} /\ Ids(channel) = {n.id : n \in ToSet(channel)}
    BY <1>6, <1>8, IdsAre
  <2>3. Ids(channel) \subseteq Ids(channel') /\ (room => id \in Ids(channel'))
    BY <1>5, <1>8, <2>2
  <2>4. lost \subseteq lost'
    BY <1>1
  <2>5. up /\ ~room => id \in lost'
    BY <1>1, <1>6
  <2>6. QED BY <2>1, <2>3, <2>4, <2>5
<1>10. StreamTypes'
  <2>1. /\ view' \subseteq 1..lastEvent' /\ lastSeen' \in 0..lastEvent' \cup {Unknown}
        /\ fetch' \in [stage : {"none", "asked", "answered"}, events : SUBSET (1..lastEvent')]
    <3>1. lastEvent \in Nat /\ 1..lastEvent \subseteq 1..lastEvent' /\ 0..lastEvent \subseteq 0..lastEvent'
      BY <1>1, <1>2, <1>4, StreamAssumption DEF StreamTypes, id
    <3>2. /\ view \subseteq 1..lastEvent /\ lastSeen \in 0..lastEvent \cup {Unknown}
          /\ fetch \in [stage : {"none", "asked", "answered"}, events : SUBSET (1..lastEvent)]
      BY <1>2 DEF StreamTypes
    <3>3. QED BY <1>1, <3>1, <3>2
  <2>2. QED BY <1>1, <1>2, <1>3, <1>8, <2>1 DEF StreamTypes
<1>11. Underway'
  <2>1. Faithful(wire', ToSet(facts')) /\ Faithful(channel', ToSet(facts'))
    BY <1>1, <1>3, <1>5, <1>6, <1>8 DEF Faithful
  <2>2. \A w \in ToSet(wire'), n \in ToSet(channel') : ~w.resync => w.id < n.id
    BY <1>1, <1>2, <1>5, <1>7, <1>8 DEF Underway
  <2>3. Warns(wire') => lastSeen' \notin ToSet(History(facts'))
    BY <1>1, <1>2, <1>3, <1>4 DEF Underway
  <2>4. ~up' => wire' = <<>> /\ channel' = <<>>
    BY <1>1, <1>2 DEF Underway
  <2>5. Sorted(wire')
    BY <1>1, <1>2 DEF Underway
  <2>6. QED BY <1>8, <1>9, <2>1, <2>2, <2>3, <2>4, <2>5 DEF Underway
<1>12. Fetching'
  BY <1>1, <1>2 DEF Fetching
<1>13. Covered'
  BY <1>1, <1>2, <1>3, <1>4, <1>9 DEF Covered, Seen, Comes
<1>14. Grounded' /\ Honest'
  <2>1. Loose' = Loose
    BY <1>1, <1>3, <1>4 DEF Loose
  <2>2. \A v \in Loose : v < id /\ v \in view
    BY <1>4 DEF Loose
  <2>3. Grounded'
    BY <1>1, <1>2, <1>3, <1>4, <1>5, <1>8, <2>1, <2>2 DEF Grounded
  <2>4. Honest'
    BY <1>1, <1>2, <1>3, <1>4 DEF Honest
  <2>5. QED BY <2>3, <2>4
<1>15. QED BY <1>10, <1>11, <1>12, <1>13, <1>14 DEF StreamInv

\* The events of the hub reach its database.
LEMMA PersistKeeps ==
  ASSUME StreamInv, Persist
  PROVE  StreamInv'
PROOF
<1>1. /\ saved' = Len(facts)
      /\ UNCHANGED <<facts, lastEvent, up, channel, wire, lastSeen, view, fetch, blocking,
                     skipped, lost, kept>>
  BY DEF Persist
<1>2. StreamTypes /\ Underway /\ Fetching /\ Covered /\ Grounded /\ Honest
  BY DEF StreamInv
<1>3. Loose' = {}
  <2>1. ToSet(facts) = {facts[i] : i \in 1..Len(facts)}
    BY <1>2, ToSetIs DEF StreamTypes
  <2>2. QED BY <1>1, <2>1 DEF Loose, Saved
<1>4. StreamTypes'
  <2>1. saved' \in 0..Len(facts')
    BY <1>1, <1>2 DEF StreamTypes
  <2>2. QED BY <1>1, <1>2, <2>1 DEF StreamTypes
<1>5. Underway' /\ Fetching'
  BY <1>1, <1>2 DEF Underway, Fetching
<1>6. Covered'
  BY <1>1, <1>2 DEF Covered, Seen, Comes
<1>7. Grounded' /\ Honest'
  BY <1>1, <1>2, <1>3 DEF Grounded, Honest
<1>8. QED BY <1>4, <1>5, <1>6, <1>7 DEF StreamInv

\* The events a client may still lose are older than what a connection brings it.
LEMMA LooseAreOld ==
  ASSUME StreamInv
  PROVE  /\ \A v \in Loose : v \in Nat /\ v \in view
         /\ lastSeen \notin ToSet(History(facts)) =>
              \A v \in Loose, h \in ToSet(History(facts)) : v < h
PROOF
<1>1. StreamTypes /\ Grounded
  BY DEF StreamInv
<1>2. /\ ToSet(History(facts)) \subseteq ToSet(facts) /\ ToSet(facts) \subseteq 1..lastEvent
      /\ \A f \in ToSet(facts), h \in ToSet(History(facts)) : f > h => f \in ToSet(History(facts))
      /\ lastEvent \in Nat
  BY <1>1, FactsAre
<1>3. \A v \in Loose : v \in Nat /\ v \in view /\ v \in ToSet(facts)
  BY <1>2 DEF Loose
<1>4. ASSUME lastSeen \notin ToSet(History(facts)), NEW v \in Loose, NEW h \in ToSet(History(facts))
      PROVE  v < h
  <2>1. CASE lastSeen = Unknown
    BY <1>1, <2>1 DEF Grounded
  <2>2. CASE lastSeen # Unknown
    <3>1. lastSeen \in ToSet(facts) /\ v <= lastSeen
      BY <1>1, <2>2 DEF Grounded
    <3>2. h \in Nat /\ lastSeen \in Nat /\ ~(lastSeen > h) /\ lastSeen # h
      BY <1>2, <1>4, <3>1
    <3>3. QED BY <1>3, <3>1, <3>2
  <2>3. QED BY <2>1, <2>2
<1>5. QED BY <1>3, <1>4

\* A connection starts with the backlog.
LEMMA ConnectKeeps ==
  ASSUME StreamInv, Connect
  PROVE  StreamInv'
PROOF
<1> DEFINE H == ToSet(History(facts))
<1>1. /\ ~up /\ up' = TRUE /\ wire' = Backlog /\ channel' = <<>>
      /\ lost' = IF lastSeen # None THEN lost ELSE lost \cup (ToSet(facts) \ (view \cup H))
      /\ UNCHANGED <<facts, saved, lastEvent, lastSeen, view, fetch, blocking, skipped, kept>>
  BY DEF Connect
<1>2. StreamTypes /\ Underway /\ Fetching /\ Covered /\ Grounded /\ Honest
  BY DEF StreamInv
<1>3. /\ H \subseteq ToSet(facts) /\ ToSet(facts) \subseteq 1..lastEvent /\ lastEvent \in Nat
      /\ \A f \in ToSet(facts), h \in H : f > h => f \in H
      /\ Unknown \notin ToSet(facts) /\ None \notin ToSet(facts) /\ MaxEvents \in Nat
      /\ Unknown = MaxEvents + 1
  BY <1>2, FactsAre
<1>4. /\ wire' \in Seq(Messages) /\ Sorted(wire')
      /\ lastSeen = None => ToSet(wire') = {Event(h) : h \in H}
      /\ lastSeen # None /\ lastSeen \in H =>
           ToSet(wire') = {Event(h) : h \in {k \in H : lastSeen < k}}
      /\ lastSeen # None /\ lastSeen \notin H => ToSet(wire') = {Resync} \cup {Event(h) : h \in H}
  BY <1>1, <1>2, BacklogIs
<1>5. /\ channel' \in Seq(Messages) /\ Sorted(channel') /\ ~Warns(channel') /\ ToSet(channel') = {}
      /\ Ids(channel') = {} /\ Len(channel') = 0
  BY <1>1, NothingIs
<1>6. /\ \A h : Event(h).id = h /\ ~Event(h).resync
      /\ Resync.id = Unknown /\ Resync.resync
  BY DEF Event, Resync
<1>7. Warns(wire') <=> lastSeen # None /\ lastSeen \notin H
  BY <1>4, <1>6 DEF Warns
<1>8. Ids(wire') = {m.id : m \in ToSet(wire')}
  BY <1>4, IdsAre
<1>9. StreamTypes'
  BY <1>1, <1>2, <1>4, <1>5 DEF StreamTypes
<1> HIDE DEF H
<1>10. Underway'
  <2>1. Faithful(wire', ToSet(facts)) /\ Faithful(channel', ToSet(facts))
    BY <1>3, <1>4, <1>5, <1>6 DEF Faithful
  <2>2. Warns(wire') => lastSeen' \notin ToSet(History(facts'))
    BY <1>1, <1>7 DEF H
  <2>3. Len(channel') <= ChannelSize
    BY <1>5, StreamAssumption
  <2>4. QED BY <1>1, <1>4, <1>5, <2>1, <2>2, <2>3 DEF Underway
<1>11. Fetching'
  BY <1>1, <1>2 DEF Fetching
<1>12. Covered'
  <2>1. lost \subseteq lost'
    BY <1>1
  <2>2. fetch' = NoFetch /\ lastSeen' # None => Seen(view, lost)'
    BY <1>1, <1>2, <2>1 DEF Covered, Seen
  <2>3. ASSUME fetch = NoFetch, ~Warns(wire'), NEW f \in ToSet(facts)
        PROVE  f \in view \cup Ids(wire') \cup lost'
    <3>1. CASE lastSeen = None
      <4>1. Ids(wire') = H
        BY <1>4, <1>6, <1>8, <3>1
      <4>2. QED BY <1>1, <3>1, <4>1
    <3>2. CASE lastSeen \in H
      <4>1. Ids(wire') = {k \in H : lastSeen < k}
        <5>1. ToSet(wire') = {Event(h) : h \in {k \in H : lastSeen < k}}
          BY <1>3, <1>4, <3>2
        <5>2. QED BY <1>6, <1>8, <5>1
      <4>2. f \in Nat /\ lastSeen \in Nat /\ lastSeen # Unknown /\ lastSeen # None
        BY <1>3, <3>2
      <4>3. f <= lastSeen => f \in view \cup lost
        BY <1>2, <2>3, <4>2 DEF Covered, Seen
      <4>4. f > lastSeen => f \in H /\ lastSeen < f
        BY <1>3, <3>2, <4>2
      <4>5. QED BY <2>1, <4>1, <4>2, <4>3, <4>4
    <3>3. QED BY <1>7, <2>3, <3>1, <3>2
  <2>4. fetch' = NoFetch => Comes(view, lost)'
    BY <1>1, <2>3 DEF Comes
  <2>5. fetch'.stage = "answered" /\ ~skipped' => Warns(wire')
    <3>1. fetch.stage = "answered" /\ ~skipped => fetch # NoFetch
      BY DEF NoFetch
    <3>2. Unknown # None /\ Unknown \notin H
      BY <1>3 DEF None
    <3>3. QED BY <1>1, <1>2, <1>7, <3>1, <3>2 DEF Fetching
  <2>6. QED BY <2>2, <2>4, <2>5 DEF Covered, Comes
<1>13. Grounded' /\ Honest'
  <2>1. Loose' = Loose
    BY <1>1 DEF Loose, Saved
  <2>2. /\ \A v \in Loose : v \in Nat /\ v \in view
        /\ lastSeen \notin H => \A v \in Loose, h \in H : v < h
    BY LooseAreOld DEF H
  <2>3. ASSUME NEW v \in Loose, NEW m \in ToSet(wire') PROVE m.resync \/ v < m.id
    <3>1. CASE lastSeen \notin H
      <4>1. m.resync \/ \E h \in H : m.id = h
        BY <1>4, <1>6, <3>1
      <4>2. QED BY <2>2, <3>1, <4>1
    <3>2. CASE lastSeen \in H
      <4>1. lastSeen \in Nat /\ lastSeen # Unknown /\ lastSeen # None
        BY <1>3, <3>2
      <4>2. PICK k \in H : m.id = k /\ lastSeen < k
        <5>1. ToSet(wire') = {Event(h) : h \in {j \in H : lastSeen < j}}
          BY <1>4, <3>2, <4>1
        <5>2. QED BY ONLY <1>6, <2>3, <5>1
      <4>3. k \in Nat /\ v <= lastSeen
        BY <1>2, <1>3, <4>1 DEF Grounded
      <4>4. QED BY <2>2, <4>1, <4>2, <4>3
    <3>3. QED BY <3>1, <3>2
  <2>4. Grounded'
    BY <1>1, <1>2, <1>5, <2>1, <2>3 DEF Grounded
  <2>5. Honest'
    BY <1>1, <1>2, <1>3, <1>7 DEF Honest, Grounded
  <2>6. QED BY <2>4, <2>5
<1>14. QED BY <1>9, <1>10, <1>11, <1>12, <1>13 DEF StreamInv

\* A connection ends, with or without the client's saying so.
LEMMA CutKeeps ==
  ASSUME StreamInv, Break \/ Detach
  PROVE  StreamInv'
PROOF
<1>1. /\ up' = FALSE /\ wire' = <<>> /\ channel' = <<>>
      /\ UNCHANGED <<facts, saved, lastEvent, lastSeen, view, fetch, lost, kept>>
      /\ \/ blocking' = blocking /\ skipped' = skipped
         \/ blocking' = FALSE /\ skipped' = (fetch # NoFetch)
  BY DEF Break, Detach, Cut
<1>2. StreamTypes /\ Underway /\ Fetching /\ Covered /\ Grounded /\ Honest
  BY DEF StreamInv
<1>3. /\ \A q \in {wire', channel'} : /\ q \in Seq(Messages) /\ Sorted(q) /\ ~Warns(q)
                                      /\ ToSet(q) = {} /\ Ids(q) = {} /\ Len(q) = 0
  BY <1>1, NothingIs
<1>4. StreamTypes'
  <2>1. blocking' \in BOOLEAN /\ skipped' \in BOOLEAN
    BY <1>1, <1>2 DEF StreamTypes
  <2>2. wire' \in Seq(Messages) /\ channel' \in Seq(Messages)
    BY <1>3
  <2>3. QED BY <1>1, <1>2, <2>1, <2>2 DEF StreamTypes
<1>5. Underway'
  <2>1. Len(channel') <= ChannelSize
    BY <1>3, StreamAssumption
  <2>2. QED BY <1>1, <1>3, <2>1 DEF Underway, Faithful
<1>6. Fetching'
  <2>1. CASE blocking' = blocking /\ skipped' = skipped
    BY <1>1, <1>2, <2>1 DEF Fetching
  <2>2. CASE ~blocking' /\ (fetch # NoFetch => skipped')
    BY <1>1, <1>2, <2>2 DEF Fetching
  <2>3. QED BY <1>1, <2>1, <2>2
<1>7. Covered'
  BY <1>1, <1>2 DEF Covered, Seen, Comes
<1>8. Grounded' /\ Honest'
  <2>1. Loose' = Loose
    BY <1>1 DEF Loose, Saved
  <2>2. QED BY <1>1, <1>2, <1>3, <2>1 DEF Grounded, Honest
<1>9. QED BY <1>4, <1>5, <1>6, <1>7, <1>8 DEF StreamInv

\* The hub falls back on what its database has.
LEMMA CrashKeeps ==
  ASSUME StreamInv, Crash
  PROVE  StreamInv'
PROOF
<1>1. /\ up' = FALSE /\ wire' = <<>> /\ channel' = <<>> /\ facts' = SubSeq(facts, 1, saved)
      /\ UNCHANGED <<saved, lastEvent, lastSeen, view, fetch, blocking, skipped, lost, kept>>
  BY DEF Crash, Cut
<1>2. StreamTypes /\ Underway /\ Fetching /\ Covered /\ Grounded /\ Honest
  BY DEF StreamInv
<1>3. /\ \A q \in {wire', channel'} : /\ q \in Seq(Messages) /\ Sorted(q) /\ ~Warns(q)
                                      /\ ToSet(q) = {} /\ Ids(q) = {} /\ Len(q) = 0
  BY <1>1, NothingIs
<1>4. /\ facts \in Seq(1..MaxEvents) /\ Len(facts) \in Nat /\ saved \in 0..Len(facts)
      /\ \A i \in 1..Len(facts) : facts[i] \in 1..MaxEvents
  <2>1. facts \in Seq(1..MaxEvents) /\ saved \in 0..Len(facts)
    BY <1>2 DEF StreamTypes
  <2>2. \A i \in 1..Len(facts) : facts[i] \in 1..MaxEvents
    BY <2>1, ElementOfSeq
  <2>3. Len(facts) \in Nat
    BY <2>1
  <2>4. QED BY <2>1, <2>2, <2>3
<1>5. /\ facts' \in Seq(1..MaxEvents) /\ Len(facts') = saved
      /\ \A i \in 1..saved : facts'[i] = facts[i]
  <2>1. \A i \in 1..saved : facts[i] \in 1..MaxEvents
    BY <1>4
  <2>2. /\ facts' \in Seq(1..MaxEvents) /\ Len(facts') = IF 1 <= saved THEN saved - 1 + 1 ELSE 0
        /\ \A i \in 1..(saved - 1 + 1) : facts'[i] = facts[1 + i - 1]
    <3>1. 1 \in Int /\ saved \in Int
      BY <1>4
    <3>2. QED BY <1>1, <2>1, <3>1, SubSeqProperties
  <2>3. Len(facts') = saved
    BY <1>4, <2>2
  <2>4. ASSUME NEW i \in 1..saved PROVE facts'[i] = facts[i]
    <3>1. i \in 1..(saved - 1 + 1) /\ 1 + i - 1 = i
      BY <1>4
    <3>2. QED BY <2>2, <3>1
  <2>5. QED BY <2>2, <2>3, <2>4
<1>6. ToSet(facts') = Saved /\ Saved' = Saved
  <2>1. ToSet(facts') = {facts'[i] : i \in 1..Len(facts')}
    BY <1>5, ToSetIs
  <2>2. QED BY <1>1, <1>5, <2>1 DEF Saved
<1>7. /\ Saved \subseteq ToSet(facts) /\ ToSet(facts) \subseteq 1..lastEvent /\ lastEvent \in Nat
      /\ \A f \in ToSet(facts), v \in Saved : f < v => f \in Saved
      /\ Unknown \notin ToSet(facts)
  BY <1>2, FactsAre
<1>8. StreamTypes'
  <2>1. Ascends(facts') /\ \A i \in 1..Len(facts') : facts'[i] <= lastEvent
    <3>1. 1..saved \subseteq 1..Len(facts)
      BY <1>4
    <3>2. Ascends(facts) /\ \A i \in 1..Len(facts) : facts[i] <= lastEvent
      BY <1>2 DEF StreamTypes
    <3>3. QED BY <1>5, <3>1, <3>2 DEF Ascends
  <2>2. saved' \in 0..Len(facts')
    BY <1>1, <1>4, <1>5
  <2>3. wire' \in Seq(Messages) /\ channel' \in Seq(Messages)
    BY <1>3
  <2>4. QED BY <1>1, <1>2, <1>5, <2>1, <2>2, <2>3 DEF StreamTypes
<1>9. Underway'
  <2>1. Len(channel') <= ChannelSize
    BY <1>3, StreamAssumption
  <2>2. QED BY <1>1, <1>3, <2>1 DEF Underway, Faithful
<1>10. Fetching'
  BY <1>1, <1>2 DEF Fetching
<1>11. Covered'
  BY <1>1, <1>2, <1>6, <1>7 DEF Covered, Seen, Comes
<1>12. Loose' = {}
  BY <1>6 DEF Loose
<1>13. Grounded'
  BY <1>1, <1>2, <1>12 DEF Grounded
<1>14. Honest'
  <2>1. SUFFICES ASSUME fetch = NoFetch, lastSeen \in Saved, NEW v \in view
                 PROVE  v \in Saved \cup kept
    BY <1>1, <1>6 DEF Honest
  <2>2. v \in ToSet(facts) \cup kept /\ lastSeen # Unknown /\ lastSeen \in Nat
    BY <1>2, <1>7, <2>1 DEF Honest
  <2>3. CASE v \in Loose
    <3>1. v <= lastSeen /\ v \in ToSet(facts) /\ v \in Nat
      BY <1>2, <1>7, <2>2, <2>3 DEF Grounded, Loose
    <3>2. v = lastSeen \/ v < lastSeen
      BY <2>2, <3>1
    <3>3. QED BY <1>7, <2>1, <3>1, <3>2
  <2>4. CASE v \notin Loose
    BY <2>1, <2>2, <2>4 DEF Loose
  <2>5. QED BY <2>3, <2>4
<1>15. QED BY <1>8, <1>9, <1>10, <1>11, <1>13, <1>14 DEF StreamInv

\* The client takes a message, whether it heeds it or not.
LEMMA ReceiveKeeps ==
  ASSUME StreamInv, Receive
  PROVE  StreamInv'
PROOF
<1> DEFINE m == Head(wire)
           rest == Tail(wire)
           H == ToSet(History(facts))
<1>1. /\ up /\ wire # <<>> /\ wire' = rest /\ lastSeen' = m.id
      /\ UNCHANGED <<facts, saved, lastEvent, up, channel, lost, kept>>
  BY DEF Receive
<1>2. StreamTypes /\ Underway /\ Fetching /\ Covered /\ Grounded /\ Honest
  BY DEF StreamInv
<1>3. \/ blocking /\ skipped' = TRUE /\ UNCHANGED <<view, fetch, blocking>>
      \/ /\ ~blocking /\ m.resync /\ fetch = NoFetch
         /\ fetch' = [stage |-> "asked", events |-> {}] /\ blocking' = TRUE /\ skipped' = FALSE
         /\ view' = view
      \/ /\ ~blocking /\ ~m.resync /\ view' = view \cup {m.id}
         /\ UNCHANGED <<fetch, blocking, skipped>>
  BY DEF Receive
<1>4. /\ m \in Messages /\ rest \in Seq(Messages) /\ Sorted(rest)
      /\ ToSet(wire) = {m} \cup ToSet(rest)
      /\ \A n \in ToSet(rest) : ~n.resync /\ (~m.resync => m.id < n.id)
  <2>1. wire \in Seq(Messages) /\ Sorted(wire)
    BY <1>2 DEF StreamTypes, Underway
  <2>2. QED BY <1>1, <2>1, TailIs
<1> HIDE DEF m, rest
<1>5. /\ ToSet(facts) \subseteq 1..lastEvent /\ lastEvent \in Nat /\ MaxEvents \in Nat
      /\ Unknown = MaxEvents + 1 /\ H \subseteq ToSet(facts)
      /\ Unknown \notin ToSet(facts) /\ None \notin ToSet(facts)
  BY <1>2, FactsAre
<1>6. /\ IF m.resync THEN m.id = Unknown ELSE m.id \in ToSet(facts)
      /\ m.id # None /\ m.id \in Nat /\ m.id \in 0..lastEvent \cup {Unknown}
      /\ \A n \in ToSet(channel) : ~m.resync => m.id < n.id
      /\ m.resync => lastSeen \notin H
  <2>1. IF m.resync THEN m.id = Unknown ELSE m.id \in ToSet(facts)
    BY <1>2, <1>4 DEF Underway, Faithful
  <2>2. m.id # None /\ m.id \in Nat /\ m.id \in 0..lastEvent \cup {Unknown}
    BY <1>5, <2>1 DEF None
  <2>3. \A n \in ToSet(channel) : ~m.resync => m.id < n.id
    BY <1>2, <1>4 DEF Underway
  <2>4. m.resync => lastSeen \notin H
    BY <1>2, <1>4 DEF Underway, Warns
  <2>5. QED BY <2>1, <2>2, <2>3, <2>4
<1>7. ~Warns(wire') /\ (~m.resync => ~Warns(wire))
  BY <1>1, <1>4 DEF Warns
<1>8. Ids(wire) = {m.id} \cup Ids(wire') /\ Ids(wire') = {n.id : n \in ToSet(rest)}
      /\ Ids(channel) = {n.id : n \in ToSet(channel)}
  <2>1. Ids(wire) = {n.id : n \in ToSet(wire)} /\ Ids(wire') = {n.id : n \in ToSet(rest)}
        /\ Ids(channel) = {n.id : n \in ToSet(channel)}
    BY <1>1, <1>2, <1>4, IdsAre DEF StreamTypes
  <2>2. QED BY <1>4, <2>1
<1>9. Underway'
  <2>1. Faithful(wire', ToSet(facts))
    BY <1>1, <1>2, <1>4 DEF Underway, Faithful
  <2>2. \A w \in ToSet(wire'), n \in ToSet(channel) : ~w.resync => w.id < n.id
    BY <1>1, <1>2, <1>4 DEF Underway
  <2>3. QED BY <1>1, <1>2, <1>4, <1>7, <2>1, <2>2 DEF Underway
\* What a message does to the claims on the view.
<1>10. ASSUME view' = view \/ (~m.resync /\ view' = view \cup {m.id}) PROVE Grounded'
  <2>1. Loose' \subseteq Loose \cup {m.id} /\ (m.resync => Loose' \subseteq Loose)
    BY <1>1, <1>10 DEF Loose, Saved
  <2>2. /\ \A v \in Loose : v \in Nat /\ v \in view
        /\ lastSeen \notin H => \A v \in Loose, h \in H : v < h
    BY LooseAreOld
  <2>3. ASSUME ~m.resync, NEW v \in Loose' PROVE v <= m.id
    <3>1. v \in Loose => v < m.id
      BY <1>2, <1>4, <2>3 DEF Grounded
    <3>2. QED BY <1>6, <2>1, <2>2, <2>3, <3>1
  <2>4. ASSUME NEW v \in Loose', NEW w \in ToSet(wire') PROVE v < w.id
    <3>1. CASE v \in Loose
      BY <1>1, <1>2, <1>4, <3>1 DEF Grounded
    <3>2. CASE v \notin Loose
      BY <1>1, <1>4, <2>1, <3>2
    <3>3. QED BY <3>1, <3>2
  <2>5. ASSUME NEW v \in Loose', NEW w \in ToSet(channel') PROVE v < w.id
    <3>1. CASE v \in Loose
      BY <1>1, <1>2, <3>1 DEF Grounded
    <3>2. CASE v \notin Loose
      BY <1>1, <1>6, <2>1, <3>2
    <3>3. QED BY <3>1, <3>2
  <2>6. lastSeen' # Unknown => \A v \in Loose' : lastSeen' \in ToSet(facts') /\ v <= lastSeen'
    BY <1>1, <1>6, <2>3
  <2>7. lastSeen' = Unknown => \A v \in Loose' : \A h \in H : v < h
    BY <1>1, <1>5, <1>6, <2>1, <2>2
  <2>8. QED BY <1>1, <1>6, <2>4, <2>5, <2>6, <2>7 DEF Grounded
<1>11. ASSUME view' \subseteq 1..lastEvent, fetch' \in [stage : {"none", "asked", "answered"}, events : SUBSET (1..lastEvent)],
              fetch'.stage = "none" => fetch' = NoFetch, blocking' \in BOOLEAN, skipped' \in BOOLEAN
       PROVE  StreamTypes'
  BY <1>1, <1>2, <1>4, <1>6, <1>11 DEF StreamTypes
<1>12. CASE blocking /\ skipped' = TRUE /\ UNCHANGED <<view, fetch, blocking>>
  <2>1. StreamTypes'
    BY <1>2, <1>11, <1>12 DEF StreamTypes
  <2>2. fetch # NoFetch
    BY <1>2, <1>12 DEF Fetching
  <2>3. Fetching'
    BY <1>1, <1>2, <1>6, <1>12, <2>2 DEF Fetching
  <2>4. Covered' /\ Honest'
    BY <1>12, <2>2 DEF Covered, Honest
  <2>5. QED BY <1>9, <1>10, <1>12, <2>1, <2>3, <2>4 DEF StreamInv
<1>13. CASE /\ ~blocking /\ m.resync /\ fetch = NoFetch
            /\ fetch' = [stage |-> "asked", events |-> {}] /\ blocking' = TRUE /\ skipped' = FALSE
            /\ view' = view
  <2>1. fetch' # NoFetch /\ fetch'.stage = "asked"
    BY <1>13 DEF NoFetch
  <2>2. StreamTypes'
    <3>1. fetch' \in [stage : {"none", "asked", "answered"}, events : SUBSET (1..lastEvent)]
      BY <1>13
    <3>2. QED BY <1>2, <1>11, <1>13, <2>1, <3>1 DEF StreamTypes
  <2>3. Fetching'
    BY <1>1, <1>6, <1>13, <2>1 DEF Fetching
  <2>4. Covered' /\ Honest'
    BY <2>1 DEF Covered, Honest
  <2>5. QED BY <1>9, <1>10, <1>13, <2>2, <2>3, <2>4 DEF StreamInv
<1>14. CASE /\ ~blocking /\ ~m.resync /\ view' = view \cup {m.id}
            /\ UNCHANGED <<fetch, blocking, skipped>>
  <2>1. StreamTypes'
    <3>1. view' \subseteq 1..lastEvent
      BY <1>2, <1>5, <1>6, <1>14 DEF StreamTypes
    <3>2. QED BY <1>2, <1>11, <1>14, <3>1 DEF StreamTypes
  <2>2. fetch # NoFetch => skipped
    BY <1>2, <1>14 DEF Fetching
  <2>3. Fetching'
    BY <1>1, <1>6, <1>14, <2>2 DEF Fetching
  <2>4. Covered'
    <3>1. fetch = NoFetch => ToSet(facts) \subseteq view \cup Ids(wire) \cup Ids(channel) \cup lost
      BY <1>1, <1>2, <1>7, <1>14 DEF Covered, Comes
    <3>2. ASSUME fetch = NoFetch, NEW f \in ToSet(facts), f <= m.id PROVE f \in view' \cup lost
      <4>1. f \in Nat
        BY <1>5
      <4>2. f \notin Ids(wire') /\ f \notin Ids(channel)
        BY <1>4, <1>6, <1>8, <1>14, <3>2, <4>1
      <4>3. QED BY <1>8, <1>14, <3>1, <3>2, <4>2
    <3>3. fetch = NoFetch => Seen(view, lost)' /\ Comes(view, lost)'
      BY <1>1, <1>8, <1>14, <3>1, <3>2 DEF Seen, Comes
    <3>4. fetch.stage = "answered" => fetch # NoFetch
      BY DEF NoFetch
    <3>5. QED BY <1>14, <2>2, <3>3, <3>4 DEF Covered
  <2>5. Honest'
    BY <1>1, <1>2, <1>6, <1>7, <1>14 DEF Honest
  <2>6. QED BY <1>9, <1>10, <1>14, <2>1, <2>3, <2>4, <2>5 DEF StreamInv
<1>15. QED BY <1>3, <1>12, <1>13, <1>14

\* The hub answers a fetch.
LEMMA AnswerKeeps ==
  ASSUME StreamInv, AnswerFetch
  PROVE  StreamInv'
PROOF
<1>1. /\ fetch.stage = "asked" /\ fetch' = [stage |-> "answered", events |-> ToSet(facts)]
      /\ UNCHANGED <<facts, saved, lastEvent, up, channel, wire, lastSeen, view, blocking,
                     skipped, lost, kept>>
  BY DEF AnswerFetch
<1>2. StreamTypes /\ Underway /\ Fetching /\ Covered /\ Grounded /\ Honest
  BY DEF StreamInv
<1>3. fetch # NoFetch /\ fetch' # NoFetch /\ fetch'.stage = "answered" /\ fetch'.events = ToSet(facts)
  BY <1>1 DEF NoFetch
<1>4. StreamTypes'
  <2>1. ToSet(facts) \subseteq 1..lastEvent
    BY <1>2, FactsAre
  <2>2. fetch' \in [stage : {"none", "asked", "answered"}, events : SUBSET (1..lastEvent)]
    BY <1>1, <2>1
  <2>3. QED BY <1>1, <1>2, <1>3, <2>2 DEF StreamTypes
<1>5. Underway' /\ Fetching'
  BY <1>1, <1>2, <1>3 DEF Underway, Fetching
<1>6. Covered'
  BY <1>1, <1>3 DEF Covered, Comes
<1>7. Grounded' /\ Honest'
  <2>1. Loose' = Loose
    BY <1>1 DEF Loose, Saved
  <2>2. QED BY <1>1, <1>2, <1>3, <2>1 DEF Grounded, Honest
<1>8. QED BY <1>4, <1>5, <1>6, <1>7 DEF StreamInv

\* A fetch comes to its end, well or badly.
LEMMA EndFetchKeeps ==
  ASSUME StreamInv, NEW answered \in BOOLEAN, EndFetch(answered)
  PROVE  StreamInv'
PROOF
<1>1. /\ fetch.stage # "none" /\ (answered => fetch.stage = "answered")
      /\ view' = IF answered THEN fetch.events ELSE view
      /\ kept' = kept \cup IF answered THEN fetch.events ELSE view \ ToSet(facts)
      /\ lost' = IF skipped \/ ~answered THEN lost \cup (ToSet(facts) \ view') ELSE lost
      /\ fetch' = NoFetch /\ blocking' = FALSE /\ skipped' = FALSE
      /\ UNCHANGED <<facts, saved, lastEvent, up, channel, wire, lastSeen>>
  BY DEF EndFetch
<1>2. StreamTypes /\ Underway /\ Fetching /\ Covered /\ Grounded /\ Honest
  BY DEF StreamInv
<1>3. fetch # NoFetch
  BY <1>1 DEF NoFetch
<1>4. StreamTypes'
  <2>1. NoFetch \in [stage : {"none", "asked", "answered"}, events : SUBSET (1..lastEvent)]
    BY DEF NoFetch
  <2>2. fetch.events \subseteq 1..lastEvent /\ view \subseteq 1..lastEvent
    BY <1>2 DEF StreamTypes
  <2>3. view' \subseteq 1..lastEvent
    BY <1>1, <2>2
  <2>4. QED BY <1>1, <1>2, <2>1, <2>3 DEF StreamTypes
<1>5. Underway'
  BY <1>1, <1>2 DEF Underway
<1>6. Fetching'
  BY <1>1 DEF Fetching
<1>7. Covered'
  <2>1. CASE skipped \/ ~answered
    <3>1. ToSet(facts) \subseteq view' \cup lost'
      BY <1>1, <2>1
    <3>2. QED BY <1>1, <3>1 DEF Covered, Seen, Comes, NoFetch
  <2>2. CASE ~skipped /\ answered
    <3>1. lastSeen = Unknown /\ Comes(view', lost)
      BY <1>1, <1>2, <1>3, <2>2 DEF Fetching, Covered
    <3>2. lost' = lost
      BY <1>1, <2>2
    <3>3. QED BY <1>1, <3>1, <3>2 DEF Covered, Seen, Comes, NoFetch
  <2>3. QED BY <2>1, <2>2
<1>8. Grounded'
  <2>1. Loose' \subseteq Loose
    BY <1>1 DEF Loose, Saved
  <2>2. lastSeen' # None
    BY <1>1, <1>2, <1>3 DEF Fetching
  <2>3. QED BY <1>1, <1>2, <2>1, <2>2 DEF Grounded
<1>9. Honest'
  <2>1. CASE answered
    BY <1>1, <2>1 DEF Honest
  <2>2. CASE ~answered
    BY <1>1, <2>2 DEF Honest
  <2>3. QED BY <2>1, <2>2
<1>10. QED BY <1>4, <1>5, <1>6, <1>7, <1>8, <1>9 DEF StreamInv

\* The client's view and the hub's events agree, in the sense of the invariant.
LEMMA ViewIsFollowing ==
  ASSUME StreamInv
  PROVE  ViewFollowsHub
PROOF
<1> DEFINE H == ToSet(History(facts))
<1>1. StreamTypes /\ Underway /\ Fetching /\ Covered /\ Grounded /\ Honest
  BY DEF StreamInv
<1>2. /\ wire \in Seq(Messages) /\ channel \in Seq(Messages)
      /\ ToSet(wire) = {wire[i] : i \in 1..Len(wire)} /\ DOMAIN wire = 1..Len(wire)
  BY <1>1, ToSetIs DEF StreamTypes
<1>3. ASSUME fetch = NoFetch, up \/ lastSeen # None
      PROVE  ToSet(facts) \subseteq view \cup Coming \cup lost
  <2> DEFINE q == IF up THEN wire \o channel ELSE Backlog
  <2>1. /\ q \in Seq(Messages)
        /\ up => ToSet(q) = ToSet(wire) \cup ToSet(channel)
    BY <1>1, <1>2, ConcatIs, BacklogIs
  <2>2. Coming = IF \E i \in DOMAIN q : q[i].resync THEN ToSet(facts) ELSE Ids(q)
    BY DEF Coming
  <2> HIDE DEF q
  <2>3. (\E i \in DOMAIN q : q[i].resync) <=> \E n \in ToSet(q) : n.resync
    <3>1. ToSet(q) = {q[i] : i \in 1..Len(q)} /\ DOMAIN q = 1..Len(q)
      BY <2>1, ToSetIs
    <3>2. QED BY <3>1
  <2>4. Ids(q) = {n.id : n \in ToSet(q)}
    BY <2>1, IdsAre
  <2>5. CASE \E n \in ToSet(q) : n.resync
    BY <2>2, <2>3, <2>5
  <2>6. CASE up /\ \A n \in ToSet(q) : ~n.resync
    <3>1. Ids(wire) = {n.id : n \in ToSet(wire)} /\ Ids(channel) = {n.id : n \in ToSet(channel)}
      BY <1>2, IdsAre
    <3>2. Ids(q) = Ids(wire) \cup Ids(channel) /\ ~Warns(wire)
      BY <2>1, <2>4, <2>6, <3>1 DEF Warns
    <3>3. ToSet(facts) \subseteq view \cup Ids(wire) \cup Ids(channel) \cup lost
      BY <1>1, <1>3, <2>6, <3>2 DEF Covered, Comes
    <3>4. QED BY <2>2, <2>3, <2>6, <3>2, <3>3
  <2>7. CASE ~up /\ \A n \in ToSet(q) : ~n.resync
    <3>1. /\ lastSeen # None /\ lastSeen \in H =>
               ToSet(q) = {Event(h) : h \in {k \in H : lastSeen < k}}
          /\ lastSeen # None /\ lastSeen \notin H =>
               ToSet(q) = {Resync} \cup {Event(h) : h \in H}
      BY <1>1, <2>7, BacklogIs DEF q
    <3>2. Resync.resync /\ lastSeen # None /\ \A h : Event(h).id = h
      BY <1>3, <2>7 DEF Resync, Event
    <3>3. lastSeen \in H
      BY <2>7, <3>1, <3>2
    <3>4. Ids(q) = {k \in H : lastSeen < k}
      <4>1. ToSet(q) = {Event(h) : h \in {k \in H : lastSeen < k}}
        BY <3>1, <3>2, <3>3
      <4>2. QED BY <2>4, <3>2, <4>1
    <3>5. /\ H \subseteq ToSet(facts) /\ ToSet(facts) \subseteq 1..lastEvent /\ lastEvent \in Nat
          /\ \A f \in ToSet(facts), h \in H : f > h => f \in H
          /\ Unknown \notin ToSet(facts)
      BY <1>1, FactsAre
    <3> HIDE DEF H
    <3>6. ASSUME NEW f \in ToSet(facts) PROVE f \in view \cup Ids(q) \cup lost
      <4>1. f \in Nat /\ lastSeen \in Nat /\ lastSeen # Unknown
        BY <3>3, <3>5
      <4>2. f <= lastSeen => f \in view \cup lost
        BY <1>1, <1>3, <3>2, <4>1 DEF Covered, Seen
      <4>3. f > lastSeen => f \in Ids(q)
        BY <3>3, <3>4, <3>5, <4>1
      <4>4. QED BY <4>1, <4>2, <4>3
    <3>7. QED BY <2>2, <2>3, <2>7, <3>6
  <2>8. QED BY <2>5, <2>6, <2>7
<1>4. ASSUME up, fetch = NoFetch, \A i \in DOMAIN wire : ~wire[i].resync
      PROVE  view \subseteq ToSet(facts) \cup kept
  <2>1. ~Warns(wire)
    BY <1>2, <1>4 DEF Warns
  <2>2. QED BY <1>1, <1>4, <2>1 DEF Honest
<1>5. QED BY <1>3, <1>4 DEF ViewFollowsHub, NothingMissedSilently, NoPhantoms

(* A client of a conversation's events misses nothing silently and shows      *)
(* nothing the hub does not know, but for the ways the actions name: for any  *)
(* length of the history and of the channels, and any number of events, of    *)
(* broken connections and of crashes (execution_events_store.go,              *)
(* handlers_conversation_events.go, sseClient.ts, stream.ts).                 *)
THEOREM ClientFollowsHub == StreamSpec => []ViewFollowsHub
PROOF
<1>1. StreamInit => StreamInv
  <2> SUFFICES ASSUME StreamInit PROVE StreamInv
    OBVIOUS
  <2>1. /\ facts = <<>> /\ saved = 0 /\ lastEvent = None
        /\ up = TRUE /\ channel = <<>> /\ wire = <<>> /\ lastSeen = None
        /\ view = {} /\ fetch = NoFetch /\ blocking = FALSE /\ skipped = FALSE
    BY DEF StreamInit
  <2>2. /\ facts \in Seq(1..MaxEvents) /\ Len(facts) = 0 /\ ToSet(facts) = {}
        /\ \A q \in {wire, channel} : q \in Seq(Messages) /\ Sorted(q) /\ ~Warns(q) /\ ToSet(q) = {}
    <3>1. <<>> \in Seq(1..MaxEvents)
      OBVIOUS
    <3>2. QED BY <2>1, <3>1, NothingIs
  <2>3. StreamTypes
    <3>1. NoFetch \in [stage : {"none", "asked", "answered"}, events : SUBSET (1..lastEvent)]
      BY DEF NoFetch
    <3>2. None = 0 /\ MaxEvents \in Nat
      BY StreamAssumption DEF None
    <3>3. Ascends(facts) /\ \A i \in 1..Len(facts) : facts[i] <= lastEvent
      <4>1. 1..Len(facts) = {}
        BY <2>2
      <4>2. QED BY <4>1 DEF Ascends
    <3>4. /\ saved \in 0..Len(facts) /\ lastEvent \in 0..MaxEvents
          /\ lastSeen \in 0..lastEvent \cup {Unknown} /\ view \subseteq 1..lastEvent
      BY <2>1, <2>2, <3>2
    <3>5. QED BY <2>1, <2>2, <3>1, <3>3, <3>4 DEF StreamTypes
  <2>4. Loose = {} /\ fetch.stage # "answered"
    BY <2>1 DEF Loose, NoFetch
  <2>5. Underway
    <3>1. Len(channel) <= ChannelSize
      BY <2>1, StreamAssumption
    <3>2. QED BY <2>1, <2>2, <3>1 DEF Underway, Faithful
  <2>6. Fetching /\ Covered /\ Grounded /\ Honest
    BY <2>1, <2>2, <2>4 DEF Fetching, Covered, Grounded, Honest, Seen, Comes
  <2>7. QED BY <2>3, <2>5, <2>6 DEF StreamInv
<1>2. StreamInv /\ [StreamNext]_streamVars => StreamInv'
  <2> SUFFICES ASSUME StreamInv, [StreamNext]_streamVars PROVE StreamInv'
    OBVIOUS
  <2>1. CASE AppendEvent
    BY <2>1, AppendKeeps
  <2>2. CASE Persist
    BY <2>2, PersistKeeps
  <2>3. CASE Connect
    BY <2>3, ConnectKeeps
  <2>4. CASE Forward
    BY <2>4, ForwardKeeps
  <2>5. CASE Break \/ Detach
    BY <2>5, CutKeeps
  <2>6. CASE Crash
    BY <2>6, CrashKeeps
  <2>7. CASE Receive
    BY <2>7, ReceiveKeeps
  <2>8. CASE AnswerFetch
    BY <2>8, AnswerKeeps
  <2>9. CASE EndFetch(TRUE) \/ EndFetch(FALSE)
    BY <2>9, EndFetchKeeps
  <2>10. CASE UNCHANGED streamVars
    BY <2>10 DEF streamVars, StreamInv, StreamTypes, Underway, Fetching, Covered, Grounded, Honest,
                 Seen, Comes, Loose, Saved
  <2>11. QED BY <2>1, <2>2, <2>3, <2>4, <2>5, <2>6, <2>7, <2>8, <2>9, <2>10 DEF StreamNext
<1>3. StreamInv => ViewFollowsHub
  BY ViewIsFollowing
<1>4. QED BY <1>1, <1>2, <1>3, PTL DEF StreamSpec
-------------------------------------------------------------------------------
(* The files of the command line.                                              *)

\* What a file says of a key, once it is laid over the defaults.
Norm(k, v) == IF k \in {<<"main">>, <<"quick">>} /\ v = "none" THEN Default(k) ELSE v
Says(f, k) ==
  IF stored[f].form = "empty" THEN Default(k) ELSE Norm(k, stored[f].has[k])

\* What the commands in a have asked of a key.
Meant(a, k) == IF k \in DOMAIN a THEN a[k] ELSE First(k)

OnFile(t, f) == shell[t].step # "idle" /\ shell[t].command.file = f
EmptiedBy(t, f) == shell[t].step = "emptied" /\ shell[t].command.file = f

\* The result of a command is what has been asked, with what its user asks.
Matches(t) ==
  \A k \in KeysOf(shell[t].command.file) :
    Norm(k, shell[t].result[k]) = Norm(k, Meant(Asked(asked, shell[t].command), k))

Working(a) ==
  /\ a = [step |-> a.step, command |-> a.command, result |-> a.result, fresh |-> a.fresh]
  /\ a.step \in {"read", "emptied"} /\ a.command \in Commands /\ a.fresh \in BOOLEAN
  /\ Wanted(a.command) \subseteq KeysOf(a.command.file)

CliTypes ==
  /\ stored = [f \in FileNames |-> stored[f]]
  /\ \A f \in FileNames : stored[f].form \in {"empty", "whole", "torn"}
  /\ shell = [t \in Shells |-> shell[t]]
  /\ \A t \in Shells : shell[t] = Idle \/ Working(shell[t])

\* While no write of it overtook another or broke off, a file nobody has emptied says what
\* has been asked; what a command works out of it is what has been asked and what it asks,
\* unless it read what another had emptied; and the file a command has emptied stays empty
\* as long as nobody else writes.
FileHolds(f) ==
  /\ (\A t \in Shells : ~EmptiedBy(t, f)) =>
       /\ stored[f].form # "torn"
       /\ \A k \in KeysOf(f) : Says(f, k) = Norm(k, Meant(asked, k))
  /\ \A t \in Shells : OnFile(t, f) /\ shell[t].fresh =>
       \/ \E u \in Shells \ {t} : EmptiedBy(u, f)
       \/ Matches(t)
  /\ \A t \in Shells : EmptiedBy(t, f) /\ shell[t].fresh => stored[f].form = "empty"

CliInv == CliTypes /\ \A f \in FileNames \ disturbed : FileHolds(f)

\* Files share no key, and keys of a file are told apart by their names.
LEMMA KeysApart ==
  /\ \A f, g \in FileNames : f # g => KeysOf(f) \cap KeysOf(g) = {}
  /\ <<"main">> # <<"quick">> /\ <<"main">> # <<"profiles">> /\ <<"quick">> # <<"profiles">>
PROOF
<1>1. \A x \in StateKeys : x # <<"global">> /\ x \notin ServerKeys
  <2>1. ASSUME NEW x \in StateKeys, \A sc \in PluginScopes : x # <<sc, "plugin">>
        PROVE  x = <<x[1]>> /\ x[1] # "global"
    BY <2>1 DEF StateKeys
  <2>2. \A s : \A t, u : <<s>> # <<t, u>>
    OBVIOUS
  <2>3. QED BY <2>1, <2>2 DEF ServerKeys, PluginScopes
<1>2. \A x \in ServerKeys : x # <<"global">>
  BY DEF ServerKeys
<1>3. QED BY <1>1, <1>2 DEF KeysOf, FileNames

\* What the user of the command c means is done in s: r says what c asks for of the keys
\* it is about, and what s says of the others.
Done(c, s, r) ==
  /\ Wanted(c) \subseteq KeysOf(c.file)
  /\ \A w \in c.wants : Norm(w[1], r[w[1]]) = Norm(w[1], w[2])
  /\ \A k \in KeysOf(c.file) \ Wanted(c) : r[k] = s[k]
  /\ \A w, v \in c.wants : w[1] = v[1] => w = v

\* A command about one key sets it.
LEMMA OneKey ==
  ASSUME NEW c, NEW s, NEW r, NEW k \in KeysOf(c.file), NEW v, DOMAIN s = KeysOf(c.file),
         c.wants = {<<k, v>>}, r = [s EXCEPT ![k] = v]
  PROVE  Done(c, s, r)
PROOF
<1>1. Wanted(c) = {k}
  BY DEF Wanted
<1>2. r[k] = v /\ \A x \in KeysOf(c.file) : x # k => r[x] = s[x]
  OBVIOUS
<1>3. \A w \in c.wants : w = <<k, v>> /\ w[1] = k /\ w[2] = v
  OBVIOUS
<1>4. QED BY <1>1, <1>2, <1>3 DEF Done

\* So it is with the commands about one kind of setting.
LEMMA PlainDone ==
  ASSUME NEW c \in PlainCommands, NEW s, DOMAIN s = KeysOf(c.file),
         NEW r \in executeLeafCommand(c, s)
  PROVE  Done(c, s, r)
PROOF
<1> DEFINE update == Command("plugin marketplace update", "state", "none", {}, {})
<1>1. ASSUME c # update
      PROVE  \E k \in KeysOf(c.file) : \E v : c.wants = {<<k, v>>} /\ r = [s EXCEPT ![k] = v]
  <2>1. CASE c = Plain("config set", <<"config">>, "on")
    BY <2>1 DEF Plain, Command, executeLeafCommand, ConfigSet, configKey, Set, KeysOf, StateKeys
  <2>2. CASE c = Plain("config remove", <<"config">>, "none")
    BY <2>2 DEF Plain, Command, executeLeafCommand, ConfigRemove, configKey, Set, KeysOf, StateKeys
  <2>3. CASE c = Command("config set", "global", "global", {}, {<<<<"global">>, "on">>})
    BY <2>3 DEF Command, executeLeafCommand, ConfigSet, configKey, Set, KeysOf
  <2>4. CASE c = Command("config remove", "global", "global", {}, {<<<<"global">>, "none">>})
    BY <2>4 DEF Command, executeLeafCommand, ConfigRemove, configKey, Set, KeysOf
  <2>5. CASE c = Plain("context set", <<"context">>, "on")
    BY <2>5 DEF Plain, Command, executeLeafCommand, ContextSet, Set, KeysOf, StateKeys
  <2>6. CASE c = Plain("context remove", <<"context">>, "none")
    BY <2>6 DEF Plain, Command, executeLeafCommand, ContextRemove, Set, KeysOf, StateKeys
  <2>7. CASE c = Plain("plugin marketplace add", <<"market">>, "on")
    BY <2>7 DEF Plain, Command, executeLeafCommand, MarketplaceAdd, Set, KeysOf, StateKeys
  <2>8. CASE c = Plain("plugin marketplace remove", <<"market">>, "none")
    BY <2>8 DEF Plain, Command, executeLeafCommand, MarketplaceRemove, Unset, Set, KeysOf,
       StateKeys
  <2>9. CASE c = Plain("approved-tools remove", <<"tool">>, "none")
    BY <2>9 DEF Plain, Command, executeLeafCommand, ApprovedToolsRemove, Unset, Set, KeysOf,
       StateKeys
  <2>10. CASE c = Plain("session start", <<"session">>, "on")
    BY <2>10 DEF Plain, Command, executeLeafCommand, SessionStart, persistSessionID, Set, KeysOf,
       StateKeys
  <2>11. CASE c = Plain("resume", <<"session">>, "on")
    BY <2>11 DEF Plain, Command, executeLeafCommand, Resume, persistSessionID, Set, KeysOf, StateKeys
  <2>12. CASE c = Plain("mcp reset-project-choices", <<"choices">>, "none")
    BY <2>12 DEF Plain, Command, executeLeafCommand, ResetChoices, Set, KeysOf, StateKeys
  <2>13. QED
    BY <1>1, <2>1, <2>2, <2>3, <2>4, <2>5, <2>6, <2>7, <2>8, <2>9, <2>10, <2>11, <2>12
       DEF PlainCommands
<1>2. CASE c = update
  <2>1. c.wants = {} /\ r = s
    BY <1>2 DEF Command, executeLeafCommand, MarketplaceUpdate
  <2>2. QED BY <2>1 DEF Done, Wanted
<1>3. QED BY <1>1, <1>2, OneKey

\* With the commands of plugins and of skills, ...
LEMMA ScopedDone ==
  ASSUME NEW c \in ScopedCommands, NEW s, DOMAIN s = KeysOf(c.file),
         NEW r \in executeLeafCommand(c, s)
  PROVE  Done(c, s, r)
PROOF
<1>1. \/ \E d \in {"plugin install", "plugin uninstall", "plugin enable", "plugin disable"},
            sc \in {"none", "project"} : c = PluginCommand(d, sc)
      \/ \E d \in {"skills install", "skills uninstall"}, sc \in {"none", "project"} :
           c = SkillCommand(d, sc)
  BY DEF ScopedCommands
<1>2. ASSUME NEW d \in {"plugin install", "plugin uninstall", "plugin enable", "plugin disable"},
             NEW sc \in {"none", "project"}, c = PluginCommand(d, sc)
      PROVE  Done(c, s, r)
  <2> DEFINE v == CASE d = "plugin uninstall" -> "none" [] d = "plugin disable" -> "off"
                    [] OTHER -> "on"
  <2>1. /\ c.do = d /\ c.scope = sc /\ c.file = "state" /\ c.wants = {<<pluginKey(sc), v>>}
        /\ pluginKey(sc) \in KeysOf(c.file)
    BY <1>2 DEF PluginCommand, Command, pluginKey, KeysOf, StateKeys, PluginScopes
  <2>2. r = [s EXCEPT ![pluginKey(sc)] = v]
    <3>1. CASE d = "plugin install"
      BY <2>1, <3>1 DEF executeLeafCommand, PluginInstall, Set
    <3>2. CASE d = "plugin uninstall"
      BY <2>1, <3>2 DEF executeLeafCommand, PluginUninstall, Unset, Set
    <3>3. CASE d = "plugin enable"
      BY <2>1, <3>3 DEF executeLeafCommand, PluginToggle, Set
    <3>4. CASE d = "plugin disable"
      BY <2>1, <3>4 DEF executeLeafCommand, PluginToggle, Set
    <3>5. QED BY <3>1, <3>2, <3>3, <3>4
  <2> HIDE DEF v
  <2>3. QED BY <2>1, <2>2, OneKey
<1>3. ASSUME NEW d \in {"skills install", "skills uninstall"}, NEW sc \in {"none", "project"},
             c = SkillCommand(d, sc)
      PROVE  Done(c, s, r)
  <2> DEFINE v == IF d = "skills install" THEN "on" ELSE "none"
  <2>1. /\ c.do = d /\ c.file = "state" /\ c.wants = {<<skillKey(c), v>>}
        /\ skillKey(c) \in KeysOf(c.file)
    BY <1>3 DEF SkillCommand, Command, skillKey, KeysOf, StateKeys
  <2>2. r = [s EXCEPT ![skillKey(c)] = v]
    BY <2>1 DEF executeLeafCommand, SkillsInstall, SkillsUninstall, Unset, Set
  <2> HIDE DEF v
  <2>3. QED BY <2>1, <2>2, OneKey
<1>4. QED BY <1>1, <1>2, <1>3

\* ... with an import of models, ...
LEMMA ImportDone ==
  ASSUME NEW c \in Imports, NEW s, DOMAIN s = KeysOf(c.file),
         NEW r \in executeLeafCommand(c, s)
  PROVE  Done(c, s, r)
PROOF
<1> DEFINE main == <<"main">>
           quick == <<"quick">>
           profiles == <<"profiles">>
<1>1. PICK sc \in {"none", "replace"}, i \in {{}, {"main"}, {"main", "profiles"}} :
        c = Import(sc, i)
  BY DEF Imports
<1>2. c.do = "models import" /\ c.scope = sc /\ c.file = "state" /\ c.imports = i
  BY <1>1 DEF Import, Command
<1>3. /\ main # quick /\ main # profiles /\ quick # profiles
      /\ main[1] = "main" /\ quick[1] = "quick" /\ profiles[1] = "profiles"
      /\ {main, quick, profiles} \subseteq KeysOf(c.file)
  BY <1>2, KeysApart DEF KeysOf, StateKeys
<1> HIDE DEF main, quick, profiles
<1> DEFINE pointer(k) == IF k[1] \in i THEN "imported"
                         ELSE IF sc = "replace" \/ i \cap {"main", "quick"} # {} THEN "none"
                         ELSE s[k]
           leftProfiles == IF "profiles" \in i THEN "imported"
                   ELSE IF sc = "replace" THEN "placeholder" ELSE s[profiles]
<1>4. r = [s EXCEPT ![main] = pointer(main), ![quick] = pointer(quick), ![profiles] = leftProfiles]
  BY <1>2 DEF executeLeafCommand, ModelsImport, main, quick, profiles
<1>5. /\ r[main] = pointer(main) /\ r[quick] = pointer(quick) /\ r[profiles] = leftProfiles
      /\ \A k \in KeysOf(c.file) : k \notin {main, quick, profiles} => r[k] = s[k]
  <2> HIDE DEF pointer, leftProfiles
  <2>1. QED BY <1>3, <1>4
<1>6. \A w : w \in c.wants <=>
        \/ /\ sc = "replace" \/ "main" \in i
           /\ \/ w = <<main, IF "main" \in i THEN "imported" ELSE "none">>
              \/ w = <<quick, IF "quick" \in i THEN "imported" ELSE "none">>
        \/ /\ sc = "replace" \/ "profiles" \in i
           /\ w = <<profiles, IF "profiles" \in i THEN "imported" ELSE "placeholder">>
  <2>1. \A w : w \in c.wants <=>
          \/ w \in {<<k, IF k[1] \in i THEN "imported" ELSE "none">> :
                     k \in IF sc = "replace" \/ "main" \in i THEN {main, quick} ELSE {}}
          \/ w \in {<<profiles, IF "profiles" \in i THEN "imported" ELSE "placeholder">> :
                     x \in IF sc = "replace" \/ "profiles" \in i THEN {1} ELSE {}}
    BY <1>1 DEF Import, Command, main, quick, profiles
  <2>2. QED BY <1>3, <2>1
<1>7. /\ main \in Wanted(c) <=> sc = "replace" \/ "main" \in i
      /\ quick \in Wanted(c) <=> sc = "replace" \/ "main" \in i
      /\ profiles \in Wanted(c) <=> sc = "replace" \/ "profiles" \in i
      /\ Wanted(c) \subseteq {main, quick, profiles}
  <2>1. \A w \in c.wants : \/ w[1] = main /\ (sc = "replace" \/ "main" \in i)
                           \/ w[1] = quick /\ (sc = "replace" \/ "main" \in i)
                           \/ w[1] = profiles /\ (sc = "replace" \/ "profiles" \in i)
    BY <1>6
  <2>2. sc = "replace" \/ "main" \in i => main \in Wanted(c) /\ quick \in Wanted(c)
    <3>1. \A v, k : <<k, v>>[1] = k
      OBVIOUS
    <3>2. QED BY <1>6, <3>1 DEF Wanted
  <2>3. sc = "replace" \/ "profiles" \in i => profiles \in Wanted(c)
    <3>1. \A v, k : <<k, v>>[1] = k
      OBVIOUS
    <3>2. QED BY <1>6, <3>1 DEF Wanted
  <2>4. QED BY <1>3, <2>1, <2>2, <2>3 DEF Wanted
<1>8. \A w \in c.wants : r[w[1]] = w[2]
  <2> SUFFICES ASSUME NEW w \in c.wants PROVE r[w[1]] = w[2]
    OBVIOUS
  <2>1. CASE /\ w = <<main, IF "main" \in i THEN "imported" ELSE "none">>
             /\ sc = "replace" \/ "main" \in i
    <3>1. w[1] = main /\ w[2] = IF "main" \in i THEN "imported" ELSE "none"
      BY <2>1
    <3>2. pointer(main) = IF "main" \in i THEN "imported" ELSE "none"
      <4>1. CASE "main" \in i
        BY <1>3, <4>1
      <4>2. CASE "main" \notin i
        BY <1>3, <2>1, <4>2
      <4>3. QED BY <4>1, <4>2
    <3> HIDE DEF pointer
    <3>3. QED BY <1>5, <3>1, <3>2
  <2>2. CASE /\ w = <<quick, IF "quick" \in i THEN "imported" ELSE "none">>
             /\ sc = "replace" \/ "main" \in i
    <3>1. w[1] = quick /\ w[2] = "none"
      BY <2>2
    <3>2. pointer(quick) = "none"
      BY <1>3, <2>2
    <3> HIDE DEF pointer
    <3>3. QED BY <1>5, <3>1, <3>2
  <2>3. CASE /\ w = <<profiles, IF "profiles" \in i THEN "imported" ELSE "placeholder">>
             /\ sc = "replace" \/ "profiles" \in i
    <3>1. w[1] = profiles /\ w[2] = IF "profiles" \in i THEN "imported" ELSE "placeholder"
      BY <2>3
    <3>2. leftProfiles = IF "profiles" \in i THEN "imported" ELSE "placeholder"
      <4>1. CASE "profiles" \in i
        BY <4>1
      <4>2. CASE "profiles" \notin i
        BY <2>3, <4>2
      <4>3. QED BY <4>1, <4>2
    <3> HIDE DEF leftProfiles
    <3>3. QED BY <1>5, <3>1, <3>2
  <2>4. QED BY <1>6, <2>1, <2>2, <2>3
<1>9. \A k \in KeysOf(c.file) \ Wanted(c) : r[k] = s[k]
  <2>1. main \notin Wanted(c) => pointer(main) = s[main]
    BY <1>3, <1>7
  <2>2. quick \notin Wanted(c) => pointer(quick) = s[quick]
    BY <1>3, <1>7
  <2>3. profiles \notin Wanted(c) => leftProfiles = s[profiles]
    BY <1>3, <1>7
  <2> HIDE DEF pointer, leftProfiles
  <2>4. QED BY <1>5, <2>1, <2>2, <2>3
<1>10. \A w, v \in c.wants : w[1] = v[1] => w = v
  BY <1>3, <1>6
<1>11. QED BY <1>3, <1>7, <1>8, <1>9, <1>10 DEF Done

\* ... and with the commands about MCP servers.
LEMMA ServerDone ==
  ASSUME NEW c \in ServerCommands, NEW s, DOMAIN s = KeysOf(c.file),
         NEW r \in executeLeafCommand(c, s)
  PROVE  Done(c, s, r)
PROOF
<1> DEFINE At(scope) == <<scope, "server">>
<1>1. \A scope \in ServerScopes : At(scope) \in ServerKeys
  BY DEF ServerKeys
<1>2. \A scope \in ServerScopes : mcpServerKey(scope, "local") = At(scope)
                                  /\ mcpServerKey(scope, "none") = At(scope)
  BY DEF mcpServerKey, ServerScopes
<1>3. ASSUME NEW scope \in ServerScopes, NEW v, c.file = "servers", c.wants = {<<At(scope), v>>},
             r = [s EXCEPT ![At(scope)] = v]
      PROVE  Done(c, s, r)
  <2>1. At(scope) \in KeysOf(c.file)
    BY <1>1, <1>3 DEF KeysOf
  <2> HIDE DEF At
  <2>2. QED BY <1>3, <2>1, OneKey
<1>4. CASE c = Server("mcp add-http", "none", {"url"}, "local")
  BY <1>3, <1>4 DEF Server, Command, executeLeafCommand, MCPAddURLTransport, mcpServerKey, Set,
     ServerScopes
<1>5. CASE c = Server("mcp add-http", "user", {"url"}, "user")
  BY <1>3, <1>5 DEF Server, Command, executeLeafCommand, MCPAddURLTransport, mcpServerKey, Set,
     ServerScopes
<1>6. CASE c = Server("mcp add", "none", {"command"}, "local")
  BY <1>3, <1>6 DEF Server, Command, executeLeafCommand, MCPAdd, mcpServerKey, transport, Set,
     ServerScopes
<1>7. CASE c = Server("mcp add", "mcprc", {"url"}, "mcprc")
  BY <1>3, <1>7 DEF Server, Command, executeLeafCommand, MCPAdd, mcpServerKey, transport, Set,
     ServerScopes
<1>8. CASE c = Server("mcp add", "none", {"url", "env"}, "local")
  BY <1>8 DEF Server, Command, executeLeafCommand, MCPAdd
<1>9. CASE c = Server("mcp add", "none", {"wizard"}, "local")
  BY <1>9 DEF Server, Command, executeLeafCommand, MCPAddInteractive
<1>10. CASE c = Server("mcp add", "user", {"wizard", "url"}, "user")
  BY <1>3, <1>10 DEF Server, Command, executeLeafCommand, MCPAddInteractive, mcpServerKey,
     transport, Set, ServerScopes
<1>11. CASE c = Server("mcp add-json", "none", {"url"}, "project")
  BY <1>3, <1>11 DEF Server, Command, executeLeafCommand, MCPAddJSON, mcpServerKey, transport,
     Set, ServerScopes
<1>12. CASE c = Server("mcp add-json", "none", {}, "project")
  BY <1>12 DEF Server, Command, executeLeafCommand, MCPAddJSON
<1>13. CASE c = Command("mcp add-from-claude-desktop", "servers", "none", {"all"},
                        {<<<<"project", "server">>, "desktop">>})
  BY <1>3, <1>13 DEF Command, executeLeafCommand, MCPAddFromClaudeDesktop, mcpServerKey, Set,
     ServerScopes
<1>14. CASE c = Command("mcp remove", "servers", "none", {}, {<<k, "none">> : k \in ServerKeys})
  <2> DEFINE having == {k \in ServerKeys : s[k] # "none"}
  <2>1. /\ c.do = "mcp remove" /\ c.scope = "none" /\ c.file = "servers"
        /\ c.wants = {<<k, "none">> : k \in ServerKeys}
    BY <1>14 DEF Command
  <2>2. \E k \in having : Cardinality(having) = 1 /\ r = [s EXCEPT ![k] = "none"]
    BY <2>1 DEF executeLeafCommand, MCPRemove, Set
  <2>3. PICK k \in ServerKeys : having = {k} /\ r = [s EXCEPT ![k] = "none"]
    <3>1. IsFiniteSet(having)
      <4>1. ServerKeys = {At("local"), At("user"), At("project"), At("mcprc")}
        BY DEF ServerKeys, ServerScopes
      <4>2. IsFiniteSet({At("local"), At("user"), At("project"), At("mcprc")})
        <5> HIDE DEF At
        <5>1. IsFiniteSet({At("local")})
          BY FS_Singleton
        <5>2. IsFiniteSet({At("local")} \cup {At("user")})
          BY <5>1, FS_AddElement
        <5>3. IsFiniteSet(({At("local")} \cup {At("user")}) \cup {At("project")})
          BY <5>2, FS_AddElement
        <5>4. IsFiniteSet((({At("local")} \cup {At("user")}) \cup {At("project")})
                          \cup {At("mcprc")})
          BY <5>3, FS_AddElement
        <5>5. {At("local"), At("user"), At("project"), At("mcprc")}
              = (({At("local")} \cup {At("user")}) \cup {At("project")}) \cup {At("mcprc")}
          OBVIOUS
        <5>6. QED BY <5>4, <5>5
      <4>3. QED BY <4>1, <4>2, FS_Subset
    <3>2. \E x : having = {x}
      BY <2>2, <3>1, FS_Singleton
    <3>3. QED BY <2>2, <3>2
  <2>4. \A w \in c.wants : \E x \in ServerKeys : w = <<x, "none">>
    BY <2>1
  <2>5. \A w \in c.wants : w[1] \in ServerKeys /\ w[2] = "none" /\ w = <<w[1], "none">>
    <3>1. \A x : <<x, "none">>[1] = x /\ <<x, "none">>[2] = "none"
      OBVIOUS
    <3> HIDE DEF having
    <3>2. QED BY <2>4, <3>1
  <2>6. ASSUME NEW x \in ServerKeys
        PROVE  \E w \in c.wants : w[1] = x
    <3>1. <<x, "none">> \in c.wants /\ <<x, "none">>[1] = x
      BY <2>1
    <3> HIDE DEF having
    <3>2. QED BY <3>1
  <2>7. Wanted(c) = ServerKeys /\ ServerKeys = KeysOf(c.file)
    <3>1. Wanted(c) = ServerKeys
      BY <2>5, <2>6 DEF Wanted
    <3>2. QED BY <2>1, <3>1 DEF KeysOf
  <2>8. \A x \in ServerKeys : r[x] = "none"
    <3>1. \A x \in ServerKeys : x # k => s[x] = "none"
      BY <2>3
    <3> HIDE DEF having
    <3>2. QED BY <2>3, <2>7, <3>1
  <2>9. QED BY <2>5, <2>7, <2>8 DEF Done
<1>15. CASE c = Command("mcp remove", "servers", "user", {}, {<<<<"user", "server">>, "none">>})
  BY <1>3, <1>15 DEF Command, executeLeafCommand, MCPRemove, mcpServerKey, Unset, Set,
     ServerScopes
<1>16. QED BY <1>4, <1>5, <1>6, <1>7, <1>8, <1>9, <1>10, <1>11, <1>12, <1>13, <1>14, <1>15
           DEF ServerCommands

\* A command that saves does what its user means, and nothing else.
LEMMA CommandDone ==
  ASSUME NEW c \in Commands, NEW s, DOMAIN s = KeysOf(c.file),
         NEW r \in executeLeafCommand(c, s)
  PROVE  Done(c, s, r)
PROOF
<1>1. QED BY PlainDone, ScopedDone, ImportDone, ServerDone DEF Commands

\* A command is about one of the files.
LEMMA CommandFile ==
  ASSUME NEW c \in Commands
  PROVE  c.file \in FileNames
PROOF
<1>1. CASE c \in PlainCommands
  <2>1. \A do, k, v : Plain(do, k, v).file = "state"
    BY DEF Plain, Command
  <2>2. \A do, scope, imports, wants :
          /\ Command(do, "state", scope, imports, wants).file = "state"
          /\ Command(do, "global", scope, imports, wants).file = "global"
    BY DEF Command
  <2>3. \/ \E do, k, v : c = Plain(do, k, v)
        \/ \E do, scope, imports, wants : \/ c = Command(do, "state", scope, imports, wants)
                                          \/ c = Command(do, "global", scope, imports, wants)
    BY <1>1, Zenon DEF PlainCommands
  <2>4. QED BY <2>1, <2>2, <2>3 DEF FileNames
<1>2. CASE c \in ScopedCommands
  <2>1. \A do, scope : /\ PluginCommand(do, scope).file = "state"
                       /\ SkillCommand(do, scope).file = "state"
    BY DEF PluginCommand, SkillCommand, Command
  <2>2. \E do, scope : c = PluginCommand(do, scope) \/ c = SkillCommand(do, scope)
    BY <1>2 DEF ScopedCommands
  <2>3. QED BY <2>1, <2>2 DEF FileNames
<1>3. CASE c \in Imports
  <2>1. \A scope, imports : Import(scope, imports).file = "state"
    BY DEF Import, Command
  <2>2. \E scope, imports : c = Import(scope, imports)
    BY <1>3 DEF Imports
  <2>3. QED BY <2>1, <2>2 DEF FileNames
<1>4. CASE c \in ServerCommands
  <2>1. \A do, scope, imports, in : Server(do, scope, imports, in).file = "servers"
    BY DEF Server, Command
  <2>2. \A do, scope, imports, wants :
          Command(do, "servers", scope, imports, wants).file = "servers"
    BY DEF Command
  <2>3. \/ \E do, scope, imports, in : c = Server(do, scope, imports, in)
        \/ \E do, scope, imports, wants : c = Command(do, "servers", scope, imports, wants)
    BY <1>4, Zenon DEF ServerCommands
  <2>4. QED BY <2>1, <2>2, <2>3 DEF FileNames
<1>5. QED BY <1>1, <1>2, <1>3, <1>4 DEF Commands

\* Laying a setting over the defaults twice is laying it once.
LEMMA NormTwice == \A k, v : Norm(k, Norm(k, v)) = Norm(k, v)
PROOF
<1>1. \A k \in {<<"main">>, <<"quick">>} : Default(k) = "default"
  BY DEF Default
<1>2. QED BY <1>1 DEF Norm

\* What a command reads is what the file says.
LEMMA LoadedIs ==
  ASSUME CliTypes, NEW f \in FileNames, NEW s \in Loaded(f, stored[f])
  PROVE  DOMAIN s = KeysOf(f) /\ \A k \in KeysOf(f) : s[k] = Says(f, k)
PROOF
<1>1. CASE stored[f].form = "torn"
  BY <1>1 DEF Loaded
<1>2. CASE stored[f].form = "empty"
  <2>1. s = Defaults(f)
    BY <1>2 DEF Loaded
  <2>2. QED BY <1>2, <2>1 DEF Defaults, Says
<1>3. CASE stored[f].form = "whole"
  <2>1. s = [k \in KeysOf(f) |-> Norm(k, stored[f].has[k])]
    BY <1>3 DEF Loaded, Norm
  <2>2. \A k : Says(f, k) = Norm(k, stored[f].has[k])
    BY <1>3 DEF Says
  <2>3. QED BY <2>1, <2>2
<1>4. QED BY <1>1, <1>2, <1>3 DEF CliTypes

\* What a command works out of what has been asked is that and what it asks.
LEMMA ResultMatches ==
  ASSUME NEW c \in Commands, NEW s, DOMAIN s = KeysOf(c.file), NEW r \in executeLeafCommand(c, s),
         \A k \in KeysOf(c.file) : s[k] = Norm(k, Meant(asked, k))
  PROVE  /\ Wanted(c) \subseteq KeysOf(c.file)
         /\ \A k \in KeysOf(c.file) : Norm(k, r[k]) = Norm(k, Meant(Asked(asked, c), k))
PROOF
<1>1. Done(c, s, r)
  BY CommandDone
<1>2. ASSUME NEW k \in KeysOf(c.file)
      PROVE  Norm(k, r[k]) = Norm(k, Meant(Asked(asked, c), k))
  <2>1. CASE k \in Wanted(c)
    <3> DEFINE chosen == CHOOSE w \in c.wants : w[1] = k
    <3>1. \E w \in c.wants : w[1] = k
      BY <2>1 DEF Wanted
    <3>2. chosen \in c.wants /\ chosen[1] = k
      BY <3>1
    <3>3. Meant(Asked(asked, c), k) = chosen[2]
      BY <2>1 DEF Meant, Asked
    <3> HIDE DEF chosen
    <3>4. Norm(k, r[k]) = Norm(k, chosen[2])
      BY <1>1, <3>2 DEF Done
    <3>5. QED BY <3>3, <3>4
  <2>2. CASE k \notin Wanted(c)
    <3>1. r[k] = s[k] /\ s[k] = Norm(k, Meant(asked, k))
      BY <1>1, <2>2 DEF Done
    <3>2. Meant(Asked(asked, c), k) = Meant(asked, k)
      BY <2>2 DEF Meant, Asked
    <3>3. QED BY <3>1, <3>2, NormTwice
  <2>3. QED BY <2>1, <2>2
<1>3. QED BY <1>1, <1>2 DEF Done

\* A file and the commands on it hold as long as they are left alone, and commands on other
\* files do not ask about its settings.
LEMMA FileRests ==
  ASSUME NEW f \in FileNames, FileHolds(f), stored'[f] = stored[f], UNCHANGED used,
         \A t \in Shells : OnFile(t, f) \/ OnFile(t, f)' => shell'[t] = shell[t],
         \A k \in KeysOf(f) : Meant(asked, k)' = Meant(asked, k)
  PROVE  FileHolds(f)'
PROOF
<1>1. \A t \in Shells : EmptiedBy(t, f)' <=> EmptiedBy(t, f)
  <2>1. ASSUME NEW t \in Shells, shell'[t] = shell[t]
        PROVE  EmptiedBy(t, f)' <=> EmptiedBy(t, f)
    BY <2>1 DEF EmptiedBy
  <2>2. ASSUME NEW t \in Shells, shell'[t] # shell[t]
        PROVE  ~EmptiedBy(t, f)' /\ ~EmptiedBy(t, f)
    BY <2>2 DEF EmptiedBy, OnFile
  <2>3. QED BY <2>1, <2>2
<1>2. \A k : Says(f, k)' = Says(f, k)
  BY DEF Says, Norm
<1>3. \A k : \A v : Norm(k, v)' = Norm(k, v)
  BY DEF Norm
<1>4. ASSUME \A t \in Shells : ~EmptiedBy(t, f)'
      PROVE  /\ stored'[f].form # "torn"
             /\ \A k \in KeysOf(f) : Says(f, k)' = Norm(k, Meant(asked, k))'
  BY <1>1, <1>2, <1>3, <1>4 DEF FileHolds
<1>5. ASSUME NEW t \in Shells, OnFile(t, f)', shell'[t].fresh
      PROVE  \/ \E u \in Shells \ {t} : EmptiedBy(u, f)'
             \/ Matches(t)'
  <2>1. shell'[t] = shell[t] /\ OnFile(t, f) /\ shell[t].fresh /\ shell[t].command.file = f
    <3>1. shell'[t] = shell[t]
      BY <1>5
    <3>2. QED BY <1>5, <3>1 DEF OnFile
  <2>2. CASE \E u \in Shells \ {t} : EmptiedBy(u, f)
    BY <1>1, <2>2
  <2>3. CASE Matches(t)
    <3>1. \A k \in KeysOf(f) :
            Meant(Asked(asked, shell[t].command), k)' = Meant(Asked(asked, shell[t].command), k)
      BY <2>1 DEF Meant, Asked, First
    <3>2. QED BY <2>1, <2>3, <3>1 DEF Matches, Norm
  <2>4. QED BY <2>1, <2>2, <2>3 DEF FileHolds
<1>6. ASSUME NEW t \in Shells, EmptiedBy(t, f)', shell'[t].fresh
      PROVE  stored'[f].form = "empty"
  <2>1. EmptiedBy(t, f) /\ shell'[t] = shell[t]
    BY <1>1, <1>6 DEF EmptiedBy, OnFile
  <2>2. QED BY <1>6, <2>1 DEF FileHolds
<1>7. QED BY <1>4, <1>5, <1>6 DEF FileHolds

\* What a result matches depends on the command and on what has been asked.
LEMMA MatchesRest ==
  ASSUME NEW t, shell'[t].command = shell[t].command, shell'[t].result = shell[t].result,
         UNCHANGED <<asked, used>>
  PROVE  Matches(t)' <=> Matches(t)
PROOF
<1>1. \A c, k : Meant(Asked(asked, c), k)' = Meant(Asked(asked, c), k)
  BY DEF Meant, Asked, First
<1>2. \A k, v : Norm(k, v)' = Norm(k, v)
  BY DEF Norm
<1>3. QED BY <1>1, <1>2 DEF Matches

\* A command whose read is old has everything else as it was.
LEMMA Stale ==
  ASSUME NEW a, Working(a)
  PROVE  /\ [a EXCEPT !.fresh = FALSE] = [step |-> a.step, command |-> a.command,
                                          result |-> a.result, fresh |-> FALSE]
         /\ [a EXCEPT !.step = "emptied"] = [step |-> "emptied", command |-> a.command,
                                             result |-> a.result, fresh |-> a.fresh]
PROOF
<1>1. PICK s, c, r, b : a = [step |-> s, command |-> c, result |-> r, fresh |-> b]
  BY DEF Working
<1>2. a \in [step : {s}, command : {c}, result : {r}, fresh : {b}]
  BY <1>1
<1>3. a.step = s /\ a.command = c /\ a.result = r /\ a.fresh = b
  BY <1>1
<1>4. [a EXCEPT !.fresh = FALSE] = [step |-> s, command |-> c, result |-> r, fresh |-> FALSE]
  <2>1. b \in BOOLEAN
    BY <1>3 DEF Working
  <2>2. a \in [step : {s}, command : {c}, result : {r}, fresh : BOOLEAN]
    BY <1>1, <2>1
  <2> DEFINE e == [a EXCEPT !.fresh = FALSE]
  <2>3. e \in [step : {s}, command : {c}, result : {r}, fresh : BOOLEAN]
    BY <2>2
  <2>4. e.fresh = FALSE /\ e.step = s /\ e.command = c /\ e.result = r
    BY <1>3, <2>2
  <2> HIDE DEF e
  <2>5. e = [step |-> e.step, command |-> e.command, result |-> e.result, fresh |-> e.fresh]
    BY <2>3
  <2>6. e = [step |-> s, command |-> c, result |-> r, fresh |-> FALSE]
    BY <2>4, <2>5
  <2>7. QED BY <2>6 DEF e
<1>5. [a EXCEPT !.step = "emptied"] = [step |-> "emptied", command |-> c, result |-> r,
                                       fresh |-> b]
  BY <1>2
<1>6. QED BY <1>3, <1>4, <1>5

\* While nothing moves everything holds.
LEMMA CliRests ==
  ASSUME CliInv, UNCHANGED <<stored, shell, used, asked, disturbed>>
  PROVE  CliInv'
PROOF
<1>1. CliTypes'
  BY DEF CliInv, CliTypes
<1>2. \A k : Meant(asked, k)' = Meant(asked, k)
  BY DEF Meant, First
<1>3. ASSUME NEW f \in FileNames \ disturbed
      PROVE  FileHolds(f)'
  <2>1. FileHolds(f) /\ stored'[f] = stored[f] /\ \A t \in Shells : shell'[t] = shell[t]
    BY DEF CliInv
  <2>2. QED BY <1>2, <2>1, FileRests
<1>4. QED BY <1>1, <1>3 DEF CliInv

\* A command begins, or ends without writing.
LEMMA RunKeeps ==
  ASSUME CliInv, NEW t \in Shells, NEW c \in Commands, Run(t, c)
  PROVE  CliInv'
PROOF
<1> DEFINE f == c.file
<1>1. /\ f \in FileNames /\ shell[t].step = "idle" /\ CliTypes
      /\ UNCHANGED <<stored, used, asked, disturbed>>
  BY CommandFile DEF Run, CliInv
<1>2. CASE shell' = shell
  BY <1>1, <1>2, CliRests
<1>3. ASSUME NEW s \in Loaded(f, stored[f]), NEW r \in executeLeafCommand(c, s),
             shell' = [shell EXCEPT ![t] = [step |-> "read", command |-> c, result |-> r,
                                            fresh |-> TRUE]]
      PROVE  CliInv'
  <2> DEFINE a == [step |-> "read", command |-> c, result |-> r, fresh |-> TRUE]
  <2>1. shell'[t] = a /\ \A u \in Shells : u # t => shell'[u] = shell[u]
    BY <1>1, <1>3 DEF CliTypes
  <2>2. /\ DOMAIN s = KeysOf(f) /\ \A k \in KeysOf(f) : s[k] = Says(f, k)
    BY <1>1, LoadedIs
  <2>3. Done(c, s, r)
    BY <2>2, CommandDone
  <2>4. Working(a)
    BY <2>3 DEF Working, Done
  <2>5. a.step = "read" /\ a.command = c /\ a.result = r
    OBVIOUS
  <2> HIDE DEF a
  <2>6. CliTypes'
    <3>1. shell' = [u \in Shells |-> shell'[u]]
      BY <1>1, <1>3 DEF CliTypes
    <3>2. \A u \in Shells : shell'[u] = Idle \/ Working(shell'[u])
      BY <1>1, <2>1, <2>4 DEF CliTypes
    <3>3. QED BY <1>1, <3>1, <3>2 DEF CliTypes
  <2>7. ASSUME NEW g \in FileNames \ disturbed
        PROVE  FileHolds(g)'
    <3>1. FileHolds(g)
      BY DEF CliInv
    <3>2. \A u \in Shells : EmptiedBy(u, g)' <=> EmptiedBy(u, g)
      BY <1>1, <2>1, <2>5 DEF EmptiedBy
    <3>3. (\A u \in Shells : ~EmptiedBy(u, g)') =>
            /\ stored'[g].form # "torn"
            /\ \A k \in KeysOf(g) : Says(g, k)' = Norm(k, Meant(asked, k))'
      BY <1>1, <3>1, <3>2 DEF FileHolds, Says, Norm, Meant, First
    <3>4. ASSUME NEW u \in Shells, OnFile(u, g)', shell'[u].fresh
          PROVE  \/ \E v \in Shells \ {u} : EmptiedBy(v, g)'
                 \/ Matches(u)'
      <4>1. CASE u # t
        <5>1. shell'[u] = shell[u] /\ OnFile(u, g) /\ shell[u].fresh
          BY <2>1, <3>4, <4>1 DEF OnFile
        <5>2. Matches(u) => Matches(u)'
          BY <1>1, <5>1, MatchesRest
        <5>3. QED BY <3>1, <3>2, <5>1, <5>2 DEF FileHolds
      <4>2. CASE u = t
        <5>1. g = f
          BY <2>1, <2>5, <3>4, <4>2 DEF OnFile
        <5>2. CASE \E v \in Shells : EmptiedBy(v, g)
          <6>1. \A v \in Shells : EmptiedBy(v, g) => v # t
            BY <1>1 DEF EmptiedBy
          <6>2. QED BY <3>2, <4>2, <5>2, <6>1
        <5>3. CASE \A v \in Shells : ~EmptiedBy(v, g)
          <6>1. \A k \in KeysOf(f) : s[k] = Norm(k, Meant(asked, k))
            BY <2>2, <3>1, <5>1, <5>3 DEF FileHolds
          <6>2. \A k \in KeysOf(f) : Norm(k, r[k]) = Norm(k, Meant(Asked(asked, c), k))
            BY <2>2, <6>1, ResultMatches
          <6>3. Matches(u)'
            <7>1. \A k : Meant(Asked(asked, c), k)' = Meant(Asked(asked, c), k)
              BY <1>1 DEF Meant, Asked, First
            <7>2. shell'[u].command = c /\ shell'[u].result = r
              BY <2>1, <2>5, <4>2
            <7>3. QED BY <6>2, <7>1, <7>2 DEF Matches, Norm
          <6>4. QED BY <6>3
        <5>4. QED BY <5>2, <5>3
      <4>3. QED BY <4>1, <4>2
    <3>5. \A u \in Shells : EmptiedBy(u, g)' /\ shell'[u].fresh => stored'[g].form = "empty"
      <4>1. \A u \in Shells : EmptiedBy(u, g)' => u # t
        BY <2>1, <2>5 DEF EmptiedBy
      <4>2. QED BY <1>1, <2>1, <3>1, <3>2, <4>1 DEF FileHolds
    <3>6. QED BY <3>3, <3>4, <3>5 DEF FileHolds
  <2>8. QED BY <1>1, <2>6, <2>7 DEF CliInv
<1>4. QED BY <1>2, <1>3 DEF Run

\* What the other shells have when t writes to its file.
LEMMA WriteIs ==
  ASSUME CliTypes, NEW t \in Shells, shell[t].step \in {"read", "emptied"}, NEW a,
         a = Idle \/ Working(a),
         shell' = [Outdated(t, shell[t].command.file) EXCEPT ![t] = a]
  PROVE  /\ Working(shell[t]) /\ shell[t].command.file \in FileNames
         /\ shell' = [u \in Shells |-> shell'[u]] /\ shell'[t] = a
         /\ \A u \in Shells : shell'[u] = Idle \/ Working(shell'[u])
         /\ \A u \in Shells : u # t /\ ~OnFile(u, shell[t].command.file) => shell'[u] = shell[u]
         /\ \A u \in Shells : u # t /\ OnFile(u, shell[t].command.file) =>
              /\ ~shell'[u].fresh /\ shell'[u].step = shell[u].step
              /\ shell'[u].command = shell[u].command
PROOF
<1> DEFINE f == shell[t].command.file
<1>1. Working(shell[t])
  BY DEF CliTypes, Idle
<1>2. f \in FileNames
  BY <1>1, CommandFile DEF Working
<1> HIDE DEF f
<1>3. \A u \in Shells : u # t => shell'[u] = IF shell[u].step # "idle" /\ shell[u].command.file = f
                                            THEN [shell[u] EXCEPT !.fresh = FALSE] ELSE shell[u]
  BY DEF Outdated, f
<1>4. shell'[t] = a /\ shell' = [u \in Shells |-> shell'[u]]
  BY DEF Outdated
<1>5. ASSUME NEW u \in Shells, u # t, OnFile(u, f)
      PROVE  /\ ~shell'[u].fresh /\ shell'[u].step = shell[u].step
             /\ shell'[u].command = shell[u].command /\ Working(shell'[u])
  <2>1. Working(shell[u]) /\ shell'[u] = [shell[u] EXCEPT !.fresh = FALSE]
    BY <1>3, <1>5 DEF OnFile, CliTypes, Idle
  <2>2. shell'[u] = [step |-> shell[u].step, command |-> shell[u].command,
                     result |-> shell[u].result, fresh |-> FALSE]
    BY <2>1, Stale
  <2> DEFINE b == shell'[u]
             h == shell[u]
  <2>3. b.step = h.step /\ b.command = h.command /\ b.result = h.result /\ b.fresh = FALSE
    BY <2>2
  <2>4. Working(h) /\ b = [step |-> h.step, command |-> h.command, result |-> h.result,
                            fresh |-> FALSE]
    BY <2>1, <2>2
  <2> HIDE DEF b, h
  <2>5. ~b.fresh /\ b.step = h.step /\ b.command = h.command /\ Working(b)
    BY <2>3, <2>4 DEF Working
  <2>6. QED BY <2>5 DEF b, h
<1>6. \A u \in Shells : u # t /\ ~OnFile(u, f) => shell'[u] = shell[u]
  BY <1>3 DEF OnFile
<1>7. \A u \in Shells : shell'[u] = Idle \/ Working(shell'[u])
  BY <1>4, <1>5, <1>6 DEF CliTypes
<1>8. QED BY <1>1, <1>2, <1>4, <1>5, <1>6, <1>7 DEF f

\* A command empties its file.
LEMMA TruncateKeeps ==
  ASSUME CliInv, NEW t \in Shells, Truncate(t)
  PROVE  CliInv'
PROOF
<1> DEFINE a == [shell[t] EXCEPT !.step = "emptied"]
<1>1. PICK f : f = shell[t].command.file
  OBVIOUS
<1>2. /\ CliTypes /\ shell[t].step = "read"
      /\ stored' = [stored EXCEPT ![f] = [form |-> "empty", has |-> <<>>]]
      /\ disturbed' = disturbed \cup {g \in {f} : ~shell[t].fresh}
      /\ UNCHANGED <<used, asked>>
  BY <1>1 DEF Truncate, CliInv
<1>3. Working(shell[t])
  BY <1>2 DEF CliTypes, Idle
<1>4. a = [step |-> "emptied", command |-> shell[t].command, result |-> shell[t].result,
           fresh |-> shell[t].fresh]
  BY <1>3, Stale
<1>5. /\ Working(a) /\ a.step = "emptied" /\ a.command = shell[t].command
      /\ a.result = shell[t].result /\ a.fresh = shell[t].fresh
  BY <1>3, <1>4 DEF Working
<1>6. shell' = [Outdated(t, f) EXCEPT ![t] = a]
  <2>1. Outdated(t, f)[t] = shell[t] /\ DOMAIN Outdated(t, f) = Shells
    BY DEF Outdated
  <2>2. shell' = [Outdated(t, f) EXCEPT ![t].step = "emptied"]
    BY <1>1 DEF Truncate
  <2>3. shell' = [Outdated(t, f) EXCEPT ![t] = [Outdated(t, f)[t] EXCEPT !.step = "emptied"]]
    BY <2>2
  <2>4. QED BY <2>1, <2>3
<1> HIDE DEF a
<1>7. /\ f \in FileNames /\ shell' = [u \in Shells |-> shell'[u]] /\ shell'[t] = a
      /\ \A u \in Shells : shell'[u] = Idle \/ Working(shell'[u])
      /\ \A u \in Shells : u # t /\ ~OnFile(u, f) => shell'[u] = shell[u]
      /\ \A u \in Shells : u # t /\ OnFile(u, f) =>
           /\ ~shell'[u].fresh /\ shell'[u].step = shell[u].step
           /\ shell'[u].command = shell[u].command
  BY <1>1, <1>2, <1>5, <1>6, WriteIs
<1>8. /\ stored'[f].form = "empty" /\ \A g \in FileNames : g # f => stored'[g] = stored[g]
      /\ stored' = [g \in FileNames |-> stored'[g]]
  BY <1>2, <1>7 DEF CliTypes
<1>9. CliTypes'
  BY <1>2, <1>7, <1>8 DEF CliTypes
<1>10. ASSUME NEW g \in FileNames \ disturbed', g # f
      PROVE  FileHolds(g)'
  <2>1. FileHolds(g)
    BY <1>2, <1>10 DEF CliInv
  <2>2. ASSUME NEW u \in Shells, OnFile(u, g) \/ OnFile(u, g)'
        PROVE  shell'[u] = shell[u]
    <3>1. u # t /\ ~OnFile(u, f)
      BY <1>1, <1>5, <1>7, <1>10, <2>2 DEF OnFile
    <3>2. QED BY <1>7, <3>1
  <2>3. \A k : Meant(asked, k)' = Meant(asked, k)
    BY <1>2 DEF Meant, First
  <2>4. QED BY <1>2, <1>8, <1>10, <2>1, <2>2, <2>3, FileRests
<1>11. ASSUME f \notin disturbed'
       PROVE  FileHolds(f)'
  <2>1. FileHolds(f) /\ shell[t].fresh
    BY <1>2, <1>7, <1>11 DEF CliInv
  <2>2. EmptiedBy(t, f)'
    BY <1>1, <1>5, <1>7 DEF EmptiedBy
  <2>3. ASSUME NEW u \in Shells, OnFile(u, f)', shell'[u].fresh
        PROVE  \/ \E v \in Shells \ {u} : EmptiedBy(v, f)'
               \/ Matches(u)'
    <3>1. u = t
      <4>1. u # t => OnFile(u, f)
        BY <1>7, <2>3 DEF OnFile
      <4>2. QED BY <1>7, <2>3, <4>1
    <3>2. OnFile(t, f)
      BY <1>1, <1>2 DEF OnFile
    <3>3. ASSUME NEW v \in Shells \ {t}, EmptiedBy(v, f)
          PROVE  EmptiedBy(v, f)'
      <4>1. OnFile(v, f)
        BY <3>3 DEF EmptiedBy, OnFile
      <4>2. QED BY <1>7, <3>3, <4>1 DEF EmptiedBy
    <3>4. Matches(t) => Matches(t)'
      <4>1. /\ shell'[t].command = shell[t].command /\ shell'[t].result = shell[t].result
        BY <1>5, <1>7
      <4>2. QED BY <1>2, <4>1, MatchesRest
    <3>5. QED BY <2>1, <3>1, <3>2, <3>3, <3>4 DEF FileHolds
  <2>4. QED BY <1>8, <2>2, <2>3 DEF FileHolds
<1>12. QED BY <1>7, <1>9, <1>10, <1>11 DEF CliInv

\* When t is done with its file, the other files and the commands on them are as they were.
LEMMA OthersRest ==
  ASSUME CliInv, NEW t \in Shells, NEW f \in FileNames, f = shell[t].command.file,
         shell[t].step = "emptied", UNCHANGED used,
         shell' = [Outdated(t, f) EXCEPT ![t] = Idle],
         NEW d, stored' = [stored EXCEPT ![f] = d], d.form \in {"empty", "whole", "torn"},
         disturbed \subseteq disturbed',
         asked' = asked \/ asked' = Asked(asked, shell[t].command)
  PROVE  CliTypes' /\ \A g \in FileNames \ disturbed' : g # f => FileHolds(g)'
PROOF
<1>1. /\ CliTypes /\ Working(shell[t])
      /\ shell' = [u \in Shells |-> shell'[u]] /\ shell'[t] = Idle
      /\ \A u \in Shells : shell'[u] = Idle \/ Working(shell'[u])
      /\ \A u \in Shells : u # t /\ ~OnFile(u, f) => shell'[u] = shell[u]
      /\ \A u \in Shells : u # t /\ OnFile(u, f) =>
           /\ ~shell'[u].fresh /\ shell'[u].step = shell[u].step
           /\ shell'[u].command = shell[u].command
  BY WriteIs DEF CliInv
<1>2. /\ stored'[f] = d /\ \A g \in FileNames : g # f => stored'[g] = stored[g]
      /\ stored' = [g \in FileNames |-> stored'[g]]
  BY <1>1 DEF CliTypes
<1>3. CliTypes'
  BY <1>1, <1>2 DEF CliTypes
<1>4. ASSUME NEW g \in FileNames \ disturbed', g # f
      PROVE  FileHolds(g)'
  <2>1. FileHolds(g)
    BY <1>4 DEF CliInv
  <2>2. ASSUME NEW u \in Shells, OnFile(u, g) \/ OnFile(u, g)'
        PROVE  shell'[u] = shell[u]
    <3>1. u # t /\ ~OnFile(u, f)
      <4>1. u # t
        BY <1>1, <1>4, <2>2 DEF OnFile, Idle
      <4>2. OnFile(u, f) => shell'[u].command.file = f
        BY <1>1, <4>1 DEF OnFile
      <4>3. QED BY <1>4, <2>2, <4>1, <4>2 DEF OnFile
    <3>2. QED BY <1>1, <3>1
  <2>3. \A k \in KeysOf(g) : Meant(asked, k)' = Meant(asked, k)
    <3>1. KeysOf(f) \cap KeysOf(g) = {}
      BY <1>4, KeysApart
    <3>2. \A k \in KeysOf(g) : k \notin Wanted(shell[t].command)
      BY <1>1, <3>1 DEF Working
    <3>3. QED BY <3>2 DEF Meant, First, Asked
  <2>4. QED BY <1>2, <1>4, <2>1, <2>2, <2>3, FileRests
<1>5. QED BY <1>3, <1>4

\* A command writes what it worked out.
LEMMA SaveKeeps ==
  ASSUME CliInv, NEW t \in Shells, saveState(t)
  PROVE  CliInv'
PROOF
<1>1. PICK f : f = shell[t].command.file
  OBVIOUS
<1>2. /\ CliTypes /\ shell[t].step = "emptied" /\ UNCHANGED used
      /\ shell' = [Outdated(t, f) EXCEPT ![t] = Idle]
      /\ disturbed' = disturbed \cup {g \in {f} : ~shell[t].fresh}
      /\ asked' = Asked(asked, shell[t].command)
  BY <1>1 DEF saveState, CliInv
<1>3. PICK form \in IF stored[f].form = "empty" THEN {"whole"} ELSE {"whole", "torn"} :
        stored' = [stored EXCEPT ![f] = [form |-> form,
                     has |-> IF form = "torn" THEN <<>> ELSE shell[t].result]]
  BY <1>1 DEF saveState
<1> DEFINE d == [form |-> form, has |-> IF form = "torn" THEN <<>> ELSE shell[t].result]
<1>4. /\ f \in FileNames /\ Working(shell[t]) /\ shell'[t] = Idle
      /\ \A u \in Shells : u # t /\ ~OnFile(u, f) => shell'[u] = shell[u]
      /\ \A u \in Shells : u # t /\ OnFile(u, f) =>
           /\ ~shell'[u].fresh /\ shell'[u].step = shell[u].step
           /\ shell'[u].command = shell[u].command
  BY <1>1, <1>2, WriteIs
<1>5. CliTypes' /\ \A g \in FileNames \ disturbed' : g # f => FileHolds(g)'
  <2>1. d.form \in {"empty", "whole", "torn"} /\ stored' = [stored EXCEPT ![f] = d]
    BY <1>3
  <2> HIDE DEF d
  <2>2. QED BY <1>1, <1>2, <1>4, <2>1, OthersRest
<1>6. ASSUME f \notin disturbed'
      PROVE  FileHolds(f)'
  <2>1. FileHolds(f) /\ shell[t].fresh /\ EmptiedBy(t, f) /\ OnFile(t, f)
    BY <1>1, <1>2, <1>4, <1>6 DEF CliInv, EmptiedBy, OnFile
  <2>2. form = "whole"
    BY <1>3, <2>1 DEF FileHolds
  <2>3. stored'[f].form = "whole" /\ stored'[f].has = shell[t].result
    BY <1>2, <1>3, <1>4, <2>2 DEF CliTypes
  <2>4. ASSUME \A u \in Shells : ~EmptiedBy(u, f)'
        PROVE  \A k \in KeysOf(f) : Says(f, k)' = Norm(k, Meant(asked, k))'
    <3>1. \A u \in Shells \ {t} : ~EmptiedBy(u, f)
      <4>1. ASSUME NEW u \in Shells \ {t}, EmptiedBy(u, f)
            PROVE  FALSE
        <5>1. OnFile(u, f)
          BY <4>1 DEF EmptiedBy, OnFile
        <5>2. EmptiedBy(u, f)'
          BY <1>4, <4>1, <5>1 DEF EmptiedBy
        <5>3. QED BY <2>4, <5>2
      <4>2. QED BY <4>1
    <3>2. Matches(t)
      BY <2>1, <3>1 DEF FileHolds
    <3>3. \A k : Meant(asked, k)' = Meant(Asked(asked, shell[t].command), k)
      BY <1>2 DEF Meant, First
    <3>4. \A k, v : Norm(k, v)' = Norm(k, v)
      BY DEF Norm
    <3>5. \A k \in KeysOf(f) : Says(f, k)' = Norm(k, shell[t].result[k])
      BY <2>3, <3>4 DEF Says
    <3>6. QED BY <1>1, <3>2, <3>3, <3>4, <3>5 DEF Matches
  <2>5. \A u \in Shells : OnFile(u, f)' => ~shell'[u].fresh
    <3>1. ASSUME NEW u \in Shells, OnFile(u, f)'
          PROVE  ~shell'[u].fresh
      <4>1. u # t
        BY <1>4, <3>1 DEF OnFile, Idle
      <4>2. OnFile(u, f)
        BY <1>4, <3>1, <4>1 DEF OnFile
      <4>3. QED BY <1>4, <4>1, <4>2
    <3>2. QED BY <3>1
  <2>6. \A u \in Shells : EmptiedBy(u, f)' => OnFile(u, f)'
    BY DEF EmptiedBy, OnFile
  <2>7. QED BY <2>3, <2>4, <2>5, <2>6 DEF FileHolds
<1>7. QED BY <1>5, <1>6 DEF CliInv

\* A command dies while it writes.
LEMMA BreakOffKeeps ==
  ASSUME CliInv, NEW t \in Shells, BreakOff(t)
  PROVE  CliInv'
PROOF
<1>1. PICK f : f = shell[t].command.file
  OBVIOUS
<1>2. /\ CliTypes /\ shell[t].step = "emptied" /\ UNCHANGED <<used, asked>>
      /\ shell' = [Outdated(t, f) EXCEPT ![t] = Idle]
      /\ disturbed' = disturbed \cup {f}
  BY <1>1 DEF BreakOff, CliInv
<1>3. f \in FileNames
  BY <1>1, <1>2, WriteIs
<1>4. CASE UNCHANGED stored
  <2> DEFINE e == stored[f]
  <2>1. stored' = [stored EXCEPT ![f] = e] /\ e.form \in {"empty", "whole", "torn"}
    BY <1>2, <1>3, <1>4 DEF CliTypes
  <2> HIDE DEF e
  <2>2. CliTypes' /\ \A g \in FileNames \ disturbed' : g # f => FileHolds(g)'
    BY <1>1, <1>2, <1>3, <2>1, OthersRest
  <2>3. QED BY <1>2, <2>2 DEF CliInv
<1>5. CASE stored' = [stored EXCEPT ![f] = [form |-> "torn", has |-> <<>>]]
  <2> DEFINE e == [form |-> "torn", has |-> <<>>]
  <2>1. stored' = [stored EXCEPT ![f] = e] /\ e.form = "torn"
    BY <1>5
  <2> HIDE DEF e
  <2>2. CliTypes' /\ \A g \in FileNames \ disturbed' : g # f => FileHolds(g)'
    BY <1>1, <1>2, <1>3, <2>1, OthersRest
  <2>3. QED BY <1>2, <2>2 DEF CliInv
<1>6. QED BY <1>1, <1>4, <1>5 DEF BreakOff

\* The files of the command line say what was asked of them, whatever the commands, as long as
\* no write overtakes another or breaks off.
THEOREM SettingsKept == CliSpec => []SettingsAreKept
PROOF
<1>1. CliInit => CliInv
  <2> SUFFICES ASSUME CliInit PROVE CliInv
    OBVIOUS
  <2>1. CliTypes
    <3>1. stored = [f \in FileNames |-> stored[f]]
      BY DEF CliInit
    <3>2. \A f \in FileNames : stored[f].form \in {"empty", "whole", "torn"}
      BY DEF CliInit
    <3>3. QED BY <3>1, <3>2 DEF CliInit, CliTypes
  <2>2. ASSUME NEW f \in FileNames
        PROVE  FileHolds(f)
    <3>1. \A t \in Shells : ~OnFile(t, f) /\ ~EmptiedBy(t, f)
      BY DEF CliInit, OnFile, EmptiedBy, Idle
    <3>2. \A k : Meant(asked, k) = First(k)
      BY DEF CliInit, Meant
    <3>3. stored[f].form # "torn"
      BY DEF CliInit
    <3>4. ASSUME NEW k \in KeysOf(f)
          PROVE  Says(f, k) = Norm(k, First(k))
      <4>1. CASE used
        <5>1. stored[f] = [form |-> "whole", has |-> [j \in KeysOf(f) |-> First(j)]]
          BY <4>1 DEF CliInit
        <5>2. stored[f].form = "whole" /\ stored[f].has[k] = First(k)
          BY <5>1
        <5>3. QED BY <5>2 DEF Says
      <4>2. CASE ~used
        <5>1. stored[f].form = "empty" /\ First(k) = Default(k)
          BY <4>2 DEF CliInit, First
        <5>2. QED BY <5>1 DEF Says, Norm
      <4>3. QED BY <4>1, <4>2
    <3>5. QED BY <3>1, <3>2, <3>3, <3>4 DEF FileHolds
  <2>3. QED BY <2>1, <2>2 DEF CliInv
<1>2. CliInv /\ [CliNext]_cliVars => CliInv'
  <2> SUFFICES ASSUME CliInv, [CliNext]_cliVars PROVE CliInv'
    OBVIOUS
  <2>1. CASE UNCHANGED cliVars
    BY <2>1, CliRests DEF cliVars
  <2>2. ASSUME NEW t \in Shells, NEW c \in Commands, Run(t, c)
        PROVE  CliInv'
    BY <2>2, RunKeeps
  <2>3. ASSUME NEW t \in Shells, Truncate(t) \/ saveState(t) \/ BreakOff(t)
        PROVE  CliInv'
    BY <2>3, TruncateKeeps, SaveKeeps, BreakOffKeeps
  <2>4. QED BY <2>1, <2>2, <2>3 DEF CliNext
<1>3. CliInv => SettingsAreKept
  <2> SUFFICES ASSUME CliInv, NEW f \in FileNames \ disturbed,
                      \A t \in Shells : ~EmptiedBy(t, f)
               PROVE  \A s \in Loaded(f, [form |-> "whole",
                                          has |-> [k \in KeysOf(f) |->
                                             IF k \in DOMAIN asked THEN asked[k] ELSE First(k)]]) :
                        \E l \in Loaded(f, stored[f]) : \A k \in KeysOf(f) : l[k] = s[k]
    BY DEF SettingsAreKept, EmptiedBy
  <2> DEFINE has == [k \in KeysOf(f) |-> IF k \in DOMAIN asked THEN asked[k] ELSE First(k)]
             meant == [form |-> "whole", has |-> has]
  <2>1. CliTypes /\ FileHolds(f)
    BY DEF CliInv
  <2>2. stored[f].form # "torn" /\ \A k \in KeysOf(f) : Says(f, k) = Norm(k, Meant(asked, k))
    BY <2>1 DEF FileHolds
  <2>3. PICK l : l \in Loaded(f, stored[f])
    BY <2>2 DEF Loaded
  <2>4. \A k \in KeysOf(f) : l[k] = Says(f, k)
    BY <2>1, <2>3, LoadedIs
  <2>5. ASSUME NEW s \in Loaded(f, meant), NEW k \in KeysOf(f)
        PROVE  s[k] = Norm(k, Meant(asked, k))
    <3>1. meant.form = "whole" /\ meant.has = has
      OBVIOUS
    <3>2. has[k] = Meant(asked, k)
      BY DEF Meant
    <3> HIDE DEF meant, has
    <3>3. s = [j \in KeysOf(f) |-> Norm(j, has[j])]
      BY <2>5, <3>1 DEF Loaded, Norm
    <3>4. QED BY <3>2, <3>3
  <2> HIDE DEF meant
  <2>6. \A s \in Loaded(f, meant) : \A k \in KeysOf(f) : l[k] = s[k]
    BY <2>2, <2>4, <2>5
  <2>7. QED BY <2>3, <2>6 DEF meant
<1>4. QED BY <1>1, <1>2, <1>3, PTL DEF CliSpec
===============================================================================
