------------------------------ MODULE MCHubData -------------------------------
(* What is kept, six parts that share no variable checked in one run: the     *)
(* change sets of a conversation, its events on their way to a client, the    *)
(* conversations in the database, a project with its configuration, the files *)
(* of the command line, and the database as it is opened and migrated. Which  *)
(* of them moves is chosen at the start and the others rest, so that their    *)
(* states add up and do not multiply; nothing is claimed here of how they act *)
(* together.                                                                  *)
EXTENDS ChangeSets, EventStream, ExecutionStore, Projects, CliState, Migration

VARIABLE part \* the component that moves

hubDataVars == <<part, changeVars, streamVars, storeVars, projectVars, cliVars, migrationVars>>

HubDataInit ==
  /\ part \in {"changes", "stream", "store", "project", "cli", "database"}
  /\ ChangeInit /\ StreamInit /\ StoreInit /\ ProjectInit /\ CliInit
  /\ MigrationInit
  /\ part = "project" \/ project = {}
  /\ part = "cli" \/ ~used
  /\ part = "database" \/ tables = [t \in SchemaTables |-> Absent]

MoveChanges ==
  /\ part = "changes" /\ ChangeNext
  /\ UNCHANGED <<part, streamVars, storeVars, projectVars, cliVars, migrationVars>>
MoveStream ==
  /\ part = "stream" /\ StreamNext
  /\ UNCHANGED <<part, changeVars, storeVars, projectVars, cliVars, migrationVars>>
MoveStore ==
  /\ part = "store" /\ StoreNext
  /\ UNCHANGED <<part, changeVars, streamVars, projectVars, cliVars, migrationVars>>
MoveProject ==
  /\ part = "project" /\ ProjectNext
  /\ UNCHANGED <<part, changeVars, streamVars, storeVars, cliVars, migrationVars>>
MoveCli ==
  /\ part = "cli" /\ CliNext
  /\ UNCHANGED <<part, changeVars, streamVars, storeVars, projectVars, migrationVars>>

MoveDatabase ==
  /\ part = "database" /\ MigrationNext
  /\ UNCHANGED <<part, changeVars, streamVars, storeVars, projectVars, cliVars>>

HubDataNext == MoveChanges \/ MoveStream \/ MoveStore \/ MoveProject \/ MoveCli
               \/ MoveDatabase

HubDataSpec == HubDataInit /\ [][HubDataNext]_hubDataVars
-------------------------------------------------------------------------------
\* No action of ChangeSets or of Projects tells one request from another, or one
\* model from another.
Symmetry == Permutations(Requests) \cup Permutations(ProjectRequests)
            \cup Permutations(ModelConfigs)

\* No model at all, one and the rule, or two and no default.
OfferedConfigs ==
  {[models |-> {}, default |-> NoModel, rule |-> FALSE],
   [models |-> ModelConfigs, default |-> NoModel, rule |-> FALSE]}
  \cup {[models |-> {m}, default |-> m, rule |-> TRUE] : m \in ModelConfigs}
===============================================================================
