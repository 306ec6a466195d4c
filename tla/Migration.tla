----------------------------- MODULE Migration -----------------------------
(***************************************************************************)
(* The migrate command (src/cmd/api/migrate.go,                            *)
(* src/internal/adapters/postgres/migrate_plan.go, migrate_exec.go and     *)
(* store.go) and the start of the service (src/cmd/api/main.go) on one     *)
(* Postgres cluster.                                                       *)
(*                                                                         *)
(* The application role is global to the cluster while each database has   *)
(* its own schema and its own migration history, so runs against two       *)
(* databases race for the role, and runs against one database race for its *)
(* history.  A run reads its facts in separate statements, plans, and only *)
(* then claims the role, applies the files and sets the password; it may   *)
(* be killed between any two statements.                                   *)
(***************************************************************************)
EXTENDS Integers, Sequences, FiniteSetsExt

CONSTANTS
  Database, User,
  Run,          \* runs of the migrate command
  Service,      \* processes started with the serve command
  Target,       \* [Run \cup Service -> Database], the database of the DSN
  UsersGiven,   \* the privileged users the runs' DSNs may name
  Password,     \* [Run \cup Service -> password]: to set, or to log in with
  RightsGiven,  \* the rights the users may have been given
  LastFile,     \* the number of embedded migration files
  Demo,         \* databases that may hold a schema from before owner markers
  MaxFailures,  \* statements that fail, and processes that are killed
  Careless,     \* may DROP ROLE hit a database that is being, or will be, migrated?
  None

Right == {"CONNECT", "CREATE", "CREATEROLE"}
Process == Run \cup Service

ASSUME MigrationAssumption ==
  /\ Run \cap Service = {}
  /\ Target \in [Process -> Database]
  /\ UsersGiven \subseteq [Run -> User]
  /\ DOMAIN Password = Process /\ None \notin Database \cup User \cup Run
  /\ RightsGiven \subseteq [User -> SUBSET Right]
  /\ LastFile \in Nat \ {0}
  /\ MaxFailures \in Nat
  /\ Demo \subseteq Database
  /\ Careless \in BOOLEAN

VARIABLES
  role,      \* ledgerops_app, with its owner marker and its password
  db,        \* each database: its schema_migrations, its files, its lock
  user,      \* the privileged user of each run's DSN
  rights,    \* what each user has been given
  pc,        \* the next statement of each run
  facts,     \* what each run's preflight has read
  answer,    \* what each run has told its operator
  wrote,     \* history: the runs that have committed a change
  failures,  \* failures so far
  givenUp,   \* databases the operator has given up
  serving    \* the services that have started

vars == <<role, db, user, rights, pc, facts, answer, wrote, failures, givenUp, serving>>

NoRole == [exists |-> FALSE, marker |-> None, login |-> FALSE, password |-> None, creator |-> None]
NewRole(marker, u) == [NoRole EXCEPT !.exists = TRUE, !.marker = marker, !.creator = u]
EmptyDatabase == [table |-> FALSE, version |-> 0, dirty |-> FALSE, applied |-> <<>>, owner |-> None, lock |-> None]
NoFacts == [roleExists |-> FALSE, admin |-> FALSE, hasSchema |-> FALSE, owns |-> FALSE, marker |-> None]

Refusal == {"dirty", "cluster", "CONNECT", "CREATE", "CREATEROLE", "ADMIN", "OWNER"}
Answer == Refusal \cup {"none", "ok", "failed", "denied", "deniedAfterSchema"}
Statement == {"role", "schema", "owner", "version", "claim", "reread", "open",
              "up", "mark", "file", "clean", "unlock", "password", "report"}

\* Mutant: the role may log in before the files have run.
StepsPasswordEarly == <<"claim", "password", "open">>

\* Plan.Steps: claim the role, apply the schema, set the password last.
Steps == <<"claim", "open", "password">>

StepIndex(p) == CHOOSE i \in 1 .. Len(Steps) : Steps[i] = p
After(p) == IF StepIndex(p) = Len(Steps) THEN "report" ELSE Steps[StepIndex(p) + 1]

\* Mutant: the flag is never set.
SchemaAppliedNever(p) == FALSE

\* The schemaApplied flag of executePlan.
SchemaApplied(p) == StepIndex("open") < StepIndex(p)

InProgress(r) == pc[r] \in Statement
Mine(r) == db[Target[r]]
Owns(r) == Mine(r).owner \in {None, user[r]}
MayAlterRole(u) == role.exists /\ role.creator = u /\ "CREATEROLE" \in rights[u]
AllFiles == [i \in 1 .. LastFile |-> i]

-----------------------------------------------------------------------------
\* A fresh cluster, or one whose demo stack migrated a database halfway when
\* the role did not carry a marker yet.
Init ==
  /\ user \in UsersGiven
  /\ rights \in RightsGiven
  /\ \E demo \in Demo \cup {None}, u \in User, v \in 1 .. LastFile :
       IF demo = None
       THEN role = NoRole /\ db = [d \in Database |-> EmptyDatabase]
       ELSE /\ role = [NewRole(None, u) EXCEPT !.login = TRUE]
            /\ db = [[d \in Database |-> EmptyDatabase] EXCEPT
                       ![demo] = [EmptyDatabase EXCEPT !.table = TRUE, !.version = v,
                                     !.applied = SubSeq(AllFiles, 1, v), !.owner = u]]
  /\ pc = [r \in Run |-> "idle"]
  /\ facts = [r \in Run |-> NoFacts]
  /\ answer = [r \in Run |-> "none"]
  /\ wrote = {}
  /\ failures = 0
  /\ givenUp = {}
  /\ serving = {}

Goto(r, p) == pc' = [pc EXCEPT ![r] = p]

\* The run ends; its connections close, and with them its advisory lock.
Ends(r, a) ==
  /\ Goto(r, "ended")
  /\ answer' = [answer EXCEPT ![r] = a]
  /\ facts' = [facts EXCEPT ![r] = NoFacts]

Released(r) == [d \in Database |-> IF db[d].lock = r THEN [db[d] EXCEPT !.lock = None] ELSE db[d]]

Learns(r, f) == facts' = [facts EXCEPT ![r] = f]
Commits(r) == wrote' = wrote \cup {r}
others == <<user, rights, failures, givenUp, serving>>

Start(r) ==
  /\ pc[r] = "idle"
  /\ Careless \/ Target[r] \notin givenUp
  /\ Goto(r, "role")
  /\ UNCHANGED <<role, db, facts, answer, wrote, others>>

-----------------------------------------------------------------------------
\* ReadFacts and the plan.

\* queryRoleExists, queryAdminOption: who creates a role administers it, and
\* nobody else is taken to (no superusers, no option granted on).
ReadRole(r) ==
  /\ pc[r] = "role"
  /\ Learns(r, [facts[r] EXCEPT !.roleExists = role.exists, !.admin = role.creator = user[r]])
  /\ Goto(r, "schema")
  /\ UNCHANGED <<role, db, answer, wrote, others>>

\* queryHasLedgerSchema, queryOwnsTables.
ReadSchema(r) ==
  /\ pc[r] = "schema"
  /\ Learns(r, [facts[r] EXCEPT !.hasSchema = Mine(r).table, !.owns = Owns(r)])
  /\ Goto(r, "owner")
  /\ UNCHANGED <<role, db, answer, wrote, others>>

\* readRoleOwner: no row when the role has gone since it was seen.
ReadOwner(r) ==
  /\ pc[r] = "owner"
  /\ IF facts[r].roleExists /\ ~role.exists
     THEN Ends(r, "failed")
     ELSE /\ Learns(r, [facts[r] EXCEPT !.marker = role.marker])
          /\ Goto(r, "version")
          /\ UNCHANGED answer
  /\ UNCHANGED <<role, db, wrote, others>>

\* Mutant: whoever finds a role takes it.
ClusterRulePassed(d, roleExists, marker, hasSchema) == TRUE

\* The role belongs to one database: the target holds the schema already, or
\* the marker names it.
ClusterRule(d, roleExists, marker, hasSchema) == ~roleExists \/ hasSchema \/ marker = d

\* readCurrentVersion: a history the user may not read counts as all pending
\* and not dirty.
ReadVersion(r, hasSchema) ==
  IF hasSchema /\ Owns(r) THEN [version |-> Mine(r).version, dirty |-> Mine(r).dirty]
  ELSE [version |-> 0, dirty |-> FALSE]

\* preflightChecks, in order, each with whether it refuses.
PreflightChecks(r, f) ==
  LET current == ReadVersion(r, f.hasSchema)
  IN  << <<"dirty", current.dirty>>,
         <<"cluster", ~ClusterRule(Target[r], f.roleExists, f.marker, f.hasSchema)>>,
         <<"CONNECT", "CONNECT" \notin rights[user[r]]>>,
         <<"CREATE", "CREATE" \notin rights[user[r]]>>,
         <<"CREATEROLE", ~f.roleExists /\ "CREATEROLE" \notin rights[user[r]]>>,
         <<"ADMIN", f.roleExists /\ ~f.admin>>,
         <<"OWNER", current.version < LastFile /\ f.hasSchema /\ ~f.owns>> >>

\* preflight; its probes repeat two of the reads by DDL that is rolled back.
PlanMigration(r) ==
  /\ pc[r] = "version"
  /\ LET checks == PreflightChecks(r, facts[r])
         refusing == {i \in DOMAIN checks : checks[i][2]}
     IN  IF refusing # {} THEN Ends(r, checks[Min(refusing)][1])
         ELSE /\ Goto(r, Steps[1])
              /\ Learns(r, NoFacts)
              /\ UNCHANGED answer
  /\ UNCHANGED <<role, db, wrote, others>>

-----------------------------------------------------------------------------
\* executePlan.

\* annotatePermissionDenied, of a step that is not applySchema: the errors of
\* that one have lost their code.
DeniedAt(p) == IF SchemaApplied(p) THEN "deniedAfterSchema" ELSE "denied"

\* createMarkedAppRole: Postgres asks for CREATEROLE before it looks for the
\* name; the role and its marker are committed together.
ClaimRole(r) ==
  /\ pc[r] = "claim"
  /\ \/ /\ "CREATEROLE" \notin rights[user[r]]
        /\ Ends(r, DeniedAt("claim"))
        /\ UNCHANGED <<role, wrote>>
     \/ /\ "CREATEROLE" \in rights[user[r]] /\ role.exists
        /\ Goto(r, "reread")
        /\ UNCHANGED <<role, facts, answer, wrote>>
     \/ /\ "CREATEROLE" \in rights[user[r]] /\ ~role.exists
        /\ role' = NewRole(Target[r], user[r])
        /\ Commits(r)
        /\ Goto(r, After("claim"))
        /\ UNCHANGED <<facts, answer>>
  /\ UNCHANGED <<db, others>>

\* The rest of claimAppRole: somebody else's role is left to its owner.
RereadOwner(r) ==
  /\ pc[r] = "reread"
  /\ \/ ~role.exists /\ Ends(r, "failed")
     \/ /\ role.exists /\ ClusterRule(Target[r], TRUE, role.marker, Mine(r).table)
        /\ Goto(r, After("claim"))
        /\ UNCHANGED <<facts, answer>>
     \/ /\ role.exists /\ ~ClusterRule(Target[r], TRUE, role.marker, Mine(r).table)
        /\ Ends(r, "cluster")
  /\ UNCHANGED <<role, db, wrote, others>>

\* newMigrator (golang-migrate): the history table is made under the lock.
OpenMigrator(r) ==
  /\ pc[r] = "open" /\ Mine(r).lock = None
  /\ IF Mine(r).table THEN UNCHANGED <<db, wrote>>
     ELSE /\ db' = [db EXCEPT ![Target[r]].table = TRUE, ![Target[r]].owner = user[r]]
          /\ Commits(r)
  /\ Goto(r, "up")
  /\ UNCHANGED <<role, facts, answer, others>>

\* Mutant: nobody waits for the advisory lock.
UnlockedWithoutWaiting(r) == TRUE

Unlocked(r) == Mine(r).lock = None

\* m.Up (golang-migrate): under the database's lock, refuse a dirty history,
\* answer ErrNoChange at head, or begin with the next file.
BeginUp(r) ==
  /\ pc[r] = "up" /\ Unlocked(r)
  /\ \/ /\ ~Owns(r) \/ Mine(r).dirty
        /\ Ends(r, "failed")
        /\ UNCHANGED db
     \/ /\ Owns(r) /\ ~Mine(r).dirty /\ Mine(r).version = LastFile
        /\ Goto(r, After("open"))
        /\ UNCHANGED <<db, facts, answer>>
     \/ /\ Owns(r) /\ ~Mine(r).dirty /\ Mine(r).version < LastFile
        /\ db' = [db EXCEPT ![Target[r]].lock = r]
        /\ Goto(r, "mark")
        /\ UNCHANGED <<facts, answer>>
  /\ UNCHANGED <<role, wrote, others>>

\* SetVersion(v, dirty), the file's one implicit transaction, SetVersion(v, clean).
MarkFile(r) ==
  /\ pc[r] = "mark"
  /\ db' = [db EXCEPT ![Target[r]].version = @ + 1, ![Target[r]].dirty = TRUE]
  /\ Commits(r)
  /\ Goto(r, "file")
  /\ UNCHANGED <<role, facts, answer, others>>

\* File 0001 creates the role too, without a marker, where it is missing.
RunFile(r) ==
  /\ pc[r] = "file"
  /\ IF Mine(r).version = 1 /\ ~role.exists
     THEN role' = NewRole(None, user[r]) ELSE UNCHANGED role
  /\ db' = [db EXCEPT ![Target[r]].applied = Append(@, Mine(r).version)]
  /\ Goto(r, "clean")
  /\ UNCHANGED <<facts, answer, wrote, others>>

\* Mutant: one file more than there are.
CleanFileOffByOne(r) ==
  /\ pc[r] = "clean"
  /\ db' = [db EXCEPT ![Target[r]].dirty = FALSE]
  /\ Goto(r, IF Mine(r).version <= LastFile THEN "mark" ELSE "unlock")
  /\ UNCHANGED <<role, facts, answer, wrote, others>>

CleanFile(r) ==
  /\ pc[r] = "clean"
  /\ db' = [db EXCEPT ![Target[r]].dirty = FALSE]
  /\ Goto(r, IF Mine(r).version < LastFile THEN "mark" ELSE "unlock")
  /\ UNCHANGED <<role, facts, answer, wrote, others>>

\* Mutant: the migrator's session outlives the step, and its lock with it.
CloseMigratorLeaks(r) ==
  /\ pc[r] = "unlock"
  /\ Goto(r, After("open"))
  /\ UNCHANGED <<role, db, facts, answer, wrote, others>>

CloseMigrator(r) ==
  /\ pc[r] = "unlock"
  /\ db' = Released(r)
  /\ Goto(r, After("open"))
  /\ UNCHANGED <<role, facts, answer, wrote, others>>

\* ALTER ROLE ledgerops_app LOGIN PASSWORD, which takes CREATEROLE and the
\* admin option.
SetAppRolePassword(r) ==
  /\ pc[r] = "password"
  /\ IF MayAlterRole(user[r])
     THEN /\ role' = [role EXCEPT !.login = TRUE, !.password = Password[r]]
          /\ Commits(r)
          /\ Goto(r, After("password"))
          /\ UNCHANGED <<facts, answer>>
     ELSE /\ Ends(r, IF role.exists THEN DeniedAt("password") ELSE "failed")
          /\ UNCHANGED <<role, wrote>>
  /\ UNCHANGED <<db, others>>

\* SchemaVersion opens a migrator of its own and drops the dirty flag.
ReportVersion(r) ==
  /\ pc[r] = "report" /\ Mine(r).lock = None
  /\ Ends(r, IF Owns(r) /\ Mine(r).version > 0 THEN "ok" ELSE "failed")
  /\ UNCHANGED <<role, db, wrote, others>>

RunStep(r) ==
  \/ ReadRole(r) \/ ReadSchema(r) \/ ReadOwner(r) \/ PlanMigration(r)
  \/ ClaimRole(r) \/ RereadOwner(r)
  \/ OpenMigrator(r) \/ BeginUp(r) \/ MarkFile(r) \/ RunFile(r) \/ CleanFile(r) \/ CloseMigrator(r)
  \/ SetAppRolePassword(r) \/ ReportVersion(r)

-----------------------------------------------------------------------------
\* The process is killed, or a statement fails: a lost connection, a wait for
\* the lock that times out, a file with an error.  hasLedgerSchema takes its
\* own failure for "no schema", and the run is refused.
Fail(r) ==
  /\ InProgress(r)
  /\ failures < MaxFailures
  /\ failures' = failures + 1
  /\ \/ Ends(r, "failed")
     \/ /\ pc[r] = "reread"
        /\ ~ClusterRule(Target[r], role.exists, role.marker, FALSE)
        /\ Ends(r, "cluster")
  /\ db' = Released(r)
  /\ UNCHANGED <<role, user, rights, wrote, givenUp, serving>>

\* The operator repairs schema_migrations by hand, to what the database holds.
Repair(d) ==
  /\ db[d].dirty /\ db[d].lock = None
  /\ db' = [db EXCEPT ![d].version = Len(db[d].applied), ![d].dirty = FALSE]
  /\ UNCHANGED <<role, pc, facts, answer, wrote, others>>

\* The remedy of ClusterRuleRefusal: DROP ROLE, if the owner is unwanted.
\* Postgres keeps a role that any database still grants something to.
DropRole ==
  /\ role.exists /\ role.marker # None
  /\ \A d \in Database : db[d].applied = <<>>
  /\ Careless \/ \A r \in Run : Target[r] = role.marker => ~InProgress(r)
  /\ role' = NoRole
  /\ givenUp' = givenUp \cup {role.marker}
  /\ UNCHANGED <<db, user, rights, pc, facts, answer, wrote, failures, serving>>

\* probeStartup and Open: the login decides.  The UPDATE it tries is refused
\* by the grants, or because there is no table entries.
Serve(s) ==
  /\ s \notin serving
  /\ role.login /\ role.password = Password[s]
  /\ serving' = serving \cup {s}
  /\ UNCHANGED <<role, db, user, rights, pc, facts, answer, wrote, failures, givenUp>>

Next ==
  \/ \E r \in Run : Start(r) \/ RunStep(r) \/ Fail(r)
  \/ \E d \in Database : Repair(d)
  \/ DropRole
  \/ \E s \in Service : Serve(s)

\* Every run is started, and goes on until it ends.
Spec == Init /\ [][Next]_vars /\ \A r \in Run : WF_vars(Start(r)) /\ WF_vars(RunStep(r))

-----------------------------------------------------------------------------
MigrationTypeOK ==
  /\ role \in [exists : BOOLEAN, marker : Database \cup {None}, login : BOOLEAN,
               password : {Password[x] : x \in Process} \cup {None}, creator : User \cup {None}]
  /\ db \in [Database -> [table : BOOLEAN, version : 0 .. LastFile, dirty : BOOLEAN,
                          applied : {SubSeq(AllFiles, 1, v) : v \in 0 .. LastFile},
                          owner : User \cup {None}, lock : Run \cup {None}]]
  /\ user \in UsersGiven
  /\ rights \in RightsGiven
  /\ pc \in [Run -> Statement \cup {"idle", "ended"}]
  /\ facts \in [Run -> [roleExists : BOOLEAN, admin : BOOLEAN, hasSchema : BOOLEAN,
                        owns : BOOLEAN, marker : Database \cup {None}]]
  /\ answer \in [Run -> Answer]
  /\ wrote \subseteq Run
  /\ failures \in 0 .. MaxFailures
  /\ givenUp \subseteq Database
  /\ serving \subseteq Service

\* ledgerops_app serves one database (DDD-41): whatever runs race, die or are
\* run again, at most one database of the cluster ever receives ledger files,
\* and a role's owner marker names no other database than that one.
OneDatabase ==
  LET holding == {d \in Database : db[d].applied # <<>>}
  IN  /\ Cardinality(holding) <= 1
      /\ role.marker # None => holding \subseteq {role.marker}

\* The history of a database tells what it holds, also after a run was killed
\* (migrate_plan.go, requireNoUnfinishedMigration): each file was applied once
\* and in order, and a dirty mark leaves open only whether its own file was.
HistoryTellsTruth ==
  \A d \in Database :
    LET m == db[d]
    IN  /\ m.applied = SubSeq(AllFiles, 1, Len(m.applied))
        /\ Len(m.applied) = m.version \/ (m.dirty /\ Len(m.applied) = m.version - 1)

\* The password comes last (Migrate, store.go): a service that logs in with
\* the password a run set finds every file of its database applied, whichever
\* runs failed on the way.
ServesCompleteSchema ==
  \A s \in serving : db[Target[s]].applied = AllFiles

\* "no changes applied" is true of the run that says it: of every refusal, by
\* the plan or by the claim that lost a race, and of the annotated denial.
NoChangesTrue == \A r \in Run : answer[r] \in Refusal \cup {"denied"} => r \notin wrote

\* Of the runs that race in an undisturbed cluster one wins (milestone-02 of
\* the release feature): where each database is migrated by one user, who has
\* the rights and owns what is there, some run reports success unless one
\* fails; no two runs refuse or block each other.
SomeRunSucceeds ==
  (\A r \in Run : /\ rights[user[r]] = Right
                  /\ Mine(r).owner \in {None, user[r]}
                  /\ \A x \in Run : Target[x] = Target[r] => user[x] = user[r])
  => <>(failures > 0 \/ \E r \in Run : answer[r] = "ok")
=============================================================================
